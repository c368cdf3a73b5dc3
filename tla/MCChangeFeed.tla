--------------------------- MODULE MCChangeFeed ---------------------------
(* The tree of MCFileTree with one writer, or with two. *)
EXTENDS ChangeFeed, TLC

CONSTANTS d, f, g, r1, r2

MCDirs      == {d}
MCFiles     == {f, g}
OneWriter   == {r1}
TwoWriters  == {r1, r2}
MCParents   == (d :> << >>) @@ (f :> <<d>>) @@ (g :> <<d>>)
MCRank    == (f :> 1) @@ (g :> 2) @@ (d :> 3)
OneContent  == {[size |-> 1, blob |-> FALSE]}
=============================================================================
