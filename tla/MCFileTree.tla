---------------------------- MODULE MCFileTree ----------------------------
(* A directory with two files in it, and two requests at a time. *)
EXTENDS FileTree, TLC

CONSTANTS d, f, g, r1, r2

MCDirs    == {d}
MCFiles   == {f, g}
MCReq     == {r1, r2}
MCParents == (d :> << >>) @@ (f :> <<d>>) @@ (g :> <<d>>)
MCRank    == (f :> 1) @@ (g :> 2) @@ (d :> 3)
MCContents == {[size |-> 2, blob |-> FALSE], [size |-> 1, blob |-> TRUE]}
=============================================================================
