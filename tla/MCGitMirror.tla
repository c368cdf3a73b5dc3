---------------------------- MODULE MCGitMirror ----------------------------
(* Instances of GitMirror for TLC. *)
EXTENDS GitMirror

CONSTANTS c1, c2, p1, f1

TwoClients == {c1, c2}
OneClient  == {c1}
OnePod     == {p1}
OneForeign == {f1}
=============================================================================
