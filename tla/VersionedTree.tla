---------------------------- MODULE VersionedTree ----------------------------
(***************************************************************************)
(* What the virtual file tree promises to its clients (the web editor, the *)
(* CLI, the SDKs' feed): each path has a version that a write or a delete  *)
(* moves by exactly one, with one record of it; a write names the version  *)
(* it replaces or none; a delete of a directory is one step; nothing in    *)
(* between is seen, and nothing recorded is ever lost or changed.          *)
(* FileTree implements it.                                                 *)
(***************************************************************************)
EXTENDS Naturals

CONSTANT Paths

VARIABLES
    rows,     \* version of each path, and whether it is deleted; 0: never written
    history   \* the records of all versions

vars == <<rows, history>>

Init == rows = [p \in Paths |-> [ver |-> 0, dead |-> TRUE]] /\ history = {}

\* The next version of a path, made by a call that expected version base, or
\* any version if base is 0.
Record(p, dead, base) == [path |-> p, ver |-> rows[p].ver + 1, dead |-> dead, base |-> base]

Move(S, dead, base) ==
    /\ rows' = [p \in Paths |-> IF p \in S THEN [ver |-> rows[p].ver + 1, dead |-> dead]
                                ELSE rows[p]]
    /\ history' = history \cup {Record(p, dead, base) : p \in S}

Write(p, base) == Move({p}, FALSE, base)

\* Whatever is deleted has been there, though it may be deleted again.
Remove(S) == S # {} /\ (\A p \in S : rows[p].ver > 0) /\ Move(S, TRUE, 0)

Next ==
    \/ \E p \in Paths : \E base \in {0, rows[p].ver} : Write(p, base)
    \/ \E S \in SUBSET Paths : Remove(S)

Spec == Init /\ [][Next]_vars
=============================================================================
