---------------------------- MODULE ChangeFeed ----------------------------
(***************************************************************************)
(* A replica of the file tree kept by a client of Snapshot and Changes     *)
(* (filetree_service.go; the SDKs' hub.snapshot and hub.changes), running  *)
(* against the concurrent writers of FileTree.  Snapshot is two queries    *)
(* outside a transaction: the live entries, then the highest cursor.       *)
(* Changes returns the committed records above a cursor, in cursor order,  *)
(* with the cursor of the last one.  The path is "/" and the trust level   *)
(* full: every entry is visible.                                           *)
(***************************************************************************)
EXTENDS FileTree

VARIABLES
    phase,     \* "start", "listed" (between Snapshot's queries), "following"
    origin,    \* where the client started: a Snapshot, or cursor zero
    known,     \* what the replica holds: the version of each path, and whether
               \* the last change it saw was a delete; version 0 for nothing
    since,     \* the cursor the client passes to its next call of Changes
    quiet      \* no part of the code: TRUE while none of the client's reads
               \* ran beside a transaction it could have missed

feed == <<phase, origin, known, since, quiet>>

Nothing == [ver |-> 0, dead |-> FALSE]

FeedInit ==
    /\ Init
    /\ phase = "start"
    /\ origin = "none"
    /\ known = [p \in Paths |-> Nothing]
    /\ since = 0
    /\ quiet = TRUE

\* latestCursor: SELECT COALESCE(MAX(cursor), 0).
LatestCursor == Max({0} \cup {c.cursor : c \in log})

\* No open transaction has drawn a cursor up to n.
NoneOpenUpTo(n) == \A r \in Req : \A c \in dlog[r] : c.cursor > n

SnapshotList ==
    /\ phase = "start"
    /\ phase' = "listed"
    /\ origin' = "snapshot"
    /\ known' = [p \in Paths |-> IF Live(tree[p]) THEN [ver |-> tree[p].ver, dead |-> FALSE]
                                 ELSE Nothing]
    /\ since' = LatestCursor      \* until SnapshotCursor, only for quiet
    /\ quiet' = NoneOpenUpTo(LatestCursor)

SnapshotCursor ==
    /\ phase = "listed"
    /\ phase' = "following"
    /\ since' = LatestCursor
    /\ quiet' = (quiet /\ LatestCursor = since /\ NoneOpenUpTo(LatestCursor))
    /\ UNCHANGED <<origin, known>>

\* The HTTP handler takes a missing cursor for 0: the whole history.
FollowFromZero ==
    /\ phase = "start"
    /\ phase' = "following"
    /\ origin' = "zero"
    /\ UNCHANGED <<known, since, quiet>>

\* Mutant: deleted entries are filtered out, as Snapshot does.
LiveChanges == {c \in log : c.cursor > since /\ c.kind # "delete"}

\* The records Changes(since) returns; the client applies them in cursor order,
\* so the last one of each path decides.
NewChanges == {c \in log : c.cursor > since}

Applied(p) ==
    LET mine == {c \in NewChanges : c.path = p}
        last == CHOOSE c \in mine : \A e \in mine : e.cursor <= c.cursor
    IN  IF mine = {} THEN known[p] ELSE [ver |-> last.ver, dead |-> last.kind = "delete"]

Poll ==
    /\ phase = "following"
    /\ NewChanges # {}
    /\ known' = [p \in Paths |-> Applied(p)]
    /\ since' = Max({c.cursor : c \in NewChanges})
    /\ quiet' = (quiet /\ NoneOpenUpTo(since'))
    /\ UNCHANGED <<phase, origin>>

Client == SnapshotList \/ SnapshotCursor \/ FollowFromZero \/ Poll

FeedNext == (Next /\ UNCHANGED feed) \/ (Client /\ UNCHANGED vars)

FeedSpec == FeedInit /\ [][FeedNext]_<<vars, feed>>

-----------------------------------------------------------------------------
\* The client's variables keep their types.
FeedTypeOK ==
    /\ phase \in {"start", "listed", "following"}
    /\ origin \in {"none", "snapshot", "zero"}
    /\ known \in [Paths -> [ver : Nat, dead : BOOLEAN]]
    /\ since \in Nat
    /\ quiet \in BOOLEAN

\* Polling never takes a path of the replica back to an earlier version, also
\* when the records overlap what a Snapshot already showed.
ReplicaNeverGoesBack == [][\A p \in Paths : known'[p].ver >= known[p].ver]_<<vars, feed>>

CaughtUp == phase = "following" /\ since = LatestCursor

Agrees(p) == IF Live(tree[p]) THEN known[p] = [ver |-> tree[p].ver, dead |-> FALSE]
             ELSE known[p].ver = 0 \/ known[p].dead

\* A client none of whose reads ran beside an open transaction with a lower
\* cursor, and whose Snapshot saw no commit between its two queries, holds the
\* tree once it has nothing left to fetch.
QuietReplicaAgrees == CaughtUp /\ quiet => \A p \in Paths : Agrees(p)

\* Every client that replays the changes from cursor zero and has nothing left
\* to fetch holds the tree.
ReplayConverges == CaughtUp /\ origin = "zero" => \A p \in Paths : Agrees(p)

\* So does every client that started from a Snapshot and its cursor.
SnapshotThenChanges == CaughtUp /\ origin = "snapshot" => \A p \in Paths : Agrees(p)
=============================================================================
