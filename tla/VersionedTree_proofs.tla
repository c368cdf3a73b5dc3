------------------------- MODULE VersionedTree_proofs -------------------------
(***************************************************************************)
(* FileTree implements VersionedTree, for any requests, paths, contents    *)
(* and quota.  Only a commit changes what clients see; that it is one      *)
(* write or one delete follows from IInv and from the shape of the records *)
(* that a transaction holds: one, or deletes only.                         *)
(***************************************************************************)
EXTENDS FileTree_proofs

Deletion(c) == c.kind = "delete" /\ Exists(tree[c.path]) /\ c.base = 0

\* The records of a transaction are one record, or deletions of what exists; and
\* a Delete that goes on has staged nothing else.
Shape ==
    \A r \in Req :
        /\ \A c, e \in dlog[r] : c = e \/ (Deletion(c) /\ Deletion(e))
        /\ \A c \in dlog[r] : c.kind = "delete" => Deletion(c)
        /\ pc[r] \in {"delete", "tombstone"} => \A c \in dlog[r] : Deletion(c)

Commits(r) == CommitLast(r) \/ CommitParent(r)

\* Only a commit changes rows or records.
LEMMA OnlyCommitsPublish ==
    ASSUME [Next]_vars, ~ \E r \in Req : Commits(r)
    PROVE  UNCHANGED store
<1>1. CASE UNCHANGED vars
  BY <1>1 DEF vars, store
<1>2. ASSUME NEW r \in Req, Call(r) PROVE UNCHANGED store
  BY <1>2 DEF Call, StartWrite, StartEnsure, StartDelete, Start
<1>3. ASSUME NEW r \in Req, Ensure(r) PROVE UNCHANGED store
  <2>1. ASSUME EnsureKeep(r) PROVE UNCHANGED store
    BY <2>1, Zenon DEF EnsureKeep
  <2> QED
    BY <1>3, <2>1 DEF Ensure, EnsureLock, EnsureRevive, EnsureInsert, EnsureLostRace, Fail
<1>4. ASSUME NEW r \in Req, Write(r) PROVE UNCHANGED store
  BY <1>4 DEF Write, WriteLock, WriteConflict, QuotaPass, QuotaRefuse, WriteUpdate, WriteInsert,
     WriteLostRace, Fail
<1>5. ASSUME NEW r \in Req, Delete(r) PROVE UNCHANGED store
  BY <1>5 DEF Delete, DeleteList, DeleteNotFound, DeleteLock, DeleteStage, Fail
<1>6. ASSUME NEW r \in Req, Cancel(r) \/ DeadlockVictim(r) PROVE UNCHANGED store
  BY <1>6 DEF Cancel, DeadlockVictim, Fail
<1> QED
  BY <1>1, <1>2, <1>3, <1>4, <1>5, <1>6 DEF Next, Progress, Commits

\* Rows never vanish.
LEMMA RowsNeverVanish ==
    ASSUME [Next]_vars
    PROVE  \A p \in Paths : Exists(tree[p]) => Exists(tree'[p])
<1>1. CASE \E r \in Req : Commits(r)
  BY <1>1 DEF Commits, CommitLast, CommitParent, Publish
<1>2. CASE UNCHANGED store
  BY <1>2 DEF store
<1> QED
  BY <1>1, <1>2, OnlyCommitsPublish

\* A step of r keeps the shape if it gives up what r has staged, leaves it, or
\* adds the only record, or one more deletion.
LEMMA StagingKeepsShape ==
    ASSUME IInv, Shape, [Next]_vars, NEW r \in Req,
           \A q \in Req \ {r} : dlog'[q] = dlog[q] /\ pc'[q] = pc[q],
           \/ dlog'[r] = {}
           \/ dlog'[r] = dlog[r] /\ (pc'[r] = "tombstone" => pc[r] = "delete")
                                 /\ pc'[r] # "delete"
           \/ \E c : /\ dlog'[r] = dlog[r] \cup {c}
                     /\ \/ dlog[r] = {} /\ pc'[r] = "commit" /\ c.kind # "delete"
                        \/ pc[r] = "tombstone" /\ Deletion(c) /\ c.path \in Paths
    PROVE  Shape'
<1>0. \A q \in Req : \A c \in dlog[q] : c.path \in Paths
  BY DEF IInv, TypeOK, Change
<1>1. \A c : c.path \in Paths /\ Deletion(c) => Deletion(c)'
  BY RowsNeverVanish DEF Deletion
<1>2. ASSUME NEW q \in Req, NEW c \in dlog[q], Deletion(c) PROVE Deletion(c)'
  BY <1>0, <1>1, <1>2
<1> DEFINE ShapeOf(q) ==
             /\ \A c, e \in dlog'[q] : c = e \/ (Deletion(c)' /\ Deletion(e)')
             /\ \A c \in dlog'[q] : c.kind = "delete" => Deletion(c)'
             /\ pc'[q] \in {"delete", "tombstone"} => \A c \in dlog'[q] : Deletion(c)'
<1>3. ASSUME NEW q \in Req \ {r} PROVE ShapeOf(q)
  BY <1>2 DEF Shape
<1>4. ShapeOf(r)
  <2>1. CASE dlog'[r] = {}
    BY <2>1
  <2>2. CASE dlog'[r] = dlog[r] /\ (pc'[r] = "tombstone" => pc[r] = "delete") /\ pc'[r] # "delete"
    BY <2>2, <1>2 DEF Shape
  <2>3. ASSUME NEW c, dlog'[r] = dlog[r] \cup {c}, dlog[r] = {}, pc'[r] = "commit",
               c.kind # "delete"
        PROVE  ShapeOf(r)
    BY <2>3
  <2>4. ASSUME NEW c, dlog'[r] = dlog[r] \cup {c}, pc[r] = "tombstone", Deletion(c), c.path \in Paths
        PROVE  ShapeOf(r)
    <3>1. \A e \in dlog'[r] : Deletion(e)'
      BY <2>4, <1>1, <1>2 DEF Shape
    <3> QED
      BY <3>1
  <2> QED
    BY <2>1, <2>2, <2>3, <2>4
<1>5. \A q \in Req : ShapeOf(q)
  BY <1>3, <1>4
<1> QED
  BY <1>5 DEF Shape

\* Every step keeps the shape.
LEMMA StepKeepsShape == IInv /\ Shape /\ [Next]_vars => Shape'
<1> SUFFICES ASSUME IInv, Shape, [Next]_vars PROVE Shape'
  OBVIOUS
<1>0. TypeOK /\ Locks
  BY DEF IInv
<1>1. ASSUME NEW r \in Req, Call(r) PROVE Shape'
  <2>1. dlog' = dlog /\ pc[r] = "idle" /\ \E where : pc' = [pc EXCEPT ![r] = where]
    BY <1>1 DEF Call, StartWrite, StartEnsure, StartDelete, Start, txvars, Goto
  <2>2. dlog'[r] = {} /\ \A q \in Req \ {r} : pc'[q] = pc[q]
    BY <1>0, <2>1 DEF TypeOK, Locks, BeforeStage
  <2> QED
    BY <2>1, <2>2, StagingKeepsShape
\* A call fails or a transaction commits.
<1>2. ASSUME NEW r \in Req, Release(r), NEW where, Goto(r, where) PROVE Shape'
  BY <1>0, <1>2, StagingKeepsShape DEF TypeOK, Release, Goto
<1>3. ASSUME NEW r \in Req, Fail(r) \/ Commits(r) PROVE Shape'
  BY <1>2, <1>3 DEF Fail, Commits, CommitLast, CommitParent, Return
<1>4. ASSUME NEW r \in Req, NEW where, Goto(r, where), dlog' = dlog,
             pc[r] \in {"ready", "ensure", "quota", "list"} \/ (pc[r] = "delete" /\ where = "tombstone")
      PROVE  Shape'
  BY <1>0, <1>4, StagingKeepsShape DEF TypeOK, Locks, BeforeStage, Goto
<1>5. ASSUME NEW r \in Req, NEW row, NEW kind, NEW base, Stage(r, row, kind, base), Goto(r, "commit"),
             kind # "delete", pc[r] \in {"ensure", "write"}
      PROVE  Shape'
  <2> DEFINE new == [cursor |-> cursor + 1, path |-> at[r], ver |-> row.ver, kind |-> kind, base |-> base]
  <2>1. dlog' = [dlog EXCEPT ![r] = @ \cup {new}] /\ new.kind # "delete"
    BY <1>5 DEF Stage
  <2>2. dlog[r] = {}
    BY <1>0, <1>5 DEF Locks, BeforeStage
  <2> HIDE DEF new
  <2> QED
    BY <1>0, <1>5, <2>1, <2>2, StagingKeepsShape DEF TypeOK, Goto
<1>6. ASSUME NEW r \in Req, DeleteStage(r) PROVE Shape'
  <2> DEFINE new == [cursor |-> cursor + 1, path |-> at[r], ver |-> Tombstone(r).ver,
                     kind |-> "delete", base |-> 0]
  <2>1. /\ dlog' = [dlog EXCEPT ![r] = @ \cup {new}] /\ pc[r] = "tombstone"
        /\ \E where : pc' = [pc EXCEPT ![r] = where]
    BY <1>6 DEF DeleteStage, Stage, Goto
  <2>2. Deletion(new) /\ new.path \in Paths
    BY <1>6 DEF Deletion, DeleteStage, IInv, Current
  <2> HIDE DEF new
  <2> QED
    BY <1>0, <2>1, <2>2, StagingKeepsShape DEF TypeOK
<1>7. ASSUME NEW r \in Req, Ensure(r) PROVE Shape'
  <2>1. ASSUME EnsureKeep(r) PROVE Shape'
    <3>1. Goto(r, "commit") /\ dlog' = dlog /\ pc[r] = "ensure"
      BY <2>1, Zenon DEF EnsureKeep
    <3> QED
      BY <3>1, <1>4
  <2>2. ASSUME EnsureLostRace(r) PROVE Shape'
    BY <2>2, <1>3 DEF EnsureLostRace
  <2>3. ASSUME NEW d \in Dirs, EnsureLock(r, d) PROVE Shape'
    BY <2>3, <1>4 DEF EnsureLock
  <2>4. ASSUME EnsureRevive(r) \/ EnsureInsert(r) PROVE Shape'
    BY <2>4, <1>5 DEF EnsureRevive, EnsureInsert
  <2> QED
    BY <1>7, <2>1, <2>2, <2>3, <2>4 DEF Ensure
<1>8. ASSUME NEW r \in Req, Write(r) PROVE Shape'
  <2>1. ASSUME NEW f \in Files, WriteLock(r, f) PROVE Shape'
    BY <2>1, <1>4 DEF WriteLock
  <2>2. ASSUME QuotaPass(r) PROVE Shape'
    BY <2>2, <1>4 DEF QuotaPass
  <2>3. ASSUME WriteUpdate(r) \/ WriteInsert(r) PROVE Shape'
    BY <2>3, <1>5 DEF WriteUpdate, WriteInsert
  <2>4. ASSUME Fail(r) PROVE Shape'
    BY <2>4, <1>3
  <2> QED
    BY <1>8, <2>1, <2>2, <2>3, <2>4 DEF Write, WriteConflict, QuotaRefuse, WriteLostRace
<1>9. ASSUME NEW r \in Req, Delete(r) PROVE Shape'
  <2>1. ASSUME DeleteList(r) PROVE Shape'
    <3>1. dlog' = dlog /\ pc[r] = "list" /\ Goto(r, "delete")
      BY <2>1 DEF DeleteList, txvars
    <3>2. dlog'[r] = {} /\ \A q \in Req \ {r} : pc'[q] = pc[q]
      BY <1>0, <3>1 DEF TypeOK, Locks, BeforeStage, Goto
    <3> QED
      BY <3>1, <3>2, StagingKeepsShape
  <2>2. ASSUME NEW p \in Paths, DeleteLock(r, p) PROVE Shape'
    BY <2>2, <1>4 DEF DeleteLock
  <2>3. ASSUME Fail(r) PROVE Shape'
    BY <2>3, <1>3
  <2> QED
    BY <1>9, <1>6, <2>1, <2>2, <2>3 DEF Delete, DeleteNotFound
<1>10. CASE UNCHANGED vars
  BY <1>10 DEF vars, txvars, store, Shape, Deletion
<1> QED
  BY <1>1, <1>3, <1>7, <1>8, <1>9, <1>10 DEF Next, Progress, Cancel, DeadlockVictim, Commits

-----------------------------------------------------------------------------
(* The refinement. *)

Rows(t)    == [p \in Paths |-> [ver |-> t[p].ver, dead |-> t[p].dead]]
Entry(c)   == [path |-> c.path, ver |-> c.ver, dead |-> c.kind = "delete", base |-> c.base]
History(l) == {Entry(c) : c \in l}

\* What a commit does to the version of each path: the next one if there is a
\* record of it, and it is deleted if the record says so; none otherwise.
LEMMA CommitMovesRecorded ==
    ASSUME IInv, NEW r \in Req, Commits(r), NEW p \in Paths
    PROVE  /\ \A c \in dlog[r] : c.path = p =>
                 /\ c.ver = tree[p].ver + 1 /\ tree'[p].ver = c.ver
                 /\ (c.kind = "delete" => tree'[p].dead = TRUE)
                 /\ (c.kind # "delete" => tree'[p].dead = FALSE)
           /\ (\A c \in dlog[r] : c.path # p) => /\ tree'[p].ver = tree[p].ver
                                                 /\ tree'[p].dead = tree[p].dead
<1>0. tree'[p] = IF Exists(draft[r][p]) THEN draft[r][p] ELSE tree[p]
  BY DEF Commits, CommitLast, CommitParent, Publish
<1>1. ASSUME NEW c \in dlog[r], c.path = p
      PROVE  /\ c.ver = tree[p].ver + 1 /\ tree'[p].ver = c.ver
             /\ (c.kind = "delete" => tree'[p].dead = TRUE)
             /\ (c.kind # "delete" => tree'[p].dead = FALSE)
  <2>1. Exists(draft[r][p]) /\ draft[r][p].ver = c.ver /\ \A e \in dlog[r] : e.path = p => e = c
    BY <1>1 DEF IInv, Recorded
  <2>2. /\ draft[r][p].ver = tree[p].ver + 1
        /\ \E e \in dlog[r] : e.path = p /\ (e.kind = "delete" <=> draft[r][p].dead)
    BY <1>1, <2>1 DEF IInv, Drafts
  <2>3. draft[r][p].dead \in BOOLEAN
    BY DEF IInv, TypeOK, Row
  <2> QED
    BY <1>0, <2>1, <2>2, <2>3
<1>2. ASSUME \A c \in dlog[r] : c.path # p
      PROVE  tree'[p].ver = tree[p].ver /\ tree'[p].dead = tree[p].dead
  BY <1>0, <1>2 DEF IInv, Drafts
<1> QED
  BY <1>1, <1>2

\* A commit with records is a write of one path or a delete of several.
LEMMA CommitIsOneStep ==
    ASSUME IInv, Shape, NEW r \in Req, Commits(r)
    PROVE  Promise!Next \/ (Rows(tree') = Rows(tree) /\ History(log') = History(log))
<1>0. log' = log \cup dlog[r] /\ \A c \in dlog[r] : c \in Change
  BY DEF Commits, CommitLast, CommitParent, Publish, IInv, TypeOK
<1>1. CASE dlog[r] = {}
  <2>1. \A p \in Paths : tree'[p].ver = tree[p].ver /\ tree'[p].dead = tree[p].dead
    BY <1>1, CommitMovesRecorded
  <2>2. Rows(tree') = Rows(tree)
    BY <2>1 DEF Rows
  <2> QED
    BY <1>0, <1>1, <2>2
<1>2. ASSUME NEW c \in dlog[r], c.kind # "delete" PROVE Promise!Write(c.path, c.base)
  <2>1. dlog[r] = {c} /\ c.path \in Paths
    BY <1>0, <1>2 DEF Shape, Deletion, Change
  <2>2. c.ver = tree[c.path].ver + 1
    BY <2>1, CommitMovesRecorded
  <2>3. \A p \in Paths : [ver |-> tree'[p].ver, dead |-> tree'[p].dead]
                           = IF p \in {c.path} THEN [ver |-> tree[p].ver + 1, dead |-> FALSE]
                             ELSE [ver |-> tree[p].ver, dead |-> tree[p].dead]
    <3> SUFFICES ASSUME NEW p \in Paths
                 PROVE  [ver |-> tree'[p].ver, dead |-> tree'[p].dead]
                           = IF p \in {c.path} THEN [ver |-> tree[p].ver + 1, dead |-> FALSE]
                             ELSE [ver |-> tree[p].ver, dead |-> tree[p].dead]
      OBVIOUS
    <3>1. CASE p = c.path
      <4>1. c.ver = tree[p].ver + 1 /\ tree'[p].ver = c.ver /\ tree'[p].dead = FALSE
        BY <1>2, <3>1, CommitMovesRecorded
      <4> QED
        BY <3>1, <4>1
    <3>2. CASE p # c.path
      BY <2>1, <3>2, CommitMovesRecorded
    <3> QED
      BY <3>1, <3>2
  <2>4. History(log') = History(log) \cup {Entry(c)}
    BY <1>0, <2>1 DEF History
  <2>5. Entry(c) = [path |-> c.path, ver |-> tree[c.path].ver + 1, dead |-> FALSE, base |-> c.base]
    BY <1>2, <2>2 DEF Entry
  <2>6. Rows(tree') = [p \in Paths |-> IF p \in {c.path} THEN [ver |-> Rows(tree)[p].ver + 1, dead |-> FALSE]
                                       ELSE Rows(tree)[p]]
    BY <2>3 DEF Rows
  <2>7. History(log') = History(log) \cup
            {[path |-> p, ver |-> Rows(tree)[p].ver + 1, dead |-> FALSE, base |-> c.base] : p \in {c.path}}
    BY <2>1, <2>4, <2>5 DEF Rows
  <2> QED
    BY <2>6, <2>7 DEF Promise!Write, Promise!Move, Promise!Record, Rows, History, Entry
<1>3. ASSUME NEW c \in dlog[r], c.kind # "delete" PROVE Promise!Next
  <2>1. c.path \in Paths /\ c.base \in Nat
    BY <1>0 DEF Change
  <2>2. c.base \in {0, tree[c.path].ver}
    <3>1. c.ver = tree[c.path].ver + 1
      BY <2>1, CommitMovesRecorded
    <3>2. c.base > 0 => c.ver = c.base + 1
      BY DEF IInv, BasesMet
    <3>3. tree[c.path].ver \in Nat
      BY <2>1 DEF IInv, TypeOK, Row
    <3> QED
      BY <2>1, <3>1, <3>2, <3>3
  <2> QED
    BY <1>2, <1>3, <2>1, <2>2 DEF Promise!Next
<1>4. ASSUME dlog[r] # {}, \A c \in dlog[r] : c.kind = "delete" PROVE Promise!Next
  <2>0. PICK S \in SUBSET Paths : S = {c.path : c \in dlog[r]}
    BY <1>0 DEF Change
  <2>1. S # {}
    BY <1>4, <2>0
  <2>2. \A c \in dlog[r] : Exists(tree[c.path]) /\ c.base = 0 /\ c.ver = tree[c.path].ver + 1
    <3> SUFFICES ASSUME NEW c \in dlog[r]
                 PROVE  Exists(tree[c.path]) /\ c.base = 0 /\ c.ver = tree[c.path].ver + 1
      OBVIOUS
    <3>1. Exists(tree[c.path]) /\ c.base = 0
      BY <1>4 DEF Shape, Deletion
    <3>2. c.path \in Paths
      BY <1>0 DEF Change
    <3>3. c.ver = tree[c.path].ver + 1
      BY <3>2, CommitMovesRecorded
    <3> QED
      BY <3>1, <3>3
  <2>3. \A p \in Paths : [ver |-> tree'[p].ver, dead |-> tree'[p].dead]
                           = IF p \in S THEN [ver |-> tree[p].ver + 1, dead |-> TRUE]
                             ELSE [ver |-> tree[p].ver, dead |-> tree[p].dead]
    <3> SUFFICES ASSUME NEW p \in Paths
                 PROVE  [ver |-> tree'[p].ver, dead |-> tree'[p].dead]
                           = IF p \in S THEN [ver |-> tree[p].ver + 1, dead |-> TRUE]
                             ELSE [ver |-> tree[p].ver, dead |-> tree[p].dead]
      OBVIOUS
    <3>1. ASSUME NEW c \in dlog[r], c.path = p
          PROVE  tree'[p].ver = tree[p].ver + 1 /\ tree'[p].dead = TRUE
      <4>1. c.kind = "delete"
        BY <1>4
      <4>2. c.ver = tree[p].ver + 1 /\ tree'[p].ver = c.ver /\ tree'[p].dead = TRUE
        BY <3>1, <4>1, CommitMovesRecorded
      <4> QED
        BY <4>2
    <3>2. CASE p \notin S
      <4>1. \A c \in dlog[r] : c.path # p
        BY <2>0, <3>2
      <4>2. tree'[p].ver = tree[p].ver /\ tree'[p].dead = tree[p].dead
        BY <4>1, CommitMovesRecorded
      <4> QED
        BY <3>2, <4>2
    <3>3. CASE p \in S
      <4>1. PICK c \in dlog[r] : c.path = p
        BY <2>0, <3>3
      <4> QED
        BY <3>1, <3>3, <4>1
    <3> QED
      BY <3>2, <3>3
  <2>4. \A c \in dlog[r] : Entry(c) = [path |-> c.path, ver |-> tree[c.path].ver + 1,
                                       dead |-> TRUE, base |-> 0]
    BY <1>4, <2>2 DEF Entry
  <2>5. Rows(tree') = [p \in Paths |-> IF p \in S THEN [ver |-> Rows(tree)[p].ver + 1, dead |-> TRUE]
                                       ELSE Rows(tree)[p]]
    BY <2>3 DEF Rows
  <2>6. History(log') = History(log) \cup
            {[path |-> p, ver |-> Rows(tree)[p].ver + 1, dead |-> TRUE, base |-> 0] : p \in S}
    <3>1. \A c \in dlog[r] : Entry(c) = [path |-> c.path, ver |-> Rows(tree)[c.path].ver + 1,
                                         dead |-> TRUE, base |-> 0]
      BY <1>0, <2>4 DEF Rows, Change
    <3>2. History(log') = History(log) \cup {Entry(c) : c \in dlog[r]}
      BY <1>0 DEF History
    <3> QED
      BY <2>0, <3>1, <3>2
  <2>7. \A p \in S : Rows(tree)[p].ver > 0
    BY <2>0, <2>2 DEF Rows, Exists
  <2>8. Promise!Remove(S)
    BY <2>1, <2>5, <2>6, <2>7 DEF Promise!Remove, Promise!Move, Promise!Record, Rows, History, Entry
  <2> QED
    BY <2>8 DEF Promise!Next
<1> QED
  BY <1>1, <1>3, <1>4

\* No transaction has staged anything at the start.
LEMMA InitShape == Init => Shape
  BY DEF Init, Shape

\* The committed rows and records of the file tree always move as VersionedTree
\* says, under any interleaving of calls, locks, failures and deadlocks.
THEOREM TreeKeepsPromise == Spec => KeepsPromise
<1>1. Init => Promise!Init
  BY DEF Init, Promise!Init, Absent
<1>2. ASSUME IInv, Shape, [Next]_vars PROVE [Promise!Next]_(Promise!vars)
  <2>1. CASE \E r \in Req : Commits(r)
    BY <1>2, <2>1, CommitIsOneStep DEF Promise!vars, Rows, History, Entry
  <2>2. CASE UNCHANGED store
    BY <2>2 DEF store, Promise!vars
  <2> QED
    BY <1>2, <2>1, <2>2, OnlyCommitsPublish
<1> QED
  BY <1>1, <1>2, InitShape, StepKeepsShape, InvariantHolds, PTL DEF Spec, KeepsPromise, Promise!Spec
=============================================================================
