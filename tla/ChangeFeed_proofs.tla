--------------------------- MODULE ChangeFeed_proofs ---------------------------
(***************************************************************************)
(* Proofs about ChangeFeed: whatever the writers do, a client that follows *)
(* the changes never takes a path back, and holds the tree when nothing    *)
(* was open beside its reads.                                              *)
(***************************************************************************)
EXTENDS ChangeFeed, FileTree_proofs

\* Cursors are drawn from 1 on.
Positive ==
    /\ \A c \in log : c.cursor > 0
    /\ \A r \in Req : \A c \in dlog[r] : c.cursor > 0

\* What the replica holds of a path is a record it has read.
Grounded ==
    \A p \in Paths : known[p].ver > 0 =>
        \E e \in log : /\ e.path = p /\ e.ver = known[p].ver /\ e.cursor <= since
                       /\ e.kind = "delete" <=> known[p].dead

\* A record up to the client's cursor is in the replica, or a later one of its
\* path is; a Snapshot leaves out what is deleted.
Reflected(c) ==
    \/ c.ver <= known[c.path].ver
    \/ /\ known[c.path].ver = 0
       /\ \E e \in log : /\ e.path = c.path /\ e.ver >= c.ver /\ e.cursor <= since
                         /\ e.kind = "delete"

\* While the client's reads are quiet nothing open can fall below its cursor.
Undisturbed ==
    quiet => /\ NoneOpenUpTo(since)
             /\ \A c \in log : c.cursor <= since => Reflected(c)

Fresh == phase = "start" => since = 0 /\ \A p \in Paths : known[p] = Nothing

FeedIInv == FeedTypeOK /\ since <= cursor /\ Positive /\ Grounded /\ Undisturbed /\ Fresh

\* The highest cursor of the log.
LEMMA LatestCursorIsLatest ==
    ASSUME IInv
    PROVE  /\ LatestCursor \in Nat
           /\ LatestCursor <= cursor
           /\ \A c \in log : c.cursor <= LatestCursor
<1> DEFINE S == {0} \cup {c.cursor : c \in log}
<1>1. /\ S \in SUBSET Nat /\ S # {} /\ cursor \in Nat /\ \A k \in S : k <= cursor
  BY DEF IInv, TypeOK, Change, CursorsDrawn
<1>2. LatestCursor = Max(S)
  BY DEF LatestCursor
<1>3. \A c \in log : c.cursor \in S
  OBVIOUS
<1> HIDE DEF S
<1>5. \E m \in S : \A k \in S : m >= k
  <2>1. PICK m \in S : \A k \in S : k <= m
    BY <1>1, GreatestNatural
  <2> QED
    BY <1>1, <2>1
<1>6. Max(S) \in S /\ \A k \in S : Max(S) >= k
  BY <1>5 DEF Max
<1> QED
  BY <1>1, <1>2, <1>3, <1>6

\* A call of Changes returns records above the client's cursor; the cursor it
\* goes on from is the highest of them.
LEMMA PollCursor ==
    ASSUME IInv, FeedTypeOK, NewChanges # {}
    PROVE  /\ Max({c.cursor : c \in NewChanges}) \in Nat
           /\ Max({c.cursor : c \in NewChanges}) > since
           /\ Max({c.cursor : c \in NewChanges}) <= cursor
           /\ \A c \in NewChanges : c.cursor <= Max({e.cursor : e \in NewChanges})
<1> DEFINE S == {c.cursor : c \in NewChanges}
<1>0. \A c \in NewChanges : c.cursor \in Nat /\ c.cursor <= cursor /\ c.cursor > since
  BY DEF IInv, TypeOK, Change, CursorsDrawn, NewChanges
<1>1. /\ S \in SUBSET Nat /\ S # {} /\ cursor \in Nat /\ \A k \in S : k <= cursor /\ k > since
  BY <1>0 DEF IInv, TypeOK
<1>2. \A c \in NewChanges : c.cursor \in S
  OBVIOUS
<1> HIDE DEF S
<1>3. \E m \in S : \A k \in S : m >= k
  <2>1. PICK m \in S : \A k \in S : k <= m
    BY <1>1, GreatestNatural
  <2> QED
    BY <1>1, <2>1
<1>4. Max(S) \in S /\ \A k \in S : Max(S) >= k
  BY <1>3 DEF Max
<1>5. Max(S) \in Nat /\ Max(S) > since /\ Max(S) <= cursor /\ \A c \in NewChanges : c.cursor <= Max(S)
  BY <1>1, <1>2, <1>4, FeedTypeOK DEF FeedTypeOK
<1> QED
  BY <1>5 DEF S

\* The last new record of a path decides: it is the highest version of the new
\* ones, and no lower than any that was read before.
LEMMA AppliedIsNewest ==
    ASSUME IInv, FeedTypeOK, NEW p \in Paths
    PROVE  \/ /\ Applied(p) = known[p]
              /\ \A c \in NewChanges : c.path # p
           \/ \E l \in NewChanges :
                 /\ l.path = p /\ l \in Change
                 /\ Applied(p) = [ver |-> l.ver, dead |-> l.kind = "delete"]
                 /\ \A c \in log : c.path = p /\ (c \in NewChanges \/ c.cursor <= since)
                                     => c.ver <= l.ver
<1> DEFINE mine == {c \in NewChanges : c.path = p}
           last == CHOOSE c \in mine : \A e \in mine : e.cursor <= c.cursor
           S    == {c.cursor : c \in mine}
<1>0. \A c \in log : c \in Change /\ c.cursor \in Nat /\ c.ver \in Nat /\ c.cursor <= cursor
  BY DEF IInv, TypeOK, Change, CursorsDrawn
<1>1. Applied(p) = IF mine = {} THEN known[p] ELSE [ver |-> last.ver, dead |-> last.kind = "delete"]
  BY DEF Applied
<1>2. \A c \in mine : c \in log /\ c \in NewChanges /\ c.path = p /\ c.cursor > since
  BY DEF NewChanges
<1>3. CASE mine = {}
  BY <1>1, <1>3
<1>4. CASE mine # {}
  <2>1. S \in SUBSET Nat /\ S # {} /\ cursor \in Nat /\ \A k \in S : k <= cursor
    BY <1>0, <1>2, <1>4 DEF IInv, TypeOK
  <2>2. PICK m \in S : \A k \in S : k <= m
    <3> HIDE DEF S
    <3> QED
      BY <2>1, GreatestNatural
  <2>3. \E c \in mine : \A e \in mine : e.cursor <= c.cursor
    BY <2>2
  <2>4. last \in mine /\ \A e \in mine : e.cursor <= last.cursor
    BY <2>3
  <2>5. \A c \in NewChanges : c.path = p => c \in mine
    OBVIOUS
  <2> HIDE DEF last, mine, S
  <2>6. ASSUME NEW c \in log, c.path = p, c \in NewChanges \/ c.cursor <= since
        PROVE  c.ver <= last.ver
    <3>1. c.cursor <= last.cursor
      BY <1>0, <1>2, <2>4, <2>5, <2>6 DEF FeedTypeOK
    <3>2. ~(last.ver < c.ver)
      BY <1>0, <1>2, <2>4, <2>6, <3>1 DEF IInv, CursorOrder
    <3> QED
      BY <1>0, <1>2, <2>4, <3>2
  <2> QED
    BY <1>0, <1>1, <1>2, <1>4, <2>4, <2>6
<1> QED
  BY <1>3, <1>4

\* What the client stores of a record.
LEMMA StoredRecord ==
    ASSUME NEW c, c.ver \in Nat, NEW k, k = [ver |-> c.ver, dead |-> c.kind = "delete"]
    PROVE  /\ k \in [ver : Nat, dead : BOOLEAN] /\ k.ver = c.ver
           /\ k.dead <=> c.kind = "delete"
<1>1. CASE c.kind = "delete"
  <2>1. (c.kind = "delete") = TRUE
    BY <1>1, Zenon
  <2>2. k = [ver |-> c.ver, dead |-> TRUE]
    BY <2>1, Zenon
  <2> QED
    BY <1>1, <2>2
<1>2. CASE c.kind # "delete"
  <2>1. (c.kind = "delete") = FALSE
    BY <1>2, Zenon
  <2>2. k = [ver |-> c.ver, dead |-> FALSE]
    BY <2>1, Zenon
  <2> QED
    BY <1>2, <2>2
<1> QED
  BY <1>1, <1>2

\* Initially the log and the replica are empty.
LEMMA InitFeed == FeedInit => FeedIInv
<1> SUFFICES ASSUME FeedInit PROVE FeedIInv
  OBVIOUS
<1>1. FeedTypeOK /\ since <= cursor /\ Positive /\ Fresh
  BY DEF FeedInit, Init, FeedTypeOK, Positive, Fresh, Nothing
<1>2. Grounded /\ Undisturbed
  BY DEF FeedInit, Init, Grounded, Undisturbed, NoneOpenUpTo, Nothing
<1> QED
  BY <1>1, <1>2 DEF FeedIInv

\* What a step of a writer does to records: it draws the next cursor, publishes
\* what it has drawn before, or leaves them or drops its own.
LEMMA WriterRecords ==
    ASSUME IInv, [Next]_vars
    PROVE  /\ log \subseteq log' /\ cursor' \in {cursor, cursor + 1}
           /\ \A c \in log' : c \in log \/ \E r \in Req : c \in dlog[r]
           /\ \A r \in Req : \A c \in dlog'[r] : c \in dlog[r] \/ c.cursor = cursor + 1
<1>0. TypeOK
  BY DEF IInv
<1>1. CASE UNCHANGED vars
  BY <1>1 DEF vars, txvars
<1>2. ASSUME NEW r \in Req, Call(r) PROVE log' = log /\ dlog' = dlog /\ cursor' = cursor
  BY <1>2 DEF Call, StartWrite, StartEnsure, StartDelete, Start, store, txvars
<1>3. ASSUME NEW r \in Req, Fail(r)
      PROVE  log' = log /\ \A q \in Req : \A c \in dlog'[q] : c \in dlog[q]
  BY <1>0, <1>3 DEF Fail, Return, Release, TypeOK, store
<1>4. ASSUME NEW r \in Req, NEW row, NEW kind, NEW base, Stage(r, row, kind, base),
             log' = log
      PROVE  /\ log' = log /\ cursor' = cursor + 1
             /\ \A q \in Req : \A c \in dlog'[q] : c \in dlog[q] \/ c.cursor = cursor + 1
  BY <1>0, <1>4 DEF Stage, TypeOK
<1>5. ASSUME NEW r \in Req, Publish(r), Release(r)
      PROVE  /\ log' = log \cup dlog[r] /\ cursor' = cursor
             /\ \A q \in Req : \A c \in dlog'[q] : c \in dlog[q]
  BY <1>0, <1>5 DEF Publish, Release, TypeOK
<1>6. ASSUME NEW r \in Req,
             \/ EnsureLostRace(r)
             \/ \E f \in Files : WriteConflict(r, f)
             \/ QuotaRefuse(r) \/ WriteLostRace(r) \/ DeleteNotFound(r)
             \/ Cancel(r) \/ DeadlockVictim(r)
      PROVE  Fail(r) /\ cursor' \in {cursor, cursor + 1}
  BY <1>6 DEF EnsureLostRace, WriteConflict, QuotaRefuse, WriteLostRace, DeleteNotFound,
              Cancel, DeadlockVictim
<1>7. ASSUME NEW r \in Req,
             \/ \E d \in Dirs : EnsureLock(r, d)
             \/ \E f \in Files : WriteLock(r, f)
             \/ \E p \in Paths : DeleteLock(r, p)
             \/ QuotaPass(r) \/ DeleteList(r) \/ EnsureKeep(r)
      PROVE  log' = log /\ dlog' = dlog /\ cursor' = cursor
  BY <1>7 DEF EnsureLock, WriteLock, DeleteLock, QuotaPass, DeleteList, EnsureKeep, store, txvars
<1>8. ASSUME NEW r \in Req,
             EnsureRevive(r) \/ EnsureInsert(r) \/ WriteUpdate(r) \/ WriteInsert(r) \/ DeleteStage(r)
      PROVE  log' = log /\ \E row, kind, base : Stage(r, row, kind, base)
  BY <1>8 DEF EnsureRevive, EnsureInsert, WriteUpdate, WriteInsert, DeleteStage, store
<1>9. ASSUME NEW r \in Req, CommitLast(r) \/ CommitParent(r)
      PROVE  Publish(r) /\ Release(r)
  BY <1>9 DEF CommitLast, CommitParent, Return
<1>10. ASSUME NEW r \in Req, Call(r) \/ Progress(r) \/ Cancel(r)
       PROVE  /\ cursor' \in {cursor, cursor + 1}
              /\ log' = log \/ log' = log \cup dlog[r]
              /\ \A q \in Req : \A c \in dlog'[q] : c \in dlog[q] \/ c.cursor = cursor + 1
  BY <1>2, <1>3, <1>4, <1>5, <1>6, <1>7, <1>8, <1>9, <1>10
     DEF Progress, Ensure, Write, Delete
<1> QED
  BY <1>1, <1>10 DEF Next

\* No step of a writer reaches what the client has read.
LEMMA WritersKeepFeed ==
    ASSUME IInv, FeedIInv, [Next]_vars, UNCHANGED feed
    PROVE  FeedIInv'
<1>0. /\ log \subseteq log'
      /\ \A c \in log' : c \in log \/ \E r \in Req : c \in dlog[r]
      /\ \A r \in Req : \A c \in dlog'[r] : c \in dlog[r] \/ c.cursor = cursor + 1
  BY WriterRecords
<1>1. /\ phase' = phase /\ origin' = origin /\ known' = known /\ since' = since /\ quiet' = quiet
  BY DEF feed
<1>2. FeedTypeOK' /\ Fresh'
  BY <1>1 DEF FeedIInv, FeedTypeOK, Fresh
<1>3. cursor \in Nat /\ since \in Nat
  BY DEF IInv, TypeOK, FeedIInv, FeedTypeOK
<1>4. Positive'
  BY <1>0, <1>3 DEF FeedIInv, Positive
<1>5. Grounded'
  BY <1>0, <1>1 DEF FeedIInv, Grounded
<1>6. since <= cursor
  BY DEF FeedIInv
<1>7. Undisturbed'
  <2> SUFFICES ASSUME quiet
               PROVE  /\ NoneOpenUpTo(since)'
                      /\ \A c \in log' : c.cursor <= since => Reflected(c)'
    BY <1>1 DEF Undisturbed
  <2>1. NoneOpenUpTo(since) /\ \A c \in log : c.cursor <= since => Reflected(c)
    BY DEF FeedIInv, Undisturbed
  <2>2. NoneOpenUpTo(since)'
    BY <1>0, <1>1, <1>3, <1>6, <2>1 DEF NoneOpenUpTo
  <2>3. ASSUME NEW c \in log', c.cursor <= since PROVE Reflected(c)'
    <3>1. c \in log
      <4>1. ASSUME NEW r \in Req, c \in dlog[r] PROVE FALSE
        <5>1. c.cursor \in Nat
          BY <4>1 DEF IInv, TypeOK, Change
        <5> QED
          BY <1>3, <2>1, <2>3, <4>1, <5>1 DEF NoneOpenUpTo
      <4> QED
        BY <1>0, <4>1
    <3> QED
      BY <1>0, <1>1, <2>1, <2>3, <3>1 DEF Reflected
  <2> QED
    BY <2>2, <2>3
<1>8. since' <= cursor'
  BY <1>1, <1>3, <1>6, WriterRecords
<1> QED
  BY <1>2, <1>4, <1>5, <1>7, <1>8 DEF FeedIInv

\* The highest version of a path is in the log.
LEMMA TopRecord ==
    ASSUME IInv, NEW p \in Paths
    PROVE  /\ tree[p].ver \in Nat
           /\ \A c \in log : c.path = p => c.ver \in Nat /\ c.ver > 0 /\ c.ver <= tree[p].ver
           /\ Exists(tree[p]) => \E e \in log : /\ e.path = p /\ e.ver = tree[p].ver
                                                /\ e.kind = "delete" <=> tree[p].dead
<1>1. tree[p].ver \in Nat
  BY DEF IInv, TypeOK, Row
<1>2. \A c \in log : c.path = p => c.ver \in 1 .. tree[p].ver
  BY DEF IInv, HistoryComplete, Records
<1>3. ASSUME Exists(tree[p])
      PROVE  \E e \in log : /\ e.path = p /\ e.ver = tree[p].ver
                            /\ e.kind = "delete" <=> tree[p].dead
  <2>1. tree[p].ver \in 1 .. tree[p].ver
    BY <1>1, <1>3 DEF Exists
  <2>2. PICK e \in Records(p) : e.ver = tree[p].ver
    BY <2>1 DEF IInv, HistoryComplete
  <2> QED
    BY <2>2 DEF IInv, HistoryComplete, Records
<1> QED
  BY <1>1, <1>2, <1>3

\* A read of the client keeps the invariant.
LEMMA ClientKeepsFeed ==
    ASSUME IInv, FeedIInv, Client, UNCHANGED vars
    PROVE  FeedIInv' /\ \A p \in Paths : known'[p].ver >= known[p].ver
<1> USE DEF FeedIInv
<1>0. /\ log' = log /\ dlog' = dlog /\ tree' = tree /\ cursor' = cursor /\ FeedTypeOK /\ since \in Nat
      /\ \A c \in log : c \in Change /\ c.path \in Paths /\ c.cursor \in Nat /\ c.ver \in Nat
      /\ \A p \in Paths : known[p].ver \in Nat
  BY DEF vars, txvars, FeedTypeOK, IInv, TypeOK, Change
<1>1. Positive'
  BY <1>0 DEF Positive
<1>2. CASE SnapshotList
  <2>1. /\ phase' = "listed" /\ since' = LatestCursor /\ quiet' = NoneOpenUpTo(LatestCursor)
        /\ origin' = "snapshot"
        /\ known' = [p \in Paths |-> IF Live(tree[p]) THEN [ver |-> tree[p].ver, dead |-> FALSE]
                                     ELSE Nothing]
        /\ \A p \in Paths : known[p] = Nothing
    BY <1>2 DEF SnapshotList, Fresh
  <2>2. LatestCursor \in Nat /\ LatestCursor <= cursor /\ \A c \in log : c.cursor <= LatestCursor
    BY LatestCursorIsLatest
  <2>3. FeedTypeOK'
    BY <1>0, <2>1, <2>2, TopRecord DEF FeedTypeOK, Nothing, NoneOpenUpTo
  <2>4. Grounded'
    <3> SUFFICES ASSUME NEW p \in Paths, known'[p].ver > 0
                 PROVE  \E e \in log : /\ e.path = p /\ e.ver = known'[p].ver
                                       /\ e.cursor <= since'
                                       /\ e.kind = "delete" <=> known'[p].dead
      BY <1>0 DEF Grounded
    <3>1. Live(tree[p]) /\ known'[p].ver = tree[p].ver /\ known'[p].dead = FALSE
      BY <2>1 DEF Nothing
    <3> QED
      BY <2>1, <2>2, <3>1, TopRecord DEF Live
  <2>5. ASSUME NEW c \in log PROVE Reflected(c)'
    <3>1. c.path \in Paths /\ c.ver <= tree[c.path].ver /\ c.ver > 0
      BY <1>0, TopRecord
    <3>2. CASE Live(tree[c.path])
      BY <2>1, <3>1, <3>2 DEF Reflected
    <3>3. CASE ~Live(tree[c.path])
      <4>1. Exists(tree[c.path]) /\ tree[c.path].dead
        BY <1>0, <3>1, <3>3, TopRecord DEF Live, Exists
      <4>2. PICK e \in log : e.path = c.path /\ e.ver = tree[c.path].ver /\ e.kind = "delete"
        BY <3>1, <4>1, TopRecord
      <4>3. known'[c.path].ver = 0
        BY <2>1, <3>1, <3>3 DEF Nothing
      <4> QED
        BY <1>0, <2>1, <2>2, <3>1, <4>2, <4>3 DEF Reflected
    <3> QED
      BY <3>2, <3>3
  <2>6. Undisturbed'
    BY <1>0, <2>1, <2>5 DEF Undisturbed, NoneOpenUpTo
  <2>7. Fresh'
    BY <2>1 DEF Fresh
  <2>8. \A p \in Paths : known'[p].ver >= known[p].ver
    BY <2>1, TopRecord DEF Nothing
  <2> QED
    BY <1>0, <1>1, <2>1, <2>2, <2>3, <2>4, <2>6, <2>7, <2>8
<1>3. CASE SnapshotCursor
  <2>1. /\ phase' = "following" /\ since' = LatestCursor /\ known' = known /\ origin' = origin
        /\ quiet' = (quiet /\ LatestCursor = since /\ NoneOpenUpTo(LatestCursor))
    BY <1>3 DEF SnapshotCursor
  <2>2. LatestCursor \in Nat /\ LatestCursor <= cursor /\ \A c \in log : c.cursor <= LatestCursor
    BY LatestCursorIsLatest
  <2>3. FeedTypeOK' /\ Fresh'
    BY <1>0, <2>1, <2>2 DEF FeedTypeOK, Fresh, NoneOpenUpTo
  <2>4. Grounded'
    BY <1>0, <2>1, <2>2 DEF Grounded
  <2>5. Undisturbed'
    BY <1>0, <2>1 DEF Undisturbed, NoneOpenUpTo, Reflected
  <2> QED
    BY <1>0, <1>1, <2>1, <2>2, <2>3, <2>4, <2>5
<1>4. CASE FollowFromZero
  <2>1. /\ phase' = "following" /\ since' = since /\ known' = known /\ origin' = "zero"
        /\ quiet' = quiet
    BY <1>4 DEF FollowFromZero
  <2>2. FeedTypeOK' /\ Fresh' /\ Grounded'
    BY <1>0, <2>1 DEF FeedTypeOK, Fresh, Grounded
  <2>3. Undisturbed'
    BY <1>0, <2>1 DEF Undisturbed, NoneOpenUpTo, Reflected
  <2> QED
    BY <1>0, <1>1, <2>1, <2>2, <2>3
<1>5. CASE Poll
  <2>1. /\ phase' = "following" /\ phase = "following" /\ origin' = origin /\ NewChanges # {}
        /\ known' = [p \in Paths |-> Applied(p)]
        /\ since' = Max({c.cursor : c \in NewChanges})
        /\ quiet' = (quiet /\ NoneOpenUpTo(since'))
    BY <1>5 DEF Poll
  <2>2. since' \in Nat /\ since' > since /\ since' <= cursor /\ \A c \in NewChanges : c.cursor <= since'
    BY <2>1, PollCursor
  <2>3. ASSUME NEW p \in Paths
        PROVE  \/ known'[p] = known[p] /\ \A c \in NewChanges : c.path # p
               \/ \E l \in NewChanges :
                     /\ l.path = p /\ l.ver \in Nat
                     /\ known'[p] \in [ver : Nat, dead : BOOLEAN] /\ known'[p].ver = l.ver
                     /\ known'[p].dead <=> l.kind = "delete"
                     /\ \A c \in log : c.path = p /\ (c \in NewChanges \/ c.cursor <= since)
                                         => c.ver <= l.ver
    BY <1>0, <2>1, AppliedIsNewest, StoredRecord DEF Change
  <2>4. ASSUME NEW p \in Paths
        PROVE  known'[p] \in [ver : Nat, dead : BOOLEAN]
    BY <1>0, <2>3 DEF FeedTypeOK
  <2>5. ASSUME NEW p \in Paths
        PROVE  known'[p].ver >= known[p].ver
    <3>1. known[p].ver > 0 => \E e \in log : /\ e.path = p /\ e.ver = known[p].ver
                                             /\ e.cursor <= since
      BY DEF Grounded
    <3>2. CASE known[p].ver = 0
      BY <1>0, <2>4, <3>2
    <3>3. CASE known[p].ver > 0
      <4>1. PICK e \in log : e.path = p /\ e.ver = known[p].ver /\ e.cursor <= since
        BY <3>1, <3>3
      <4> QED
        BY <1>0, <2>3, <4>1
    <3> QED
      BY <1>0, <3>2, <3>3
  <2>6. Grounded'
    <3> SUFFICES ASSUME NEW p \in Paths, known'[p].ver > 0
                 PROVE  \E e \in log : /\ e.path = p /\ e.ver = known'[p].ver
                                       /\ e.cursor <= since'
                                       /\ e.kind = "delete" <=> known'[p].dead
      BY <1>0 DEF Grounded
    <3>1. CASE known'[p] = known[p]
      <4>1. PICK e \in log : /\ e.path = p /\ e.ver = known[p].ver /\ e.cursor <= since
                             /\ e.kind = "delete" <=> known[p].dead
        BY <3>1 DEF Grounded
      <4>2. e.cursor <= since'
        BY <1>0, <2>2, <4>1
      <4> QED
        BY <3>1, <4>1, <4>2
    <3>2. ASSUME NEW l \in NewChanges, l.path = p,
                 known'[p].ver = l.ver, known'[p].dead <=> l.kind = "delete"
          PROVE  \E e \in log : /\ e.path = p /\ e.ver = known'[p].ver
                                /\ e.cursor <= since'
                                /\ e.kind = "delete" <=> known'[p].dead
      <4>1. l \in log /\ l.cursor <= since'
        BY <2>2 DEF NewChanges
      <4> QED
        BY <3>2, <4>1
    <3> QED
      BY <2>3, <3>1, <3>2
  <2>7. ASSUME quiet, NEW c \in log PROVE Reflected(c)'
    <3>1. c.path \in Paths /\ (c \in NewChanges \/ c.cursor <= since)
      BY <1>0 DEF NewChanges
    <3>2. CASE known'[c.path] = known[c.path] /\ \A e \in NewChanges : e.path # c.path
      <4>1. c.cursor <= since
        BY <3>1, <3>2
      <4>2. Reflected(c)
        BY <2>7, <4>1 DEF Undisturbed
      <4>3. \A e \in log : e.cursor <= since => e.cursor <= since'
        BY <1>0, <2>2
      <4> QED
        BY <1>0, <3>2, <4>2, <4>3 DEF Reflected
    <3>3. CASE \E l \in NewChanges :
                   /\ l.path = c.path /\ l.ver \in Nat
                   /\ known'[c.path].ver = l.ver
                   /\ \A e \in log : e.path = c.path /\ (e \in NewChanges \/ e.cursor <= since)
                                       => e.ver <= l.ver
      BY <3>1, <3>3 DEF Reflected
    <3> QED
      BY <2>3, <3>1, <3>2, <3>3
  <2>8. Undisturbed'
    BY <1>0, <2>1, <2>7 DEF Undisturbed, NoneOpenUpTo
  <2>9. FeedTypeOK' /\ Fresh'
    <3>1. known' \in [Paths -> [ver : Nat, dead : BOOLEAN]]
      BY <2>1, <2>4
    <3>2. quiet' \in BOOLEAN
      BY <1>0, <2>1 DEF FeedTypeOK, NoneOpenUpTo
    <3> QED
      BY <1>0, <2>1, <2>2, <3>1, <3>2 DEF FeedTypeOK, Fresh
  <2> QED
    BY <1>0, <1>1, <2>2, <2>5, <2>6, <2>8, <2>9
<1> QED
  BY <1>2, <1>3, <1>4, <1>5 DEF Client

\* Every step keeps the invariant and takes no path of the replica back.
LEMMA StepKeepsFeed ==
    IInv /\ FeedIInv /\ [FeedNext]_<<vars, feed>>
        => FeedIInv' /\ IInv' /\ \A p \in Paths : known'[p].ver >= known[p].ver
<1> SUFFICES ASSUME IInv, FeedIInv, [FeedNext]_<<vars, feed>>
             PROVE  FeedIInv' /\ IInv' /\ \A p \in Paths : known'[p].ver >= known[p].ver
  OBVIOUS
<1>1. CASE [Next]_vars /\ UNCHANGED feed
  <2>1. known' = known /\ \A p \in Paths : known[p].ver \in Nat
    BY <1>1 DEF feed, FeedIInv, FeedTypeOK
  <2> QED
    BY <1>1, <2>1, WritersKeepFeed, StepKeepsInvariant
<1>2. CASE Client /\ UNCHANGED vars
  <2>1. [Next]_vars
    BY <1>2
  <2> QED
    BY <1>2, <2>1, ClientKeepsFeed, StepKeepsInvariant
<1> QED
  BY <1>1, <1>2 DEF FeedNext

\* The invariants of the tree and of the client always hold.
THEOREM FeedInvariantHolds == FeedSpec => [](IInv /\ FeedIInv)
<1>1. FeedInit => IInv /\ FeedIInv
  BY InitFeed, InitInvariant DEF FeedInit
<1> QED
  BY <1>1, StepKeepsFeed, PTL DEF FeedSpec

\* The client's variables always keep their types.
THEOREM FeedTypeCorrect == FeedSpec => []FeedTypeOK
<1>1. FeedIInv => FeedTypeOK
  BY DEF FeedIInv
<1> QED
  BY <1>1, FeedInvariantHolds, PTL

\* However the writers' transactions overlap the client's reads, no read takes
\* a path of the replica back to an earlier version.
THEOREM NeverGoesBack == FeedSpec => ReplicaNeverGoesBack
<1>1. IInv /\ FeedIInv /\ [FeedNext]_<<vars, feed>>
        => [\A p \in Paths : known'[p].ver >= known[p].ver]_<<vars, feed>>
  BY StepKeepsFeed
<1> QED
  BY <1>1, FeedInvariantHolds, PTL DEF FeedSpec, ReplicaNeverGoesBack

\* A client whose reads were quiet, and that has nothing left to fetch, holds
\* the tree.
THEOREM QuietAgrees == FeedSpec => []QuietReplicaAgrees
<1>1. ASSUME IInv, FeedIInv PROVE QuietReplicaAgrees
  <2> SUFFICES ASSUME CaughtUp, quiet, NEW p \in Paths PROVE Agrees(p)
    BY DEF QuietReplicaAgrees
  <2>1. /\ known[p] \in [ver : Nat, dead : BOOLEAN]
        /\ \A c \in log : c.cursor <= since
    BY <1>1, LatestCursorIsLatest DEF FeedIInv, FeedTypeOK, CaughtUp
  <2>2. \A c \in log : Reflected(c)
    BY <1>1, <2>1 DEF FeedIInv, Undisturbed
  <2>3. /\ tree[p].ver \in Nat /\ tree[p].dead \in BOOLEAN
        /\ \A c \in log : c.path = p => c.ver \in Nat /\ c.ver > 0 /\ c.ver <= tree[p].ver
    BY <1>1, TopRecord DEF IInv, TypeOK, Row
  <2>4. known[p].ver > 0 => \E e \in log : /\ e.path = p /\ e.ver = known[p].ver
                                           /\ e.kind = "delete" <=> known[p].dead
    BY <1>1 DEF FeedIInv, Grounded
  <2>5. \A c, e \in log : c.path = p /\ e.path = p /\ c.ver = e.ver => c = e
    BY <1>1 DEF IInv, HistoryComplete, Records
  <2>6. CASE ~Exists(tree[p])
    <3>1. ~Live(tree[p]) /\ tree[p].ver = 0
      BY <2>3, <2>6 DEF Live, Exists
    <3>2. known[p].ver = 0
      BY <2>1, <2>3, <2>4, <3>1
    <3> QED
      BY <3>1, <3>2 DEF Agrees
  <2>7. CASE Exists(tree[p])
    <3>1. PICK t \in log : t.path = p /\ t.ver = tree[p].ver /\ (t.kind = "delete" <=> tree[p].dead)
      BY <1>1, <2>7, TopRecord
    <3>2. CASE t.ver <= known[p].ver
      <4>1. PICK e \in log : e.path = p /\ e.ver = known[p].ver
                             /\ (e.kind = "delete" <=> known[p].dead)
        BY <2>1, <2>3, <2>4, <3>1, <3>2
      <4>2. e = t
        BY <2>1, <2>3, <2>5, <3>1, <3>2, <4>1
      <4>3. known[p].ver = tree[p].ver /\ known[p].dead = tree[p].dead
        BY <2>1, <2>3, <3>1, <4>1, <4>2
      <4>4. known[p] = [ver |-> tree[p].ver, dead |-> tree[p].dead]
        BY <2>1, <4>3
      <4> QED
        BY <2>3, <2>7, <4>3, <4>4 DEF Agrees, Live
    <3>3. CASE /\ known[p].ver = 0
               /\ \E e \in log : e.path = p /\ e.ver >= t.ver /\ e.kind = "delete"
      <4>1. PICK e \in log : e.path = p /\ e.ver >= t.ver /\ e.kind = "delete"
        BY <3>3
      <4>2. e = t
        BY <2>3, <2>5, <3>1, <4>1
      <4>3. ~Live(tree[p])
        BY <3>1, <4>1, <4>2 DEF Live
      <4> QED
        BY <3>3, <4>3 DEF Agrees
    <3> QED
      BY <2>2, <3>1, <3>2, <3>3 DEF Reflected
  <2> QED
    BY <2>6, <2>7
<1> QED
  BY <1>1, FeedInvariantHolds, PTL
=============================================================================
