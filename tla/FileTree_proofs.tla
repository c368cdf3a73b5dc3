--------------------------- MODULE FileTree_proofs ---------------------------
(***************************************************************************)
(* Proofs about FileTree for any set of requests, paths, contents and any  *)
(* quota: the invariant IInv holds initially and every step keeps it, and  *)
(* no row is without rows for the directories above it.                    *)
(*                                                                         *)
(* The steps fall into five shapes, one lemma each: a call starts or moves *)
(* without touching a row, lockEntry reads a row, a row and its record are *)
(* staged, a transaction commits, a call fails and rolls back.             *)
(***************************************************************************)
EXTENDS FileTree, TLAPS, WellFoundedInduction, SequenceTheorems

-----------------------------------------------------------------------------
(* Induction over numbers, in the form that needs no predicate as a          *)
(* parameter.                                                                *)

\* A set of numbers that is not empty has a least one.
LEMMA LeastNatural ==
    ASSUME NEW S \in SUBSET Nat, S # {}
    PROVE  \E m \in S : \A k \in S : m <= k
<1> DEFINE Less == {ss \in Nat \X Nat : ss[1] < ss[2]}
<1>1. IsWellFoundedOn(Less, Nat)
  BY NatLessThanWellFounded, Zenon DEF OpToRel
<1> HIDE DEF Less
<1>2. PICK m \in S : \A k \in S : ~(<<k, m>> \in Less)
  BY <1>1, WFMin
<1>3. \A k \in S : ~(k < m)
  BY <1>2 DEF Less
<1> QED
  BY <1>3

\* A set of numbers that has a bound and is not empty has a greatest one.
LEMMA GreatestNatural ==
    ASSUME NEW S \in SUBSET Nat, S # {}, NEW n \in Nat, \A k \in S : k <= n
    PROVE  \E m \in S : \A k \in S : k <= m
<1> DEFINE Left == {n - k : k \in S}
<1>1. Left \in SUBSET Nat /\ Left # {}
  <2>1. \A k \in S : n - k \in Nat
    OBVIOUS
  <2>2. PICK k \in S : TRUE
    OBVIOUS
  <2>3. n - k \in Left
    OBVIOUS
  <2>4. Left \subseteq Nat
    BY <2>1
  <2> QED
    BY <2>3, <2>4
<1>2. PICK l \in Left : \A k \in Left : l <= k
  <2> HIDE DEF Left
  <2> QED
    BY <1>1, LeastNatural
<1>3. PICK m \in S : l = n - m
  OBVIOUS
<1>4. \A k \in S : n - m <= n - k
  BY <1>2, <1>3
<1> QED
  BY <1>4

-----------------------------------------------------------------------------
(* The invariant. *)

\* The initial state satisfies the invariant.
LEMMA InitInvariant == Init => IInv
<1> SUFFICES ASSUME Init PROVE IInv
  OBVIOUS
<1>1. TypeOK
  BY DEF Init, TypeOK, Row, Absent, Op, NoOp, NoDraft, Positions, NoPath
<1>2. Locks /\ Current /\ Doomed
  BY DEF Init, Locks, Current, Doomed, BeforeStage
<1>3. Drafts /\ Recorded
  BY DEF Init, Drafts, Recorded, NoDraft, Exists, Absent
<1>4. HistoryComplete /\ CursorOrder /\ CursorsDrawn
  BY DEF Init, HistoryComplete, CursorOrder, CursorsDrawn, Records, Absent
<1>5. BasesMet /\ Calls
  BY DEF Init, BasesMet, Calls, NoOp
<1> QED
  BY <1>1, <1>2, <1>3, <1>4, <1>5 DEF IInv

\* A call that fails rolls back: nothing of it is left, whatever cursor it drew.
LEMMA FailKeepsInvariant ==
    ASSUME IInv, NEW r \in Req, Fail(r), cursor' \in {cursor, cursor + 1}
    PROVE  IInv'
<1> USE DEF IInv, Fail, Return, Release, Goto, store
<1>0. TypeOK
  OBVIOUS
<1>1. TypeOK'
  BY <1>0 DEF TypeOK, Row, Absent, Op, NoOp, NoDraft, Positions
<1>2. Locks'
  BY <1>0 DEF TypeOK, Locks, BeforeStage
<1>3. Current' /\ Doomed'
  BY <1>0 DEF TypeOK, Current, Doomed
<1>4. Drafts' /\ Recorded'
  <2>1. \A q \in Req \ {r} : draft'[q] = draft[q] /\ dlog'[q] = dlog[q] /\ held'[q] = held[q]
    BY <1>0 DEF TypeOK
  <2>2. \A p \in Paths : ~Exists(draft'[r][p])
    BY <1>0 DEF TypeOK, NoDraft, Absent, Exists
  <2>3. dlog'[r] = {} /\ tree' = tree /\ log' = log
    BY <1>0 DEF TypeOK
  <2>4. cursor \in Nat /\ \A q \in Req : dlog[q] \subseteq Change
    BY <1>0 DEF TypeOK
  <2>5. Drafts'
    BY <2>1, <2>2, <2>3 DEF Drafts
  <2>6. Recorded'
    BY <2>1, <2>2, <2>3, <2>4 DEF Recorded, Change
  <2> QED
    BY <2>5, <2>6
<1>5. HistoryComplete' /\ CursorOrder'
  BY DEF HistoryComplete, CursorOrder, Records
<1>6. CursorsDrawn'
  BY <1>0 DEF TypeOK, CursorsDrawn, Change
<1>7. BasesMet'
  BY <1>0 DEF TypeOK, BasesMet, NoOp
<1>8. Calls'
  BY <1>0 DEF TypeOK, Calls, NoOp
<1> QED
  BY <1>1, <1>2, <1>3, <1>4, <1>5, <1>6, <1>7, <1>8

\* A call starts: its request stood idle, with no transaction.
LEMMA StartKeepsInvariant ==
    ASSUME IInv, NEW r \in Req, NEW call \in Op, NEW plan, NEW where,
           Start(r, call, plan, where),
           \/ where = "ready" /\ call.kind \in {"write", "ensure"}
           \/ where = "list" /\ call.kind = "delete" /\ plan = << >>,
           call.kind = "write" /\ call.expect > 0 => Exists(tree[call.path])
    PROVE  IInv'
<1> USE DEF IInv, Start, Goto, store, txvars
<1>0. TypeOK
  OBVIOUS
<1>1. TypeOK'
  BY <1>0 DEF TypeOK, Positions
<1>2. Locks'
  BY <1>0 DEF TypeOK, Locks, BeforeStage
<1>3. Current' /\ Doomed'
  BY <1>0 DEF TypeOK, Current, Doomed
<1>4. Drafts' /\ Recorded'
  BY DEF Drafts, Recorded
<1>5. HistoryComplete' /\ CursorOrder' /\ CursorsDrawn'
  BY DEF HistoryComplete, CursorOrder, CursorsDrawn, Records
<1>6. BasesMet'
  BY <1>0 DEF TypeOK, BasesMet
<1>7. Calls'
  BY <1>0 DEF TypeOK, Calls
<1> QED
  BY <1>1, <1>2, <1>3, <1>4, <1>5, <1>6, <1>7

\* The quota check passes.
LEMMA QuotaKeepsInvariant ==
    ASSUME IInv, NEW r \in Req, QuotaPass(r)
    PROVE  IInv'
<1> USE DEF IInv, QuotaPass, Goto, store
<1>0. TypeOK
  OBVIOUS
<1>1. TypeOK'
  BY <1>0 DEF TypeOK, Positions
<1>2. Locks'
  BY <1>0 DEF TypeOK, Locks, BeforeStage
<1>3. Current' /\ Doomed'
  BY <1>0 DEF TypeOK, Current, Doomed
<1>4. Drafts' /\ Recorded'
  BY DEF Drafts, Recorded
<1>5. HistoryComplete' /\ CursorOrder' /\ CursorsDrawn'
  BY DEF HistoryComplete, CursorOrder, CursorsDrawn, Records
<1>6. BasesMet'
  BY <1>0 DEF TypeOK, BasesMet
<1>7. Calls'
  BY <1>0 DEF TypeOK, Calls
<1> QED
  BY <1>1, <1>2, <1>3, <1>4, <1>5, <1>6, <1>7

\* A Delete has read which live entries it is to tombstone.
LEMMA ListKeepsInvariant ==
    ASSUME IInv, NEW r \in Req, DeleteList(r)
    PROVE  IInv'
<1> USE DEF IInv, DeleteList, Goto, store, txvars
<1>0. TypeOK
  OBVIOUS
<1>a. \A p \in LiveUnder(op[r].path) : p \in Paths /\ Exists(tree[p])
  BY DEF LiveUnder, Live
<1>1. TypeOK'
  BY <1>0, <1>a DEF TypeOK, Positions
<1>2. Locks'
  BY <1>0 DEF TypeOK, Locks, BeforeStage
<1>3. Current'
  BY <1>0 DEF TypeOK, Current
<1>4. Doomed'
  <2>1. \A p \in Paths : ~Exists(draft[r][p])
    BY DEF Locks, BeforeStage, NoDraft, Absent, Exists
  <2> QED
    BY <1>0, <1>a, <2>1 DEF TypeOK, Doomed
<1>5. Drafts' /\ Recorded'
  BY DEF Drafts, Recorded
<1>6. HistoryComplete' /\ CursorOrder' /\ CursorsDrawn'
  BY DEF HistoryComplete, CursorOrder, CursorsDrawn, Records
<1>7. BasesMet'
  BY <1>0 DEF TypeOK, BasesMet
<1>8. Calls'
  BY <1>0 DEF TypeOK, Calls
<1> QED
  BY <1>1, <1>2, <1>3, <1>4, <1>5, <1>6, <1>7, <1>8

\* lockEntry has read a row and locked it: no other request had it locked.
LEMMA LockKeepsInvariant ==
    ASSUME IInv, NEW r \in Req, NEW p \in Paths, NEW where,
           LockEntry(r, p), Goto(r, where),
           UNCHANGED <<store, cursor, op, todo, doomed, excl, draft, dlog, issued>>,
           \/ pc[r] = "ready" /\ where = "ensure" /\ todo[r] # << >>
           \/ /\ pc[r] = "ready" /\ where \in {"quota", "write"}
              /\ op[r].kind = "write" /\ op[r].path = p
              /\ Expected(tree[p], op[r].expect)
           \/ pc[r] = "delete" /\ where = "tombstone" /\ p \in doomed[r]
    PROVE  IInv'
<1> USE DEF IInv, LockEntry, Goto, store
<1>0. TypeOK
  OBVIOUS
<1>1. TypeOK'
  BY <1>0 DEF TypeOK, Positions
<1>2. \A q \in Req \ {r} : /\ held'[q] = held[q] /\ pc'[q] = pc[q]
                           /\ at'[q] = at[q] /\ seen'[q] = seen[q]
  BY <1>0 DEF TypeOK
<1>3. held'[r] = IF Exists(tree[p]) THEN held[r] \cup {p} ELSE held[r]
  BY <1>0 DEF TypeOK
<1>4. Exists(tree[p]) => \A q \in Req \ {r} : p \notin held[q]
  BY DEF CanLockRow, RowHolders
<1>5. Locks'
  <2>1. \A q, s \in Req : q # s => held'[q] \cap held'[s] = {}
    BY <1>2, <1>3, <1>4 DEF Locks
  <2>2. \A q \in Req : pc'[q] \in {"idle", "ready", "list"} => held'[q] = {}
    BY <1>0, <1>2 DEF TypeOK, Locks
  <2>3. \A q \in Req : pc'[q] \in BeforeStage => draft'[q] = NoDraft /\ dlog'[q] = {}
    BY <1>0, <1>2 DEF TypeOK, Locks, BeforeStage
  <2> QED
    BY <2>1, <2>2, <2>3 DEF Locks
<1>6. Current'
  BY <1>0, <1>2, <1>3 DEF TypeOK, Current, Doomed
<1>7. Doomed'
  BY DEF Doomed
<1>8. Drafts' /\ Recorded'
  BY <1>2, <1>3 DEF Drafts, Recorded
<1>9. HistoryComplete' /\ CursorOrder' /\ CursorsDrawn'
  BY DEF HistoryComplete, CursorOrder, CursorsDrawn, Records
<1>10. BasesMet'
  BY <1>0, <1>2 DEF TypeOK, BasesMet, Expected
<1>11. Calls'
  BY <1>0, <1>2 DEF TypeOK, Calls
<1> QED
  BY <1>1, <1>5, <1>6, <1>7, <1>8, <1>9, <1>10, <1>11

\* A row and its record are staged as the next version of a path the request
\* has locked, or inserts under the lock of its unique key.
LEMMA StageKeepsInvariant ==
    ASSUME IInv, NEW r \in Req, NEW row \in Row, NEW base \in Nat, NEW where,
           NEW kind \in {"create", "update", "delete"},
           Stage(r, row, kind, base), Goto(r, where),
           UNCHANGED <<store, op, todo, at, seen, excl, issued>>,
           pc[r] \in {"ensure", "write", "tombstone"},
           row.ver = tree[at[r]].ver + 1,
           kind = "delete" <=> row.dead,
           base > 0 => row.ver = base + 1,
           held'[r] = held[r] \cup {at[r]},
           \A q \in Req \ {r} : held'[q] = held[q],
           held' \in [Req -> SUBSET Paths],
           Exists(seen[r]) \/ CanLockRow(r, at[r]),
           \/ pc[r] # "tombstone" /\ where = "commit" /\ doomed' = doomed
           \/ /\ pc[r] = "tombstone" /\ where \in {"commit", "delete"}
              /\ doomed' = [doomed EXCEPT ![r] = @ \ {at[r]}]
              /\ where = "commit" => doomed[r] = {at[r]}
    PROVE  IInv'
<1> DEFINE p == at[r]
           new == [cursor |-> cursor + 1, path |-> p, ver |-> row.ver,
                   kind |-> kind, base |-> base]
<1> USE DEF IInv, Goto, store
<1>0. TypeOK /\ p \in Paths
  BY DEF Current
<1>1. new \in Change /\ new.path = p /\ new.ver = row.ver /\ new.kind = kind
      /\ new.cursor = cursor + 1 /\ new.base = base
  BY <1>0 DEF TypeOK, Change, Row
<1>2. /\ \A q \in Req \ {r} : draft'[q] = draft[q] /\ dlog'[q] = dlog[q]
      /\ \A x \in Paths : draft'[r][x] = IF x = p THEN row ELSE draft[r][x]
      /\ dlog'[r] = dlog[r] \cup {new}
      /\ cursor' = cursor + 1
      /\ \A q \in Req \ {r} : pc'[q] = pc[q]
      /\ pc'[r] = where
  BY <1>0 DEF TypeOK, Stage
<1>3. Exists(row) /\ tree' = tree /\ log' = log
  BY <1>0 DEF TypeOK, Row, Exists
<1>4. TypeOK'
  <2>1. draft' \in [Req -> [Paths -> Row]] /\ dlog' \in [Req -> SUBSET Change]
    BY <1>0, <1>1 DEF TypeOK, Stage
  <2>2. doomed' \in [Req -> SUBSET Paths] /\ pc' \in [Req -> Positions]
    BY <1>0 DEF TypeOK, Positions
  <2> QED
    BY <1>0, <1>2, <2>1, <2>2 DEF TypeOK
<1>5. \A q \in Req \ {r} : p \notin held[q]
  BY <1>0 DEF Locks, Current, CanLockRow, RowHolders
\* Nothing is staged at p yet.
<1>6. ~Exists(draft[r][p]) /\ \A c \in dlog[r] : c.path # p
  <2>1. ~Exists(draft[r][p])
    BY <1>0 DEF Locks, Current, Doomed, BeforeStage, NoDraft, Absent, Exists
  <2> QED
    BY <2>1 DEF Recorded
<1>7. Locks'
  <2>1. \A q, s \in Req : q # s => held'[q] \cap held'[s] = {}
    BY <1>5 DEF Locks
  <2>2. \A q \in Req : pc'[q] \in {"idle", "ready", "list"} => held'[q] = {}
    BY <1>2 DEF Locks
  <2>3. \A q \in Req : pc'[q] \in BeforeStage => draft'[q] = NoDraft /\ dlog'[q] = {}
    BY <1>2 DEF Locks, BeforeStage
  <2> QED
    BY <2>1, <2>2, <2>3 DEF Locks
<1>8. Current'
  BY <1>0, <1>2, <1>3 DEF TypeOK, Current
<1>9. Doomed'
  <2>1. \A q \in Req \ {r} : doomed'[q] = doomed[q]
    BY <1>0 DEF TypeOK
  <2>2. \A x \in doomed'[r] : x \in doomed[r] /\ x # p
    BY <1>0 DEF TypeOK, Doomed
  <2>3. \A q \in Req : \A x \in doomed[q] : x \in Paths
    BY <1>0 DEF TypeOK
  <2>4. where # "delete" => doomed'[r] = {}
    <3>1. CASE pc[r] # "tombstone"
      <4>1. pc[r] \notin {"delete", "tombstone"}
        BY <3>1
      <4> QED
        BY <3>1, <4>1 DEF Doomed
    <3>2. CASE pc[r] = "tombstone"
      BY <1>0, <3>2 DEF TypeOK
    <3> QED
      BY <3>1, <3>2
  <2> QED
    BY <1>2, <1>3, <2>1, <2>2, <2>3, <2>4 DEF Doomed
<1>10. Drafts'
  <2> SUFFICES ASSUME NEW q \in Req, NEW x \in Paths, Exists(draft'[q][x])
      PROVE  /\ x \in held'[q]
             /\ \/ /\ draft'[q][x].ver = tree[x].ver + 1
                   /\ \E c \in dlog'[q] :
                         c.path = x /\ (c.kind = "delete" <=> draft'[q][x].dead)
                \/ /\ draft'[q][x].ver = tree[x].ver
                   /\ draft'[q][x].dead = tree[x].dead
                   /\ \A c \in dlog'[q] : c.path # x
    BY <1>3 DEF Drafts
  <2>1. CASE q # r
    BY <2>1, <1>2 DEF Drafts
  <2>2. CASE q = r /\ x = p
    <3>1. draft'[q][x] = row /\ new \in dlog'[q]
      BY <2>2, <1>2
    <3> QED
      BY <3>1, <2>2, <1>1
  <2>3. CASE q = r /\ x # p
    <3>1. draft'[q][x] = draft[q][x] /\ dlog'[q] = dlog[q] \cup {new}
      BY <2>3, <1>2
    <3> QED
      BY <3>1, <2>3, <1>1 DEF Drafts
  <2> QED
    BY <2>1, <2>2, <2>3
<1>11. Recorded'
  <2> SUFFICES ASSUME NEW q \in Req, NEW c \in dlog'[q]
      PROVE  /\ Exists(draft'[q][c.path]) /\ draft'[q][c.path].ver = c.ver
             /\ c.cursor <= cursor'
             /\ \A e \in dlog'[q] : e.path = c.path => e = c
             /\ \A e \in log : e.path = c.path => e.cursor < c.cursor
    BY <1>3 DEF Recorded
  <2>0. \A s \in Req : \A e \in dlog[s] : e.path \in Paths /\ e.cursor \in Nat
    BY <1>0 DEF TypeOK, Change
  <2>1. CASE q # r
    BY <2>0, <2>1, <1>0, <1>2 DEF Recorded, TypeOK
  <2>2. CASE q = r /\ c = new
    <3>1. draft'[q][c.path] = row
      BY <2>2, <1>0, <1>1, <1>2
    <3>2. \A e \in log : e.cursor < c.cursor
      BY <2>2, <1>0, <1>1 DEF CursorsDrawn, TypeOK, Change
    <3> QED
      BY <3>1, <3>2, <2>2, <1>0, <1>1, <1>2, <1>3, <1>6 DEF TypeOK
  <2>3. CASE q = r /\ c # new
    <3>1. c \in dlog[q] /\ c.path # p
      BY <2>3, <1>2, <1>6
    <3>2. draft'[q][c.path] = draft[q][c.path]
      BY <2>3, <3>1, <2>0, <1>2
    <3> QED
      BY <3>1, <3>2, <2>0, <2>3, <1>0, <1>1, <1>2 DEF Recorded, TypeOK
  <2> QED
    BY <2>1, <2>2, <2>3
<1>12. HistoryComplete' /\ CursorOrder' /\ CursorsDrawn'
  BY <1>0, <1>2, <1>3 DEF HistoryComplete, CursorOrder, CursorsDrawn, Records, TypeOK, Change
<1>13. BasesMet'
  <2>1. \A c \in log' : c.base > 0 => c.ver = c.base + 1
    BY <1>3 DEF BasesMet
  <2>2. \A q \in Req : \A c \in dlog'[q] : c.base > 0 => c.ver = c.base + 1
    <3> SUFFICES ASSUME NEW q \in Req, NEW c \in dlog'[q], c.base > 0
                 PROVE  c.ver = c.base + 1
      OBVIOUS
    <3>1. CASE c \in dlog[q]
      BY <3>1 DEF BasesMet
    <3>2. CASE c = new
      BY <3>2, <1>1
    <3> HIDE DEF new
    <3> QED
      BY <3>1, <3>2, <1>2
  <2>3. \A q \in Req : op[q].kind = "write" /\ op[q].expect > 0 => Exists(tree[op[q].path])
    BY DEF BasesMet
  <2>4. \A q \in Req : pc'[q] \in {"quota", "write"} /\ op[q].expect > 0
                         => seen[q].ver = op[q].expect
    BY <1>2 DEF BasesMet
  <2> QED
    BY <1>3, <2>1, <2>2, <2>3, <2>4 DEF BasesMet
<1>14. Calls'
  BY <1>0, <1>2 DEF TypeOK, Calls
<1> QED
  BY <1>4, <1>7, <1>8, <1>9, <1>10, <1>11, <1>12, <1>13, <1>14

\* A directory that is live is staged as it is, without a record.
LEMMA EnsureKeepKeepsInvariant ==
    ASSUME IInv, NEW r \in Req, EnsureKeep(r)
    PROVE  IInv'
<1> DEFINE p   == at[r]
           row == [tree[p] EXCEPT !.size = 0, !.blob = FALSE]
<1>0. TypeOK /\ p \in Paths
  BY DEF Current, IInv, EnsureKeep
<1>1. row \in Row /\ row.ver = tree[p].ver /\ row.dead = tree[p].dead
  <2>1. tree[p] \in Row
    BY <1>0 DEF TypeOK
  <2> QED
    BY <2>1 DEF Row
<1> USE DEF IInv, EnsureKeep, Goto, store
<1>2. /\ \A q \in Req \ {r} : draft'[q] = draft[q] /\ pc'[q] = pc[q]
      /\ \A x \in Paths : draft'[r][x] = IF x = p THEN row ELSE draft[r][x]
      /\ pc'[r] = "commit"
  <2>1. /\ draft' = [draft EXCEPT ![r] = [@ EXCEPT ![p] = row]]
        /\ pc' = [pc EXCEPT ![r] = "commit"]
        /\ draft \in [Req -> [Paths -> Row]] /\ pc \in [Req -> Positions]
    BY <1>0 DEF TypeOK
  <2> HIDE DEF row, IInv, EnsureKeep
  <2> QED
    BY <2>1
<1>3. TypeOK'
  BY <1>0, <1>1 DEF TypeOK, Positions
<1>4. dlog[r] = {} /\ doomed[r] = {} /\ p \in held[r] /\ Exists(row)
  <2>1. dlog[r] = {} /\ p \in held[r] /\ seen[r] = tree[p]
    BY DEF Locks, BeforeStage, Current, Live
  <2>2. Exists(row)
    BY <1>1, <2>1 DEF Live, Exists
  <2>3. pc[r] \notin {"delete", "tombstone"}
    OBVIOUS
  <2>4. doomed[r] = {}
    BY <2>3 DEF Doomed
  <2> QED
    BY <2>1, <2>2, <2>4
<1> HIDE DEF row
<1>5. Locks'
  BY <1>2 DEF Locks, BeforeStage
<1>6. Current'
  BY <1>0, <1>2 DEF Current
<1>7. Doomed'
  BY <1>0, <1>2, <1>4 DEF TypeOK, Doomed
<1>8. Drafts'
  BY <1>0, <1>1, <1>2, <1>4 DEF Drafts
<1>9. Recorded'
  BY <1>0, <1>2, <1>4 DEF TypeOK, Recorded
<1>10. HistoryComplete' /\ CursorOrder' /\ CursorsDrawn'
  BY DEF HistoryComplete, CursorOrder, CursorsDrawn, Records
<1>11. BasesMet'
  BY <1>0, <1>2 DEF TypeOK, BasesMet
<1>12. Calls'
  BY <1>0, <1>2 DEF TypeOK, Calls
<1> QED
  BY <1>3, <1>5, <1>6, <1>7, <1>8, <1>9, <1>10, <1>11, <1>12

\* What a commit makes of a path: its staged row, the next version with its
\* record as the newest of the path; or a row of the same version.
LEMMA CommitRows ==
    ASSUME IInv, NEW r \in Req, Publish(r), NEW p \in Paths
    PROVE  \/ /\ tree'[p].ver = tree[p].ver + 1
              /\ p \in held[r]
              /\ \E c \in dlog[r] :
                    /\ c.path = p /\ c.ver = tree'[p].ver
                    /\ c.kind = "delete" <=> tree'[p].dead
                    /\ \A e \in dlog[r] : e.path = p => e = c
                    /\ \A e \in log : e.path = p => e.cursor < c.cursor
           \/ /\ tree'[p].ver = tree[p].ver /\ tree'[p].dead = tree[p].dead
              /\ p \in held[r] \/ tree'[p] = tree[p]
              /\ \A c \in dlog[r] : c.path # p
<1> USE DEF IInv
<1>0. TypeOK /\ tree'[p] = IF Exists(draft[r][p]) THEN draft[r][p] ELSE tree[p]
  BY DEF Publish
<1>1. CASE ~Exists(draft[r][p])
  BY <1>0, <1>1 DEF Recorded
<1>2. CASE Exists(draft[r][p])
  <2>1. p \in held[r] /\ tree'[p] = draft[r][p]
    BY <1>0, <1>2 DEF Drafts
  <2>2. CASE draft[r][p].ver = tree[p].ver + 1 /\
             \E c \in dlog[r] : c.path = p /\ (c.kind = "delete" <=> draft[r][p].dead)
    BY <2>1, <2>2 DEF Recorded
  <2>3. CASE /\ draft[r][p].ver = tree[p].ver /\ draft[r][p].dead = tree[p].dead
             /\ \A c \in dlog[r] : c.path # p
    BY <2>1, <2>3
  <2> QED
    BY <1>2, <2>2, <2>3 DEF Drafts
<1> QED
  BY <1>1, <1>2

\* A commit keeps the invariant, whether the call returns or goes on with the
\* next path.
LEMMA CommitKeepsInvariant ==
    ASSUME IInv, NEW r \in Req, Publish(r), Release(r), TypeOK', pc[r] = "commit",
           \A q \in Req \ {r} : /\ pc'[q] = pc[q] /\ op'[q] = op[q]
                                /\ todo'[q] = todo[q] /\ doomed'[q] = doomed[q],
           doomed'[r] = {},
           \/ pc'[r] = "idle" /\ op'[r] = NoOp
           \/ pc'[r] = "ready" /\ op'[r] = op[r] /\ todo[r] # << >>
    PROVE  IInv'
<1> USE DEF IInv
<1>0. TypeOK
  OBVIOUS
<1>1. /\ \A q \in Req \ {r} : /\ held'[q] = held[q] /\ draft'[q] = draft[q]
                              /\ dlog'[q] = dlog[q] /\ at'[q] = at[q] /\ seen'[q] = seen[q]
      /\ held'[r] = {} /\ draft'[r] = NoDraft /\ dlog'[r] = {}
      /\ log' = log \cup dlog[r] /\ cursor' = cursor
  BY <1>0 DEF Release, Publish, TypeOK
<1>2. \A q \in Req \ {r}, p \in Paths : p \in held[q] => tree'[p] = tree[p]
  BY CommitRows DEF Locks
<1>3. \A p \in Paths : Exists(tree[p]) => Exists(tree'[p])
  <2> SUFFICES ASSUME NEW p \in Paths, Exists(tree[p]) PROVE Exists(tree'[p])
    OBVIOUS
  <2>1. tree'[p] = IF Exists(draft[r][p]) THEN draft[r][p] ELSE tree[p]
    BY DEF Publish
  <2> QED
    BY <2>1
<1>4. \A c \in dlog[r] : c \in Change /\ c.path \in Paths /\ c.path \in held[r]
  BY <1>0 DEF TypeOK, Change, Drafts, Recorded
<1>5. Locks'
  BY <1>1 DEF Locks, BeforeStage
<1>6. Current'
  <2> SUFFICES ASSUME NEW q \in Req,
                      pc'[q] \in {"ensure", "quota", "write", "tombstone"}
      PROVE  /\ at'[q] \in Paths
             /\ Exists(seen'[q]) => at'[q] \in held'[q] /\ seen'[q] = tree'[at'[q]]
             /\ pc'[q] = "tombstone" => at'[q] \in doomed'[q] /\ Exists(seen'[q])
    BY DEF Current
  <2> QED
    BY <1>1, <1>2 DEF Current
<1>7. Doomed'
  <2>1. \A q \in Req : \A p \in doomed[q] : p \in Paths
    BY <1>0 DEF TypeOK
  <2> QED
    BY <1>1, <1>3, <2>1 DEF Doomed
<1>8. Drafts'
  <2> SUFFICES ASSUME NEW q \in Req, NEW p \in Paths, Exists(draft'[q][p])
      PROVE  /\ p \in held'[q]
             /\ \/ /\ draft'[q][p].ver = tree'[p].ver + 1
                   /\ \E c \in dlog'[q] :
                         c.path = p /\ (c.kind = "delete" <=> draft'[q][p].dead)
                \/ /\ draft'[q][p].ver = tree'[p].ver
                   /\ draft'[q][p].dead = tree'[p].dead
                   /\ \A c \in dlog'[q] : c.path # p
    BY DEF Drafts
  <2>1. q # r
    BY <1>1 DEF NoDraft, Absent, Exists
  <2>2. draft'[q] = draft[q] /\ dlog'[q] = dlog[q] /\ held'[q] = held[q]
    BY <1>1, <2>1
  <2>3. p \in held[q] /\ tree'[p] = tree[p]
    BY <1>2, <2>1, <2>2 DEF Drafts
  <2> QED
    BY <2>2, <2>3 DEF Drafts
<1>9. Recorded'
  <2> SUFFICES ASSUME NEW q \in Req, NEW c \in dlog'[q]
      PROVE  /\ Exists(draft'[q][c.path]) /\ draft'[q][c.path].ver = c.ver
             /\ c.cursor <= cursor'
             /\ \A e \in dlog'[q] : e.path = c.path => e = c
             /\ \A e \in log' : e.path = c.path => e.cursor < c.cursor
    BY DEF Recorded
  <2>1. q # r /\ c \in dlog[q] /\ draft'[q] = draft[q] /\ dlog'[q] = dlog[q]
    BY <1>1
  <2>2. c.path \in Paths /\ c.path \in held[q]
    BY <1>0, <2>1 DEF TypeOK, Change, Drafts, Recorded
  <2>3. \A e \in dlog[r] : e.path # c.path
    BY <1>4, <2>1, <2>2 DEF Locks
  <2> QED
    BY <1>1, <2>1, <2>3 DEF Recorded
<1>10. CursorsDrawn'
  BY <1>1 DEF CursorsDrawn, Recorded
<1>11. \A c \in log : c \in Change /\ c.path \in Paths /\ c.ver \in Nat /\ c.cursor \in Nat
                      /\ c.ver <= tree[c.path].ver
  BY <1>0 DEF TypeOK, Change, HistoryComplete, Records
<1>12. HistoryComplete'
  <2> SUFFICES ASSUME NEW p \in Paths
      PROVE  /\ \A c \in Records(p)' : c.ver \in 1 .. tree'[p].ver
             /\ \A v \in 1 .. tree'[p].ver : \E c \in Records(p)' : c.ver = v
             /\ \A c, e \in Records(p)' : c.ver = e.ver => c = e
             /\ \A c \in Records(p)' :
                   c.ver = tree'[p].ver => (c.kind = "delete" <=> tree'[p].dead)
    BY DEF HistoryComplete
  <2>0. tree[p].ver \in Nat
    BY <1>0 DEF TypeOK, Row
  <2>1. CASE \E c \in dlog[r] : c.path = p
    <3>1. PICK n \in dlog[r] :
              /\ tree'[p].ver = tree[p].ver + 1
              /\ n.path = p /\ n.ver = tree'[p].ver
              /\ n.kind = "delete" <=> tree'[p].dead
              /\ \A e \in dlog[r] : e.path = p => e = n
      BY <2>1, CommitRows
    <3>2. Records(p)' = Records(p) \cup {n}
      BY <1>1, <3>1 DEF Records
    <3>3. \A c \in Records(p) : c.ver \in 1 .. tree[p].ver
      BY DEF HistoryComplete
    <3>4. \A v \in 1 .. tree'[p].ver : v \in 1 .. tree[p].ver \/ v = n.ver
      BY <2>0, <3>1
    <3> QED
      BY <2>0, <3>1, <3>2, <3>3, <3>4 DEF HistoryComplete
  <2>2. CASE \A c \in dlog[r] : c.path # p
    <3>1. Records(p)' = Records(p)
      BY <1>1, <2>2 DEF Records
    <3>2. tree'[p].ver = tree[p].ver /\ tree'[p].dead = tree[p].dead
      BY <2>2, CommitRows
    <3> QED
      BY <3>1, <3>2 DEF HistoryComplete
  <2> QED
    BY <2>1, <2>2
<1>13. CursorOrder'
  <2> SUFFICES ASSUME NEW c \in log', NEW e \in log', c.path = e.path, c.ver < e.ver
               PROVE  c.cursor < e.cursor
    BY DEF CursorOrder
  <2>1. CASE c \in log /\ e \in log
    BY <2>1 DEF CursorOrder
  <2>2. CASE c \in log /\ e \in dlog[r]
    BY <2>2 DEF Recorded
  <2>3. CASE c \in dlog[r] /\ e \in dlog[r]
    <3>1. c = e
      BY <2>3 DEF Recorded
    <3> QED
      BY <3>1, <2>3, <1>4 DEF Change
  <2>4. CASE c \in dlog[r] /\ e \in log
    <3>1. c.ver = tree[c.path].ver + 1
      BY <2>4, <1>4, CommitRows
    <3> QED
      BY <3>1, <2>4, <1>4, <1>11, <1>0 DEF TypeOK, Row
  <2> QED
    BY <1>1, <2>1, <2>2, <2>3, <2>4
<1>14. BasesMet'
  <2>1. \A c \in log' : c.base > 0 => c.ver = c.base + 1
    BY <1>1 DEF BasesMet
  <2>2. \A q \in Req : \A c \in dlog'[q] : c.base > 0 => c.ver = c.base + 1
    BY <1>1 DEF BasesMet
  <2>3. \A q \in Req : op'[q].kind = "write" /\ op'[q].expect > 0
                         => Exists(tree'[op'[q].path])
    <3> SUFFICES ASSUME NEW q \in Req, op'[q].kind = "write", op'[q].expect > 0
                 PROVE  Exists(tree'[op'[q].path])
      OBVIOUS
    <3>1. op'[q] = op[q]
      BY DEF NoOp
    <3>2. op[q].path \in Paths
      BY <3>1, <1>0 DEF TypeOK, Op, NoOp, Paths
    <3> QED
      BY <3>1, <3>2, <1>3 DEF BasesMet
  <2>4. \A q \in Req : pc'[q] \in {"quota", "write"} /\ op'[q].expect > 0
                         => seen'[q].ver = op'[q].expect
    BY <1>1 DEF BasesMet
  <2> QED
    BY <2>1, <2>2, <2>3, <2>4 DEF BasesMet
<1>15. Calls'
  BY DEF Calls
<1> QED
  BY <1>5, <1>6, <1>7, <1>8, <1>9, <1>10, <1>12, <1>13, <1>14, <1>15

\* A transaction opens, or a Delete locks its next entry.
LEMMA LocksKeepInvariant ==
    ASSUME IInv, NEW r \in Req,
           \/ \E d \in Dirs : EnsureLock(r, d)
           \/ \E f \in Files : WriteLock(r, f)
           \/ \E p \in Paths : DeleteLock(r, p)
    PROVE  IInv'
<1>1. ASSUME NEW d \in Dirs, EnsureLock(r, d) PROVE IInv'
  <2>1. d \in Paths
    BY DEF Paths
  <2> QED
    BY <1>1, <2>1, LockKeepsInvariant DEF EnsureLock
<1>2. ASSUME NEW f \in Files, WriteLock(r, f) PROVE IInv'
  <2>1. f \in Paths
    BY DEF Paths
  <2>2. op[r].kind = "write"
    <3>1. op[r] \in Op /\ op[r].kind \in {"write", "ensure"} /\ op[r].path = f
      BY <1>2 DEF WriteLock, IInv, Calls, TypeOK
    <3>2. op[r].kind = "ensure" => op[r].path \in Dirs
      BY <3>1 DEF Op, NoOp
    <3> QED
      BY <3>1, <3>2, PathsAssumption
  <2>3. /\ pc[r] = "ready" /\ op[r].path = f /\ Expected(tree[f], op[r].expect)
        /\ LockEntry(r, f)
        /\ UNCHANGED <<store, cursor, op, todo, doomed, excl, draft, dlog, issued>>
    BY <1>2 DEF WriteLock
  <2>4. Goto(r, "quota") \/ Goto(r, "write")
    BY <1>2 DEF WriteLock
  <2>5. CASE Goto(r, "quota")
    BY <2>1, <2>2, <2>3, <2>5, LockKeepsInvariant
  <2>6. CASE Goto(r, "write")
    BY <2>1, <2>2, <2>3, <2>6, LockKeepsInvariant
  <2> QED
    BY <2>4, <2>5, <2>6
<1>3. ASSUME NEW p \in Paths, DeleteLock(r, p) PROVE IInv'
  BY <1>3, LockKeepsInvariant DEF DeleteLock, IsNextDoomed
<1> QED
  BY <1>1, <1>2, <1>3

\* EnsureDirectory revives a tombstone or inserts the directory.
LEMMA EnsureStageKeepsInvariant ==
    ASSUME IInv, NEW r \in Req, EnsureRevive(r) \/ EnsureInsert(r)
    PROVE  IInv'
<1>0. TypeOK /\ at[r] \in Paths /\ tree[at[r]].ver \in Nat /\ tree[at[r]] \in Row
  BY DEF IInv, Current, EnsureRevive, EnsureInsert, TypeOK, Row
<1>1. CASE EnsureRevive(r)
  <2> DEFINE row == [ver |-> tree[at[r]].ver + 1, dead |-> FALSE, size |-> 0, blob |-> FALSE]
  <2>1. row \in Row /\ row.ver = tree[at[r]].ver + 1 /\ row.dead = FALSE
    BY <1>0 DEF Row
  <2>2. at[r] \in held[r]
    BY <1>1 DEF IInv, Current, EnsureRevive
  <2>3. held'[r] = held[r] \cup {at[r]} /\ held' = held /\ held \in [Req -> SUBSET Paths]
    BY <1>0, <1>1, <2>2 DEF EnsureRevive, TypeOK
  <2>4. Stage(r, row, "update", 0) /\ Goto(r, "commit") /\ Exists(seen[r])
    BY <1>1 DEF EnsureRevive
  <2>5. UNCHANGED <<store, op, todo, at, seen, excl, issued>> /\ doomed' = doomed /\ pc[r] = "ensure"
    BY <1>1 DEF EnsureRevive
  <2> HIDE DEF row
  <2> QED
    BY <2>1, <2>3, <2>4, <2>5, StageKeepsInvariant
<1>2. CASE EnsureInsert(r)
  <2> DEFINE row == [ver |-> 1, dead |-> FALSE, size |-> 0, blob |-> FALSE]
  <2>1. row \in Row /\ row.ver = tree[at[r]].ver + 1 /\ row.dead = FALSE
    BY <1>0, <1>2 DEF Row, EnsureInsert, Exists
  <2>2. /\ held'[r] = held[r] \cup {at[r]}
        /\ \A q \in Req \ {r} : held'[q] = held[q]
        /\ held' \in [Req -> SUBSET Paths]
    BY <1>0, <1>2 DEF EnsureInsert, TypeOK
  <2>3. Stage(r, row, "create", 0) /\ Goto(r, "commit") /\ CanLockRow(r, at[r])
    BY <1>2 DEF EnsureInsert
  <2>4. UNCHANGED <<store, op, todo, at, seen, excl, issued>> /\ doomed' = doomed /\ pc[r] = "ensure"
    BY <1>2 DEF EnsureInsert
  <2> HIDE DEF row
  <2> QED
    BY <2>1, <2>2, <2>3, <2>4, StageKeepsInvariant
<1> QED
  BY <1>1, <1>2

\* WriteEntry updates the row it locked or inserts a new one; the record
\* carries the expected version, which is the version it saw.
LEMMA WriteStageKeepsInvariant ==
    ASSUME IInv, NEW r \in Req, WriteUpdate(r) \/ WriteInsert(r)
    PROVE  IInv'
<1>0. /\ TypeOK /\ at[r] \in Paths /\ tree[at[r]].ver \in Nat /\ pc[r] = "write"
      /\ seen[r].ver \in Nat
  BY DEF IInv, Current, WriteUpdate, WriteInsert, TypeOK, Row
<1>1. op[r].kind = "write" /\ op[r].expect \in Nat /\ op[r].content \in [size : Nat, blob : BOOLEAN]
  BY <1>0, BoundsAssumption DEF IInv, Calls, TypeOK, Op, NoOp
<1>2. op[r].expect > 0 => seen[r].ver = op[r].expect
  BY <1>0 DEF IInv, BasesMet
<1>3. \A v \in Nat : Written(r, v) \in Row /\ Written(r, v).ver = v /\ Written(r, v).dead = FALSE
  BY <1>1 DEF Written, Row
<1>4. CASE WriteUpdate(r)
  <2>1. at[r] \in held[r] /\ seen[r] = tree[at[r]]
    BY <1>4 DEF IInv, Current, WriteUpdate
  <2>2. held'[r] = held[r] \cup {at[r]} /\ held' = held /\ held \in [Req -> SUBSET Paths]
    BY <1>0, <1>4, <2>1 DEF WriteUpdate, TypeOK
  <2>3. /\ Stage(r, Written(r, tree[at[r]].ver + 1), "update", op[r].expect)
        /\ Goto(r, "commit") /\ Exists(seen[r])
    BY <1>4 DEF WriteUpdate
  <2>4. UNCHANGED <<store, op, todo, at, seen, excl, issued>> /\ doomed' = doomed
    BY <1>4 DEF WriteUpdate
  <2>5. tree[at[r]].ver + 1 \in Nat
    BY <1>0
  <2>6. op[r].expect > 0 => tree[at[r]].ver + 1 = op[r].expect + 1
    BY <1>2, <2>1
  <2> QED
    BY <1>0, <1>1, <1>3, <2>2, <2>3, <2>4, <2>5, <2>6, StageKeepsInvariant
<1>5. CASE WriteInsert(r)
  <2>1. tree[at[r]].ver + 1 = 1
    BY <1>0, <1>5 DEF WriteInsert, Exists
  <2>2. ~(op[r].expect > 0)
    BY <1>0, <1>1, <1>2, <1>5 DEF WriteInsert, Exists
  <2>3. /\ held'[r] = held[r] \cup {at[r]}
        /\ \A q \in Req \ {r} : held'[q] = held[q]
        /\ held' \in [Req -> SUBSET Paths]
    BY <1>0, <1>5 DEF WriteInsert, TypeOK
  <2>4. /\ Stage(r, Written(r, 1), "create", op[r].expect)
        /\ Goto(r, "commit") /\ CanLockRow(r, at[r])
    BY <1>5 DEF WriteInsert
  <2>5. UNCHANGED <<store, op, todo, at, seen, excl, issued>> /\ doomed' = doomed
    BY <1>5 DEF WriteInsert
  <2> QED
    BY <1>0, <1>1, <1>3, <2>1, <2>2, <2>3, <2>4, <2>5, StageKeepsInvariant
<1> QED
  BY <1>4, <1>5

\* Delete tombstones the entry it locked.
LEMMA DeleteStageKeepsInvariant ==
    ASSUME IInv, NEW r \in Req, DeleteStage(r)
    PROVE  IInv'
<1>0. /\ TypeOK /\ at[r] \in Paths /\ seen[r] \in Row /\ pc[r] = "tombstone"
      /\ at[r] \in held[r] /\ seen[r] = tree[at[r]] /\ Exists(seen[r])
  BY DEF IInv, Current, DeleteStage, TypeOK
<1>1. /\ Tombstone(r) \in Row /\ Tombstone(r).dead = TRUE
      /\ Tombstone(r).ver = tree[at[r]].ver + 1
  BY <1>0 DEF Tombstone, Row
<1>2. held'[r] = held[r] \cup {at[r]} /\ held' = held /\ held \in [Req -> SUBSET Paths]
  BY <1>0 DEF DeleteStage, TypeOK
<1>3. /\ Stage(r, Tombstone(r), "delete", 0)
      /\ Goto(r, IF doomed[r] = {at[r]} THEN "commit" ELSE "delete")
      /\ doomed' = [doomed EXCEPT ![r] = @ \ {at[r]}]
      /\ UNCHANGED <<store, op, todo, at, seen, excl, issued>>
  BY DEF DeleteStage
<1>4. PICK where \in {"commit", "delete"} :
          Goto(r, where) /\ (where = "commit" => doomed[r] = {at[r]})
  BY <1>3
<1>5. \A q \in Req \ {r} : held'[q] = held[q]
  BY <1>2
<1>6. Stage(r, Tombstone(r), "delete", 0) /\ 0 \in Nat /\ ~(0 > 0)
  BY <1>3
<1> QED
  BY <1>0, <1>1, <1>2, <1>3, <1>4, <1>5, <1>6, StageKeepsInvariant

\* COMMIT, of the last transaction of a call or of one before it.
LEMMA CommitsKeepInvariant ==
    ASSUME IInv, NEW r \in Req, CommitLast(r) \/ CommitParent(r)
    PROVE  IInv'
<1>0. TypeOK /\ Publish(r) /\ Release(r) /\ pc[r] = "commit"
  BY DEF IInv, CommitLast, CommitParent, Return
<1>1. /\ tree' \in [Paths -> Row] /\ log' \subseteq Change /\ cursor' \in Nat
      /\ issued' \in Nat
  BY <1>0 DEF TypeOK, Publish
<1>2. /\ at' \in [Req -> Paths \cup {NoPath}] /\ seen' \in [Req -> Row]
      /\ held' \in [Req -> SUBSET Paths] /\ excl' \in [Req -> BOOLEAN]
      /\ draft' \in [Req -> [Paths -> Row]] /\ dlog' \in [Req -> SUBSET Change]
  BY <1>0 DEF TypeOK, Release, NoDraft, Absent, Row
<1>3. doomed[r] = {}
  BY <1>0 DEF IInv, Doomed
<1>4. CASE CommitLast(r)
  <2>1. /\ pc' = [pc EXCEPT ![r] = "idle"] /\ op' = [op EXCEPT ![r] = NoOp]
        /\ todo' = [todo EXCEPT ![r] = << >>] /\ doomed' = [doomed EXCEPT ![r] = {}]
    BY <1>4 DEF CommitLast, Return, Goto
  <2>2. TypeOK'
    BY <1>0, <1>1, <1>2, <2>1 DEF TypeOK, Positions, Op
  <2>3. /\ pc'[r] = "idle" /\ op'[r] = NoOp /\ doomed'[r] = {}
        /\ \A q \in Req \ {r} : /\ pc'[q] = pc[q] /\ op'[q] = op[q]
                                /\ todo'[q] = todo[q] /\ doomed'[q] = doomed[q]
    BY <1>0, <2>1 DEF TypeOK
  <2> QED
    BY <1>0, <2>2, <2>3, CommitKeepsInvariant
<1>5. CASE CommitParent(r)
  <2>1. /\ pc' = [pc EXCEPT ![r] = "ready"] /\ op' = op /\ doomed' = doomed
        /\ todo' = [todo EXCEPT ![r] = Tail(@)] /\ todo[r] # << >>
    BY <1>5 DEF CommitParent, Goto, LastTransaction
  <2>2. TypeOK'
    BY <1>0, <1>1, <1>2, <2>1 DEF TypeOK, Positions
  <2>3. /\ pc'[r] = "ready" /\ op'[r] = op[r] /\ doomed'[r] = {}
        /\ \A q \in Req \ {r} : /\ pc'[q] = pc[q] /\ op'[q] = op[q]
                                /\ todo'[q] = todo[q] /\ doomed'[q] = doomed[q]
    BY <1>0, <1>3, <2>1 DEF TypeOK
  <2> QED
    BY <1>0, <2>1, <2>2, <2>3, CommitKeepsInvariant
<1> QED
  BY <1>4, <1>5

\* A call starts.
LEMMA CallKeepsInvariant ==
    ASSUME IInv, NEW r \in Req, Call(r)
    PROVE  IInv'
<1>1. ASSUME NEW f \in Files, StartWrite(r, f) PROVE IInv'
  <2>1. PICK c \in Contents, expect \in {0, tree[f].ver} :
            Start(r, [kind |-> "write", path |-> f, content |-> c, expect |-> expect],
                  EnsureParents(f), "ready")
    BY <1>1 DEF StartWrite
  <2> DEFINE call == [kind |-> "write", path |-> f, content |-> c, expect |-> expect]
  <2>2. f \in Paths /\ tree[f].ver \in Nat
    BY DEF Paths, IInv, TypeOK, Row
  <2>3. call \in Op /\ call.kind = "write" /\ call.path = f /\ call.expect = expect
    BY <2>2 DEF Op
  <2>4. call.expect > 0 => Exists(tree[call.path])
    BY <2>2, <2>3 DEF Exists
  <2> HIDE DEF call
  <2>5. Start(r, call, EnsureParents(f), "ready")
    BY <2>1 DEF call
  <2> QED
    BY <2>3, <2>4, <2>5, StartKeepsInvariant
<1>2. ASSUME NEW d \in Dirs, StartEnsure(r, d) PROVE IInv'
  <2> DEFINE call == [kind |-> "ensure", path |-> d]
  <2>1. call \in Op /\ call.kind = "ensure" /\ Start(r, call, EnsurePlan(d), "ready")
    BY <1>2 DEF Op, StartEnsure
  <2> HIDE DEF call
  <2> QED
    BY <2>1, StartKeepsInvariant
<1>3. ASSUME NEW p \in Paths, StartDelete(r, p) PROVE IInv'
  <2> DEFINE call == [kind |-> "delete", path |-> p]
  <2>1. call \in Op /\ call.kind = "delete" /\ Start(r, call, << >>, "list")
    BY <1>3 DEF Op, StartDelete
  <2> HIDE DEF call
  <2> QED
    BY <2>1, StartKeepsInvariant
<1> QED
  BY <1>1, <1>2, <1>3 DEF Call

\* A call fails: it lost a race, met a conflict, a full quota or nothing to
\* delete, was cancelled, or PostgreSQL ended it to break a deadlock.
LEMMA FailuresKeepInvariant ==
    ASSUME IInv, NEW r \in Req,
           \/ EnsureLostRace(r)
           \/ \E f \in Files : WriteConflict(r, f)
           \/ QuotaRefuse(r) \/ WriteLostRace(r) \/ DeleteNotFound(r)
           \/ Cancel(r) \/ DeadlockVictim(r)
    PROVE  IInv'
<1>1. Fail(r) /\ cursor' \in {cursor, cursor + 1}
  BY DEF EnsureLostRace, WriteConflict, QuotaRefuse, WriteLostRace, DeleteNotFound,
         Cancel, DeadlockVictim
<1> QED
  BY <1>1, FailKeepsInvariant

\* Every step keeps the invariant.
LEMMA StepKeepsInvariant == IInv /\ [Next]_vars => IInv'
<1> SUFFICES ASSUME IInv, [Next]_vars PROVE IInv'
  OBVIOUS
<1>1. ASSUME NEW r \in Req, Call(r) PROVE IInv'
  BY <1>1, CallKeepsInvariant
<1>2. ASSUME NEW r \in Req, Ensure(r) PROVE IInv'
  BY <1>2, LocksKeepInvariant, EnsureKeepKeepsInvariant, EnsureStageKeepsInvariant,
     FailuresKeepInvariant DEF Ensure
<1>3. ASSUME NEW r \in Req, Write(r) PROVE IInv'
  BY <1>3, LocksKeepInvariant, QuotaKeepsInvariant, WriteStageKeepsInvariant,
     FailuresKeepInvariant DEF Write
<1>4. ASSUME NEW r \in Req, Delete(r) PROVE IInv'
  BY <1>4, ListKeepsInvariant, LocksKeepInvariant, DeleteStageKeepsInvariant,
     FailuresKeepInvariant DEF Delete
<1>5. ASSUME NEW r \in Req, CommitLast(r) \/ CommitParent(r) PROVE IInv'
  BY <1>5, CommitsKeepInvariant
<1>6. ASSUME NEW r \in Req, Cancel(r) \/ DeadlockVictim(r) PROVE IInv'
  BY <1>6, FailuresKeepInvariant
<1>7. CASE UNCHANGED vars
  BY <1>7 DEF vars, store, txvars, IInv, TypeOK, Locks, Current, Doomed, Drafts, Recorded,
     HistoryComplete, Records, CursorOrder, CursorsDrawn, BasesMet, Calls
<1> QED
  BY <1>1, <1>2, <1>3, <1>4, <1>5, <1>6, <1>7 DEF Next, Progress

-----------------------------------------------------------------------------
(* The theorems. *)

\* In every behaviour of the file tree its invariant always holds.
THEOREM InvariantHolds == Spec => []IInv
<1> QED
  BY InitInvariant, StepKeepsInvariant, PTL DEF Spec

\* Rows, records and requests always have their types.
THEOREM TypeCorrect == Spec => []TypeOK
<1>1. IInv => TypeOK
  BY DEF IInv
<1> QED
  BY <1>1, InvariantHolds, PTL

\* The change log is always the complete history of every path, under any
\* interleaving of writes, ensures and deletes, with any of them failing.
THEOREM HistoryCorrect == Spec => []HistoryComplete
<1>1. IInv => HistoryComplete
  BY DEF IInv
<1> QED
  BY <1>1, InvariantHolds, PTL

\* The cursors of one path's records are always in the order of its versions.
THEOREM CursorsCorrect == Spec => []CursorOrder
<1>1. IInv => CursorOrder
  BY DEF IInv
<1> QED
  BY <1>1, InvariantHolds, PTL

\* At most one of the writes that expect the same version of a path succeeds.
THEOREM OneWinner == Spec => []OptimisticWinner
<1>1. ASSUME IInv PROVE OptimisticWinner
  <2> SUFFICES ASSUME NEW c \in log, NEW e \in log, c.base > 0
               PROVE  /\ c.ver = c.base + 1
                      /\ c.path = e.path /\ c.base = e.base => c = e
    BY DEF OptimisticWinner
  <2>1. c.ver = c.base + 1 /\ (e.base = c.base => e.ver = c.ver)
    BY <1>1 DEF IInv, BasesMet
  <2>2. c.path \in Paths
    BY <1>1 DEF IInv, TypeOK, Change
  <2>3. c.path = e.path /\ c.ver = e.ver => c = e
    BY <1>1, <2>2 DEF IInv, HistoryComplete, Records
  <2> QED
    BY <2>1, <2>3
<1> QED
  BY <1>1, InvariantHolds, PTL

-----------------------------------------------------------------------------
(* The directories above every row exist.  The proof has two parts.  The     *)
(* first is about data: the plan of EnsureParents names the parents of a     *)
(* path, each of them after its own parents, however deep the path is.  The  *)
(* second carries from step to step that a request stages no row before      *)
(* what is above it has been committed.                                      *)

\* In a sequence of directories each one comes after all that are above it.
InOrder(s) == \A i \in 1 .. Len(s) : \A d \in Above(s[i]) : \E j \in 1 .. i - 1 : s[j] = d

\* The sequence names the first k directories above p.
Names(s, p, k) == \A i \in 1 .. k : \E j \in 1 .. Len(s) : s[j] = Parents[p][i]

\* plan has the plans for the first n directories above p, as EnsureParents
\* defines them.
IsPlan(plan, p, n) ==
    plan = [k \in 0 .. n |-> IF k = 0 THEN << >>
                             ELSE plan[k - 1] \o plan[k - 1] \o <<Parents[p][k]>>]

\* What is above the k-th directory above p is the k - 1 directories before it.
LEMMA AboveParent ==
    ASSUME NEW p \in Paths, NEW k \in 1 .. Len(Parents[p])
    PROVE  /\ Parents[p][k] \in Dirs
           /\ Above(Parents[p][k]) = {Parents[p][i] : i \in 1 .. k - 1}
<1>1. Parents[p] \in Seq(Dirs) /\ k \in Nat
  BY PathsAssumption
<1>2. Parents[p][k] \in Dirs
  BY <1>1, ElementOfSeq
<1>3. Parents[Parents[p][k]] = SubSeq(Parents[p], 1, k - 1)
  BY PathsAssumption
<1>4. /\ DOMAIN SubSeq(Parents[p], 1, k - 1) = 1 .. k - 1
      /\ \A i \in 1 .. k - 1 : SubSeq(Parents[p], 1, k - 1)[i] = Parents[p][i]
  BY <1>1, SubSeqProperties
<1> DEFINE sub == SubSeq(Parents[p], 1, k - 1)
<1>5. Above(Parents[p][k]) = {sub[i] : i \in DOMAIN sub}
  BY <1>3 DEF Above
<1> HIDE DEF sub
<1>6. {sub[i] : i \in DOMAIN sub} = {Parents[p][i] : i \in 1 .. k - 1}
  BY <1>4 DEF sub
<1> QED
  BY <1>2, <1>5, <1>6

\* The plans for one directory more: the plan so far twice, then the directory.
LEMMA PlanGrows ==
    ASSUME NEW p \in Paths, NEW k \in 1 .. Len(Parents[p]), NEW s \in Seq(Dirs),
           InOrder(s), Names(s, p, k - 1)
    PROVE  LET t == s \o s \o <<Parents[p][k]>>
           IN  t \in Seq(Dirs) /\ InOrder(t) /\ Names(t, p, k)
<1> DEFINE d == Parents[p][k]
           n == Len(s)
           t == s \o s \o <<d>>
<1>1. d \in Dirs /\ Above(d) = {Parents[p][i] : i \in 1 .. k - 1} /\ n \in Nat
  BY AboveParent, LenProperties
<1>2. /\ t \in Seq(Dirs) /\ Len(t) = n + n + 1
      /\ \A i \in 1 .. n : t[i] = s[i]
      /\ \A i \in 1 .. n : t[n + i] = s[i]
      /\ t[n + n + 1] = d
  BY <1>1
<1> HIDE DEF t, d
<1>3. InOrder(t)
  <2> SUFFICES ASSUME NEW i \in 1 .. Len(t), NEW e \in Above(t[i])
               PROVE  \E j \in 1 .. i - 1 : t[j] = e
    BY DEF InOrder
  <2>1. CASE i \in 1 .. n
    <3>1. PICK j \in 1 .. i - 1 : s[j] = e
      BY <1>2, <2>1 DEF InOrder
    <3> QED
      BY <1>1, <1>2, <2>1, <3>1
  <2>2. CASE i \in n + 1 .. n + n
    <3>1. i - n \in 1 .. n /\ t[n + (i - n)] = s[i - n] /\ n + (i - n) = i
      BY <1>1, <1>2, <2>2
    <3>2. PICK j \in 1 .. (i - n) - 1 : s[j] = e
      BY <3>1 DEF InOrder
    <3>3. j \in 1 .. n /\ j \in 1 .. i - 1
      BY <1>1, <2>2, <3>2
    <3> QED
      BY <1>2, <3>2, <3>3
  <2>3. CASE i = n + n + 1
    <3>1. PICK m \in 1 .. k - 1 : e = Parents[p][m]
      BY <1>1, <1>2, <2>3
    <3>2. PICK j \in 1 .. n : s[j] = e
      BY <3>1 DEF Names
    <3> QED
      BY <1>1, <1>2, <2>3, <3>2
  <2> QED
    BY <1>1, <1>2, <2>1, <2>2, <2>3
<1>4. Names(t, p, k)
  <2> SUFFICES ASSUME NEW i \in 1 .. k PROVE \E j \in 1 .. Len(t) : t[j] = Parents[p][i]
    BY DEF Names
  <2>1. CASE i = k
    BY <1>1, <1>2, <2>1 DEF d
  <2>2. CASE i # k
    <3>1. i \in 1 .. k - 1
      BY <2>2
    <3>2. PICK j \in 1 .. n : s[j] = Parents[p][i]
      BY <3>1 DEF Names
    <3> QED
      BY <1>1, <1>2, <3>2
  <2> QED
    BY <2>1, <2>2
<1> QED
  BY <1>2, <1>3, <1>4 DEF t, d

\* There is such a function plan: the recursion of EnsureParents is well defined.
LEMMA PlanExists ==
    ASSUME NEW p \in Paths
    PROVE  \E plan : IsPlan(plan, p, Len(Parents[p]))
<1> DEFINE n == Len(Parents[p])
           Bad == {m \in 0 .. n : ~\E plan : IsPlan(plan, p, m)}
<1>0. n \in Nat
  BY PathsAssumption
<1> HIDE DEF n
<1>1. SUFFICES ASSUME Bad # {} PROVE FALSE
  BY <1>0 DEF n
<1>2. PICK m \in Bad : \A k \in Bad : m <= k
  <2>1. Bad \in SUBSET Nat
    BY <1>0
  <2> HIDE DEF Bad
  <2> QED
    BY <1>1, <2>1, LeastNatural
<1>3. CASE m = 0
  <2>1. IsPlan([k \in 0 .. 0 |-> << >>], p, 0)
    BY DEF IsPlan
  <2> QED
    BY <1>3, <2>1
<1>4. CASE m # 0
  <2>1. m - 1 \in 0 .. n /\ m - 1 \notin Bad
    BY <1>0, <1>2, <1>4
  <2>2. PICK plan : IsPlan(plan, p, m - 1)
    BY <2>1
  <2> DEFINE longer == [k \in 0 .. m |-> IF k = m
                           THEN plan[m - 1] \o plan[m - 1] \o <<Parents[p][m]>> ELSE plan[k]]
  <2>3. \A k \in 0 .. m - 1 :
            plan[k] = IF k = 0 THEN << >> ELSE plan[k - 1] \o plan[k - 1] \o <<Parents[p][k]>>
    BY <2>2 DEF IsPlan
  <2>4. \A k \in 0 .. m :
            longer[k] = IF k = 0 THEN << >>
                        ELSE longer[k - 1] \o longer[k - 1] \o <<Parents[p][k]>>
    BY <1>0, <1>4, <2>3
  <2>5. IsPlan(longer, p, m)
    BY <2>4 DEF IsPlan
  <2> QED
    BY <2>5
<1> QED
  BY <1>3, <1>4

\* EnsureParents ensures all directories above a path, each after its parents.
LEMMA PlanIsInOrder ==
    ASSUME NEW p \in Paths
    PROVE  /\ EnsureParents(p) \in Seq(Dirs)
           /\ InOrder(EnsureParents(p))
           /\ \A d \in Above(p) : \E j \in 1 .. Len(EnsureParents(p)) : EnsureParents(p)[j] = d
<1> DEFINE n    == Len(Parents[p])
           plan == CHOOSE f : IsPlan(f, p, n)
           Bad  == {m \in 0 .. n : ~(/\ plan[m] \in Seq(Dirs) /\ InOrder(plan[m])
                                     /\ Names(plan[m], p, m))}
<1>1. EnsureParents(p) = plan[n]
  BY DEF EnsureParents, IsPlan
<1>2. IsPlan(plan, p, n)
  BY PlanExists
<1>3. n \in Nat /\ Parents[p] \in Seq(Dirs)
  BY PathsAssumption
<1> HIDE DEF plan
<1>4. \A k \in 0 .. n :
          plan[k] = IF k = 0 THEN << >> ELSE plan[k - 1] \o plan[k - 1] \o <<Parents[p][k]>>
  BY <1>2 DEF IsPlan
<1>5. Bad = {}
  <2>1. SUFFICES ASSUME Bad # {} PROVE FALSE
    OBVIOUS
  <2>2. PICK m \in Bad : \A k \in Bad : m <= k
    <3>1. Bad \in SUBSET Nat
      BY <1>3
    <3> HIDE DEF Bad
    <3> QED
      BY <2>1, <3>1, LeastNatural
  <2>3. CASE m = 0
    <3>1. plan[m] = << >>
      BY <1>3, <1>4, <2>3
    <3>2. << >> \in Seq(Dirs) /\ InOrder(<< >>) /\ Names(<< >>, p, 0)
      BY DEF InOrder, Names
    <3> QED
      BY <2>3, <3>1, <3>2
  <2>4. CASE m # 0
    <3>1. m \in 1 .. n /\ m - 1 \in 0 .. n /\ m - 1 \notin Bad
      BY <1>3, <2>2, <2>4
    <3>2. plan[m] = plan[m - 1] \o plan[m - 1] \o <<Parents[p][m]>>
      BY <1>3, <1>4, <2>4, <3>1
    <3>3. /\ plan[m - 1] \in Seq(Dirs) /\ InOrder(plan[m - 1])
          /\ Names(plan[m - 1], p, m - 1)
      BY <3>1
    <3> QED
      BY <3>1, <3>2, <3>3, PlanGrows
  <2> QED
    BY <2>3, <2>4
<1>6. plan[n] \in Seq(Dirs) /\ InOrder(plan[n]) /\ Names(plan[n], p, n)
  BY <1>3, <1>5
<1>7. \A d \in Above(p) : \E i \in 1 .. n : d = Parents[p][i]
  BY <1>3 DEF Above
<1> QED
  BY <1>1, <1>6, <1>7 DEF Names

-----------------------------------------------------------------------------
(* What a request does next has its parents. *)

\* The directories above p are there.
Parented(p) == \A d \in Above(p) : Exists(tree[d])

\* What request r still has to ensure or to write has its parents, or ensures
\* them first; what it has staged has them, and when it commits a directory on
\* its way to the next path then it has staged that directory.
Ahead(r) ==
    /\ todo[r] \in Seq(Dirs)
    /\ \A i \in 1 .. Len(todo[r]) : \A d \in Above(todo[r][i]) :
          Exists(tree[d]) \/ \E j \in 1 .. i - 1 : todo[r][j] = d
    /\ op[r].kind = "write" =>
          \A d \in Above(op[r].path) :
              Exists(tree[d]) \/ \E j \in 1 .. Len(todo[r]) : todo[r][j] = d
    /\ pc[r] = "ensure" => todo[r] # << >> /\ at[r] = Head(todo[r])
    /\ pc[r] \in {"quota", "write"} => todo[r] = << >> /\ at[r] = op[r].path
    /\ pc[r] = "commit" /\ todo[r] # << >> => Exists(draft[r][Head(todo[r])])
    /\ \A p \in Paths : Exists(draft[r][p]) => Parented(p)

ParentsIInv == ParentsExist /\ \A r \in Req : Ahead(r)

RowsStay == \A p \in Paths : Exists(tree[p]) => Exists(tree'[p])

\* The directories above a path are paths.
LEMMA AbovePaths ==
    ASSUME NEW p \in Paths
    PROVE  Above(p) \subseteq Dirs /\ Dirs \subseteq Paths
<1>1. Parents[p] \in Seq(Dirs)
  BY PathsAssumption
<1> QED
  BY <1>1, ElementOfSeq DEF Above, Paths

\* A step of another request takes nothing away from q.
LEMMA OthersStayAhead ==
    ASSUME IInv, NEW q \in Req, Ahead(q), RowsStay,
           pc'[q] = pc[q], op'[q] = op[q], todo'[q] = todo[q],
           at'[q] = at[q], draft'[q] = draft[q]
    PROVE  Ahead(q)'
<1>1. ASSUME NEW i \in 1 .. Len(todo[q]), NEW d \in Above(todo[q][i]), Exists(tree[d])
      PROVE  Exists(tree'[d])
  <2>1. todo[q][i] \in Paths
    BY ElementOfSeq DEF Ahead, Paths
  <2> QED
    BY <1>1, <2>1, AbovePaths DEF RowsStay
<1>2. ASSUME op[q].kind = "write", NEW d \in Above(op[q].path), Exists(tree[d])
      PROVE  Exists(tree'[d])
  <2>1. op[q].path \in Paths
    BY <1>2 DEF IInv, TypeOK, Op, NoOp, Paths
  <2> QED
    BY <1>2, <2>1, AbovePaths DEF RowsStay
<1>3. ASSUME NEW p \in Paths, NEW d \in Above(p), Exists(tree[d]) PROVE Exists(tree'[d])
  BY <1>3, AbovePaths DEF RowsStay
<1> QED
  BY <1>1, <1>2, <1>3 DEF Ahead, Parented

\* Initially there are no rows and no requests.
LEMMA InitParents == Init => ParentsIInv
<1> SUFFICES ASSUME Init PROVE ParentsIInv
  OBVIOUS
<1>1. ParentsExist
  BY DEF Init, ParentsExist, Exists, Absent
<1>2. ASSUME NEW r \in Req PROVE Ahead(r)
  <2>1. /\ todo[r] = << >> /\ op[r].kind = "none" /\ pc[r] = "idle"
        /\ \A p \in Paths : ~Exists(draft[r][p])
    BY DEF Init, NoOp, NoDraft, Absent, Exists
  <2> QED
    BY <2>1 DEF Ahead
<1> QED
  BY <1>1, <1>2 DEF ParentsIInv

\* A step that changes no row keeps the rows' parents, and only the request
\* that moves has to be looked at.
LEMMA QuietKeepsParents ==
    ASSUME IInv, ParentsIInv, NEW r \in Req, tree' = tree, Ahead(r)',
           \A q \in Req \ {r} : /\ pc'[q] = pc[q] /\ op'[q] = op[q] /\ todo'[q] = todo[q]
                                /\ at'[q] = at[q] /\ draft'[q] = draft[q]
    PROVE  ParentsIInv'
<1>1. RowsStay
  BY DEF RowsStay
<1>2. \A q \in Req \ {r} : Ahead(q)'
  BY <1>1, OthersStayAhead DEF ParentsIInv
<1> QED
  BY <1>2 DEF ParentsIInv, ParentsExist

\* A call fails.
LEMMA FailKeepsParents ==
    ASSUME IInv, ParentsIInv, NEW r \in Req, Fail(r)
    PROVE  ParentsIInv'
<1>0. TypeOK
  BY DEF IInv
<1>1. /\ todo'[r] = << >> /\ op'[r].kind = "none" /\ pc'[r] = "idle" /\ tree' = tree
      /\ \A p \in Paths : ~Exists(draft'[r][p])
      /\ \A q \in Req \ {r} : /\ pc'[q] = pc[q] /\ op'[q] = op[q] /\ todo'[q] = todo[q]
                              /\ at'[q] = at[q] /\ draft'[q] = draft[q]
  BY <1>0 DEF Fail, Return, Release, Goto, TypeOK, NoOp, NoDraft, Absent, Exists, store
<1>2. Ahead(r)'
  BY <1>1 DEF Ahead
<1> QED
  BY <1>1, <1>2, QuietKeepsParents

\* A call starts with a plan in which each directory comes after its parents.
LEMMA StartKeepsParents ==
    ASSUME IInv, ParentsIInv, NEW r \in Req, NEW call, NEW plan \in Seq(Dirs), NEW where,
           Start(r, call, plan, where), where \in {"ready", "list"}, InOrder(plan),
           call.kind = "write" =>
               \A d \in Above(call.path) : \E j \in 1 .. Len(plan) : plan[j] = d
    PROVE  ParentsIInv'
<1>0. TypeOK
  BY DEF IInv
<1>1. /\ pc[r] = "idle" /\ pc'[r] = where /\ todo'[r] = plan /\ op'[r] = call
      /\ tree' = tree /\ draft' = draft
      /\ \A q \in Req \ {r} : /\ pc'[q] = pc[q] /\ op'[q] = op[q] /\ todo'[q] = todo[q]
                              /\ at'[q] = at[q] /\ draft'[q] = draft[q]
  BY <1>0 DEF Start, Goto, TypeOK, store, txvars
<1>2. \A p \in Paths : ~Exists(draft[r][p])
  BY <1>1 DEF IInv, Locks, BeforeStage, NoDraft, Absent, Exists
<1>3. Ahead(r)'
  <2>1. /\ todo'[r] \in Seq(Dirs)
        /\ \A i \in 1 .. Len(todo'[r]) : \A d \in Above(todo'[r][i]) :
              \E j \in 1 .. i - 1 : todo'[r][j] = d
        /\ op'[r].kind = "write" =>
              \A d \in Above(op'[r].path) : \E j \in 1 .. Len(todo'[r]) : todo'[r][j] = d
    BY <1>1 DEF InOrder
  <2>2. pc'[r] \notin {"ensure", "quota", "write", "commit"}
    BY <1>1
  <2>3. \A p \in Paths : ~Exists(draft'[r][p])
    BY <1>1, <1>2
  <2> QED
    BY <2>1, <2>2, <2>3 DEF Ahead
<1> QED
  BY <1>1, <1>3, QuietKeepsParents

\* EnsureParents for a write, the parents and the directory for an ensure.
LEMMA CallKeepsParents ==
    ASSUME IInv, ParentsIInv, NEW r \in Req, Call(r)
    PROVE  ParentsIInv'
<1>1. ASSUME NEW f \in Files, StartWrite(r, f) PROVE ParentsIInv'
  <2>1. PICK c \in Contents, expect \in {0, tree[f].ver} :
            Start(r, [kind |-> "write", path |-> f, content |-> c, expect |-> expect],
                  EnsureParents(f), "ready")
    BY <1>1 DEF StartWrite
  <2> DEFINE call == [kind |-> "write", path |-> f, content |-> c, expect |-> expect]
  <2>2. call.path = f
    OBVIOUS
  <2>3. Start(r, call, EnsureParents(f), "ready")
    BY <2>1
  <2>4. f \in Paths
    BY DEF Paths
  <2> HIDE DEF call
  <2> QED
    BY <2>2, <2>3, <2>4, PlanIsInOrder, StartKeepsParents
<1>2. ASSUME NEW d \in Dirs, StartEnsure(r, d) PROVE ParentsIInv'
  <2> DEFINE call  == [kind |-> "ensure", path |-> d]
             first == EnsureParents(d)
  <2>1. d \in Paths
    BY DEF Paths
  <2>2. /\ first \in Seq(Dirs) /\ InOrder(first)
        /\ \A e \in Above(d) : \E j \in 1 .. Len(first) : first[j] = e
    BY <2>1, PlanIsInOrder
  <2>3. Start(r, call, Append(first, d), "ready") /\ call.kind = "ensure"
    BY <1>2 DEF StartEnsure, EnsurePlan
  <2> HIDE DEF call, first
  <2>4. /\ Append(first, d) \in Seq(Dirs) /\ Len(Append(first, d)) = Len(first) + 1
        /\ Len(first) \in Nat
        /\ \A i \in 1 .. Len(first) : Append(first, d)[i] = first[i]
        /\ Append(first, d)[Len(first) + 1] = d
    BY <2>2, AppendProperties, LenProperties
  <2>5. InOrder(Append(first, d))
    <3> DEFINE plan == Append(first, d)
    <3> SUFFICES ASSUME NEW i \in 1 .. Len(plan), NEW e \in Above(plan[i])
                 PROVE  \E j \in 1 .. i - 1 : plan[j] = e
      BY DEF InOrder
    <3> HIDE DEF plan
    <3>1. CASE i \in 1 .. Len(first)
      <4>1. plan[i] = first[i]
        BY <3>1, <2>4 DEF plan
      <4>2. PICK j \in 1 .. i - 1 : first[j] = e
        BY <3>1, <4>1, <2>2 DEF InOrder
      <4>3. j \in 1 .. Len(first)
        BY <3>1, <4>2, <2>4
      <4> QED
        BY <4>2, <4>3, <2>4 DEF plan
    <3>2. CASE i = Len(first) + 1
      <4>1. plan[i] = d
        BY <3>2, <2>4 DEF plan
      <4>2. PICK j \in 1 .. Len(first) : first[j] = e
        BY <4>1, <2>2
      <4> QED
        BY <3>2, <4>2, <2>4 DEF plan
    <3> QED
      BY <3>1, <3>2, <2>4 DEF plan
  <2> QED
    BY <2>3, <2>4, <2>5, StartKeepsParents
<1>3. ASSUME NEW p \in Paths, StartDelete(r, p) PROVE ParentsIInv'
  <2> DEFINE call == [kind |-> "delete", path |-> p]
  <2>1. call.kind = "delete" /\ Start(r, call, << >>, "list")
    BY <1>3 DEF StartDelete
  <2>2. << >> \in Seq(Dirs) /\ InOrder(<< >>)
    BY DEF InOrder
  <2> HIDE DEF call
  <2> QED
    BY <2>1, <2>2, StartKeepsParents
<1> QED
  BY <1>1, <1>2, <1>3 DEF Call

\* lockEntry has read the row of the next path, or the quota check has passed.
LEMMA LocksKeepParents ==
    ASSUME IInv, ParentsIInv, NEW r \in Req,
           \/ \E d \in Dirs : EnsureLock(r, d)
           \/ \E f \in Files : WriteLock(r, f)
           \/ \E p \in Paths : DeleteLock(r, p)
           \/ QuotaPass(r) \/ DeleteList(r)
    PROVE  ParentsIInv'
<1> USE DEF Goto, LockEntry, store, txvars
<1>0. TypeOK /\ Ahead(r)
  BY DEF IInv, ParentsIInv
<1>1. CASE \E d \in Dirs : EnsureLock(r, d)
  <2>1. /\ pc'[r] = "ensure" /\ todo[r] # << >> /\ at'[r] = Head(todo[r])
        /\ op' = op /\ todo' = todo /\ tree' = tree /\ draft' = draft
        /\ \A q \in Req \ {r} : pc'[q] = pc[q] /\ at'[q] = at[q]
    BY <1>0, <1>1 DEF EnsureLock, TypeOK
  <2>2. Ahead(r)'
    BY <1>0, <2>1 DEF Ahead, Parented
  <2> QED
    BY <2>1, <2>2, QuietKeepsParents
<1>2. CASE \E f \in Files : WriteLock(r, f)
  <2>1. /\ pc'[r] \in {"quota", "write"} /\ todo[r] = << >> /\ at'[r] = op[r].path
        /\ op' = op /\ todo' = todo /\ tree' = tree /\ draft' = draft
        /\ \A q \in Req \ {r} : pc'[q] = pc[q] /\ at'[q] = at[q]
    BY <1>0, <1>2 DEF WriteLock, TypeOK
  <2>2. /\ \A p \in Paths : Exists(draft[r][p]) => Parented(p)
        /\ op[r].kind = "write" => \A d \in Above(op[r].path) : Exists(tree[d])
    BY <1>0, <2>1 DEF Ahead
  <2>3. /\ \A p \in Paths : Exists(draft'[r][p]) => Parented(p)'
        /\ op'[r].kind = "write" => \A d \in Above(op'[r].path) : Exists(tree'[d])
    BY <2>1, <2>2 DEF Parented
  <2>4. pc'[r] \notin {"ensure", "commit"} /\ todo'[r] = << >> /\ at'[r] = op'[r].path
    BY <2>1
  <2>5. Ahead(r)'
    BY <2>3, <2>4 DEF Ahead
  <2> QED
    BY <2>1, <2>5, QuietKeepsParents
<1>3. CASE (\E p \in Paths : DeleteLock(r, p)) \/ DeleteList(r)
  <2>1. /\ pc'[r] \in {"tombstone", "delete"}
        /\ op' = op /\ todo' = todo /\ tree' = tree /\ draft' = draft
        /\ \A q \in Req \ {r} : pc'[q] = pc[q] /\ at'[q] = at[q]
    BY <1>0, <1>3 DEF DeleteLock, DeleteList, TypeOK
  <2>2. Ahead(r)'
    BY <1>0, <2>1 DEF Ahead, Parented
  <2> QED
    BY <2>1, <2>2, QuietKeepsParents
<1>4. CASE QuotaPass(r)
  <2>1. /\ pc[r] = "quota" /\ pc'[r] = "write" /\ at' = at
        /\ op' = op /\ todo' = todo /\ tree' = tree /\ draft' = draft
        /\ \A q \in Req \ {r} : pc'[q] = pc[q]
    BY <1>0, <1>4 DEF QuotaPass, TypeOK
  <2>2. todo[r] = << >> /\ at[r] = op[r].path
    BY <1>0, <2>1 DEF Ahead
  <2>3. Ahead(r)'
    BY <1>0, <2>1, <2>2 DEF Ahead, Parented
  <2> QED
    BY <2>1, <2>3, QuietKeepsParents
<1> QED
  BY <1>1, <1>2, <1>3, <1>4

\* A row is staged at a path whose parents are there.
LEMMA StageKeepsParents ==
    ASSUME IInv, ParentsIInv, NEW r \in Req, NEW row, NEW where \in {"commit", "delete"},
           pc[r] \in {"ensure", "write", "tombstone"},
           draft' = [draft EXCEPT ![r] = [@ EXCEPT ![at[r]] = row]], Exists(row),
           Goto(r, where), UNCHANGED <<tree, op, todo, at>>
    PROVE  ParentsIInv'
<1>0. TypeOK /\ Ahead(r) /\ ParentsExist /\ at[r] \in Paths
  BY DEF IInv, ParentsIInv, Current
<1>1. /\ \A q \in Req \ {r} : draft'[q] = draft[q] /\ pc'[q] = pc[q]
      /\ \A p \in Paths : draft'[r][p] = IF p = at[r] THEN row ELSE draft[r][p]
      /\ pc'[r] = where
  BY <1>0 DEF TypeOK, Goto
<1>2. Parented(at[r])
  <2>1. CASE pc[r] = "ensure"
    <3>1. todo[r] \in Seq(Dirs) /\ todo[r] # << >> /\ at[r] = todo[r][1] /\ 1 \in 1 .. Len(todo[r])
      BY <1>0, <2>1 DEF Ahead
    <3> QED
      BY <1>0, <3>1 DEF Ahead, Parented
  <2>2. CASE pc[r] = "write"
    <3>1. op[r].kind = "write" /\ todo[r] = << >> /\ at[r] = op[r].path
      BY <1>0, <2>2 DEF Ahead, IInv, Calls
    <3> QED
      BY <1>0, <3>1 DEF Ahead, Parented
  <2>3. CASE pc[r] = "tombstone"
    <3>1. Exists(tree[at[r]])
      BY <1>0, <2>3 DEF IInv, Current, Doomed
    <3> QED
      BY <1>0, <3>1 DEF ParentsExist, Parented
  <2> QED
    BY <2>1, <2>2, <2>3
<1>3. todo[r] # << >> => at[r] = Head(todo[r]) /\ at[r] \in Paths
  BY <1>0 DEF Ahead, IInv, Calls
<1>4. Ahead(r)'
  <2>1. \A p \in Paths : Exists(draft'[r][p]) => Parented(p)'
    BY <1>0, <1>1, <1>2 DEF Ahead, Parented
  <2>2. pc'[r] = "commit" /\ todo'[r] # << >> => Exists(draft'[r][Head(todo'[r])])
    BY <1>1, <1>3
  <2>3. pc'[r] \notin {"ensure", "quota", "write"}
    BY <1>1
  <2> QED
    BY <1>0, <2>1, <2>2, <2>3 DEF Ahead
<1> QED
  BY <1>1, <1>4, QuietKeepsParents

\* An ensure, a write or a Delete stages its row.
LEMMA StagesKeepParents ==
    ASSUME IInv, ParentsIInv, NEW r \in Req,
           \/ EnsureKeep(r) \/ EnsureRevive(r) \/ EnsureInsert(r)
           \/ WriteUpdate(r) \/ WriteInsert(r) \/ DeleteStage(r)
    PROVE  ParentsIInv'
<1>0. TypeOK /\ \A p \in Paths : tree[p] \in Row /\ tree[p].ver \in Nat
  BY DEF IInv, TypeOK, Row
<1>1. CASE EnsureKeep(r)
  <2> DEFINE row == [tree[at[r]] EXCEPT !.size = 0, !.blob = FALSE]
  <2>1. at[r] \in Paths /\ seen[r] = tree[at[r]] /\ Exists(tree[at[r]])
    BY <1>1 DEF IInv, Current, EnsureKeep, Live
  <2>2. Exists(row)
    BY <1>0, <2>1 DEF Exists, Row
  <2>3. /\ draft' = [draft EXCEPT ![r] = [@ EXCEPT ![at[r]] = row]] /\ pc[r] = "ensure"
        /\ Goto(r, "commit") /\ UNCHANGED <<tree, op, todo, at>>
    BY <1>1 DEF EnsureKeep, store
  <2> HIDE DEF row
  <2> QED
    BY <2>2, <2>3, StageKeepsParents
<1>2. ASSUME NEW row, NEW kind, NEW base, NEW where \in {"commit", "delete"},
             Stage(r, row, kind, base), row.ver > 0, Goto(r, where),
             pc[r] \in {"ensure", "write", "tombstone"}, UNCHANGED <<tree, op, todo, at>>
      PROVE  ParentsIInv'
  BY <1>2, StageKeepsParents DEF Stage, Exists
<1>3. CASE EnsureRevive(r)
  <2> DEFINE row == [ver |-> tree[at[r]].ver + 1, dead |-> FALSE, size |-> 0, blob |-> FALSE]
  <2>1. at[r] \in Paths /\ row.ver > 0
    BY <1>0, <1>3 DEF IInv, Current, EnsureRevive
  <2>2. /\ Stage(r, row, "update", 0) /\ Goto(r, "commit") /\ pc[r] = "ensure"
        /\ UNCHANGED <<tree, op, todo, at>>
    BY <1>3 DEF EnsureRevive, store
  <2> HIDE DEF row
  <2> QED
    BY <1>2, <2>1, <2>2
<1>4. CASE EnsureInsert(r)
  <2> DEFINE row == [ver |-> 1, dead |-> FALSE, size |-> 0, blob |-> FALSE]
  <2>1. row.ver > 0
    OBVIOUS
  <2>2. /\ Stage(r, row, "create", 0) /\ Goto(r, "commit") /\ pc[r] = "ensure"
        /\ UNCHANGED <<tree, op, todo, at>>
    BY <1>4 DEF EnsureInsert, store
  <2> HIDE DEF row
  <2> QED
    BY <1>2, <2>1, <2>2
<1>5. CASE WriteUpdate(r)
  <2>1. at[r] \in Paths
    BY <1>5 DEF IInv, Current, WriteUpdate
  <2>2. Written(r, tree[at[r]].ver + 1).ver > 0
    BY <1>0, <2>1 DEF Written
  <2>3. /\ Stage(r, Written(r, tree[at[r]].ver + 1), "update", op[r].expect)
        /\ Goto(r, "commit") /\ pc[r] = "write" /\ UNCHANGED <<tree, op, todo, at>>
    BY <1>5 DEF WriteUpdate, store
  <2> QED
    BY <1>2, <2>2, <2>3
<1>6. CASE WriteInsert(r)
  <2>1. Written(r, 1).ver > 0
    BY DEF Written
  <2>2. /\ Stage(r, Written(r, 1), "create", op[r].expect)
        /\ Goto(r, "commit") /\ pc[r] = "write" /\ UNCHANGED <<tree, op, todo, at>>
    BY <1>6 DEF WriteInsert, store
  <2> QED
    BY <1>2, <2>1, <2>2
<1>7. CASE DeleteStage(r)
  <2>1. Tombstone(r).ver > 0
    BY <1>0, <1>7 DEF IInv, TypeOK, Row, Tombstone
  <2>2. /\ Stage(r, Tombstone(r), "delete", 0)
        /\ Goto(r, IF doomed[r] = {at[r]} THEN "commit" ELSE "delete")
        /\ pc[r] = "tombstone" /\ UNCHANGED <<tree, op, todo, at>>
    BY <1>7 DEF DeleteStage, store
  <2>3. PICK where \in {"commit", "delete"} : Goto(r, where)
    BY <2>2
  <2> QED
    BY <1>2, <2>1, <2>2, <2>3
<1> QED
  BY <1>1, <1>3, <1>4, <1>5, <1>6, <1>7

\* A commit publishes rows whose parents are there, and of the paths that are
\* left the first has become a row.
LEMMA CommitsKeepParents ==
    ASSUME IInv, ParentsIInv, NEW r \in Req, CommitLast(r) \/ CommitParent(r)
    PROVE  ParentsIInv'
<1>0. TypeOK /\ Ahead(r) /\ ParentsExist /\ Publish(r) /\ pc[r] = "commit"
  BY DEF IInv, ParentsIInv, CommitLast, CommitParent
<1>1. \A p \in Paths : tree'[p] = IF Exists(draft[r][p]) THEN draft[r][p] ELSE tree[p]
  BY <1>0 DEF Publish
<1>2. RowsStay
  BY <1>1 DEF RowsStay
<1>3. ParentsExist'
  <2> SUFFICES ASSUME NEW p \in Paths, Exists(tree'[p]), NEW d \in Above(p)
               PROVE  Exists(tree'[d])
    BY DEF ParentsExist
  <2>1. d \in Paths
    BY AbovePaths
  <2>2. Exists(tree[d])
    BY <1>0, <1>1 DEF Ahead, Parented, ParentsExist
  <2> QED
    BY <1>2, <2>1, <2>2 DEF RowsStay
<1>4. /\ draft'[r] = NoDraft
      /\ \A q \in Req \ {r} : /\ pc'[q] = pc[q] /\ op'[q] = op[q] /\ todo'[q] = todo[q]
                              /\ at'[q] = at[q] /\ draft'[q] = draft[q]
  BY <1>0 DEF CommitLast, CommitParent, Return, Release, Goto, TypeOK
<1>5. \A p \in Paths : ~Exists(draft'[r][p])
  BY <1>4 DEF NoDraft, Absent, Exists
<1>6. Ahead(r)'
  <2>1. CASE CommitLast(r)
    <3>1. todo'[r] = << >> /\ op'[r].kind = "none" /\ pc'[r] = "idle"
      BY <1>0, <2>1 DEF CommitLast, Return, Goto, TypeOK, NoOp
    <3> QED
      BY <1>5, <3>1 DEF Ahead
  <2>2. CASE CommitParent(r)
    <3> DEFINE plan == todo[r]
               rest == Tail(plan)
    <3>1. /\ todo'[r] = rest /\ op'[r] = op[r] /\ pc'[r] = "ready" /\ plan # << >>
      BY <1>0, <2>2 DEF CommitParent, Goto, TypeOK, LastTransaction
    <3>2. /\ plan \in Seq(Dirs) /\ rest \in Seq(Dirs) /\ Len(plan) \in Nat
          /\ Len(rest) = Len(plan) - 1 /\ Head(plan) = plan[1] /\ plan[1] \in Dirs
          /\ \A i \in 1 .. Len(rest) : rest[i] = plan[i + 1]
      BY <1>0, <3>1, HeadTailProperties, LenProperties, ElementOfSeq DEF Ahead
    <3> HIDE DEF rest
    <3>3. Exists(tree'[plan[1]])
      <4>1. Exists(draft[r][plan[1]]) /\ plan[1] \in Paths
        BY <1>0, <3>1, <3>2 DEF Ahead, Paths
      <4> QED
        BY <4>1, <1>1
    <3>4. ASSUME NEW d \in Paths, NEW m \in 1 .. Len(plan),
                 Exists(tree[d]) \/ \E j \in 1 .. m : plan[j] = d
          PROVE  Exists(tree'[d]) \/ \E j \in 1 .. m - 1 : rest[j] = d
      <4>1. CASE Exists(tree[d])
        BY <4>1, <1>2 DEF RowsStay
      <4>2. ASSUME NEW j \in 1 .. m, plan[j] = d
            PROVE  Exists(tree'[d]) \/ \E i \in 1 .. m - 1 : rest[i] = d
        <5>1. CASE j = 1
          BY <4>2, <5>1, <3>3
        <5>2. CASE j # 1
          <6>1. j - 1 \in 1 .. m - 1 /\ j - 1 \in 1 .. Len(rest) /\ (j - 1) + 1 = j
            BY <5>2, <3>2
          <6> QED
            BY <6>1, <4>2, <3>2
        <5> QED
          BY <5>1, <5>2
      <4> QED
        BY <3>4, <4>1, <4>2
    <3>5. ASSUME NEW i \in 1 .. Len(rest), NEW d \in Above(rest[i])
          PROVE  Exists(tree'[d]) \/ \E j \in 1 .. i - 1 : rest[j] = d
      <4>1. i \in 1 .. Len(plan) /\ i + 1 \in 1 .. Len(plan) /\ rest[i] = plan[i + 1]
            /\ (i + 1) - 1 = i
        BY <3>2
      <4>2. d \in Paths
        <5>1. plan[i + 1] \in Paths
          BY <3>2, <4>1, ElementOfSeq DEF Paths
        <5> QED
          BY <4>1, <5>1, AbovePaths
      <4>3. Exists(tree[d]) \/ \E j \in 1 .. i : plan[j] = d
        BY <1>0, <4>1 DEF Ahead
      <4> QED
        BY <3>4, <4>1, <4>2, <4>3
    <3>6. ASSUME op[r].kind = "write", NEW d \in Above(op[r].path)
          PROVE  Exists(tree'[d]) \/ \E j \in 1 .. Len(rest) : rest[j] = d
      <4>1. op[r].path \in Paths
        BY <1>0, <3>6 DEF TypeOK, Op, NoOp, Paths
      <4>2. d \in Paths
        BY <4>1, AbovePaths
      <4>3. Exists(tree[d]) \/ \E j \in 1 .. Len(plan) : plan[j] = d
        BY <1>0, <3>6 DEF Ahead
      <4>4. Len(plan) \in 1 .. Len(plan)
        BY <3>1, <3>2
      <4> QED
        BY <3>2, <3>4, <4>2, <4>3, <4>4
    <3> QED
      BY <1>5, <3>1, <3>2, <3>5, <3>6 DEF Ahead
  <2> QED
    BY <2>1, <2>2
<1>7. \A q \in Req \ {r} : Ahead(q)'
  BY <1>2, <1>4, OthersStayAhead DEF ParentsIInv
<1> QED
  BY <1>3, <1>6, <1>7 DEF ParentsIInv

\* Every step keeps the parents.
LEMMA StepKeepsParents == IInv /\ ParentsIInv /\ [Next]_vars => ParentsIInv'
<1> SUFFICES ASSUME IInv, ParentsIInv, [Next]_vars PROVE ParentsIInv'
  OBVIOUS
<1>1. ASSUME NEW r \in Req,
             \/ EnsureLostRace(r)
             \/ \E f \in Files : WriteConflict(r, f)
             \/ QuotaRefuse(r) \/ WriteLostRace(r) \/ DeleteNotFound(r)
             \/ Cancel(r) \/ DeadlockVictim(r)
      PROVE  ParentsIInv'
  <2>1. Fail(r)
    BY <1>1 DEF EnsureLostRace, WriteConflict, QuotaRefuse, WriteLostRace, DeleteNotFound,
               Cancel, DeadlockVictim
  <2> QED
    BY <2>1, FailKeepsParents
<1>2. ASSUME NEW r \in Req, Call(r) PROVE ParentsIInv'
  BY <1>2, CallKeepsParents
<1>3. ASSUME NEW r \in Req, Ensure(r) PROVE ParentsIInv'
  BY <1>1, <1>3, LocksKeepParents, StagesKeepParents DEF Ensure
<1>4. ASSUME NEW r \in Req, Write(r) PROVE ParentsIInv'
  BY <1>1, <1>4, LocksKeepParents, StagesKeepParents DEF Write
<1>5. ASSUME NEW r \in Req, Delete(r) PROVE ParentsIInv'
  BY <1>1, <1>5, LocksKeepParents, StagesKeepParents DEF Delete
<1>6. ASSUME NEW r \in Req, CommitLast(r) \/ CommitParent(r) PROVE ParentsIInv'
  BY <1>6, CommitsKeepParents
<1>7. CASE UNCHANGED vars
  BY <1>7 DEF vars, txvars, ParentsIInv, ParentsExist, Ahead, Parented
<1> QED
  BY <1>1, <1>2, <1>3, <1>4, <1>5, <1>6, <1>7 DEF Next, Progress

\* Whatever fails or runs in between, there is never a row without rows for
\* all the directories above it.
THEOREM ParentsCorrect == Spec => []ParentsExist
<1>1. ParentsIInv => ParentsExist
  BY DEF ParentsIInv
<1>2. Spec => []ParentsIInv
  BY InitParents, StepKeepsParents, InvariantHolds, PTL DEF Spec
<1> QED
  BY <1>1, <1>2, PTL
=============================================================================
