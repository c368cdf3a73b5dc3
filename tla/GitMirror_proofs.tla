-------------------------- MODULE GitMirror_proofs --------------------------
(***************************************************************************)
(* Proofs about GitMirror for any number of clients, workers, retries and  *)
(* commits of others: types, and that only a confirmed overwrite drops     *)
(* commits of others, and only those it has fetched.                       *)
(***************************************************************************)
EXTENDS GitMirror, TLAPS

Positions == {"idle", "ask", "asking", "load", "clear", "copying", "commit",
              "fetch", "push", "store", "settle", "settling"}

LEMMA RowFields ==
    ASSUME NEW m \in Row
    PROVE  /\ m.state \in {"idle", "queued", "running", "error"}
           /\ m.later \in BOOLEAN /\ m.started \in BOOLEAN /\ m.attempts \in Nat
           /\ m.force \in BOOLEAN /\ m.conflict \in BOOLEAN
           /\ m.lastError \in BOOLEAN /\ m.pushError \in BOOLEAN
BY DEF Row

\* What MarkMirrorQueued and runQueuedMirror make of a row is a row, and only the
\* first adds a permission to overwrite.
LEMMA RowOperators ==
    ASSUME NEW m \in Row, NEW b \in BOOLEAN
    PROVE  /\ Requested(m, b) \in Row /\ Requested(m, b).force = (m.force \/ b)
           /\ Settled(m, b) \in Row /\ Settled(m, b).force = m.force
<1> DEFINE f == m.force \/ b
           c == m.conflict /\ ~b
           e == m.pushError /\ ~b
           asked  == [m EXCEPT !.later = TRUE, !.force = f, !.conflict = c, !.pushError = e]
           n == m.attempts + 1
           again  == IF m.attempts + 1 <= Retries THEN "queued" ELSE "error"
           resume == IF RequestedDuringRun(m) THEN "queued" ELSE "idle"
<1>1. /\ Requested(m, b) = IF m.state = "running" THEN asked
                            ELSE [asked EXCEPT !.state = "queued", !.attempts = 0]
      /\ Settled(m, b) = IF b THEN [m EXCEPT !.attempts = n, !.state = again]
                          ELSE [m EXCEPT !.attempts = 0, !.state = resume]
  BY Zenon DEF Requested, Settled
<1>2. /\ f \in BOOLEAN /\ c \in BOOLEAN /\ e \in BOOLEAN /\ n \in Nat
      /\ again \in {"queued", "error"} /\ resume \in {"queued", "idle"}
  BY RowFields
<1>3. f = (m.force \/ b)
  OBVIOUS
<1> HIDE DEF f, c, e, n, again, resume
<1>4. asked \in Row /\ asked.force = f
  BY <1>2, RowFields DEF Row
<1>5. [asked EXCEPT !.state = "queued", !.attempts = 0] \in Row
  BY <1>4, RowFields DEF Row
<1>6. [asked EXCEPT !.state = "queued", !.attempts = 0].force = f
  BY <1>4, RowFields DEF Row
<1> HIDE DEF asked
<1>7. Requested(m, b) \in Row /\ Requested(m, b).force = f
  BY <1>1, <1>4, <1>5, <1>6
<1>8. /\ [m EXCEPT !.attempts = n, !.state = again] \in Row
      /\ [m EXCEPT !.attempts = n, !.state = again].force = m.force
  BY <1>2, RowFields DEF Row
<1>9. /\ [m EXCEPT !.attempts = 0, !.state = resume] \in Row
      /\ [m EXCEPT !.attempts = 0, !.state = resume].force = m.force
  BY <1>2, RowFields DEF Row
<1> QED
  BY <1>1, <1>3, <1>7, <1>8, <1>9

\* The initial state satisfies the invariant.
LEMMA InitInvariant == Init => IInv
<1> SUFFICES ASSUME Init PROVE IInv
  OBVIOUS
<1>1. NewRow \in Row /\ NewRow.force = FALSE /\ NoBranch \in Branch
  BY DEF NewRow, Row, NoBranch, Branch
<1>2. TypeOK
  <2>1. commits \in Seq(Nat)
    BY DEF Init
  <2>2. /\ pc \in [Proc -> {"idle"}] /\ op \in [Proc -> {"none"}]
        /\ mine \in [Proc -> Row] /\ src \in [Proc -> Nat]
        /\ saw \in [Proc -> Branch] /\ failed \in [Proc -> BOOLEAN]
    BY <1>1 DEF Init
  <2> QED
    BY <1>1, <2>1, <2>2 DEF Init, TypeOK
<1>3. ForceConfirmed
  BY <1>1 DEF Init, ForceConfirmed
<1> QED
  BY <1>2, <1>3 DEF IInv

\* A caller starts.
LEMMA CallKeepsInvariant ==
    ASSUME IInv, NEW c \in Clients, NEW where \in {"ask", "load"},
           NEW kind \in {"write", "sync", "force", "save", "direct"}, Call(c, kind, where)
    PROVE  IInv'
<1> USE DEF IInv, Call, Goto, git, Proc
<1>1. TypeOK'
  BY DEF TypeOK
<1>2. ForceConfirmed'
  BY DEF TypeOK, ForceConfirmed
<1> QED
  BY <1>1, <1>2

\* A process moves on with a copy of the row that has no permission of its own
\* making; what else it changes keeps its type.
LEMMA MoveKeepsInvariant ==
    ASSUME IInv, NEW p \in Proc, NEW where \in Positions, NEW m \in Row,
           Goto(p, where), mine' = [mine EXCEPT ![p] = m],
           m.force => row.force \/ mine[p].force,
           UNCHANGED <<op, hub, issued, confirmed>>,
           row' = row \/ row' = mine[p],
           tree' \in Nat, commits' \in Seq(Nat), remote' \in Branch, came' \in SUBSET Foreign,
           src' \in [Proc -> Nat], saw' \in [Proc -> Branch], failed' \in [Proc -> BOOLEAN],
           fresh' \in SUBSET Proc, calm' \in BOOLEAN, wanted' \in Nat
    PROVE  IInv'
<1> USE DEF IInv, Goto, Positions
<1>1. TypeOK'
  BY DEF TypeOK
<1>2. ForceConfirmed'
  BY DEF TypeOK, ForceConfirmed
<1> QED
  BY <1>1, <1>2

\* A process returns, having left the row alone or written one that has no
\* permission but that of its copy or of its call.
LEMMA ReturnKeepsInvariant ==
    ASSUME IInv, NEW p \in Proc, Return(p), UNCHANGED <<hub, git, issued, confirmed>>,
           row' \in Row,
           row'.force => row.force \/ mine[p].force \/ op[p] = "force",
           fresh' \in SUBSET Proc, calm' \in BOOLEAN, wanted' \in Nat
    PROVE  IInv'
<1> USE DEF IInv, Return, Goto, git
<1>0. NewRow \in Row /\ NewRow.force = FALSE /\ NoBranch \in Branch
  BY DEF NewRow, Row, NoBranch, Branch
<1>1. TypeOK'
  BY <1>0 DEF TypeOK
<1>2. ForceConfirmed'
  BY <1>0 DEF TypeOK, ForceConfirmed
<1> QED
  BY <1>1, <1>2

\* Reading and writing the row.
LEMMA RowStepsKeepInvariant ==
    ASSUME IInv, NEW p \in Proc,
           \/ AskRead(p) \/ MarkWrite(p) \/ SaveWrite(p) \/ Claim(p) \/ Load(p)
           \/ StoreDirect(p) \/ StoreQueued(p) \/ SettleRead(p) \/ SettleWrite(p) \/ Crash(p)
    PROVE  IInv'
<1> USE DEF git, promises
<1>0. TypeOK /\ mine[p] \in Row /\ row \in Row
  BY DEF IInv, TypeOK
<1>1. CASE AskRead(p)
  BY <1>0, <1>1, MoveKeepsInvariant DEF AskRead, Reads, TypeOK, Positions
<1>2. CASE MarkWrite(p)
  <2>1. /\ row' = Requested(mine[p], op[p] = "force")
        /\ row' \in Row /\ row'.force = (mine[p].force \/ op[p] = "force")
    BY <1>0, <1>2, RowOperators DEF MarkWrite, Writes
  <2>2. wanted' \in Nat
    BY <1>0, <1>2 DEF MarkWrite, TypeOK
  <2> QED
    BY <1>0, <1>2, <2>1, <2>2, ReturnKeepsInvariant DEF MarkWrite, Writes, TypeOK
<1>3. CASE SaveWrite(p)
  BY <1>0, <1>3, ReturnKeepsInvariant DEF SaveWrite, Writes, TypeOK
<1>4. CASE Claim(p)
  <2>1. row' \in Row /\ row'.force = row.force
    BY <1>0, <1>4, RowFields DEF Claim, Row
  <2>2. TypeOK'
    BY <1>0, <1>4, <2>1 DEF Claim, Goto, TypeOK
  <2>3. ForceConfirmed'
    BY <1>0, <1>4, <2>1 DEF IInv, Claim, TypeOK, ForceConfirmed
  <2> QED
    BY <2>2, <2>3 DEF IInv
<1>5. CASE Load(p)
  BY <1>0, <1>5, MoveKeepsInvariant DEF Load, Reads, TypeOK, Positions
<1>6. CASE StoreDirect(p)
  BY <1>0, <1>6, ReturnKeepsInvariant DEF StoreDirect, Writes, TypeOK
<1>7. CASE StoreQueued(p)
  <2>1. mine' = [mine EXCEPT ![p] = mine[p]]
    BY <1>0, <1>7 DEF StoreQueued, TypeOK
  <2> QED
    BY <1>0, <1>7, <2>1, MoveKeepsInvariant DEF StoreQueued, Writes, TypeOK, Positions
<1>8. CASE SettleRead(p)
  BY <1>0, <1>8, MoveKeepsInvariant DEF SettleRead, Reads, TypeOK, Positions
<1>9. CASE SettleWrite(p)
  <2>1. failed[p] \in BOOLEAN /\ row' = Settled(mine[p], failed[p])
    BY <1>0, <1>9 DEF SettleWrite, Writes, TypeOK
  <2>2. row' \in Row /\ row'.force = mine[p].force
    BY <1>0, <2>1, RowOperators
  <2> QED
    BY <1>0, <1>9, <2>2, ReturnKeepsInvariant DEF SettleWrite, Writes, TypeOK
<1>10. CASE Crash(p)
  BY <1>0, <1>10, ReturnKeepsInvariant DEF Crash, TypeOK
<1> QED
  BY <1>1, <1>2, <1>3, <1>4, <1>5, <1>6, <1>7, <1>8, <1>9, <1>10

\* The synchronisation between its read and its write of the row.
LEMMA SyncStepsKeepInvariant ==
    ASSUME IInv, NEW p \in Proc,
           \/ ClearRoot(p) \/ CopyTree(p) \/ CopyFails(p) \/ Commit(p) \/ FinalizeFails(p)
           \/ FetchPasses(p) \/ FetchBlocks(p) \/ FetchFails(p) \/ PushSucceeds(p) \/ PushFails(p)
    PROVE  IInv'
<1> USE DEF git, promises
<1>0. TypeOK /\ mine[p] \in Row
  BY DEF IInv, TypeOK
<1>1. CASE ClearRoot(p)
  <2>1. mine' = [mine EXCEPT ![p] = mine[p]]
    BY <1>0, <1>1 DEF ClearRoot, TypeOK
  <2> QED
    BY <1>0, <1>1, <2>1, MoveKeepsInvariant DEF ClearRoot, TypeOK, Positions
<1>2. CASE CopyTree(p)
  <2>1. mine' = [mine EXCEPT ![p] = mine[p]]
    BY <1>0, <1>2 DEF CopyTree, TypeOK
  <2>2. tree' \in Nat
    BY <1>0, <1>2 DEF CopyTree, TypeOK
  <2> QED
    BY <1>0, <1>2, <2>1, <2>2, MoveKeepsInvariant DEF CopyTree, TypeOK, Positions
<1>3. CASE CopyFails(p)
  <2> DEFINE m == [mine[p] EXCEPT !.state = "error", !.lastError = TRUE]
  <2>1. m \in Row /\ m.force = mine[p].force
    BY <1>0, RowFields DEF Row
  <2>2. mine' = [mine EXCEPT ![p] = m]
    BY <1>0, <1>3 DEF CopyFails, TypeOK
  <2> HIDE DEF m
  <2> QED
    BY <1>0, <1>3, <2>1, <2>2, MoveKeepsInvariant DEF CopyFails, TypeOK, Positions
<1>4. CASE Commit(p)
  <2> DEFINE m == [mine[p] EXCEPT !.state = "idle", !.lastError = FALSE]
  <2>1. m \in Row /\ m.force = mine[p].force
    BY <1>0, RowFields DEF Row
  <2>2. mine' = [mine EXCEPT ![p] = m]
    BY <1>0, <1>4 DEF Commit, TypeOK
  <2>3. commits' \in Seq(Nat)
    BY <1>0, <1>4 DEF Commit, TypeOK
  <2> HIDE DEF m
  <2> QED
    BY <1>0, <1>4, <2>1, <2>2, <2>3, MoveKeepsInvariant DEF Commit, TypeOK, Positions
<1>5. CASE FinalizeFails(p)
  <2> DEFINE m == [mine[p] EXCEPT !.state = "idle", !.lastError = TRUE]
  <2>1. m \in Row /\ m.force = mine[p].force
    BY <1>0, RowFields DEF Row
  <2>2. mine' = [mine EXCEPT ![p] = m]
    BY <1>0, <1>5 DEF FinalizeFails, TypeOK
  <2> HIDE DEF m
  <2> QED
    BY <1>0, <1>5, <2>1, <2>2, MoveKeepsInvariant DEF FinalizeFails, TypeOK, Positions
<1>6. CASE FetchPasses(p)
  <2> DEFINE m == [mine[p] EXCEPT !.conflict = FALSE]
  <2>1. m \in Row /\ m.force = mine[p].force
    BY <1>0, RowFields DEF Row
  <2>2. mine' = [mine EXCEPT ![p] = m]
    BY <1>0, <1>6 DEF FetchPasses, TypeOK
  <2> HIDE DEF m
  <2> QED
    BY <1>0, <1>6, <2>1, <2>2, MoveKeepsInvariant DEF FetchPasses, TypeOK, Positions
<1>7. CASE FetchBlocks(p)
  <2> DEFINE m == [mine[p] EXCEPT !.conflict = TRUE, !.pushError = TRUE]
  <2>1. m \in Row /\ m.force = mine[p].force
    BY <1>0, RowFields DEF Row
  <2>2. mine' = [mine EXCEPT ![p] = m]
    BY <1>0, <1>7 DEF FetchBlocks, TypeOK
  <2> HIDE DEF m
  <2> QED
    BY <1>0, <1>7, <2>1, <2>2, MoveKeepsInvariant DEF FetchBlocks, TypeOK, Positions
<1>8. CASE FetchFails(p)
  <2> DEFINE m == [mine[p] EXCEPT !.force = FALSE, !.pushError = TRUE]
  <2>1. m \in Row /\ m.force = FALSE
    BY <1>0, RowFields DEF Row
  <2>2. mine' = [mine EXCEPT ![p] = m]
    BY <1>0, <1>8 DEF FetchFails, TypeOK
  <2> HIDE DEF m
  <2> QED
    BY <1>0, <1>8, <2>1, <2>2, MoveKeepsInvariant DEF FetchFails, TypeOK, Positions
<1>9. Pushed \in Branch
  BY <1>0 DEF Pushed, Branch, TypeOK
<1>10. CASE PushSucceeds(p)
  <2> DEFINE m == [mine[p] EXCEPT !.force = FALSE, !.conflict = FALSE, !.pushError = FALSE]
  <2>1. m \in Row /\ m.force = FALSE
    BY <1>0, RowFields DEF Row
  <2>2. mine' = [mine EXCEPT ![p] = m]
    BY <1>0, <1>10 DEF PushSucceeds, TypeOK
  <2> HIDE DEF m
  <2> QED
    BY <1>0, <1>9, <1>10, <2>1, <2>2, MoveKeepsInvariant DEF PushSucceeds, TypeOK, Positions
<1>11. CASE PushFails(p)
  <2> DEFINE n == mine[p].conflict \/ UsesLease(p) \/ ~Accepts(p)
             m == [mine[p] EXCEPT !.force = FALSE, !.pushError = TRUE, !.conflict = n]
  <2>1. m \in Row /\ m.force = FALSE
    <3>1. n \in BOOLEAN
      OBVIOUS
    <3> HIDE DEF n
    <3> QED
      BY <1>0, <3>1, RowFields DEF Row
  <2>2. mine' = [mine EXCEPT ![p] = m]
    BY <1>0, <1>11 DEF PushFails, TypeOK
  <2>3. remote' \in Branch
    BY <1>0, <1>9, <1>11 DEF PushFails, TypeOK
  <2> HIDE DEF m
  <2> QED
    BY <1>0, <1>11, <2>1, <2>2, <2>3, MoveKeepsInvariant DEF PushFails, TypeOK, Positions
<1> QED
  BY <1>1, <1>2, <1>3, <1>4, <1>5, <1>6, <1>7, <1>8, <1>10, <1>11

\* Every step keeps the invariant.
LEMMA NextKeepsInvariant == IInv /\ [Next]_vars => IInv'
<1> SUFFICES ASSUME IInv, [Next]_vars PROVE IInv'
  OBVIOUS
<1> USE DEF Proc
<1>1. ASSUME NEW c \in Clients, Calls(c) PROVE IInv'
  BY <1>1, CallKeepsInvariant DEF Calls, CallWrite, CallSync, CallForce, CallSave, CallDirect
<1>2. ASSUME NEW c \in Clients, Serve(c) PROVE IInv'
  BY <1>2, RowStepsKeepInvariant, SyncStepsKeepInvariant DEF Serve, Sync
<1>3. ASSUME NEW p \in Pods, RunQueued(p) PROVE IInv'
  BY <1>3, RowStepsKeepInvariant, SyncStepsKeepInvariant DEF RunQueued, Sync
<1>4. ASSUME NEW p \in Proc, Crash(p) PROVE IInv'
  BY <1>4, RowStepsKeepInvariant
<1>5. ASSUME NEW f \in Foreign, ForeignPush(f) PROVE IInv'
  BY <1>5 DEF ForeignPush, IInv, TypeOK, ForceConfirmed, work, promises, Branch
<1>6. CASE UNCHANGED vars
  BY <1>6 DEF vars, git, work, promises, IInv, TypeOK, ForceConfirmed
<1> QED
  BY <1>1, <1>2, <1>3, <1>4, <1>5, <1>6 DEF Next

\* The inductive invariant holds in every reachable state.
THEOREM InvariantHolds == Spec => []IInv
BY InitInvariant, NextKeepsInvariant, PTL DEF Spec

\* The variables keep their types.
THEOREM TypeCorrect == Spec => []TypeOK
<1>1. IInv => TypeOK
  BY DEF IInv
<1> QED
  BY <1>1, InvariantHolds, PTL

\* A push drops commits of others only with a lease on the head it fetched, and
\* so only if its copy of the row had a confirmed permission.
LEMMA PushDropsSeen ==
    ASSUME IInv, NEW p \in Proc, pc[p] = "push", Accepts(p), remote' = Pushed
    PROVE  remote.foreign \ remote'.foreign # {}
              => confirmed /\ remote.foreign \ remote'.foreign \subseteq saw[p].foreign
BY DEF IInv, ForceConfirmed, Accepts, UsesLease, Pushed

\* Commits of others are dropped from the remote branch only by a push that has
\* fetched them, and not before the user has confirmed an overwrite.
THEOREM UnseenSurvive == Spec => UnseenCommitsSurvive
<1> DEFINE dropped == remote.foreign \ remote'.foreign
           Step == dropped # {} => /\ confirmed
                                   /\ \E p \in Proc : pc[p] = "push" /\ dropped \subseteq saw[p].foreign
<1>1. ASSUME IInv, [Next]_vars PROVE Step
  <2> USE <1>1
  <2>1. ASSUME NEW p \in Proc, PushSucceeds(p) \/ PushFails(p) PROVE Step
    <3>1. CASE remote' = remote
      BY <3>1
    <3>2. CASE Accepts(p) /\ remote' = Pushed
      BY <2>1, <3>2, PushDropsSeen DEF PushSucceeds, PushFails
    <3> QED
      BY <2>1, <3>1, <3>2 DEF PushSucceeds, PushFails
  <2>2. ASSUME NEW f \in Foreign, ForeignPush(f) PROVE Step
    <3>1. remote.foreign \subseteq remote'.foreign
      BY <2>2 DEF ForeignPush, IInv, TypeOK, Branch
    <3> QED
      BY <3>1
  <2>3. CASE UNCHANGED remote
    BY <2>3
  <2>4. ASSUME NEW c \in Clients, Calls(c) PROVE UNCHANGED remote
    BY <2>4 DEF Calls, CallWrite, CallSync, CallForce, CallSave, CallDirect, Call, git
  <2>5. ASSUME NEW p \in Proc,
               \/ AskRead(p) \/ MarkWrite(p) \/ SaveWrite(p) \/ Claim(p) \/ Load(p)
               \/ StoreDirect(p) \/ StoreQueued(p) \/ SettleRead(p) \/ SettleWrite(p) \/ Crash(p)
               \/ ClearRoot(p) \/ CopyTree(p) \/ CopyFails(p) \/ Commit(p) \/ FinalizeFails(p)
               \/ FetchPasses(p) \/ FetchBlocks(p) \/ FetchFails(p)
        PROVE  UNCHANGED remote
    BY <2>5 DEF AskRead, MarkWrite, SaveWrite, Claim, Load, StoreDirect, StoreQueued, SettleRead,
       SettleWrite, Crash, ClearRoot, CopyTree, CopyFails, Commit, FinalizeFails, FetchPasses,
       FetchBlocks, FetchFails, git
  <2>6. CASE UNCHANGED vars
    BY <2>6 DEF vars, git
  <2> HIDE DEF Step
  <2> QED
    BY <2>1, <2>2, <2>3, <2>4, <2>5, <2>6 DEF Next, Serve, RunQueued, Sync, Proc
<1>2. IInv /\ [Next]_vars => [Step]_vars
  BY <1>1
<1> QED
  BY <1>2, InvariantHolds, PTL DEF Spec, UnseenCommitsSurvive
-----------------------------------------------------------------------------
(* Confirmations are used up as long as no write of the row undoes another *)
(* and nobody dies.                                                        *)

Inside(p)  == pc[p] \in {"clear", "copying", "commit", "fetch", "push", "store"}
Working(p) == Inside(p) \/ pc[p] = "load"

\* A copy that is still what is stored: whole where it is written back as it was
\* read, and else as to what a run does not change.
Copies ==
    \A p \in fresh : /\ pc[p] \in {"asking", "settling"} => mine[p] = row
                     /\ Inside(p) => mine[p].started = row.started

\* Who settles has claimed.
Settling ==
    \A p \in Proc : /\ op[p] = "queue" => p \in Pods
                    /\ pc[p] \in {"settle", "settling"} => op[p] = "queue"

\* What a run writes back: it is over, and has used up its permission or failed.
StoreReady ==
    \A p \in Proc :
       /\ pc[p] \in {"fetch", "push"} => mine[p].state = "idle"
       /\ pc[p] = "store" => /\ mine[p].state \in {"idle", "error"}
                             /\ mine[p].force => mine[p].lastError

\* A claim is stamped, and whoever runs is still running.
Claimed ==
    /\ \A p \in Proc : op[p] = "queue" => row.started
    /\ row.state = "running" => \E p \in Proc : Working(p)

\* A permission is followed by a run, or is left by one that failed.
ForceOwed ==
    row.force /\ ~row.lastError
       => (row.later /\ row.state # "idle") \/ \E p \in Proc : Working(p)

CalmIInv ==
    /\ Copies /\ Settling /\ StoreReady
    /\ calm => Claimed /\ ForceOwed


LEMMA InitCalm == Init => CalmIInv
BY DEF Init, CalmIInv, Copies, Settling, StoreReady, Claimed, ForceOwed, NewRow

\* A caller starts: it is nobody's run yet, or a new one.
LEMMA CallKeepsCalm ==
    ASSUME IInv, CalmIInv, NEW c \in Clients, NEW where \in {"ask", "load"},
           NEW kind \in {"write", "sync", "force", "save", "direct"}, Call(c, kind, where)
    PROVE  CalmIInv'
<1> USE DEF Call, Goto, git, Proc, IInv, TypeOK
<1>1. \A q \in Proc : Working(q) => Working(q)'
  BY DEF Working, Inside
<1>2. \A q \in Proc : pc'[q] \notin {"ask", "load"} => pc'[q] = pc[q]
  OBVIOUS
<1>3. Copies' /\ Settling' /\ StoreReady'
  BY <1>2 DEF CalmIInv, Copies, Settling, StoreReady, Inside
<1>4. calm' => Claimed' /\ ForceOwed'
  BY <1>1 DEF CalmIInv, Claimed, ForceOwed
<1> QED
  BY <1>3, <1>4 DEF CalmIInv

\* A run takes its next step, before it writes the row.
LEMMA RunStepKeepsCalm ==
    ASSUME IInv, CalmIInv, NEW p \in Proc, Inside(p),
           NEW where \in {"copying", "commit", "fetch", "push", "store"}, Goto(p, where),
           NEW m \in Row, mine' = [mine EXCEPT ![p] = m], m.started = mine[p].started,
           where \in {"fetch", "push"} => m.state = "idle",
           where = "store" => m.state \in {"idle", "error"} /\ (m.force => m.lastError),
           UNCHANGED <<row, op, fresh, calm>>
    PROVE  CalmIInv'
<1> USE DEF Goto, IInv, TypeOK
<1>1. \A q \in Proc : Working(q)' <=> Working(q)
  BY DEF Working, Inside
<1>2. Copies'
  BY DEF CalmIInv, Copies, Inside
<1>3. Settling' /\ StoreReady'
  BY DEF CalmIInv, Settling, StoreReady
<1>4. calm' => Claimed' /\ ForceOwed'
  BY <1>1 DEF CalmIInv, Claimed, ForceOwed
<1> QED
  BY <1>2, <1>3, <1>4 DEF CalmIInv

\* Reading and writing the row.
LEMMA RowStepsKeepCalm ==
    ASSUME IInv, CalmIInv, NEW p \in Proc,
           \/ AskRead(p) \/ MarkWrite(p) \/ SaveWrite(p) \/ Load(p)
           \/ StoreDirect(p) \/ StoreQueued(p) \/ SettleRead(p) \/ SettleWrite(p) \/ Crash(p)
    PROVE  CalmIInv'
<1> USE DEF IInv, TypeOK, Goto, git, promises
<1>0. mine[p] \in Row /\ row \in Row /\ failed[p] \in BOOLEAN
  OBVIOUS
<1>1. CASE AskRead(p) \/ Load(p) \/ SettleRead(p)
  <2> USE <1>1 DEF AskRead, Load, SettleRead, Reads
  <2>1. /\ mine' = [mine EXCEPT ![p] = row] /\ UNCHANGED <<row, calm, op>>
        /\ fresh' = fresh \cup {p}
        /\ \E where \in {"asking", "clear", "settling"} : pc' = [pc EXCEPT ![p] = where]
        /\ pc[p] \in {"ask", "load", "settle"}
        /\ pc[p] = "settle" <=> pc'[p] = "settling"
        /\ pc[p] = "load" <=> pc'[p] = "clear"
    OBVIOUS
  <2>2. Copies'
    BY <2>1 DEF CalmIInv, Copies, Inside
  <2>3. Settling' /\ StoreReady'
    BY <2>1 DEF CalmIInv, Settling, StoreReady
  <2>4. \A q \in Proc : Working(q) => Working(q)'
    BY <2>1 DEF Working, Inside
  <2>5. calm' => Claimed' /\ ForceOwed'
    BY <2>1, <2>4 DEF CalmIInv, Claimed, ForceOwed
  <2> QED
    BY <2>2, <2>3, <2>5 DEF CalmIInv
<1> DEFINE Hands ==
              /\ ~Working(p) \/ (row'.state # "running" /\ (row'.force => row'.lastError))
              /\ row'.started = row.started
              /\ row'.state = "running" => row.state = "running"
              /\ row'.force /\ ~row'.lastError /\ ~(row'.later /\ row'.state # "idle")
                    => row.force /\ ~row.lastError /\ ~(row.later /\ row.state # "idle")
           Stale == fresh' = {} \/ (fresh' = fresh \ {p} /\ UNCHANGED row)
<1>2. ASSUME Return(p), Stale, calm' => Hands /\ calm
      PROVE  CalmIInv'
  <2> USE <1>2 DEF Return
  <2>1. /\ \A q \in Proc \ {p} : /\ pc'[q] = pc[q] /\ op'[q] = op[q] /\ mine'[q] = mine[q]
        /\ pc'[p] = "idle" /\ op'[p] = "none"
    OBVIOUS
  <2>2. Copies'
    BY <2>1 DEF CalmIInv, Copies, Inside
  <2>3. Settling' /\ StoreReady'
    BY <2>1 DEF CalmIInv, Settling, StoreReady
  <2>4. \A q \in Proc \ {p} : Working(q) => Working(q)'
    BY <2>1 DEF Working, Inside
  <2>5. ASSUME calm' PROVE Claimed' /\ ForceOwed'
    <3>1. Claimed /\ ForceOwed /\ Hands
      BY <2>5 DEF CalmIInv
    <3>2. Claimed'
      BY <2>1, <2>4, <3>1 DEF Claimed
    <3>3. ForceOwed'
      BY <2>4, <3>1 DEF ForceOwed
    <3> QED
      BY ONLY <3>2, <3>3
  <2> QED
    BY ONLY <2>2, <2>3, <2>5 DEF CalmIInv
<1> HIDE DEF Hands, Stale
<1>3. CASE MarkWrite(p) \/ SaveWrite(p) \/ SettleWrite(p)
  <2> USE <1>3 DEF MarkWrite, SaveWrite, SettleWrite, Writes
  <2>1. Return(p) /\ fresh' = {} /\ (calm' => calm) /\ ~Working(p)
    BY DEF Working, Inside
  <2>0. Stale
    BY <2>1 DEF Stale
  <2>2. calm' => mine[p] = row
    BY DEF CalmIInv, Copies
  <2>3. ASSUME calm', MarkWrite(p) PROVE Hands
    <3>1. row' = Requested(mine[p], op[p] = "force")
      BY <2>3
    <3>2. /\ row'.later /\ row'.state \in {"running", "queued"}
          /\ row'.started = mine[p].started
          /\ row'.state = "running" => mine[p].state = "running"
      BY <1>0, <3>1 DEF Requested, Row
    <3> QED
      BY <2>1, <2>2, <2>3, <3>2 DEF Hands
  <2>4. ASSUME calm', SaveWrite(p) PROVE Hands
    BY <2>1, <2>2, <2>4 DEF Hands
  <2>5. ASSUME calm', SettleWrite(p) PROVE Hands
    <3>1. row' = Settled(mine[p], failed[p])
      BY <2>5
    <3>2. /\ row'.later = mine[p].later /\ row'.started = mine[p].started
          /\ row'.force = mine[p].force /\ row'.lastError = mine[p].lastError
          /\ row'.state # "running"
          /\ mine[p].later /\ mine[p].started => row'.state # "idle"
      BY <1>0, <3>1 DEF Settled, RequestedDuringRun, Row
    <3>3. calm' => row.started
      BY <2>1, <2>5 DEF CalmIInv, Settling, Claimed
    <3> QED
      BY <2>1, <2>2, <2>5, <3>2, <3>3 DEF Hands
  <2>6. calm' => Hands
    BY ONLY <1>3, <2>3, <2>4, <2>5
  <2> QED
    BY ONLY <1>2, <2>0, <2>1, <2>6
<1>4. ASSUME pc[p] = "store"
      PROVE  /\ mine[p].state # "running" /\ (mine[p].force => mine[p].lastError)
             /\ p \in fresh => mine[p].started = row.started
  BY <1>4 DEF CalmIInv, StoreReady, Copies, Inside
<1>5. CASE StoreDirect(p)
  <2>1. Return(p) /\ row' = mine[p] /\ fresh' = {} /\ (calm' => calm /\ p \in fresh)
    BY <1>5 DEF StoreDirect, Writes
  <2>2. calm' => Hands
    BY <1>4, <1>5, <2>1 DEF Hands, StoreDirect
  <2>3. Stale
    BY <2>1 DEF Stale
  <2> QED
    BY ONLY <1>2, <2>1, <2>2, <2>3
<1>6. CASE StoreQueued(p)
  <2> USE <1>6 DEF StoreQueued, Writes
  <2>1. Copies' /\ Settling' /\ StoreReady'
    BY DEF CalmIInv, Copies, Settling, StoreReady, Inside
  <2>2. calm' => Claimed' /\ ForceOwed'
    BY <1>4 DEF CalmIInv, Claimed, ForceOwed
  <2> QED
    BY <2>1, <2>2 DEF CalmIInv
<1>7. CASE Crash(p)
  <2>1. Return(p) /\ Stale /\ ~calm'
    BY <1>7 DEF Crash, Stale
  <2> QED
    BY ONLY <1>2, <2>1
<1> QED
  BY <1>1, <1>3, <1>5, <1>6, <1>7

\* A claim begins a run.
LEMMA ClaimKeepsCalm ==
    ASSUME IInv, CalmIInv, NEW p \in Pods, Claim(p)
    PROVE  CalmIInv'
<1> USE DEF IInv, TypeOK, Claim, Goto, Proc
<1>1. Copies' /\ Settling' /\ StoreReady'
  BY DEF CalmIInv, Copies, Settling, StoreReady
<1>2. Working(p)'
  BY DEF Working
<1>3. row'.started /\ row'.force = row.force
  BY DEF Row
<1>4. Claimed' /\ ForceOwed'
  BY <1>2, <1>3 DEF Claimed, ForceOwed
<1> QED
  BY <1>1, <1>4 DEF CalmIInv

\* What a step of a run leaves in its copy of the row.
LEMMA RunSteps ==
    ASSUME IInv, CalmIInv, NEW p \in Proc,
           \/ ClearRoot(p) \/ CopyTree(p) \/ CopyFails(p) \/ Commit(p) \/ FinalizeFails(p)
           \/ FetchPasses(p) \/ FetchBlocks(p) \/ FetchFails(p) \/ PushSucceeds(p) \/ PushFails(p)
    PROVE  /\ Inside(p) /\ UNCHANGED <<row, op, fresh, calm, hub, wanted>>
           /\ \E where \in {"copying", "commit", "fetch", "push", "store"}, m \in Row :
                 /\ Goto(p, where) /\ mine' = [mine EXCEPT ![p] = m]
                 /\ m.started = mine[p].started
                 /\ where \in {"fetch", "push"} => m.state = "idle"
                 /\ where = "store" => m.state \in {"idle", "error"} /\ (m.force => m.lastError)
<1> USE DEF IInv, TypeOK, git, promises
<1>0. mine[p] \in Row
  OBVIOUS
<1>1. ASSUME NEW where \in {"copying", "commit", "fetch", "push", "store"}, Goto(p, where),
             NEW m \in Row, mine' = [mine EXCEPT ![p] = m], m.started = mine[p].started,
             where \in {"fetch", "push"} => m.state = "idle",
             where = "store" => m.state \in {"idle", "error"} /\ (m.force => m.lastError)
      PROVE  \E wh \in {"copying", "commit", "fetch", "push", "store"}, n \in Row :
                 /\ Goto(p, wh) /\ mine' = [mine EXCEPT ![p] = n]
                 /\ n.started = mine[p].started
                 /\ wh \in {"fetch", "push"} => n.state = "idle"
                 /\ wh = "store" => n.state \in {"idle", "error"} /\ (n.force => n.lastError)
  BY <1>1
<1>2. CASE ClearRoot(p) \/ CopyTree(p)
  <2>1. mine' = [mine EXCEPT ![p] = mine[p]]
    BY <1>2 DEF ClearRoot, CopyTree
  <2>2. CASE ClearRoot(p)
    BY <1>0, <1>1, <2>1, <2>2 DEF ClearRoot, Inside
  <2>3. CASE CopyTree(p)
    BY <1>0, <1>1, <2>1, <2>3 DEF CopyTree, Inside
  <2> QED
    BY <1>2, <2>2, <2>3
<1>3. CASE CopyFails(p)
  <2> DEFINE m == [mine[p] EXCEPT !.state = "error", !.lastError = TRUE]
  <2>1. m \in Row /\ m.started = mine[p].started /\ m.state = "error" /\ m.lastError
    BY <1>0, RowFields DEF Row
  <2>2. mine' = [mine EXCEPT ![p] = m]
    BY <1>3 DEF CopyFails
  <2> HIDE DEF m
  <2> QED
    BY <1>1, <1>3, <2>1, <2>2 DEF CopyFails, Inside
<1>4. CASE Commit(p)
  <2> DEFINE m == [mine[p] EXCEPT !.state = "idle", !.lastError = FALSE]
  <2>1. m \in Row /\ m.started = mine[p].started /\ m.state = "idle"
    BY <1>0, RowFields DEF Row
  <2>2. mine' = [mine EXCEPT ![p] = m]
    BY <1>4 DEF Commit
  <2> HIDE DEF m
  <2> QED
    BY <1>1, <1>4, <2>1, <2>2 DEF Commit, Inside
<1>5. CASE FinalizeFails(p)
  <2> DEFINE m == [mine[p] EXCEPT !.state = "idle", !.lastError = TRUE]
  <2>1. m \in Row /\ m.started = mine[p].started /\ m.state = "idle" /\ m.lastError
    BY <1>0, RowFields DEF Row
  <2>2. mine' = [mine EXCEPT ![p] = m]
    BY <1>5 DEF FinalizeFails
  <2> HIDE DEF m
  <2> QED
    BY <1>1, <1>5, <2>1, <2>2 DEF FinalizeFails, Inside
<1>6. ASSUME pc[p] \in {"fetch", "push"} PROVE mine[p].state = "idle"
  BY <1>6 DEF CalmIInv, StoreReady
<1>7. CASE FetchPasses(p)
  <2> DEFINE m == [mine[p] EXCEPT !.conflict = FALSE]
  <2>1. m \in Row /\ m.started = mine[p].started /\ m.state = mine[p].state
    BY <1>0, RowFields DEF Row
  <2>2. mine' = [mine EXCEPT ![p] = m]
    BY <1>7 DEF FetchPasses
  <2> HIDE DEF m
  <2> QED
    BY <1>1, <1>6, <1>7, <2>1, <2>2 DEF FetchPasses, Inside
<1>8. CASE FetchBlocks(p)
  <2> DEFINE m == [mine[p] EXCEPT !.conflict = TRUE, !.pushError = TRUE]
  <2>1. /\ m \in Row /\ m.started = mine[p].started /\ m.state = mine[p].state
        /\ m.force = mine[p].force
    BY <1>0, RowFields DEF Row
  <2>2. mine' = [mine EXCEPT ![p] = m]
    BY <1>8 DEF FetchBlocks
  <2> HIDE DEF m
  <2> QED
    BY <1>1, <1>6, <1>8, <2>1, <2>2 DEF FetchBlocks, Inside
<1>9. CASE FetchFails(p)
  <2> DEFINE m == [mine[p] EXCEPT !.force = FALSE, !.pushError = TRUE]
  <2>1. /\ m \in Row /\ m.started = mine[p].started /\ m.state = mine[p].state
        /\ m.force = FALSE
    BY <1>0, RowFields DEF Row
  <2>2. mine' = [mine EXCEPT ![p] = m]
    BY <1>9 DEF FetchFails
  <2> HIDE DEF m
  <2> QED
    BY <1>1, <1>6, <1>9, <2>1, <2>2 DEF FetchFails, Inside
<1>10. CASE PushSucceeds(p)
  <2> DEFINE m == [mine[p] EXCEPT !.force = FALSE, !.conflict = FALSE, !.pushError = FALSE]
  <2>1. /\ m \in Row /\ m.started = mine[p].started /\ m.state = mine[p].state
        /\ m.force = FALSE
    BY <1>0, RowFields DEF Row
  <2>2. mine' = [mine EXCEPT ![p] = m]
    BY <1>10 DEF PushSucceeds
  <2> HIDE DEF m
  <2> QED
    BY <1>1, <1>6, <1>10, <2>1, <2>2 DEF PushSucceeds, Inside
<1>11. CASE PushFails(p)
  <2> DEFINE n == mine[p].conflict \/ UsesLease(p) \/ ~Accepts(p)
             m == [mine[p] EXCEPT !.force = FALSE, !.pushError = TRUE, !.conflict = n]
  <2>1. /\ m \in Row /\ m.started = mine[p].started /\ m.state = mine[p].state
        /\ m.force = FALSE
    <3>1. n \in BOOLEAN
      OBVIOUS
    <3> HIDE DEF n
    <3> QED
      BY <1>0, <3>1, RowFields DEF Row
  <2>2. mine' = [mine EXCEPT ![p] = m]
    BY <1>11 DEF PushFails
  <2> HIDE DEF m
  <2> QED
    BY <1>1, <1>6, <1>11, <2>1, <2>2 DEF PushFails, Inside
<1> QED
  BY <1>2, <1>3, <1>4, <1>5, <1>7, <1>8, <1>9, <1>10, <1>11

\* Every step keeps the invariant.
LEMMA NextKeepsCalm == IInv /\ CalmIInv /\ [Next]_vars => CalmIInv'
<1> SUFFICES ASSUME IInv, CalmIInv, [Next]_vars PROVE CalmIInv'
  OBVIOUS
<1>1. ASSUME NEW c \in Clients, Calls(c) PROVE CalmIInv'
  BY <1>1, CallKeepsCalm DEF Calls, CallWrite, CallSync, CallForce, CallSave, CallDirect
<1>2. ASSUME NEW p \in Proc,
             \/ ClearRoot(p) \/ CopyTree(p) \/ CopyFails(p) \/ Commit(p) \/ FinalizeFails(p)
             \/ FetchPasses(p) \/ FetchBlocks(p) \/ FetchFails(p) \/ PushSucceeds(p) \/ PushFails(p)
      PROVE  CalmIInv'
  BY <1>2, RunSteps, RunStepKeepsCalm
<1>3. ASSUME NEW c \in Clients, Serve(c) PROVE CalmIInv'
  BY <1>2, <1>3, RowStepsKeepCalm DEF Serve, Sync, Proc
<1>4. ASSUME NEW p \in Pods, RunQueued(p) PROVE CalmIInv'
  BY <1>2, <1>4, RowStepsKeepCalm, ClaimKeepsCalm DEF RunQueued, Sync, Proc
<1>5. ASSUME NEW p \in Proc, Crash(p) PROVE CalmIInv'
  BY <1>5, RowStepsKeepCalm
<1>6. CASE UNCHANGED <<row, pc, op, mine, fresh, calm>>
  BY <1>6 DEF CalmIInv, Copies, Settling, StoreReady, Claimed, ForceOwed, Working, Inside
<1>7. ASSUME NEW f \in Foreign, ForeignPush(f) PROVE CalmIInv'
  BY <1>6, <1>7 DEF ForeignPush, work
<1>8. CASE UNCHANGED vars
  BY <1>6, <1>8 DEF vars, work
<1> QED
  BY <1>1, <1>3, <1>4, <1>5, <1>7, <1>8 DEF Next

LEMMA CalmInvariantHolds == Spec => []CalmIInv
<1>1. Init => IInv /\ CalmIInv
  BY InitInvariant, InitCalm
<1>2. (IInv /\ CalmIInv) /\ [Next]_vars => (IInv /\ CalmIInv)'
  BY NextKeepsInvariant, NextKeepsCalm
<1> QED
  BY <1>1, <1>2, PTL DEF Spec

\* As long as no write of the row undoes another and nobody dies, an idle mirror whose
\* last run reports no error holds no permission to overwrite (queue.go, service.go).
THEOREM ConfirmationSpent == Spec => []CalmConfirmationSpent
<1>1. CalmIInv => CalmConfirmationSpent
  BY DEF CalmIInv, ForceOwed, CalmConfirmationSpent, Working, Inside, Syncing
<1> QED
  BY <1>1, CalmInvariantHolds, PTL
-----------------------------------------------------------------------------
(* Requests are served under the same condition, by the one worker the     *)
(* deployment has (deploy/k8s/app.yaml, replicas: 1), if a failed run is   *)
(* tried again at all (hostedRetryBackoff).                                *)

OneWorker == (\A p, q \in Pods : p = q) /\ Retries > 0

\* No request, and nothing that is being copied, is from the future.
HubAhead == wanted <= hub /\ \A p \in Proc : src[p] <= hub

Last == commits[Len(commits)]

\* What a run that is alone has reached of the last request, step by step.
RunServes ==
    \A p \in fresh :
       (\A q \in Proc \ {p} : ~Inside(q))
          => /\ pc[p] = "copying" => src[p] >= wanted
             /\ pc[p] = "commit" => tree >= wanted
             /\ pc[p] \in {"fetch", "push"} => commits # <<>> /\ Last >= wanted
             /\ pc[p] = "store" => \/ Served
                                   \/ mine[p].lastError \/ mine[p].pushError \/ mine[p].conflict

\* A request that comes while a failed run settles starts to count anew.
CountsAnew ==
    \A p \in Proc : pc[p] \in {"settle", "settling"} /\ row.state = "queued"
                       => row.attempts = 0

RequestOwed ==
    wanted > 0 /\ (\A p \in Proc : ~Working(p))
       => Served \/ FailureShown \/ (row.later /\ row.state = "queued")

ServedIInv == HubAhead /\ (calm => RunServes /\ CountsAnew /\ RequestOwed)

LEMMA InitServed == Init => ServedIInv
BY DEF Init, ServedIInv, HubAhead, RunServes, CountsAnew, RequestOwed

\* Nothing is from the future after a step, either.
LEMMA NextKeepsHubAhead ==
    ASSUME IInv, HubAhead, [Next]_vars
    PROVE  HubAhead'
<1> USE DEF HubAhead, IInv, TypeOK
<1>1. ASSUME NEW c \in Clients, Calls(c) PROVE HubAhead'
  <2>1. PICK where \in {"ask", "load"}, kind \in {"write", "sync", "force", "save", "direct"} :
              Call(c, kind, where)
    BY <1>1 DEF Calls, CallWrite, CallSync, CallForce, CallSave, CallDirect
  <2>2. /\ hub' \in Nat /\ hub <= hub' /\ wanted' = wanted /\ src' = [src EXCEPT ![c] = hub']
    BY <2>1 DEF Call
  <2>3. \A q \in Proc : src'[q] <= hub'
    BY <2>2
  <2> QED
    BY <2>2, <2>3
<1>2. ASSUME NEW p \in Proc, NEW n \in {0, hub}, UNCHANGED hub,
             wanted' = wanted \/ wanted' = src[p], src' = [src EXCEPT ![p] = n]
      PROVE  HubAhead'
  <2>1. wanted' <= hub
    BY <1>2
  <2>2. \A q \in Proc : src'[q] <= hub
    BY <1>2
  <2> QED
    BY <1>2, <2>1, <2>2
<1>0. ASSUME UNCHANGED <<hub, wanted, src>> PROVE HubAhead'
  BY <1>0
<1>3. ASSUME NEW p \in Proc,
             \/ AskRead(p) \/ Load(p) \/ SettleRead(p) \/ CopyTree(p) \/ CopyFails(p) \/ Commit(p)
             \/ FinalizeFails(p) \/ FetchPasses(p) \/ FetchBlocks(p) \/ FetchFails(p)
             \/ PushSucceeds(p) \/ PushFails(p) \/ StoreQueued(p) \/ Claim(p)
      PROVE  UNCHANGED <<hub, wanted, src>>
  BY <1>3 DEF AskRead, Load, SettleRead, CopyTree, CopyFails, Commit, FinalizeFails, FetchPasses,
     FetchBlocks, FetchFails, PushSucceeds, PushFails, StoreQueued, Claim, promises
<1>4. ASSUME NEW p \in Proc,
             \/ MarkWrite(p) \/ SaveWrite(p) \/ StoreDirect(p) \/ SettleWrite(p) \/ Crash(p)
      PROVE  /\ UNCHANGED hub /\ src' = [src EXCEPT ![p] = 0]
             /\ wanted' = wanted \/ wanted' = src[p]
  BY <1>4 DEF MarkWrite, SaveWrite, StoreDirect, SettleWrite, Crash, Return, promises
<1>5. ASSUME NEW p \in Proc, ClearRoot(p)
      PROVE  UNCHANGED <<hub, wanted>> /\ src' = [src EXCEPT ![p] = hub]
  BY <1>5 DEF ClearRoot, promises
<1>6. ASSUME NEW f \in Foreign, ForeignPush(f) PROVE UNCHANGED <<hub, wanted, src>>
  BY <1>6 DEF ForeignPush, promises, work
<1>7. CASE UNCHANGED vars
  BY <1>7 DEF vars, promises, work
<1>8. ASSUME NEW p \in Proc,
             \/ MarkWrite(p) \/ SaveWrite(p) \/ StoreDirect(p) \/ SettleWrite(p) \/ Crash(p)
             \/ ClearRoot(p)
      PROVE  HubAhead'
  BY <1>2, <1>4, <1>5, <1>8
<1> HIDE DEF HubAhead, IInv, TypeOK
<1> QED
  BY <1>0, <1>1, <1>3, <1>6, <1>7, <1>8 DEF Next, Serve, RunQueued, Sync, Proc

\* What the row, the commits and the last request are made of.
Known == <<commits, remote.own, wanted>>

LEMMA ServedStays == ASSUME UNCHANGED Known PROVE Served' = Served
BY DEF Known, Served

\* A caller starts.
LEMMA CallKeepsServed ==
    ASSUME IInv, ServedIInv, NEW c \in Clients, Calls(c), HubAhead'
    PROVE  ServedIInv'
<1>0. PICK where \in {"ask", "load"}, kind \in {"write", "sync", "force", "save", "direct"} :
            Call(c, kind, where)
  BY DEF Calls, CallWrite, CallSync, CallForce, CallSave, CallDirect
<1>1. /\ UNCHANGED <<row, commits, remote, tree, fresh, calm, wanted, mine>>
      /\ pc' = [pc EXCEPT ![c] = where] /\ pc[c] = "idle" /\ c \in Proc
      /\ \A q \in Proc \ {c} : src'[q] = src[q]
  BY <1>0 DEF Call, Goto, git, Proc, IInv, TypeOK
<1>2. \A q \in Proc : (Inside(q)' <=> Inside(q)) /\ (Working(q) => Working(q)')
  BY <1>1 DEF Inside, Working, IInv, TypeOK
<1>3. Served' = Served
  BY <1>1, ServedStays DEF Known
<1>4. RunServes => RunServes'
  BY <1>1, <1>2, <1>3 DEF RunServes, IInv, TypeOK, Last
<1>5. CountsAnew => CountsAnew'
  BY <1>1 DEF CountsAnew, IInv, TypeOK
<1>6. RequestOwed => RequestOwed'
  BY <1>1, <1>2, <1>3 DEF RequestOwed, FailureShown
<1> QED
  BY <1>1, <1>4, <1>5, <1>6 DEF ServedIInv

\* A run takes its next step: alone, it comes closer to what was requested.
LEMMA RunStepsKeepServed ==
    ASSUME IInv, CalmIInv, ServedIInv, HubAhead', NEW p \in Proc,
           \/ ClearRoot(p) \/ CopyTree(p) \/ CopyFails(p) \/ Commit(p) \/ FinalizeFails(p)
           \/ FetchPasses(p) \/ FetchBlocks(p) \/ FetchFails(p) \/ PushSucceeds(p) \/ PushFails(p)
    PROVE  ServedIInv'
<1> DEFINE Alone == \A q \in Proc \ {p} : ~Inside(q)
           Reached == /\ pc[p] = "copying" => src[p] >= wanted
                      /\ pc[p] = "commit" => tree >= wanted
                      /\ pc[p] \in {"fetch", "push"} => commits # <<>> /\ Last >= wanted
                      /\ pc[p] = "store" => \/ Served
                                            \/ mine[p].lastError \/ mine[p].pushError
                                            \/ mine[p].conflict
<1>0. /\ Inside(p) /\ UNCHANGED <<row, fresh, calm, hub, wanted>>
      /\ \E where \in {"copying", "commit", "fetch", "push", "store"} : Goto(p, where)
  BY RunSteps
<1>1. Inside(p)' /\ Working(p)' /\ \A q \in Proc \ {p} : pc'[q] = pc[q]
  BY <1>0 DEF Inside, Working, Goto, IInv, TypeOK
<1>2. ASSUME Alone, Reached PROVE Reached'
  <2> USE <1>2, <1>1 DEF IInv, TypeOK, git
  <2>0. mine[p] \in Row
    OBVIOUS
  <2>1. CASE ClearRoot(p)
    BY <2>1 DEF ClearRoot, Goto, ServedIInv, HubAhead
  <2>2. CASE CopyTree(p)
    <3>1. ~\E q \in Proc \ {p} : pc[q] = "copying"
      BY DEF Inside
    <3> QED
      BY <2>2, <3>1 DEF CopyTree, Goto, promises
  <2>3. CASE CopyFails(p) \/ FinalizeFails(p)
    <3>1. mine'[p].lastError /\ pc'[p] = "store"
      BY <2>0, <2>3 DEF CopyFails, FinalizeFails, Goto, Row
    <3> QED
      BY <3>1
  <2>4. CASE Commit(p)
    <3>1. pc'[p] = "fetch" /\ tree >= wanted /\ wanted' = wanted
      BY <2>4 DEF Commit, Goto, promises
    <3>2. commits' # <<>> /\ commits'[Len(commits')] = tree
      BY <2>4 DEF Commit, Dirty
    <3> QED
      BY <3>1, <3>2 DEF Last
  <2>5. CASE FetchPasses(p)
    BY <2>5 DEF FetchPasses, Goto, promises, Last
  <2>6. CASE FetchBlocks(p) \/ FetchFails(p) \/ PushFails(p)
    <3>1. pc'[p] = "store"
      BY <2>6 DEF FetchBlocks, FetchFails, PushFails, Goto
    <3>2. mine'[p].pushError
      BY <2>0, <2>6 DEF FetchBlocks, FetchFails, PushFails, Row
    <3> QED
      BY <3>1, <3>2
  <2>7. CASE PushSucceeds(p)
    <3>1. pc'[p] = "store" /\ commits' = commits /\ wanted' = wanted /\ remote'.own = Len(commits)
      BY <2>7 DEF PushSucceeds, Goto, promises, Pushed
    <3>2. commits # <<>> /\ Last >= wanted
      BY <2>7 DEF PushSucceeds
    <3>3. Len(commits) # 0
      BY <3>2
    <3>4. Served'
      BY <3>1, <3>2, <3>3 DEF Served, Last
    <3> QED
      BY <3>1, <3>4
  <2> QED
    BY <2>1, <2>2, <2>3, <2>4, <2>5, <2>6, <2>7
<1>3. Alone' => Alone
  BY <1>1 DEF Inside
<1>4. RunServes => RunServes'
  <2> SUFFICES ASSUME RunServes, NEW q \in fresh', \A r \in Proc \ {q} : ~Inside(r)'
               PROVE  q = p /\ Reached'
    BY DEF RunServes
  <2>1. q = p
    BY <1>1
  <2>2. p \in fresh /\ Alone
    BY <1>0, <1>3, <2>1
  <2>3. Reached
    BY <2>2 DEF RunServes
  <2> QED
    BY <1>2, <2>1, <2>2, <2>3
<1>5. CountsAnew => CountsAnew'
  BY <1>0, <1>1 DEF CountsAnew, Inside
<1>6. RequestOwed'
  BY <1>1 DEF RequestOwed
<1> QED
  BY <1>0, <1>4, <1>5, <1>6 DEF ServedIInv

\* Reading the row, and a claim.
LEMMA ReadsKeepServed ==
    ASSUME IInv, ServedIInv, HubAhead', NEW p \in Proc,
           AskRead(p) \/ Load(p) \/ SettleRead(p)
    PROVE  ServedIInv'
<1>1. /\ UNCHANGED <<row, commits, remote, tree, src, calm, wanted>>
      /\ fresh' = fresh \cup {p} /\ \A q \in Proc \ {p} : mine'[q] = mine[q]
      /\ \/ pc[p] = "ask" /\ pc' = [pc EXCEPT ![p] = "asking"]
         \/ pc[p] = "load" /\ pc' = [pc EXCEPT ![p] = "clear"]
         \/ pc[p] = "settle" /\ pc' = [pc EXCEPT ![p] = "settling"]
  BY DEF AskRead, Load, SettleRead, Reads, Goto, git, promises, IInv, TypeOK
<1>2. \A q \in Proc : (Inside(q) => Inside(q)') /\ (Working(q) => Working(q)')
  BY <1>1 DEF Inside, Working, IInv, TypeOK
<1>3. Served' = Served
  BY <1>1, ServedStays DEF Known
<1>4. RunServes => RunServes'
  BY <1>1, <1>2, <1>3 DEF RunServes, IInv, TypeOK, Last
<1>5. CountsAnew => CountsAnew'
  BY <1>1 DEF CountsAnew, IInv, TypeOK
<1>6. RequestOwed => RequestOwed'
  BY <1>1, <1>2, <1>3 DEF RequestOwed, FailureShown
<1> QED
  BY <1>1, <1>4, <1>5, <1>6 DEF ServedIInv

LEMMA ClaimKeepsServed ==
    ASSUME IInv, ServedIInv, HubAhead', NEW p \in Pods, Claim(p)
    PROVE  ServedIInv'
<1>1. fresh' = {} /\ row'.state = "running" /\ Working(p)'
  BY DEF Claim, Goto, Working, IInv, TypeOK, Row, Proc
<1> QED
  BY <1>1 DEF ServedIInv, RunServes, CountsAnew, RequestOwed, Proc

\* A process writes the row over one it still knows, and is not working any more.
LEMMA WriteKeepsServed ==
    ASSUME IInv, ServedIInv, HubAhead', NEW p \in Proc, fresh' = {},
           \A q \in Proc \ {p} : pc'[q] = pc[q],
           calm' => calm /\ CountsAnew' /\ RequestOwed'
    PROVE  ServedIInv'
BY DEF ServedIInv, RunServes

\* MarkMirrorQueued, UpdateMirrorSettings and the end of runQueuedMirror.
LEMMA AnswersKeepServed ==
    ASSUME OneWorker, IInv, CalmIInv, ServedIInv, HubAhead', NEW p \in Proc,
           MarkWrite(p) \/ SaveWrite(p) \/ SettleWrite(p)
    PROVE  ServedIInv'
<1> USE DEF IInv, TypeOK
<1>0. mine[p] \in Row /\ row \in Row /\ failed[p] \in BOOLEAN
  OBVIOUS
<1>1. /\ fresh' = {} /\ UNCHANGED <<commits, remote>> /\ calm' = (calm /\ p \in fresh)
      /\ pc' = [pc EXCEPT ![p] = "idle"] /\ pc[p] \in {"asking", "settling"}
  BY DEF MarkWrite, SaveWrite, SettleWrite, Writes, Return, Goto, git
<1>2. \A q \in Proc : Working(q) => Working(q)'
  BY <1>1 DEF Working, Inside
<1>3. ASSUME calm' PROVE calm /\ mine[p] = row
  BY <1>1, <1>3 DEF CalmIInv, Copies
<1>4. ASSUME calm', MarkWrite(p) PROVE CountsAnew' /\ RequestOwed'
  <2>1. row' = Requested(row, op[p] = "force")
    BY <1>3, <1>4 DEF MarkWrite, Writes
  <2>2. CASE row.state = "running"
    <3>1. row'.state = "running"
      BY <1>0, <2>1, <2>2 DEF Requested, Row
    <3>2. \E q \in Proc : Working(q)'
      BY <1>2, <1>3, <1>4, <2>2 DEF CalmIInv, Claimed
    <3> QED
      BY <3>1, <3>2 DEF CountsAnew, RequestOwed
  <2>3. CASE row.state # "running"
    <3>1. row'.state = "queued" /\ row'.attempts = 0 /\ row'.later
      BY <1>0, <2>1, <2>3 DEF Requested, Row
    <3> QED
      BY <3>1 DEF CountsAnew, RequestOwed
  <2> QED
    BY <2>2, <2>3
<1>5. ASSUME calm', SaveWrite(p) PROVE CountsAnew' /\ RequestOwed'
  <2>1. row' = row /\ wanted' = wanted
    BY <1>3, <1>5 DEF SaveWrite, Writes, promises
  <2>2. Served' = Served
    BY <1>1, <2>1, ServedStays DEF Known
  <2>3. CountsAnew /\ RequestOwed
    BY <1>3, <1>5 DEF ServedIInv
  <2>4. CountsAnew'
    BY <1>1, <2>1, <2>3 DEF CountsAnew
  <2>5. RequestOwed'
    BY <1>2, <2>1, <2>2, <2>3 DEF RequestOwed, FailureShown
  <2> QED
    BY <2>4, <2>5
<1>6. ASSUME calm', SettleWrite(p) PROVE CountsAnew' /\ RequestOwed'
  <2>1. row' = Settled(row, failed[p]) /\ wanted' = wanted /\ pc[p] = "settling"
    BY <1>3, <1>6 DEF SettleWrite, Writes, promises
  <2>2. Served' = Served
    BY <1>1, <2>1, ServedStays DEF Known
  <2>3. CountsAnew /\ RequestOwed /\ row.started
    BY <1>3, <1>6, <2>1 DEF ServedIInv, CalmIInv, Settling, Claimed
  <2>4. CountsAnew'
    <3>1. \A q \in Proc \ {p} : pc[q] \notin {"settle", "settling"}
      BY <2>1 DEF OneWorker, CalmIInv, Settling
    <3> QED
      BY <1>1, <3>1 DEF CountsAnew
  <2>5. /\ row'.later = row.later /\ row'.lastError = row.lastError
        /\ row'.pushError = row.pushError /\ row'.conflict = row.conflict
    BY <1>0, <2>1 DEF Settled, Row
  <2>6. ASSUME row.later, row.state = "queued" PROVE row'.state = "queued"
    <3>1. row.attempts = 0
      BY <2>1, <2>3, <2>6 DEF CountsAnew
    <3>2. row.attempts + 1 <= Retries
      BY <3>1, MirrorAssumption DEF OneWorker
    <3> QED
      BY <1>0, <2>1, <2>3, <2>6, <3>2 DEF Settled, RequestedDuringRun, Row
  <2>7. RequestOwed'
    BY <1>2, <2>1, <2>2, <2>3, <2>5, <2>6 DEF RequestOwed, FailureShown
  <2> QED
    BY <2>4, <2>7
<1>7. calm' => calm /\ CountsAnew' /\ RequestOwed'
  BY <1>3, <1>4, <1>5, <1>6
<1>8. \A q \in Proc \ {p} : pc'[q] = pc[q]
  BY <1>1
<1> QED
  BY ONLY <1>1, <1>7, <1>8, WriteKeepsServed, IInv, ServedIInv, HubAhead'

\* A run stores what it has reached.
LEMMA StoresKeepServed ==
    ASSUME IInv, CalmIInv, ServedIInv, HubAhead', NEW p \in Proc,
           StoreDirect(p) \/ StoreQueued(p)
    PROVE  ServedIInv'
<1> USE DEF IInv, TypeOK
<1>1. /\ fresh' = {} /\ UNCHANGED <<commits, remote, wanted>> /\ calm' = (calm /\ p \in fresh)
      /\ row' = mine[p] /\ pc[p] = "store"
      /\ \A q \in Proc \ {p} : pc'[q] = pc[q]
  BY DEF StoreDirect, StoreQueued, Writes, Return, Goto, git, promises
<1>2. Served' = Served
  BY <1>1, ServedStays DEF Known
<1>3. CountsAnew'
  BY <1>1 DEF CountsAnew, CalmIInv, StoreReady
<1>4. ASSUME calm' PROVE RequestOwed'
  <2>1. calm /\ p \in fresh
    BY <1>1, <1>4
  <2>2. SUFFICES ASSUME \A q \in Proc : ~Working(q)' PROVE Served' \/ FailureShown'
    BY DEF RequestOwed
  <2>3. \A q \in Proc \ {p} : ~Inside(q)
    BY <1>1, <2>2 DEF Working, Inside
  <2>4. Served \/ mine[p].lastError \/ mine[p].pushError \/ mine[p].conflict
    BY <1>1, <2>1, <2>3 DEF ServedIInv, RunServes
  <2> QED
    BY <1>1, <1>2, <2>4 DEF FailureShown
<1>5. calm' => calm /\ CountsAnew' /\ RequestOwed'
  BY <1>1, <1>3, <1>4
<1> QED
  BY ONLY <1>1, <1>5, WriteKeepsServed, IInv, ServedIInv, HubAhead'

\* Every step keeps the invariant.
LEMMA NextKeepsServed ==
    ASSUME OneWorker PROVE IInv /\ CalmIInv /\ ServedIInv /\ [Next]_vars => ServedIInv'
<1> SUFFICES ASSUME IInv, CalmIInv, ServedIInv, [Next]_vars PROVE ServedIInv'
  OBVIOUS
<1>0. HubAhead'
  BY NextKeepsHubAhead DEF ServedIInv
<1>1. ASSUME NEW c \in Clients, Calls(c) PROVE ServedIInv'
  BY <1>0, <1>1, CallKeepsServed
<1>2. ASSUME NEW c \in Clients, Serve(c) PROVE ServedIInv'
  BY <1>0, <1>2, RunStepsKeepServed, ReadsKeepServed, AnswersKeepServed, StoresKeepServed
     DEF Serve, Sync, Proc
<1>3. ASSUME NEW p \in Pods, RunQueued(p) PROVE ServedIInv'
  BY <1>0, <1>3, RunStepsKeepServed, ReadsKeepServed, AnswersKeepServed, StoresKeepServed,
     ClaimKeepsServed DEF RunQueued, Sync, Proc
<1>4. ASSUME NEW p \in Proc, Crash(p) PROVE ServedIInv'
  BY <1>0, <1>4 DEF Crash, ServedIInv
<1>5. ASSUME UNCHANGED <<row, commits, remote.own, tree, pc, mine, src, fresh, calm, wanted>>
      PROVE  ServedIInv'
  <2>1. Served' = Served
    BY <1>5, ServedStays DEF Known
  <2> QED
    BY <1>0, <1>5, <2>1 DEF ServedIInv, RunServes, CountsAnew, RequestOwed, FailureShown,
       Working, Inside, Last
<1>6. ASSUME NEW f \in Foreign, ForeignPush(f) PROVE ServedIInv'
  BY <1>5, <1>6 DEF ForeignPush, work, promises, IInv, TypeOK, Branch
<1>7. CASE UNCHANGED vars
  BY <1>5, <1>7 DEF vars, work, git, promises
<1> QED
  BY <1>1, <1>2, <1>3, <1>4, <1>6, <1>7 DEF Next

\* A request that is neither in the queue nor being worked on has been served, or
\* the page shows why not, as long as no write of the row undoes another and
\* nobody dies (queue.go, service.go).
THEOREM RequestsServed == OneWorker /\ Spec => []CalmRequestServed
<1> SUFFICES ASSUME OneWorker PROVE Spec => []CalmRequestServed
  OBVIOUS
<1>1. Init => IInv /\ CalmIInv /\ ServedIInv
  BY InitInvariant, InitCalm, InitServed
<1>2. IInv /\ CalmIInv /\ ServedIInv /\ [Next]_vars => IInv' /\ CalmIInv' /\ ServedIInv'
  BY NextKeepsInvariant, NextKeepsCalm, NextKeepsServed
<1>3. ServedIInv => CalmRequestServed
  BY DEF ServedIInv, RequestOwed, CalmRequestServed, RequestServed, Syncing, Working, Inside
<1> QED
  BY <1>1, <1>2, <1>3, PTL DEF Spec
=============================================================================
