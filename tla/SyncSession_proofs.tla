------------------------- MODULE SyncSession_proofs -------------------------
(***************************************************************************)
(* Proofs about SyncSession for any number of parts, requests and calls.   *)
(* The invariant IInv is inductive: besides types and the safety           *)
(* properties it says that a commit past ImportBundle has imported, and    *)
(* that what came after expires_at is there only once that time is over.   *)
(***************************************************************************)
EXTENDS SyncSession, TLAPS

\* The initial state satisfies the invariant.
LEMMA InitInvariant == Init => IInv
<1> SUFFICES ASSUME Init PROVE IInv
  OBVIOUS
<1>1. TypeOK
  BY SessionAssumption DEF Init, TypeOK, NoParts, Op, NoOp, Idle, Positions, Active, Terminal
<1>2. JobClosedWithSession /\ SucceededWasImported
  BY DEF Init, JobClosedWithSession, SucceededWasImported, Terminal
<1>3. LateCallsAreRefused /\ Facts
  BY DEF Init, LateCallsAreRefused, Facts, NoOp, Idle
<1> QED
  BY <1>1, <1>2, <1>3 DEF IInv

\* Steps of clients, the clock, other writers and the clean-up.
LEMMA SurroundingsKeepInvariant ==
    ASSUME IInv, StartSession \/ Tick \/ OthersWrite \/ SweepSelect \/ SweepApply
    PROVE  IInv'
<1> USE DEF IInv, records, world, calls
<1>1. CASE StartSession
  BY <1>1 DEF StartSession, TypeOK, JobClosedWithSession, SucceededWasImported,
     LateCallsAreRefused, Facts, Active, Terminal
<1>2. CASE Tick
  BY <1>2 DEF Tick, TypeOK, JobClosedWithSession, SucceededWasImported,
     LateCallsAreRefused, Facts
<1>3. CASE OthersWrite
  BY <1>3 DEF OthersWrite, TypeOK, JobClosedWithSession, SucceededWasImported,
     LateCallsAreRefused, Facts
<1>4. CASE SweepSelect
  BY <1>4 DEF SweepSelect, TypeOK, JobClosedWithSession, SucceededWasImported,
     LateCallsAreRefused, Facts
<1>5. CASE SweepApply
  <2>1. TypeOK'
    BY <1>5 DEF SweepApply, TypeOK, Terminal, NoParts, Idle
  <2>2. JobClosedWithSession' /\ SucceededWasImported'
    BY <1>5 DEF SweepApply, JobClosedWithSession, SucceededWasImported, Terminal
  <2>3. LateCallsAreRefused' /\ Facts'
    BY <1>5 DEF SweepApply, LateCallsAreRefused, Facts, Idle
  <2> QED
    BY <2>1, <2>2, <2>3
<1> QED
  BY <1>1, <1>2, <1>3, <1>4, <1>5

\* A call starts.
LEMMA CallKeepsInvariant ==
    ASSUME IInv, NEW r \in Req, NEW call \in Op, Call(r, call),
           call.kind \in {"upload", "commit"} /\ call.late => late
    PROVE  IInv'
<1> USE DEF IInv, Call, Goto, records, world
<1>1. TypeOK'
  BY DEF TypeOK, Positions
<1>2. JobClosedWithSession' /\ SucceededWasImported'
  BY DEF JobClosedWithSession, SucceededWasImported
<1>3. LateCallsAreRefused' /\ Facts'
  BY DEF TypeOK, LateCallsAreRefused, Facts
<1> QED
  BY <1>1, <1>2, <1>3

\* A request goes from one position to another; one that came too late stays
\* where the session is loaded or marked as expired.
LEMMA MoveKeepsInvariant ==
    ASSUME IInv, NEW r \in Req, NEW where \in Positions, Goto(r, where),
           UNCHANGED <<status, job, late, writes, op, sweep, issued>>,
           parts' \in [Parts -> Chunks \cup {NoPart}],
           hub' \in Nat, imports' \in Nat, imports' >= imports,
           seen' \in [Req -> {"none"} \cup Active \cup Terminal],
           got' \in [Req -> SUBSET Parts],
           where = "finish" => imports' > 0,
           \/ where = "expire"
           \/ pc[r] \notin {"load", "expire"}
           \/ ~late
           \/ op[r].kind = "abort"
    PROVE  IInv'
<1> USE DEF IInv, Goto
<1>1. TypeOK'
  BY DEF TypeOK
<1>2. JobClosedWithSession' /\ SucceededWasImported'
  BY DEF JobClosedWithSession, SucceededWasImported, TypeOK
<1>3. LateCallsAreRefused'
  BY DEF TypeOK, LateCallsAreRefused, Facts
<1>4. Facts'
  BY DEF TypeOK, Facts
<1> QED
  BY <1>1, <1>2, <1>3, <1>4

\* A call returns, having written a status and a job that belong together.
LEMMA ReturnKeepsInvariant ==
    ASSUME IInv, NEW r \in Req, Return(r), UNCHANGED world,
           status' \in Active \cup Terminal \cup {status},
           job' \in {"failed", "succeeded", "aborted", job},
           parts' \in {parts, NoParts},
           status' \in Terminal => job' # "running",
           job' = "succeeded" \/ status' = "committed"
              => job = "succeeded" \/ status = "committed" \/ pc[r] = "finish"
    PROVE  IInv'
<1> USE DEF IInv, Return, Goto, world
<1>1. TypeOK'
  BY DEF TypeOK, NoParts, Op, NoOp, Positions
<1>2. JobClosedWithSession' /\ SucceededWasImported'
  BY DEF JobClosedWithSession, SucceededWasImported, Facts
<1>3. LateCallsAreRefused' /\ Facts'
  BY DEF TypeOK, LateCallsAreRefused, Facts, NoOp
<1> QED
  BY <1>1, <1>2, <1>3

\* The steps that move a request on.
LEMMA MovesKeepInvariant ==
    ASSUME IInv, NEW r \in Req,
           \/ LoadActive(r) \/ LoadExpired(r) \/ AbortLoad(r)
           \/ LookPart(r) \/ InsertPart(r) \/ ReloadSession(r) \/ ReloadParts(r)
           \/ CommitReceived(r) \/ CommitArchive(r) \/ CommitPreview(r)
           \/ CommitImport(r) \/ CommitImportFails(r)
    PROVE  IInv'
<1> USE DEF At, records, world
<1>0. TypeOK
  BY DEF IInv
<1>1. CASE LoadActive(r)
  BY <1>0, <1>1, MoveKeepsInvariant DEF LoadActive, IsActive, TypeOK, Positions
<1>2. CASE LoadExpired(r)
  BY <1>0, <1>2, MoveKeepsInvariant DEF LoadExpired, TypeOK, Positions
<1>3. CASE AbortLoad(r)
  BY <1>0, <1>3, MoveKeepsInvariant DEF AbortLoad, TypeOK, Positions
<1>4. CASE LookPart(r)
  BY <1>0, <1>4, MoveKeepsInvariant DEF LookPart, TypeOK, Positions
<1>5. CASE InsertPart(r)
  <2>1. op[r] \in Op /\ op[r].kind = "upload"
    BY <1>0, <1>5 DEF InsertPart, TypeOK
  <2>2. Sent(r) \in Chunks
    BY <2>1 DEF Op, Sent
  <2>3. parts' \in [Parts -> Chunks \cup {NoPart}]
    BY <1>0, <1>5, <2>2 DEF InsertPart, TypeOK
  <2> QED
    BY <1>0, <1>5, <2>3, MoveKeepsInvariant DEF InsertPart, TypeOK, Positions
<1>6. CASE ReloadSession(r)
  BY <1>0, <1>6, MoveKeepsInvariant DEF ReloadSession, TypeOK, Positions
<1>7. CASE ReloadParts(r)
  BY <1>0, <1>7, MoveKeepsInvariant DEF ReloadParts, Stored, TypeOK, Positions
<1>8. CASE CommitReceived(r)
  BY <1>0, <1>8, MoveKeepsInvariant DEF CommitReceived, TypeOK, Positions
<1>9. CASE CommitArchive(r)
  BY <1>0, <1>9, MoveKeepsInvariant DEF CommitArchive, TypeOK, Positions
<1>10. CASE CommitPreview(r)
  BY <1>0, <1>10, MoveKeepsInvariant DEF CommitPreview, TypeOK, Positions
<1>11. CASE CommitImport(r)
  BY <1>0, <1>11, MoveKeepsInvariant DEF CommitImport, TypeOK, Positions
<1>12. CASE CommitImportFails(r)
  BY <1>0, <1>12, MoveKeepsInvariant DEF CommitImportFails, TypeOK, Positions
<1> QED
  BY <1>1, <1>2, <1>3, <1>4, <1>5, <1>6, <1>7, <1>8, <1>9, <1>10, <1>11, <1>12

\* The steps with which a call returns.
LEMMA ReturnsKeepInvariant ==
    ASSUME IInv, NEW r \in Req,
           \/ Cancel(r) \/ LoadClosed(r) \/ GetSession(r) \/ MarkExpired(r)
           \/ PartConflict(r) \/ InsertFails(r) \/ SetStatus(r) \/ AbortSession(r)
           \/ CommitIncomplete(r) \/ CommitRefuse(r) \/ CommitDrift(r) \/ CommitFinish(r)
    PROVE  IInv'
<1> USE DEF IInv, JobClosedWithSession
<1>1. CASE Cancel(r) \/ LoadClosed(r) \/ GetSession(r) \/ PartConflict(r) \/ InsertFails(r)
           \/ CommitIncomplete(r) \/ CommitDrift(r)
  <2>1. Return(r) /\ UNCHANGED <<records, world>>
    BY <1>1 DEF Cancel, LoadClosed, GetSession, PartConflict, InsertFails,
       CommitIncomplete, CommitDrift
  <2> QED
    BY <2>1, ReturnKeepsInvariant DEF records
<1>2. CASE MarkExpired(r)
  BY <1>2, ReturnKeepsInvariant DEF MarkExpired, Terminal
<1>3. CASE SetStatus(r)
  BY <1>3, ReturnKeepsInvariant DEF SetStatus, Computed, Active, Terminal
<1>4. CASE AbortSession(r)
  BY <1>4, ReturnKeepsInvariant DEF AbortSession, Terminal
<1>5. CASE CommitRefuse(r)
  BY <1>5, ReturnKeepsInvariant DEF CommitRefuse
<1>6. CASE CommitFinish(r)
  BY <1>6, ReturnKeepsInvariant DEF CommitFinish, At, Terminal
<1> QED
  BY <1>1, <1>2, <1>3, <1>4, <1>5, <1>6

\* The steps with which a request starts.
LEMMA CallsKeepInvariant ==
    ASSUME IInv, NEW r \in Req, Calls(r)
    PROVE  IInv'
<1>1. late \in BOOLEAN /\ hub \in Nat
  BY DEF IInv, TypeOK
<1>2. ASSUME NEW i \in Parts, NEW c \in Chunks, CallUpload(r, i, c) PROVE IInv'
  <2> DEFINE call == [kind |-> "upload", part |-> i, chunk |-> c, late |-> late]
  <2>1. call \in Op /\ call.late = late /\ Call(r, call)
    BY <1>1, <1>2 DEF Op, CallUpload
  <2> HIDE DEF call
  <2> QED
    BY <2>1, CallKeepsInvariant
<1>3. ASSUME NEW p \in {NoPreview, hub}, CallCommit(r, p) PROVE IInv'
  <2> DEFINE call == [kind |-> "commit", preview |-> p, late |-> late]
  <2>1. call \in Op /\ call.late = late /\ Call(r, call)
    BY <1>1, <1>3 DEF Op, CallCommit
  <2> HIDE DEF call
  <2> QED
    BY <2>1, CallKeepsInvariant
<1>4. ASSUME NEW kind \in {"get", "abort"}, Call(r, [kind |-> kind]) PROVE IInv'
  <2> DEFINE call == [kind |-> kind]
  <2>1. call \in Op /\ call.kind \notin {"upload", "commit"} /\ Call(r, call)
    BY <1>4 DEF Op
  <2> HIDE DEF call
  <2> QED
    BY <2>1, CallKeepsInvariant
<1> QED
  BY <1>2, <1>3, <1>4 DEF Calls, CallGet, CallAbort

\* Every step keeps the invariant.
LEMMA StepKeepsInvariant == IInv /\ [Next]_vars => IInv'
<1> SUFFICES ASSUME IInv, [Next]_vars PROVE IInv'
  OBVIOUS
<1>1. CASE StartSession \/ Tick \/ OthersWrite \/ Sweep
  BY <1>1, SurroundingsKeepInvariant DEF Sweep
<1>2. ASSUME NEW r \in Req, Calls(r) PROVE IInv'
  BY <1>2, CallsKeepInvariant
<1>3. ASSUME NEW r \in Req, Progress(r) \/ Cancel(r) PROVE IInv'
  BY <1>3, MovesKeepInvariant, ReturnsKeepInvariant DEF Progress, Upload, Commit
<1>4. CASE UNCHANGED vars
  BY <1>4 DEF vars, records, world, calls, IInv, TypeOK, JobClosedWithSession,
     SucceededWasImported, LateCallsAreRefused, Facts
<1> QED
  BY <1>1, <1>2, <1>3, <1>4 DEF Next

-----------------------------------------------------------------------------
(* The theorems. *)

\* In every behaviour of a session its invariant always holds.
THEOREM InvariantHolds == Spec => []IInv
<1> QED
  BY InitInvariant, StepKeepsInvariant, PTL DEF Spec

\* Statuses, parts and requests always have their types.
THEOREM TypeCorrect == Spec => []TypeOK
<1>1. IInv => TypeOK
  BY DEF IInv
<1> QED
  BY <1>1, InvariantHolds, PTL

\* A session that is over never has a running job.
THEOREM JobsClose == Spec => []JobClosedWithSession
<1>1. IInv => JobClosedWithSession
  BY DEF IInv
<1> QED
  BY <1>1, InvariantHolds, PTL

\* No sync is shown as done that was not imported.
THEOREM SuccessMeansImport == Spec => []SucceededWasImported
<1>1. IInv => SucceededWasImported
  BY DEF IInv
<1> QED
  BY <1>1, InvariantHolds, PTL

\* No upload or commit that comes after expires_at does any work.
THEOREM LateCallsDoNothing == Spec => []LateCallsAreRefused
<1>1. IInv => LateCallsAreRefused
  BY DEF IInv
<1> QED
  BY <1>1, InvariantHolds, PTL

\* The bytes of a stored part never change while its session lasts.
THEOREM PartsAreStable == Spec => PartsKeepTheirBytes
<1> DEFINE Kept == \A i \in Parts : parts[i] # NoPart /\ parts'[i] # parts[i]
                     => parts'[i] = NoPart /\ (late \/ status' \in Terminal)
<1>1. ASSUME IInv, [Next]_vars PROVE [Kept]_vars
  <2> SUFFICES ASSUME NEW i \in Parts, parts[i] # NoPart, parts'[i] # parts[i]
               PROVE  parts'[i] = NoPart /\ (late \/ status' \in Terminal)
    OBVIOUS
  <2> USE DEF records, world, NoParts
  <2>1. CASE StartSession \/ Tick \/ OthersWrite \/ SweepSelect
    BY <2>1 DEF StartSession, Tick, OthersWrite, SweepSelect
  <2>2. CASE SweepApply
    BY <1>1, <2>2 DEF SweepApply, IInv, Facts
  <2>3. ASSUME NEW r \in Req, Calls(r) PROVE FALSE
    BY <2>3 DEF Calls, CallUpload, CallCommit, CallGet, CallAbort, Call
  <2>4. ASSUME NEW r \in Req, Upload(r) PROVE FALSE
    <3>1. parts \in [Parts -> Chunks \cup {NoPart}]
      BY <1>1 DEF IInv, TypeOK
    <3>2. CASE InsertPart(r)
      BY <3>1, <3>2 DEF InsertPart
    <3> QED
      BY <2>4, <3>2 DEF Upload, LookPart, PartConflict, InsertFails, ReloadSession,
         ReloadParts, SetStatus
  <2>5. ASSUME NEW r \in Req, Commit(r)
        PROVE  parts'[i] = NoPart /\ (late \/ status' \in Terminal)
    BY <2>5 DEF Commit, CommitIncomplete, CommitReceived, CommitArchive, CommitRefuse,
       CommitPreview, CommitDrift, CommitImport, CommitImportFails, CommitFinish, Terminal
  <2>6. ASSUME NEW r \in Req, AbortSession(r)
        PROVE  parts'[i] = NoPart /\ status' \in Terminal
    BY <2>6 DEF AbortSession, Terminal
  <2>7. ASSUME NEW r \in Req,
               \/ LoadActive(r) \/ LoadClosed(r) \/ LoadExpired(r) \/ GetSession(r)
               \/ MarkExpired(r) \/ AbortLoad(r) \/ Cancel(r)
        PROVE  FALSE
    BY <2>7 DEF LoadActive, LoadClosed, LoadExpired, GetSession, MarkExpired, AbortLoad, Cancel
  <2>8. CASE UNCHANGED vars
    BY <2>8 DEF vars
  <2> QED
    BY <1>1, <2>1, <2>2, <2>3, <2>4, <2>5, <2>6, <2>7, <2>8 DEF Next, Sweep, Progress
<1> QED
  BY <1>1, InvariantHolds, PTL DEF Spec, PartsKeepTheirBytes
=============================================================================
