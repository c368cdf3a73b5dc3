---------------------------- MODULE SyncSession ----------------------------
(***************************************************************************)
(* One archive upload of Bundle Sync in the PostgreSQL deployment: the     *)
(* session, its parts and its job (internal/services/sync_service.go over  *)
(* migrations/015_sync_v2.sql).  Calls of one session run concurrently: a  *)
(* slow commit that its client gave up and resumed, two resumes, an abort  *)
(* from another window, and the hourly CleanExpiredSessions.               *)
(*                                                                         *)
(* No handler locks the session while it works: each reads the session,    *)
(* decides, and writes later.  A transaction that updates the session row  *)
(* keeps it locked to its end, so it is one step; a part and its           *)
(* transaction's COMMIT are one step as well, for nobody sees the part     *)
(* before.                                                                 *)
(***************************************************************************)
EXTENDS Integers, FiniteSets

CONSTANTS
    Req,        \* server goroutines that run one call at a time
    Parts,      \* part indexes 0 .. total_parts - 1
    Chunks,     \* bytes a part may have
    Archive,    \* the announced archive: the chunk of each part
    NoPart,     \* a part that is not stored
    NoPreview,  \* a commit without preview_fingerprint
    MaxWrites,  \* bound of the model: writes to the hub by others
    MaxCalls    \* bound of the model: calls started in a behaviour

ASSUME SessionAssumption ==
    /\ Archive \in [Parts -> Chunks]
    /\ NoPart \notin Chunks
    /\ NoPreview \notin Nat
    /\ MaxWrites \in Nat /\ MaxCalls \in Nat

VARIABLES
    status,   \* sync_sessions.status ("none": no session yet)
    job,      \* sync_jobs.status of the session's job
    parts,    \* sync_session_parts
    late,     \* the clock has passed expires_at
    hub,      \* what a preview fingerprints: counts the changes to the hub
    writes,   \* those of them others made
    imports,  \* ImportBundle calls that succeeded
    pc, op,   \* each request: its position in the handlers, and its call
    seen,     \* the session status it read, where the handler uses it again
    got,      \* the parts an upload saw stored when it read them again
    sweep,    \* CleanExpiredSessions: running or not, and what it selected
    issued    \* calls started so far

records == <<status, job, parts>>
world   == <<late, hub, writes, imports>>
calls   == <<pc, op, seen, got>>
vars    == <<records, world, calls, sweep, issued>>

Active   == {"uploading", "ready"}
Terminal == {"committed", "aborted", "expired"}

Stored  == {i \in Parts : parts[i] # NoPart}
NoParts == [i \in Parts |-> NoPart]

\* late in a call is no part of the request: it tells that it came too late.
Op == [kind : {"upload"}, part : Parts, chunk : Chunks, late : BOOLEAN]
      \cup [kind : {"commit"}, preview : Nat \cup {NoPreview}, late : BOOLEAN]
      \cup [kind : {"get", "abort"}]
      \cup {[kind |-> "none"]}

NoOp == [kind |-> "none"]
Idle == [on |-> FALSE, late |-> FALSE, picked |-> FALSE]

Init ==
    /\ status = "none" /\ job = "none" /\ parts = NoParts
    /\ late = FALSE /\ hub = 0 /\ writes = 0 /\ imports = 0
    /\ pc = [r \in Req |-> "idle"]
    /\ op = [r \in Req |-> NoOp]
    /\ seen = [r \in Req |-> "none"]
    /\ got = [r \in Req |-> {}]
    /\ sweep = Idle
    /\ issued = 0

Goto(r, where) == pc' = [pc EXCEPT ![r] = where]

Return(r) ==
    /\ Goto(r, "idle")
    /\ op' = [op EXCEPT ![r] = NoOp]
    /\ seen' = [seen EXCEPT ![r] = "none"]
    /\ got' = [got EXCEPT ![r] = {}]
    /\ UNCHANGED <<sweep, issued>>

At(r, kind, where) == op[r].kind = kind /\ pc[r] = where

-----------------------------------------------------------------------------
(* Clients. *)

\* One transaction inserts the job and the session.
StartSession ==
    /\ status = "none"
    /\ status' = "uploading" /\ job' = "running"
    /\ UNCHANGED <<parts, world, calls, sweep, issued>>

Call(r, call) ==
    /\ pc[r] = "idle" /\ status # "none"
    /\ issued < MaxCalls /\ issued' = issued + 1
    /\ op' = [op EXCEPT ![r] = call]
    /\ Goto(r, "load")
    /\ UNCHANGED <<records, world, seen, got, sweep>>

CallUpload(r, i, c) == Call(r, [kind |-> "upload", part |-> i, chunk |-> c, late |-> late])
CallCommit(r, p)    == Call(r, [kind |-> "commit", preview |-> p, late |-> late])
CallGet(r)          == Call(r, [kind |-> "get"])
CallAbort(r)        == Call(r, [kind |-> "abort"])

\* The caller goes away or the server dies.
Cancel(r) == pc[r] # "idle" /\ Return(r) /\ UNCHANGED <<records, world>>

-----------------------------------------------------------------------------
(* loadSessionState reads the session, then its parts.  ensureActiveSession *)
(* follows in UploadPart and CommitSession.                                 *)

IsActive == status \in Active /\ ~late

LoadActive(r) ==
    /\ pc[r] = "load" /\ op[r].kind \in {"upload", "commit"}
    /\ IsActive
    /\ Goto(r, IF op[r].kind = "upload" THEN "look" ELSE "received")
    /\ UNCHANGED <<records, world, op, seen, got, sweep, issued>>

LoadClosed(r) ==
    /\ pc[r] = "load" /\ op[r].kind \in {"upload", "commit"}
    /\ status \in {"committed", "aborted"}
    /\ Return(r)
    /\ UNCHANGED <<records, world>>

\* ErrSyncSessionExpired, and for GetSession its own test of the time.
LoadExpired(r) ==
    /\ pc[r] = "load"
    /\ \/ /\ op[r].kind \in {"upload", "commit"}
          /\ status \notin {"committed", "aborted"} /\ ~IsActive
       \/ op[r].kind = "get" /\ status # "committed" /\ late
    /\ seen' = [seen EXCEPT ![r] = status]
    /\ Goto(r, "expire")
    /\ UNCHANGED <<records, world, op, got, sweep, issued>>

GetSession(r) ==
    /\ At(r, "get", "load")
    /\ status = "committed" \/ ~late
    /\ Return(r)
    /\ UNCHANGED <<records, world>>

\* Mutant: the job is left alone.
ExpireSessionOnly(r) ==
    /\ pc[r] = "expire"
    /\ IF seen[r] \in {"committed", "aborted"}
       THEN UNCHANGED <<status, job>>
       ELSE /\ status' = IF status \in {"committed", "aborted"} THEN status ELSE "expired"
            /\ job' = job
    /\ Return(r)
    /\ UNCHANGED <<parts, world>>

\* markSessionExpired
MarkExpired(r) ==
    /\ pc[r] = "expire"
    /\ IF seen[r] \in {"committed", "aborted"}
       THEN UNCHANGED <<status, job>>
       ELSE /\ status' = IF status \in {"committed", "aborted"} THEN status ELSE "expired"
            /\ job' = IF job = "running" THEN "failed" ELSE job
    /\ Return(r)
    /\ UNCHANGED <<parts, world>>

-----------------------------------------------------------------------------
(* UploadPart *)

Sent(r) == op[r].chunk

\* The part is new, or it is there with the same bytes and only touched.
LookPart(r) ==
    /\ At(r, "upload", "look")
    /\ parts[op[r].part] \in {NoPart, Sent(r)}
    /\ Goto(r, IF parts[op[r].part] = NoPart THEN "insert" ELSE "reload")
    /\ UNCHANGED <<records, world, op, seen, got, sweep, issued>>

\* ErrSyncPartConflict
PartConflict(r) ==
    /\ At(r, "upload", "look")
    /\ parts[op[r].part] \notin {NoPart, Sent(r)}
    /\ Return(r)
    /\ UNCHANGED <<records, world>>

\* Mutant: an upsert instead of the INSERT.
UpsertPart(r) ==
    /\ At(r, "upload", "insert")
    /\ parts' = [parts EXCEPT ![op[r].part] = Sent(r)]
    /\ Goto(r, "reload")
    /\ UNCHANGED <<status, job, world, op, seen, got, sweep, issued>>

InsertPart(r) ==
    /\ At(r, "upload", "insert")
    /\ parts[op[r].part] = NoPart
    /\ parts' = [parts EXCEPT ![op[r].part] = Sent(r)]
    /\ Goto(r, "reload")
    /\ UNCHANGED <<status, job, world, op, seen, got, sweep, issued>>

\* Another upload of the part came first: its primary key is taken.
InsertFails(r) ==
    /\ At(r, "upload", "insert")
    /\ parts[op[r].part] # NoPart
    /\ Return(r)
    /\ UNCHANGED <<records, world>>

\* loadSessionState once more; nothing looks at the time or at a closed status.
ReloadSession(r) ==
    /\ At(r, "upload", "reload")
    /\ seen' = [seen EXCEPT ![r] = status]
    /\ Goto(r, "received")
    /\ UNCHANGED <<records, world, op, got, sweep, issued>>

ReloadParts(r) ==
    /\ At(r, "upload", "received")
    /\ got' = [got EXCEPT ![r] = Stored]
    /\ Goto(r, "status")
    /\ UNCHANGED <<records, world, op, seen, sweep, issued>>

Computed(r) == IF got[r] = Parts THEN "ready" ELSE "uploading"

\* updateSessionStatus: an UPDATE without a condition on the status.
SetStatus(r) ==
    /\ At(r, "upload", "status")
    /\ status' = IF seen[r] # Computed(r) THEN Computed(r) ELSE status
    /\ Return(r)
    /\ UNCHANGED <<job, parts, world>>

-----------------------------------------------------------------------------
(* AbortSession: whatever the status; the session read is only for its job. *)

AbortLoad(r) ==
    /\ At(r, "abort", "load")
    /\ Goto(r, "abort")
    /\ UNCHANGED <<records, world, op, seen, got, sweep, issued>>

AbortSession(r) ==
    /\ At(r, "abort", "abort")
    /\ status' = "aborted" /\ job' = "aborted" /\ parts' = NoParts
    /\ Return(r)
    /\ UNCHANGED world

-----------------------------------------------------------------------------
(* CommitSession *)

\* ErrSyncSessionIncomplete, of the session's parts or of loadArchiveData.
CommitIncomplete(r) ==
    /\ At(r, "commit", "received") \/ At(r, "commit", "archive")
    /\ Stored # Parts
    /\ Return(r)
    /\ UNCHANGED <<records, world>>

CommitReceived(r) ==
    /\ At(r, "commit", "received")
    /\ Stored = Parts
    /\ Goto(r, "archive")
    /\ UNCHANGED <<records, world, op, seen, got, sweep, issued>>

\* ParseBundleArchive and the comparison of the SHA-256 of the archive.
CommitArchive(r) ==
    /\ At(r, "commit", "archive")
    /\ Stored = Parts
    /\ Goto(r, CASE parts # Archive               -> "refuse"
                 [] op[r].preview # NoPreview     -> "preview"
                 [] OTHER                         -> "import")
    /\ UNCHANGED <<records, world, op, seen, got, sweep, issued>>

\* finishSyncJob with "failed"; the session may be committed again.
CommitRefuse(r) ==
    /\ At(r, "commit", "refuse")
    /\ job' = "failed"
    /\ Return(r)
    /\ UNCHANGED <<status, parts, world>>

CommitPreview(r) ==
    /\ At(r, "commit", "preview")
    /\ hub = op[r].preview
    /\ Goto(r, "import")
    /\ UNCHANGED <<records, world, op, seen, got, sweep, issued>>

\* ErrSyncPreviewDrift
CommitDrift(r) ==
    /\ At(r, "commit", "preview")
    /\ hub # op[r].preview
    /\ Return(r)
    /\ UNCHANGED <<records, world>>

CommitImport(r) ==
    /\ At(r, "commit", "import")
    /\ hub' = hub + 1 /\ imports' = imports + 1
    /\ Goto(r, "finish")
    /\ UNCHANGED <<records, late, writes, op, seen, got, sweep, issued>>

\* Mutant: the error of ImportBundle is only logged.
ImportErrorIgnored(r) ==
    /\ At(r, "commit", "import")
    /\ hub' \in {hub, hub + 1}
    /\ Goto(r, "finish")
    /\ UNCHANGED <<records, late, writes, imports, op, seen, got, sweep, issued>>

\* ImportBundle is no transaction: some of it may be written when it fails.
CommitImportFails(r) ==
    /\ At(r, "commit", "import")
    /\ hub' \in {hub, hub + 1}
    /\ Goto(r, "refuse")
    /\ UNCHANGED <<records, late, writes, imports, op, seen, got, sweep, issued>>

\* The last transaction, whatever became of the session since it was read.
CommitFinish(r) ==
    /\ At(r, "commit", "finish")
    /\ status' = "committed" /\ job' = "succeeded" /\ parts' = NoParts
    /\ Return(r)
    /\ UNCHANGED world

-----------------------------------------------------------------------------
(* CleanExpiredSessions, every hour.  A run that fails rolls back.          *)

SweepSelect ==
    /\ ~sweep.on /\ status # "none"
    /\ sweep' = [on |-> TRUE, late |-> late, picked |-> late /\ status \in Active]
    /\ UNCHANGED <<records, world, calls, issued>>

\* Mutant: only the parts of sessions this run expired are deleted.
SweepPicked ==
    /\ sweep.on
    /\ status' = IF sweep.picked THEN "expired" ELSE status
    /\ job' = IF sweep.picked /\ job = "running" THEN "failed" ELSE job
    /\ parts' = IF sweep.picked THEN NoParts ELSE parts
    /\ sweep' = Idle
    /\ UNCHANGED <<world, calls, issued>>

\* Its UPDATE names the ids it selected and does not look at the status again.
SweepApply ==
    /\ sweep.on
    /\ status' = IF sweep.picked THEN "expired" ELSE status
    /\ job' = IF sweep.picked /\ job = "running" THEN "failed" ELSE job
    /\ parts' = IF status' \in Terminal \/ sweep.late THEN NoParts ELSE parts
    /\ sweep' = Idle
    /\ UNCHANGED <<world, calls, issued>>

Tick ==
    /\ status # "none" /\ ~late
    /\ late' = TRUE
    /\ UNCHANGED <<records, hub, writes, imports, calls, sweep, issued>>

OthersWrite ==
    /\ writes < MaxWrites
    /\ writes' = writes + 1 /\ hub' = hub + 1
    /\ UNCHANGED <<records, late, imports, calls, sweep, issued>>

-----------------------------------------------------------------------------
Upload(r) == \/ LookPart(r) \/ PartConflict(r) \/ InsertPart(r) \/ InsertFails(r)
             \/ ReloadSession(r) \/ ReloadParts(r) \/ SetStatus(r)

Commit(r) == \/ CommitIncomplete(r) \/ CommitReceived(r) \/ CommitArchive(r)
             \/ CommitRefuse(r) \/ CommitPreview(r) \/ CommitDrift(r)
             \/ CommitImport(r) \/ CommitImportFails(r) \/ CommitFinish(r)

Progress(r) == \/ LoadActive(r) \/ LoadClosed(r) \/ LoadExpired(r) \/ GetSession(r)
               \/ MarkExpired(r) \/ AbortLoad(r) \/ AbortSession(r)
               \/ Upload(r) \/ Commit(r)

Calls(r) == \/ \E i \in Parts, c \in Chunks : CallUpload(r, i, c)
            \/ \E p \in {NoPreview, hub} : CallCommit(r, p)
            \/ CallGet(r)
            \/ CallAbort(r)

Sweep == SweepSelect \/ SweepApply

Next == \/ StartSession \/ Tick \/ OthersWrite \/ Sweep
        \/ \E r \in Req : Calls(r) \/ Progress(r) \/ Cancel(r)

Spec == Init /\ [][Next]_vars

\* A call that runs goes on, and the scheduler keeps running the clean-up.
FairSpec == Spec /\ WF_vars(Sweep) /\ \A r \in Req : WF_vars(Progress(r))

-----------------------------------------------------------------------------
(* Properties. *)

Positions == {"idle", "load", "expire", "look", "insert", "reload", "received", "status",
              "abort", "archive", "refuse", "preview", "import", "finish"}

\* The statuses are those of models/sync.go, requests stand where the handlers
\* can stand.
TypeOK ==
    /\ status \in {"none"} \cup Active \cup Terminal
    /\ job \in {"none", "running", "succeeded", "failed", "aborted"}
    /\ parts \in [Parts -> Chunks \cup {NoPart}]
    /\ late \in BOOLEAN
    /\ hub \in Nat /\ writes \in Nat /\ imports \in Nat /\ issued \in Nat
    /\ pc \in [Req -> Positions]
    /\ op \in [Req -> Op]
    /\ seen \in [Req -> {"none"} \cup Active \cup Terminal]
    /\ got \in [Req -> SUBSET Parts]
    /\ sweep \in [on : BOOLEAN, late : BOOLEAN, picked : BOOLEAN]

\* A session that is over has no running job, whoever ended it and in whatever
\* order: the history of syncs shows nothing as running for ever.  (The clean-up
\* and markSessionExpired close only running jobs, the other handlers close the
\* job in the transaction that ends the session.)
JobClosedWithSession == status \in Terminal => job # "running"

\* A job that succeeded, or a session that is committed, was imported: no crash,
\* failed import or concurrent call makes a sync look done that never was.
SucceededWasImported == job = "succeeded" \/ status = "committed" => imports > 0

\* A call that comes after expires_at does no work on the session, even when a
\* slow upload has put the status back to "uploading" since the clean-up
\* (docs/sync-audit.md: late clean-up does not make a session usable again).
LateCallsAreRefused ==
    \A r \in Req : op[r].kind \in {"upload", "commit"} /\ op[r].late
                      => pc[r] \in {"load", "expire"}

\* A stored part keeps its bytes until its session ends or its time is over, so
\* that resuming an upload never mixes two archives.
PartsKeepTheirBytes ==
    [][ \A i \in Parts : parts[i] # NoPart /\ parts'[i] # parts[i]
          => parts'[i] = NoPart /\ (late \/ status' \in Terminal) ]_vars

\* In the end an upload whose time is over is closed and its bytes are gone,
\* however uploads and clean-ups race (docs/sync-audit.md, section 5).
AbandonedIsReclaimed == <>[](late => status \in Terminal /\ Stored = {})

-----------------------------------------------------------------------------
(* The inductive invariant. *)

\* A commit past ImportBundle has imported; what came too late, or cleans up
\* after the time, is there only once the time is over.
Facts ==
    /\ \A r \in Req : pc[r] = "finish" => imports > 0
    /\ \A r \in Req : op[r].kind \in {"upload", "commit"} /\ op[r].late => late
    /\ sweep.late => late

\* The invariant the proofs of SyncSession_proofs carry from step to step.
IInv == TypeOK /\ JobClosedWithSession /\ SucceededWasImported
        /\ LateCallsAreRefused /\ Facts

-----------------------------------------------------------------------------
(* What the code does not hold. *)

\* A committed session stays committed.
CommittedStays == [][status = "committed" => status' = "committed"]_vars
=============================================================================
