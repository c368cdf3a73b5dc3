-------------------------- MODULE LocalImportPage --------------------------
(***************************************************************************)
(* The page that scans and imports the data of local apps                   *)
(* (ClaudeMigrationPage.tsx) and the scan behind it                         *)
(* (internal/api/local_platform_dashboard.go).                              *)
(*                                                                         *)
(* A scan runs beside the requests and leaves its verdict and its preview   *)
(* in two files; a request reads them one after the other, and declares a   *)
(* scan interrupted that says it runs and does not.  The page polls while   *)
(* it sees a scan running, and shows one platform of several: the one of    *)
(* the tab that was pressed last, or of the location that the browser went  *)
(* back or forward to.                                                      *)
(*                                                                         *)
(* Left out: the preview that another endpoint keeps without a scan         *)
(* (/api/local/platform/preview, which the page does not call), and with it *)
(* the verdict that is made up for a preview without one; and what the hub  *)
(* still does for a request that the page has called off, which is what it  *)
(* does for the read that takes its place.                                  *)
(***************************************************************************)
EXTENDS Naturals, FiniteSets

CONSTANTS
    Platforms,
    Nothing,
    MaxScans,  \* bound of the model: scans of a platform
    MaxCalls,  \* bound of the model: requests under way at once
    MaxMoves   \* bound of the model: changes of the platform, imports, restarts

LocalImportAssumption ==
    /\ MaxScans \in Nat \ {0} /\ MaxCalls \in Nat \ {0} /\ MaxMoves \in Nat
    /\ Nothing \notin [of : Platforms, scan : Nat]

Verdicts == {"succeeded", "failed"}

VARIABLES
    status,    \* the status file of every platform: the scan and its state
    cached,    \* the preview file: the scan that it is of, or 0
    held,      \* localPlatformPreviewJobs: the scan that runs, or 0
    scans,     \* scans so far; each has a job id of its own, which is its number
    phase,     \* what the scan that runs does next
    active,    \* activePlatform
    task,      \* taskStatus
    preview,
    result,    \* the import whose outcome is shown
    loading,   \* loadingPreviewTask
    importing,
    calls,     \* the requests of the page that are not called off
    moves,
    calm,      \* no part of the code: see Strays
    untouched  \* no part of the code: see Overtakes

server == <<status, cached, held, scans, phase>>
shown == <<task, preview, result>>
vars == <<server, active, shown, loading, importing, calls, moves, calm, untouched>>

Idle == [scan |-> 0, state |-> "idle"]
Runs(scan) == [scan |-> scan, state |-> "running"]
NoCall == [does |-> "read", of |-> Nothing, stage |-> "sent", saw |-> Idle, found |-> 0]
CallFor(does, p) == [NoCall EXCEPT !.does = does, !.of = p]

Previewing == task # Nothing /\ task.state = "running"

Init ==
    /\ status = [p \in Platforms |-> Idle] /\ cached = [p \in Platforms |-> 0]
    /\ held = [p \in Platforms |-> 0] /\ scans = [p \in Platforms |-> 0]
    /\ phase = [p \in Platforms |-> "none"]
    /\ active \in Platforms /\ task = Nothing /\ preview = Nothing /\ result = Nothing
    /\ loading = TRUE /\ importing = FALSE /\ calls = {CallFor("read", active)}
    /\ moves = 0 /\ calm = TRUE /\ untouched = TRUE

-----------------------------------------------------------------------------
(* The server: handleLocalPlatformPreviewTask. *)

Becomes(c, d) == calls' = (calls \ {c}) \cup {d}

\* readLocalPlatformPreviewTask reads the status first, then the preview.
StatusRead(c) ==
    /\ c.does \in {"read", "poll", "start"} /\ c.stage = "sent"
    /\ Becomes(c, [c EXCEPT !.stage = "status", !.saw = status[c.of]])
    /\ UNCHANGED <<server, active, shown, loading, importing, moves>>

\* Then it declares interrupted what says it runs and is not among the jobs.
Interrupted(saw, p) == saw.state = "running" /\ held[p] # saw.scan

PreviewRead(c) ==
    /\ c.stage = "status"
    /\ LET saw == IF Interrupted(c.saw, c.of) THEN [c.saw EXCEPT !.state = "failed"] ELSE c.saw
       IN /\ \/ UNCHANGED status   \* the write may fail
             \/ saw # c.saw /\ status' = [status EXCEPT ![c.of] = saw]
          /\ Becomes(c, [c EXCEPT !.stage = IF c.does = "start" THEN "read" ELSE "answered",
                                  !.saw = saw, !.found = cached[c.of]])
    /\ UNCHANGED <<cached, held, scans, phase, active, shown, loading, importing, moves>>

\* startLocalPlatformPreviewTask, after a read of its own: a platform has one scan at a
\* time, and who comes second is told what was read before.
Joins(c) ==
    /\ c.stage = "read" /\ held[c.of] # 0
    /\ Becomes(c, [c EXCEPT !.stage = "answered",
                            !.saw = IF c.saw = Idle THEN Runs(held[c.of]) ELSE c.saw])
    /\ UNCHANGED <<server, active, shown, loading, importing, moves>>

Claims(c) ==
    /\ c.stage = "read" /\ held[c.of] = 0 /\ scans[c.of] < MaxScans
    /\ scans' = [scans EXCEPT ![c.of] = @ + 1]
    /\ held' = [held EXCEPT ![c.of] = scans[c.of] + 1]
    /\ phase' = [phase EXCEPT ![c.of] = "claimed"]
    /\ Becomes(c, [c EXCEPT !.stage = "claimed"])
    /\ UNCHANGED <<status, cached, active, shown, loading, importing, moves>>

\* The scan begins once its status is written, or not at all.
Begins(c) ==
    /\ c.stage = "claimed" /\ phase[c.of] = "claimed"
    /\ phase' = [phase EXCEPT ![c.of] = "scanning"]
    /\ status' = [status EXCEPT ![c.of] = Runs(scans[c.of])]
    /\ Becomes(c, [c EXCEPT !.stage = "answered", !.saw = Runs(scans[c.of])])
    /\ UNCHANGED <<cached, held, scans, active, shown, loading, importing, moves>>

BeginsNot(c) ==
    /\ c.stage = "claimed" /\ phase[c.of] = "claimed"
    /\ phase' = [phase EXCEPT ![c.of] = "none"] /\ held' = [held EXCEPT ![c.of] = 0]
    /\ Becomes(c, [c EXCEPT !.stage = "refused"])
    /\ UNCHANGED <<status, cached, scans, active, shown, loading, importing, moves>>

\* Mutant: the verdict is written before the preview.
ConcludesFirst(p) ==
    /\ phase[p] = "scanning" /\ phase' = [phase EXCEPT ![p] = "concluded"]
    /\ status' = [status EXCEPT ![p] = [scan |-> held[p], state |-> "succeeded"]]
    /\ UNCHANGED <<cached, held, scans, active, shown, loading, importing, calls, moves>>

\* finishLocalPlatformPreviewTask, of the job that it is given, which is the last that
\* was begun: the preview, if there is one and it can be written,
Caches(p) ==
    /\ phase[p] = "scanning" /\ phase' = [phase EXCEPT ![p] = "cached"]
    /\ cached' = [cached EXCEPT ![p] = scans[p]]
    /\ UNCHANGED <<status, held, scans, active, shown, loading, importing, calls, moves>>

\* then the verdict, which may not be written either,
Concludes(p) ==
    /\ phase[p] \in {"scanning", "cached"} /\ phase' = [phase EXCEPT ![p] = "concluded"]
    /\ LET verdict == [scan |-> scans[p],
                       state |-> IF phase[p] = "cached" THEN "succeeded" ELSE "failed"]
       IN status' \in {status, [status EXCEPT ![p] = verdict]}
    /\ UNCHANGED <<cached, held, scans, active, shown, loading, importing, calls, moves>>

\* Mutant: the job is forgotten as soon as its preview is there.
ReleasesFirst(p) ==
    /\ phase[p] = "cached" /\ held[p] # 0
    /\ held' = [held EXCEPT ![p] = 0]
    /\ UNCHANGED <<status, cached, scans, phase, active, shown, loading, importing, calls, moves>>

\* and at last the job is forgotten (markLocalPlatformPreviewJobFinished).
Releases(p) ==
    /\ phase[p] = "concluded" /\ phase' = [phase EXCEPT ![p] = "none"]
    /\ held' = [held EXCEPT ![p] = 0]
    /\ UNCHANGED <<status, cached, scans, active, shown, loading, importing, calls, moves>>

Move == moves < MaxMoves /\ moves' = moves + 1

\* The daemon ends and starts again; bound of the model: not under a request.
Restart ==
    /\ Move /\ \E p \in Platforms : held[p] # 0
    /\ \A c \in calls : c.stage \in {"sent", "answered"}
    /\ held' = [p \in Platforms |-> 0] /\ phase' = [p \in Platforms |-> "none"]
    /\ UNCHANGED <<status, cached, scans, active, shown, loading, importing, calls>>

-----------------------------------------------------------------------------
(* The page.  The effects call their requests off; handleRefresh and         *)
(* handleImport do not.                                                      *)

\* Mutant: no request is called off.
CallsWithout(does) == calls

CallsOff(does) == {c \in calls : c.does \notin does}

\* The effect of the poller starts and ends with what is seen running.
Sees(c) ==
    /\ task' = IF c.saw = Idle THEN Nothing
               ELSE [of |-> c.of, scan |-> c.saw.scan, state |-> c.saw.state]
    /\ preview' = IF c.found = 0 THEN Nothing ELSE [of |-> c.of, scan |-> c.found]
    /\ calls' = (IF c.saw.state = "running" THEN calls ELSE CallsOff({"poll"})) \ {c}

Answered(c) ==
    /\ c.stage = "answered" /\ Sees(c)
    /\ loading' = (c.does = "poll" /\ loading)
    /\ UNCHANGED <<server, active, result, importing, moves>>

\* What an import does in the hub is not looked at.
Imported(c) ==
    /\ c.does = "import" /\ calls' = calls \ {c}
    /\ result' = c.of /\ importing' = FALSE
    /\ UNCHANGED <<server, active, task, preview, loading, moves>>

\* A start that has been claimed is answered or refused.
Fails(c) ==
    /\ c.stage # "claimed"
    /\ calls' = calls \ {c}
    /\ importing' = (c.does # "import" /\ importing)
    /\ loading' = (c.does \notin {"read", "start"} /\ loading)
    /\ IF c.does = "read" THEN task' = Nothing /\ preview' = Nothing
       ELSE UNCHANGED <<task, preview>>
    /\ UNCHANGED <<server, active, result, moves>>

Room == Cardinality(calls) < MaxCalls

\* The effect of another platform; its clean-up calls the requests of the last one off.
TurnsTo(p) ==
    /\ active' = p
    /\ IF p = active THEN UNCHANGED <<task, preview, loading, calls>>
       ELSE /\ Cardinality(CallsOff({"read", "poll"})) < MaxCalls
            /\ task' = Nothing /\ preview' = Nothing /\ loading' = TRUE
            /\ calls' = CallsOff({"read", "poll"}) \cup {CallFor("read", p)}

\* The tabs can be used at any time, the one of the platform that is shown too.
SelectPlatform(p) ==
    /\ Move /\ TurnsTo(p) /\ result' = Nothing
    /\ UNCHANGED <<server, importing>>

\* The browser goes back or forward: the effect of the location follows one that names a
\* platform, and what an import left behind stays on the page.  The history can hold any
\* location of the page, those from before it was loaded among them.
FollowLocation(p) ==
    /\ p # active /\ Move /\ TurnsTo(p)
    /\ UNCHANGED <<server, result, importing>>

Poll ==
    /\ Previewing /\ Room
    /\ CallFor("poll", active) \notin calls
    /\ calls' = calls \cup {CallFor("poll", active)}
    /\ UNCHANGED <<server, active, shown, loading, importing, moves>>

Refresh ==
    /\ ~Previewing /\ ~importing /\ ~loading /\ Room
    /\ scans[active] < MaxScans
    /\ calls' = calls \cup {CallFor("start", active)} /\ loading' = TRUE
    /\ UNCHANGED <<server, active, shown, importing, moves>>

Import ==
    /\ ~Previewing /\ ~importing /\ Room /\ Move
    /\ calls' = calls \cup {CallFor("import", active)} /\ importing' = TRUE
    /\ UNCHANGED <<server, active, shown, loading>>

-----------------------------------------------------------------------------
Serving ==
    \E c \in calls :
       \/ StatusRead(c) \/ PreviewRead(c)
       \/ Joins(c) \/ Claims(c) \/ Begins(c) \/ BeginsNot(c)
Scanning == \E p \in Platforms : Caches(p) \/ Concludes(p) \/ Releases(p)
Page == Poll \/ Refresh \/ Import \/ (\E c \in calls : Answered(c) \/ Imported(c) \/ Fails(c))
            \/ \E p \in Platforms : SelectPlatform(p) \/ FollowLocation(p)

\* The platform is changed while a scan is being asked for.
Strays == active' # active /\ \E c \in calls : c.does = "start"

\* A scan ends between the two halves of a read.
Overtakes ==
    \E c \in calls \cap calls' : c.stage = "status" /\ c.saw.state = "running" /\ status'[c.of] # c.saw

Next ==
    /\ Serving \/ Scanning \/ Restart \/ Page
    /\ calm' = (calm /\ ~Strays)
    /\ untouched' = (untouched /\ ~Overtakes)

Spec == Init /\ [][Next]_vars

-----------------------------------------------------------------------------
\* Unless the platform is changed while a scan is being asked for, the status and the
\* preview that the page shows are of the platform that it names, that "Scan again"
\* would scan and "Import" would import.
CalmPageIsOfPlatform ==
    calm => /\ task # Nothing => task.of = active
            /\ preview # Nothing => preview.of = active

\* The preview beside a scan that succeeded is at least as new as that scan.
SucceededScanIsShown ==
    task # Nothing /\ task.state = "succeeded"
       => preview # Nothing /\ preview.of = task.of /\ preview.scan >= task.scan

\* A scan has one verdict: unless it ends between the two halves of a read, nothing
\* declares it interrupted that has ended, or the reverse.
CalmVerdictStaysStep ==
    \A p \in Platforms :
       untouched' /\ status[p].state \in Verdicts /\ status'[p].scan = status[p].scan
          => status'[p] = status[p]
CalmVerdictStays == [][CalmVerdictStaysStep]_vars

\* What "has been imported into neuDrive" stands beside is the platform that it names
\* (ClaudeMigrationPage.tsx:251-257); not so when the tab is changed while an import
\* runs, nor when the browser goes back or forward.
ResultIsOfPlatform == result # Nothing => result = active
=============================================================================
