----------------------------- MODULE GitMirror -----------------------------
(***************************************************************************)
(* The hosted GitHub backup of one user (internal/localgitsync): its row   *)
(* of local_git_mirrors, the Git work tree on the server and the remote    *)
(* branch.  API writes and "Sync now" put a request into the row; workers  *)
(* of one or more pods claim it, copy the file tree, commit and push; the  *)
(* MCP adapter runs the same synchronisation directly, beside them.        *)
(*                                                                         *)
(* Except for the claim every writer reads the row, works, and writes the  *)
(* whole row back (UpsertActiveLocalGitMirror).  Auto commit and push are  *)
(* on, as the hosted mode sets them.                                       *)
(***************************************************************************)
EXTENDS Integers, Sequences

CONSTANTS
    Clients,   \* request handlers: API calls and MCP tools
    Pods,      \* queue workers
    Foreign,   \* commits others push to the remote branch
    Retries,   \* len(hostedRetryBackoff)
    MayCrash,  \* whether processes die in this instance
    MaxCalls   \* bound of the model: calls of clients

ASSUME MirrorAssumption ==
    /\ Clients \cap Pods = {}
    /\ Retries \in Nat /\ MaxCalls \in Nat /\ MayCrash \in BOOLEAN

VARIABLES
    hub,         \* the file tree, as the number of writes it has seen
    row,         \* the row of local_git_mirrors
    tree,        \* the work tree: the hub it copies, 0 if it is incomplete
    commits,     \* the branch of the work tree: what each commit copies
    remote,      \* the remote branch: the commit of ours it is based on, and
                 \* the commits of others on top of it
    came,        \* the commits others have pushed so far
    pc, op,      \* each process: its position, and what it was called for
    mine,        \* the copy of the row it works on
    src,         \* the hub it was called with, or has begun to copy
    saw,         \* the remote branch it fetched
    failed,      \* its synchronisation returned an error
    issued,      \* calls so far
    \* No part of the code:
    fresh,       \* the processes whose copy of the row is still what is stored
    calm,        \* no write of the row has undone another, nobody has crashed
    wanted,      \* the hub of the last request that was accepted
    confirmed    \* the user has confirmed an overwrite

git      == <<tree, commits, remote, came>>
work     == <<pc, op, mine, src, saw, failed>>
promises == <<wanted, confirmed>>
vars     == <<hub, row, git, work, issued, fresh, calm, promises>>

Proc == Clients \cup Pods

\* later: sync_requested_at is after the stamps of all earlier claims; started:
\* sync_started_at is set; lastError, pushError: the text is not empty.
Row == [state : {"idle", "queued", "running", "error"}, later : BOOLEAN,
        started : BOOLEAN, attempts : Nat, force : BOOLEAN, conflict : BOOLEAN,
        lastError : BOOLEAN, pushError : BOOLEAN]

Branch == [own : Nat, foreign : SUBSET Foreign]

NoBranch == [own |-> 0, foreign |-> {}]

NewRow == [state |-> "idle", later |-> FALSE, started |-> FALSE, attempts |-> 0,
           force |-> FALSE, conflict |-> FALSE, lastError |-> FALSE,
           pushError |-> FALSE]

Init ==
    /\ hub = 1 /\ row = NewRow
    /\ tree = 0 /\ commits = <<>> /\ remote = NoBranch /\ came = {}
    /\ pc = [p \in Proc |-> "idle"] /\ op = [p \in Proc |-> "none"]
    /\ mine = [p \in Proc |-> NewRow] /\ src = [p \in Proc |-> 0]
    /\ saw = [p \in Proc |-> NoBranch] /\ failed = [p \in Proc |-> FALSE]
    /\ issued = 0 /\ fresh = {} /\ calm = TRUE
    /\ wanted = 0 /\ confirmed = FALSE

Goto(p, where) == pc' = [pc EXCEPT ![p] = where]

Return(p) ==
    /\ Goto(p, "idle")
    /\ op' = [op EXCEPT ![p] = "none"]
    /\ mine' = [mine EXCEPT ![p] = NewRow]
    /\ src' = [src EXCEPT ![p] = 0]
    /\ saw' = [saw EXCEPT ![p] = NoBranch]
    /\ failed' = [failed EXCEPT ![p] = FALSE]

\* GetActiveLocalGitMirror.
Reads(p) ==
    /\ mine' = [mine EXCEPT ![p] = row]
    /\ fresh' = fresh \cup {p}
    /\ UNCHANGED <<row, calm>>

\* UpsertActiveLocalGitMirror.
Writes(p, m) ==
    /\ row' = m
    /\ fresh' = {}
    /\ calm' = (calm /\ p \in fresh)

-----------------------------------------------------------------------------
(* Callers.  A write of the file tree is followed by a request, or by a    *)
(* synchronisation when it came over MCP; saving the settings and Sync now *)
(* write nothing but the row.                                              *)

Call(c, kind, where) ==
    /\ pc[c] = "idle" /\ issued < MaxCalls
    /\ issued' = issued + 1
    /\ hub' = IF kind \in {"write", "direct"} THEN hub + 1 ELSE hub
    /\ src' = [src EXCEPT ![c] = hub']
    /\ op' = [op EXCEPT ![c] = kind]
    /\ Goto(c, where)
    /\ confirmed' = (confirmed \/ kind = "force")
    /\ UNCHANGED <<row, git, mine, saw, failed, fresh, calm, wanted>>

CallWrite(c)  == Call(c, "write", "ask")
CallSync(c)   == Call(c, "sync", "ask")
CallForce(c)  == Call(c, "force", "ask")
CallSave(c)   == Call(c, "save", "ask")
CallDirect(c) == Call(c, "direct", "load")

\* MarkMirrorQueued, between its read and its write.
Requested(m, forced) ==
    LET asked == [m EXCEPT !.later = TRUE, !.force = @ \/ forced,
                           !.conflict = @ /\ ~forced, !.pushError = @ /\ ~forced]
    IN  IF m.state = "running" THEN asked
        ELSE [asked EXCEPT !.state = "queued", !.attempts = 0]

AskRead(c) ==
    /\ pc[c] = "ask"
    /\ Reads(c)
    /\ Goto(c, "asking")
    /\ UNCHANGED <<hub, git, op, src, saw, failed, issued, promises>>

MarkWrite(c) ==
    /\ pc[c] = "asking" /\ op[c] # "save"
    /\ Writes(c, Requested(mine[c], op[c] = "force"))
    /\ wanted' = IF src[c] > wanted THEN src[c] ELSE wanted
    /\ Return(c)
    /\ UNCHANGED <<hub, git, issued, confirmed>>

\* UpdateMirrorSettings leaves what is modelled of the row as it read it.
SaveWrite(c) ==
    /\ pc[c] = "asking" /\ op[c] = "save"
    /\ Writes(c, mine[c])
    /\ Return(c)
    /\ UNCHANGED <<hub, git, issued, promises>>

-----------------------------------------------------------------------------
(* SyncActiveMirror, run by a worker that claimed the row or by an MCP     *)
(* tool.                                                                   *)

\* ClaimQueuedLocalGitMirror, one UPDATE with its condition.
Claim(p) ==
    /\ pc[p] = "idle" /\ row.state = "queued"
    /\ row' = [row EXCEPT !.state = "running", !.started = TRUE, !.later = FALSE]
    /\ fresh' = {}
    /\ op' = [op EXCEPT ![p] = "queue"]
    /\ Goto(p, "load")
    /\ UNCHANGED <<hub, git, mine, src, saw, failed, issued, calm, promises>>

Load(p) ==
    /\ pc[p] = "load"
    /\ Reads(p)
    /\ Goto(p, "clear")
    /\ UNCHANGED <<hub, git, op, src, saw, failed, issued, promises>>

\* clearMirrorRoot; writeFileTree begins.
ClearRoot(p) ==
    /\ pc[p] = "clear"
    /\ tree' = 0
    /\ src' = [src EXCEPT ![p] = hub]
    /\ Goto(p, "copying")
    /\ UNCHANGED <<hub, row, commits, remote, came, op, mine, saw, failed, issued,
                   fresh, calm, promises>>

\* The copy holds every write from before it began.  When somebody else is
\* copying into the work tree it may be complete afterwards or not.
CopyTree(p) ==
    /\ pc[p] = "copying"
    /\ \/ tree' = src[p]
       \/ tree' = 0 /\ \E q \in Proc \ {p} : pc[q] = "copying"
    /\ Goto(p, "commit")
    /\ UNCHANGED <<hub, row, commits, remote, came, op, mine, src, saw, failed, issued,
                   fresh, calm, promises>>

\* syncIntoRoot returns an error.
CopyFails(p) ==
    /\ pc[p] = "copying"
    /\ mine' = [mine EXCEPT ![p].state = "error", ![p].lastError = TRUE]
    /\ failed' = [failed EXCEPT ![p] = TRUE]
    /\ Goto(p, "store")
    /\ UNCHANGED <<hub, row, git, op, src, saw, issued, fresh, calm, promises>>

Dirty == commits = <<>> \/ tree # commits[Len(commits)]

Commit(p) ==
    /\ pc[p] = "commit"
    /\ commits' = IF Dirty THEN Append(commits, tree) ELSE commits
    /\ mine' = [mine EXCEPT ![p].state = "idle", ![p].lastError = FALSE]
    /\ Goto(p, "fetch")
    /\ UNCHANGED <<hub, row, tree, remote, came, op, src, saw, failed, issued,
                   fresh, calm, promises>>

\* finalizeMirrorRepo returns an error: git refuses the commit, or no token can
\* be had for the push.
FinalizeFails(p) ==
    /\ pc[p] \in {"commit", "fetch"}
    /\ mine' = [mine EXCEPT ![p].state = "idle", ![p].lastError = TRUE]
    /\ failed' = [failed EXCEPT ![p] = TRUE]
    /\ Goto(p, "store")
    /\ UNCHANGED <<hub, row, git, op, src, saw, issued, fresh, calm, promises>>

(* prepareRemotePush.  Our commits are on one line, so the remote head is  *)
(* an ancestor of ours exactly when nobody else has a commit on top.       *)

FetchPasses(p) ==
    /\ pc[p] = "fetch"
    /\ remote.foreign = {} \/ mine[p].force
    /\ saw' = [saw EXCEPT ![p] = remote]
    /\ mine' = [mine EXCEPT ![p].conflict = FALSE]
    /\ Goto(p, "push")
    /\ UNCHANGED <<hub, row, git, op, src, failed, issued, fresh, calm, promises>>

FetchBlocks(p) ==
    /\ pc[p] = "fetch"
    /\ remote.foreign # {} /\ ~mine[p].force
    /\ saw' = [saw EXCEPT ![p] = remote]
    /\ mine' = [mine EXCEPT ![p].conflict = TRUE, ![p].pushError = TRUE]
    /\ Goto(p, "store")
    /\ UNCHANGED <<hub, row, git, op, src, failed, issued, fresh, calm, promises>>

FetchFails(p) ==
    /\ pc[p] = "fetch"
    /\ mine' = [mine EXCEPT ![p].force = FALSE, ![p].pushError = TRUE]
    /\ Goto(p, "store")
    /\ UNCHANGED <<hub, row, git, op, src, saw, failed, issued, fresh, calm, promises>>

\* git push --force-with-lease with the head that was fetched, or git push.
UsesLease(p) == mine[p].force /\ saw[p] # NoBranch

\* Mutant: git push --force.
AcceptsForce(p) == UsesLease(p) \/ remote.foreign = {}

Accepts(p) == IF UsesLease(p) THEN remote = saw[p] ELSE remote.foreign = {}

Pushed == [own |-> Len(commits), foreign |-> {}]

\* Mutant: a successful push leaves the confirmation in the row.
PushKeepsForce(p) ==
    /\ pc[p] = "push" /\ Accepts(p)
    /\ remote' = Pushed
    /\ mine' = [mine EXCEPT ![p].conflict = FALSE, ![p].pushError = FALSE]
    /\ Goto(p, "store")
    /\ UNCHANGED <<hub, row, tree, commits, came, op, src, saw, failed, issued,
                   fresh, calm, promises>>

PushSucceeds(p) ==
    /\ pc[p] = "push" /\ Accepts(p)
    /\ remote' = Pushed
    /\ mine' = [mine EXCEPT ![p].force = FALSE, ![p].conflict = FALSE,
                            ![p].pushError = FALSE]
    /\ Goto(p, "store")
    /\ UNCHANGED <<hub, row, tree, commits, came, op, src, saw, failed, issued,
                   fresh, calm, promises>>

\* The remote refuses, or cannot be reached, or its answer is lost.
PushFails(p) ==
    /\ pc[p] = "push"
    /\ \/ remote' = remote
       \/ Accepts(p) /\ remote' = Pushed
    /\ mine' = [mine EXCEPT ![p].force = FALSE, ![p].pushError = TRUE,
                            ![p].conflict = @ \/ UsesLease(p) \/ ~Accepts(p)]
    /\ Goto(p, "store")
    /\ UNCHANGED <<hub, row, tree, commits, came, op, src, saw, failed, issued,
                   fresh, calm, promises>>

StoreDirect(c) ==
    /\ pc[c] = "store" /\ op[c] = "direct"
    /\ Writes(c, mine[c])
    /\ Return(c)
    /\ UNCHANGED <<hub, git, issued, promises>>

StoreQueued(p) ==
    /\ pc[p] = "store" /\ op[p] = "queue"
    /\ Writes(p, mine[p])
    /\ Goto(p, "settle")
    /\ UNCHANGED <<hub, git, op, mine, src, saw, failed, issued, promises>>

-----------------------------------------------------------------------------
(* The rest of runQueuedMirror. *)

SettleRead(p) ==
    /\ pc[p] = "settle"
    /\ Reads(p)
    /\ Goto(p, "settling")
    /\ UNCHANGED <<hub, git, op, src, saw, failed, issued, promises>>

RequestedDuringRun(m) == m.later /\ m.started

\* Mutant: the attempts are not counted.
SettledUncounted(m, err) ==
    IF err THEN [m EXCEPT !.state = IF m.attempts + 1 <= Retries THEN "queued" ELSE "error"]
    ELSE [m EXCEPT !.attempts = 0, !.state = IF RequestedDuringRun(m) THEN "queued" ELSE "idle"]

\* Mutant: what was requested during the run is not looked at.
SettledIdle(m, err) ==
    IF err THEN [m EXCEPT !.attempts = @ + 1,
                          !.state = IF m.attempts + 1 <= Retries THEN "queued" ELSE "error"]
    ELSE [m EXCEPT !.attempts = 0, !.state = "idle"]

\* The next attempt waits for its back-off, which is left out.
Settled(m, err) ==
    IF err THEN [m EXCEPT !.attempts = @ + 1,
                          !.state = IF m.attempts + 1 <= Retries THEN "queued" ELSE "error"]
    ELSE [m EXCEPT !.attempts = 0,
                   !.state = IF RequestedDuringRun(m) THEN "queued" ELSE "idle"]

SettleWrite(p) ==
    /\ pc[p] = "settling"
    /\ Writes(p, Settled(mine[p], failed[p]))
    /\ Return(p)
    /\ UNCHANGED <<hub, git, issued, promises>>

-----------------------------------------------------------------------------
\* The server dies, or is shut down while git runs.
Crash(p) ==
    /\ MayCrash /\ pc[p] # "idle"
    /\ Return(p)
    /\ calm' = FALSE
    /\ fresh' = fresh \ {p}
    /\ UNCHANGED <<hub, row, git, issued, promises>>

\* Others push to the remote branch.
ForeignPush(f) ==
    /\ f \notin came
    /\ came' = came \cup {f}
    /\ remote' = [remote EXCEPT !.foreign = @ \cup {f}]
    /\ UNCHANGED <<hub, row, tree, commits, work, issued, fresh, calm, promises>>

Calls(c) == CallWrite(c) \/ CallSync(c) \/ CallForce(c) \/ CallSave(c) \/ CallDirect(c)

Sync(p) ==
    \/ Load(p) \/ ClearRoot(p) \/ CopyTree(p) \/ CopyFails(p) \/ Commit(p) \/ FinalizeFails(p)
    \/ FetchPasses(p) \/ FetchBlocks(p) \/ FetchFails(p) \/ PushSucceeds(p) \/ PushFails(p)

Serve(c) == AskRead(c) \/ MarkWrite(c) \/ SaveWrite(c) \/ Sync(c) \/ StoreDirect(c)

RunQueued(p) == Claim(p) \/ Sync(p) \/ StoreQueued(p) \/ SettleRead(p) \/ SettleWrite(p)

Next ==
    \/ \E c \in Clients : Calls(c) \/ Serve(c)
    \/ \E p \in Pods : RunQueued(p)
    \/ \E p \in Proc : Crash(p)
    \/ \E f \in Foreign : ForeignPush(f)

Spec == Init /\ [][Next]_vars

\* Handlers run to their end and the workers tick every 15 seconds; nobody has
\* to call, to crash or to push.
Fairness ==
    /\ \A c \in Clients : WF_vars(Serve(c))
    /\ \A p \in Pods : WF_vars(RunQueued(p))

FairSpec == Spec /\ Fairness

-----------------------------------------------------------------------------
\* The variables keep their types.
TypeOK ==
    /\ hub \in Nat /\ row \in Row
    /\ tree \in Nat /\ commits \in Seq(Nat) /\ remote \in Branch /\ came \subseteq Foreign
    /\ pc \in [Proc -> {"idle", "ask", "asking", "load", "clear", "copying", "commit",
                        "fetch", "push", "store", "settle", "settling"}]
    /\ op \in [Proc -> {"none", "write", "sync", "force", "save", "direct", "queue"}]
    /\ mine \in [Proc -> Row] /\ src \in [Proc -> Nat] /\ saw \in [Proc -> Branch]
    /\ failed \in [Proc -> BOOLEAN]
    /\ issued \in Nat /\ fresh \subseteq Proc /\ calm \in BOOLEAN
    /\ wanted \in Nat /\ confirmed \in BOOLEAN

\* Commits of others are dropped from the remote branch only by a push that has
\* fetched them, and not before the user has confirmed an overwrite, whatever
\* copies of the row are written back and whoever pushes in between.
UnseenCommitsSurvive ==
    [][LET dropped == remote.foreign \ remote'.foreign
       IN  dropped # {} => /\ confirmed
                           /\ \E p \in Proc : pc[p] = "push" /\ dropped \subseteq saw[p].foreign]_vars

\* Strengthening for the proof: the permission to overwrite, in the row, in a
\* copy of it or on its way there, goes back to a confirmation.
ForceConfirmed ==
    /\ row.force => confirmed
    /\ \A p \in Proc : mine[p].force \/ op[p] = "force" => confirmed

IInv == TypeOK /\ ForceConfirmed

Syncing(p) == pc[p] \notin {"idle", "ask", "asking"}

FailureShown == row.lastError \/ row.pushError \/ row.conflict

Served ==
    /\ commits # <<>> /\ commits[Len(commits)] >= wanted
    /\ remote.own # 0 /\ commits[remote.own] >= wanted

\* A request that is neither in the queue nor being worked on has been served,
\* or the page shows why it was not.
RequestServed ==
    row.state # "queued" /\ (\A p \in Proc : ~Syncing(p)) /\ wanted > 0
        => Served \/ FailureShown

\* So it is as long as no write of the row undoes another and nobody crashes:
\* requests that reach the row between the writes of a run are run again.
CalmRequestServed == calm => RequestServed

\* Under the same condition a confirmation is used up: an idle mirror whose last run
\* reports no error holds no permission with which a later run could overwrite what
\* nobody has looked at.  A run that fails before it pushes keeps the permission for
\* the next one.
CalmConfirmationSpent ==
    calm /\ row.state = "idle" /\ ~row.lastError /\ (\A p \in Proc : ~Syncing(p))
        => ~row.force

\* A synchronisation that keeps failing is given up: the row does not go through
\* the queue for ever.
RetriesEnd == <>[](~calm \/ row.state \in {"idle", "error"})
=============================================================================
