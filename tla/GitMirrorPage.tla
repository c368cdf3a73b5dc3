--------------------------- MODULE GitMirrorPage ---------------------------
(***************************************************************************)
(* The backup page of the web dashboard (GitMirrorPage.tsx): a form over    *)
(* the settings of the Git mirror, its buttons, and the poller that follows *)
(* a sync of the hosted mode.                                              *)
(*                                                                         *)
(* A request is served at one moment and its answer handled at a later one. *)
(* The buttons of the page exclude each other (working), but neither the    *)
(* fields, nor the token test, nor the poller, nor the loads of the mounted *)
(* page wait for them.  The page loads once when it is opened and twice     *)
(* when GitHub sends the user back to it.                                  *)
(***************************************************************************)
EXTENDS Naturals

CONSTANTS
    Urls, Tokens, \* what the user may type
    Nothing,      \* an empty field, no setting, no answer
    MaxPolls,     \* polls after a sync (12 in the code)
    MaxActs       \* bound of the model: buttons pressed

Modes == {"github_token", "github_app_user"}

\* The settings of the mirror.
Settings == [mode : Modes, url : {Nothing} \cup Urls, token : {Nothing} \cup Tokens,
             app : BOOLEAN, sync : {"idle", "queued", "conflict"}]

PageAssumption ==
    /\ Nothing \notin Urls \cup Tokens \cup Settings /\ Urls # {}
    /\ MaxPolls \in Nat /\ MaxActs \in Nat

VARIABLES
    served,   \* the settings the hub has
    mirror,   \* those the page has: mirror
    form,     \* authMode, remoteURL and tokenInput
    tested,   \* tokenTest: the fields it was made of
    busy,     \* the page shows "Loading"
    work,     \* the call of the button that is working, and its answer
    loads,    \* the loads that mounting the page has begun, with their answers
    test,     \* the token test that is running
    poll,     \* the poller
    cooling,  \* retrySeconds > 0
    acts,     \* buttons pressed so far
    promised, \* the page says that it will update by itself
    calm      \* no part of the code: see Crossing

page == <<mirror, form, tested, busy, cooling>>
requests == <<work, loads, test, poll>>
vars == <<served, page, requests, acts, promised, calm>>

Idle == [kind |-> "none", with |-> Nothing, reply |-> Nothing]
Still == [left |-> 0, at |-> "off", reply |-> Nothing]

\* The effects of a mounted page load it; the second only with the parameters
\* of the way back from GitHub.
Mounts == {"mounted", "back"}
NewLoad == [Idle EXCEPT !.kind = "load"]
NewForm == [mode |-> "github_app_user", url |-> Nothing, token |-> Nothing]

Init ==
    /\ served \in {s \in Settings : s.token = Nothing /\ s.sync = "idle"}
    /\ mirror = Nothing /\ tested = Nothing /\ busy = TRUE /\ form = NewForm
    /\ loads = [l \in Mounts |-> IF l = "mounted" THEN NewLoad ELSE Idle]
    /\ work = Idle /\ test = Idle /\ poll = Still
    /\ cooling = FALSE /\ acts = 0 /\ promised = FALSE /\ calm = TRUE

-----------------------------------------------------------------------------
(* The form. *)

\* Before the settings have come, the page is not modelled.
Usable == ~busy /\ mirror # Nothing

TypeToken(k) ==
    /\ form.mode = "github_token" /\ form.token # k
    /\ form' = [form EXCEPT !.token = k]
    /\ tested' = Nothing
    /\ UNCHANGED <<served, mirror, busy, requests, cooling, acts, promised>>

TypeUrl(u) ==
    /\ form.mode = "github_token" /\ form.url # u
    /\ form' = [form EXCEPT !.url = u]
    /\ tested' = Nothing
    /\ UNCHANGED <<served, mirror, busy, requests, cooling, acts, promised>>

ChangeMode(m) ==
    /\ form.mode # m
    /\ form' = [form EXCEPT !.mode = m]
    /\ tested' = Nothing
    /\ UNCHANGED <<served, mirror, busy, requests, cooling, acts, promised>>

-----------------------------------------------------------------------------
(* The buttons. *)

Press(kind) ==
    /\ work = Idle /\ acts < MaxActs
    /\ acts' = acts + 1
    /\ work' = [Idle EXCEPT !.kind = kind, !.with = [url |-> form.url, token |-> form.token,
                                                     mode |-> form.mode]]
    /\ promised' = FALSE
    /\ UNCHANGED <<served, page, loads, test, poll>>

ConnectGitHubApp == /\ form.mode = "github_app_user" /\ ~mirror.app
                    /\ Press("connect")

CreateDefaultBackupRepo == /\ form.mode = "github_app_user" /\ mirror.app
                           /\ mirror.url = Nothing
                           /\ Press("create")

DisconnectGitHubApp == form.mode = "github_app_user" /\ mirror.app /\ Press("disconnect")

\* A destination without a token is saved only if the hub has one already.
SaveDestination ==
    /\ form.mode = "github_token" /\ form.url # Nothing
    /\ form.token # Nothing \/ mirror.token # Nothing
    /\ Press("save")

SaveToken ==
    /\ form.mode = "github_token" /\ form.url # Nothing /\ form.token # Nothing
    /\ Press("save")

ClearToken == form.mode = "github_token" /\ mirror.token # Nothing /\ Press("clear")

\* The button waits for a destination and credentials of the chosen mode; when
\* the remote is in conflict, the other button overwrites it.
CanSync == IF form.mode = "github_app_user" THEN mirror.app ELSE mirror.token # Nothing

Sync(force) ==
    /\ mirror.url # Nothing /\ ~cooling
    /\ poll = Still  \* bound of the model: the cooldown outlasts the poller
    /\ IF force THEN mirror.sync = "conflict" ELSE CanSync
    /\ Press(IF force THEN "overwrite" ELSE "sync")

\* testing is a flag of its own.
TestToken ==
    /\ test = Idle /\ acts < MaxActs
    /\ form.mode = "github_token" /\ form.url # Nothing /\ form.token # Nothing
    /\ acts' = acts + 1
    /\ test' = [Idle EXCEPT !.kind = "test", !.with = [url |-> form.url, token |-> form.token]]
    /\ UNCHANGED <<served, page, work, loads, poll, promised>>

-----------------------------------------------------------------------------
(* The hub serves what is asked. *)

\* How the hub ends a request: GitHub may send the user back with an error, and
\* the app may lack new permissions, for which the hub disconnects it.
EndsOf(kind) ==
    CASE kind = "connect" -> {"connect", "cancelled"}
      [] kind = "create" -> {"create", "refused"}
      [] OTHER -> {kind}

\* The settings after a request; a sync is queued unless one is.
After(kind, w) ==
    CASE kind = "create" -> [served EXCEPT !.mode = "github_app_user",
                                           !.url = CHOOSE u \in Urls : TRUE]
      [] kind = "connect" -> [served EXCEPT !.app = TRUE]
      [] kind \in {"disconnect", "refused"} -> [served EXCEPT !.app = FALSE]
      [] kind = "save" -> [served EXCEPT !.mode = "github_token", !.url = w.url,
                                         !.token = IF w.token = Nothing THEN @ ELSE w.token]
      [] kind = "clear" -> [served EXCEPT !.mode = "github_token", !.token = Nothing,
                                          !.url = w.url]
      [] kind \in {"sync", "overwrite"} -> [served EXCEPT !.sync = "queued"]
      [] OTHER -> served

\* The loads that a handler waits for, and goes on after.
HandlerLoads == {"load", "loadAfterSync", "loadAfterRefusal"}
Loading == work.kind \in HandlerLoads

Serve ==
    /\ work # Idle /\ work.reply = Nothing
    /\ \E kind \in EndsOf(work.kind) :
          /\ served' = After(kind, work.with)
          /\ work' = [work EXCEPT !.kind = kind, !.reply = served']
    /\ UNCHANGED <<page, loads, test, poll, acts, promised>>

ServeLoad(l) ==
    /\ loads[l] # Idle /\ loads[l].reply = Nothing
    /\ loads' = [loads EXCEPT ![l].reply = served]
    /\ UNCHANGED <<served, page, work, test, poll, acts, promised>>

\* The worker of the mirror finishes, or finds commits that are not its own.
SyncRuns ==
    /\ served.sync = "queued"
    /\ \E s \in {"idle", "conflict"} : served' = [served EXCEPT !.sync = s]
    /\ UNCHANGED <<page, requests, acts, promised>>

-----------------------------------------------------------------------------
(* The page handles the answers. *)

\* loadPage: the form is filled from the settings, and what was typed is gone.
Filled(settings) == [mode |-> settings.mode, url |-> settings.url, token |-> Nothing]

\* What a handler does after its load, whether that failed or not.  The answer
\* of the sync, not of the load, says whether to start the poller and to promise.
AfterSync ==
    IF work.kind = "loadAfterSync" /\ work.with = "queued"
    THEN poll' = [Still EXCEPT !.left = MaxPolls, !.at = "waits"] /\ promised' = TRUE
    ELSE UNCHANGED <<poll, promised>>
ModeAfter(mode) == IF work.kind = "loadAfterRefusal" THEN "github_app_user" ELSE mode

Load ==
    /\ Loading /\ work.reply # Nothing
    /\ mirror' = work.reply /\ tested' = Nothing /\ busy' = FALSE
    /\ form' = [Filled(work.reply) EXCEPT !.mode = ModeAfter(@)]
    /\ work' = Idle
    /\ AfterSync
    /\ cooling' \in IF work.kind = "loadAfterSync" THEN BOOLEAN ELSE {cooling}
    /\ UNCHANGED <<served, loads, test, acts>>

\* The loads of the mounted page end, in any order, whatever has been done since
\* the first of them has shown the page.
MountedLoad(l) ==
    /\ loads[l] # Idle /\ loads[l].reply # Nothing
    /\ mirror' = loads[l].reply /\ tested' = Nothing /\ busy' = FALSE
    /\ form' = Filled(loads[l].reply)
    /\ loads' = [loads EXCEPT ![l] = Idle]
    /\ UNCHANGED <<served, work, test, poll, cooling, acts, promised>>

MountedLoadFails(l) ==
    /\ loads[l] # Idle
    /\ loads' = [loads EXCEPT ![l] = Idle] /\ busy' = FALSE
    /\ UNCHANGED <<served, mirror, form, tested, work, test, poll, cooling, acts, promised>>

\* Mutant: a cleared token stays on the page.
KeepsToken ==
    /\ work.kind \in {"create", "save", "clear"} /\ work.reply # Nothing
    /\ mirror' = [work.reply EXCEPT !.token = mirror.token]
    /\ form' = [form EXCEPT !.url = work.reply.url, !.token = Nothing]
    /\ tested' = Nothing
    /\ work' = Idle
    /\ UNCHANGED <<served, busy, loads, test, poll, cooling, acts, promised>>

\* The answer of a change holds the new settings; the address field of a form
\* whose token was cleared is left alone.
Changed ==
    /\ work.kind \in {"create", "save", "clear"} /\ work.reply # Nothing
    /\ mirror' = work.reply
    /\ form' = [mode |-> IF work.kind = "create" THEN work.reply.mode ELSE form.mode,
                url |-> IF work.kind = "clear" THEN form.url ELSE work.reply.url,
                token |-> IF work.kind = "create" THEN form.token ELSE Nothing]
    /\ tested' = IF work.kind = "create" THEN tested ELSE Nothing
    /\ work' = Idle
    /\ UNCHANGED <<served, busy, loads, test, poll, cooling, acts, promised>>

\* After a sync, a disconnection and a refusal, the handler loads the page again.
LoadsAgain ==
    /\ work.kind \in {"sync", "overwrite", "disconnect", "refused"} /\ work.reply # Nothing
    /\ work' = CASE work.kind = "disconnect" -> NewLoad
                 [] work.kind = "refused" -> [Idle EXCEPT !.kind = "loadAfterRefusal"]
                 [] OTHER -> [Idle EXCEPT !.kind = "loadAfterSync", !.with = work.reply.sync]
    /\ busy' = TRUE
    /\ UNCHANGED <<served, mirror, form, tested, loads, test, poll, cooling, acts, promised>>

\* The page is opened anew on the way back from GitHub, and both its effects load it.
BackFromGitHub ==
    /\ work.kind \in {"connect", "cancelled"} /\ work.reply # Nothing
    /\ mirror' = Nothing /\ tested' = Nothing /\ busy' = TRUE /\ form' = NewForm
    /\ work' = Idle /\ test' = Idle /\ poll' = Still
    /\ loads' = [l \in Mounts |-> NewLoad]
    /\ cooling' = FALSE /\ promised' = FALSE
    /\ UNCHANGED <<served, acts>>

\* A call fails, before it is served or after.  loadPage leaves the page as it
\* was, and what follows it goes on; a limited sync has to wait.
Fails ==
    /\ work # Idle /\ (work.kind \in {"connect", "cancelled"} => work.reply = Nothing)
    /\ work' = Idle /\ busy' = FALSE
    /\ form' = [form EXCEPT !.mode = ModeAfter(@)]
    /\ AfterSync
    /\ cooling' \in IF work.kind \in {"sync", "overwrite", "loadAfterSync"} THEN BOOLEAN
                    ELSE {cooling}
    /\ UNCHANGED <<served, mirror, tested, loads, test, acts>>

\* The answer of a test: its address, normalized, goes into the field.
Tested ==
    /\ test # Idle
    /\ test' = Idle
    /\ \/ tested' = test.with /\ form' = [form EXCEPT !.url = test.with.url]
       \/ UNCHANGED <<tested, form>>
    /\ UNCHANGED <<served, mirror, busy, work, loads, poll, cooling, acts, promised>>

Cools == /\ cooling /\ cooling' = FALSE
         /\ UNCHANGED <<served, mirror, form, tested, busy, requests, acts, promised>>

-----------------------------------------------------------------------------
(* pollHostedSyncUntilSettled *)

PollAnswered ==
    /\ poll.at = "waits" /\ poll.left > 0
    /\ poll' = [poll EXCEPT !.left = @ - 1, !.at = "answered", !.reply = served]
    /\ UNCHANGED <<served, page, work, loads, test, acts, promised>>

\* One failed request ends the poller: .catch(() => undefined)
PollFails ==
    /\ poll.at = "waits" /\ poll' = Still
    /\ UNCHANGED <<served, page, work, loads, test, acts, promised>>

PollShown ==
    /\ poll.at = "answered"
    /\ mirror' = poll.reply
    /\ IF poll.reply.sync = "queued" /\ poll.left > 0
       THEN poll' = [poll EXCEPT !.at = "waits", !.reply = Nothing] /\ promised' = promised
       ELSE poll' = Still /\ promised' = (promised /\ poll.reply.sync = "queued")
    /\ UNCHANGED <<served, form, tested, busy, cooling, work, loads, test, acts>>

User == Usable /\
  ( \/ \E k \in Tokens \cup {Nothing} : TypeToken(k)
    \/ \E u \in Urls \cup {Nothing} : TypeUrl(u)
    \/ \E m \in Modes : ChangeMode(m)
    \/ ConnectGitHubApp \/ CreateDefaultBackupRepo \/ DisconnectGitHubApp
    \/ SaveDestination \/ SaveToken \/ ClearToken \/ TestToken
    \/ \E force \in BOOLEAN : Sync(force) )

Browser ==
    \/ Load \/ Changed \/ LoadsAgain \/ BackFromGitHub \/ Tested \/ PollAnswered \/ PollShown
    \/ \E l \in Mounts : MountedLoad(l)

\* Two settings of the mirror, but for the sync that may be under way.
Same(s, t) == [s EXCEPT !.sync = "any"] = [t EXCEPT !.sync = "any"]

\* What makes the page disagree with the hub: a change that is served while an
\* older answer is on its way to the poller or to a load of the mounted page, and
\* a change, or the load after it, whose answer is lost.
Crossing ==
    \/ /\ ~Same(served', served)
       /\ poll.at = "answered" \/ \E l \in Mounts : loads[l].reply # Nothing
    \/ /\ work # Idle /\ work' = Idle /\ UNCHANGED mirror
       /\ IF Loading THEN ~Same(mirror, served)
          ELSE work.reply # Nothing /\ ~Same(mirror, work.reply)

Hub == Serve \/ SyncRuns \/ \E l \in Mounts : ServeLoad(l)

Step == User \/ Browser \/ Hub \/ Fails \/ PollFails \/ Cools
        \/ \E l \in Mounts : MountedLoadFails(l)

Next == Step /\ calm' = (calm /\ ~Crossing)

Spec == Init /\ [][Next]_vars

\* The browser goes on, the hub answers, and its worker runs what is queued.
FairSpec == /\ Spec
            /\ WF_vars(Browser /\ calm' = (calm /\ ~Crossing))
            /\ WF_vars(Hub /\ calm' = (calm /\ ~Crossing))

-----------------------------------------------------------------------------
\* While nothing has crossed, a page whose buttons can be pressed shows the
\* credentials and the destination that the hub has, whatever loads and polls have
\* brought meanwhile, on the way back from GitHub too.
CalmPageAgrees == calm /\ Usable /\ work = Idle => Same(mirror, served)

\* "Sync request submitted. The background worker is processing it, and this page
\* will update when it finishes." (GitMirrorPage.tsx:486)
PromiseIsKept == promised ~> ~promised
=============================================================================
