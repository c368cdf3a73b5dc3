--------------------------- MODULE ExtensionAuth ---------------------------
(***************************************************************************)
(* How the browser extension keeps its connection: the service worker      *)
(* (extension/background.js) with its client (lib/neudrive-client.js),     *)
(* chrome.storage.local, and the views that talk to it, which are the      *)
(* popup (popup.js), the chat panel and the official login page            *)
(* (content.js).                                                           *)
(*                                                                         *)
(* The worker is one thread that handles several messages at a time; they  *)
(* interleave at each await.  Storage calls are answered in the order in   *)
(* which they are made.  Chrome stops the worker when it likes and starts  *)
(* it again for the next message, with empty memory.  A credential is a    *)
(* hub URL with its token, and a profile is known by its credential.       *)
(***************************************************************************)
EXTENDS Integers, Sequences

CONSTANTS
    Msgs,      \* messages the worker may be handling at a time
    Typed,     \* credentials a user may type
    Valid,     \* those of them that a hub accepts
    NoCred,    \* no credential, no profile
    MaxCalls,  \* bound of the model: messages sent
    MaxMints   \* bound of the model: tokens the official hub creates

AuthAssumption ==
    /\ Valid \subseteq Typed
    /\ Typed \cap Nat = {} /\ NoCred \notin Typed \cup Nat
    /\ Msgs \cap {"boot", "nobody"} = {}
    /\ MaxCalls \in Nat /\ MaxMints \in Nat

VARIABLES
    stored,    \* hubUrl and hubToken in chrome.storage.local
    pending,   \* officialLoginPending, and whether its 15 minutes are over
    ops,       \* storage calls that are not answered yet
    up,        \* the worker runs
    mem,       \* _baseUrl and _token of its client
    cache,     \* _profileCache while it is fresh
    inFlight,  \* officialLoginInFlight
    pc, op,    \* each message: the await its handler is at, and what it asks
    cred,      \* the credential it brings or has created
    used,      \* the credential its profile was fetched with
    minted,    \* tokens created so far; token n is the n-th
    issued,    \* messages so far
    calm       \* no part of the code: see Overlap

disk   == <<stored, pending, ops>>
client == <<mem, cache>>
worker == <<up, client, inFlight>>
calls  == <<pc, op, cred, used>>
vars   == <<disk, worker, calls, minted, issued, calm>>

Creds == Typed \cup Nat

\* A storage call; by is the message that waits for it, or the start of the
\* worker, or a worker that is gone.
StorageCall == [do : {"get", "set", "getPending", "setPending", "clearPending"},
                cred : Creds \cup {NoCred}, by : Msgs \cup {"boot", "nobody"}]

Ask(do, c, h) == [do |-> do, cred |-> c, by |-> h]

Init ==
    /\ stored = NoCred /\ pending = "none" /\ ops = <<>>
    /\ up = FALSE /\ mem = NoCred /\ cache = NoCred /\ inFlight = FALSE
    /\ pc = [h \in Msgs |-> "idle"] /\ op = [h \in Msgs |-> "none"]
    /\ cred = [h \in Msgs |-> NoCred] /\ used = [h \in Msgs |-> NoCred]
    /\ minted = 0 /\ issued = 0 /\ calm = TRUE

-----------------------------------------------------------------------------
(* A message comes in.  If it wakes the worker, the script has asked for   *)
(* the stored credential before, and goes on with the message without      *)
(* waiting for the answer.                                                 *)

Booting == IF up THEN <<>> ELSE <<Ask("get", NoCred, "boot")>>

Receive(h, kind, where, c) ==
    /\ pc[h] = "idle" /\ issued < MaxCalls
    /\ issued' = issued + 1
    /\ up' = TRUE
    /\ op' = [op EXCEPT ![h] = kind]
    /\ pc' = [pc EXCEPT ![h] = where]
    /\ cred' = [cred EXCEPT ![h] = c]

\* The popup opens or the panel refreshes: getStatus begins with client.init().
GetStatus(h) ==
    /\ Receive(h, "status", "stored", NoCred)
    /\ ops' = ops \o Booting \o <<Ask("get", NoCred, h)>>
    /\ UNCHANGED <<stored, pending, client, inFlight, used, minted>>

\* Mutant: configure leaves the profile of the last credential in the cache.
ConfigureKeepsCache(h, c) ==
    /\ Receive(h, "configure", "stored", c)
    /\ mem' = c /\ cache' = cache
    /\ ops' = ops \o Booting \o <<Ask("set", c, h)>>
    /\ UNCHANGED <<stored, pending, inFlight, used, minted>>

\* client.configure changes the memory at once and the storage later.
Configure(h, c) ==
    /\ Receive(h, "configure", "stored", c)
    /\ mem' = c /\ cache' = NoCred
    /\ ops' = ops \o Booting \o <<Ask("set", c, h)>>
    /\ UNCHANGED <<stored, pending, inFlight, used, minted>>

Disconnect(h) ==
    /\ Receive(h, "disconnect", "stored", NoCred)
    /\ mem' = NoCred /\ cache' = NoCred
    /\ ops' = ops \o Booting \o <<Ask("set", NoCred, h)>>
    /\ UNCHANGED <<stored, pending, inFlight, used, minted>>

\* getProfile, getPreferences and the other requests of the panel.
GetPreferences(h) ==
    /\ Receive(h, "prefs", IF cache = NoCred /\ mem # NoCred THEN "fetch" ELSE "answer", NoCred)
    /\ used' = [used EXCEPT ![h] = IF cache # NoCred THEN cache ELSE mem]
    /\ ops' = ops \o Booting
    /\ UNCHANGED <<stored, pending, client, inFlight, minted>>

\* startOfficialLogin, and the tab it opens.
StartOfficialLogin(h) ==
    /\ Receive(h, "start", "stored", NoCred)
    /\ ops' = ops \o Booting \o <<Ask("setPending", NoCred, h)>>
    /\ UNCHANGED <<stored, pending, client, inFlight, used, minted>>

\* completeOfficialLogin: the login page calls it each second until one of its
\* calls is answered.
CompleteOfficialLogin(h) ==
    /\ Receive(h, "login", "stored", NoCred)
    /\ ops' = ops \o Booting \o <<Ask("getPending", NoCred, h)>>
    /\ UNCHANGED <<stored, pending, client, inFlight, used, minted>>

-----------------------------------------------------------------------------
(* The storage answers the first call. *)

Answered(do, h) == ops # <<>> /\ ops[1].do = do /\ ops[1].by = h

\* client.init() at the start of the worker.
BootLoaded ==
    /\ Answered("get", "boot")
    /\ ops' = Tail(ops)
    /\ mem' = stored
    /\ UNCHANGED <<stored, pending, up, cache, inFlight, calls, minted, issued>>

\* getProfile(): the cache, or a request with the credential in memory, which
\* fails before it is sent when there is none.
StatusLoaded(h) ==
    /\ Answered("get", h)
    /\ ops' = Tail(ops)
    /\ mem' = stored
    /\ pc' = [pc EXCEPT ![h] = IF stored # NoCred /\ cache = NoCred THEN "fetch" ELSE "answer"]
    /\ used' = [used EXCEPT ![h] = IF stored = NoCred THEN NoCred
                                   ELSE IF cache # NoCred THEN cache ELSE stored]
    /\ UNCHANGED <<stored, pending, up, cache, inFlight, op, cred, minted, issued>>

\* Mutant: a login that fails leaves its token in place.
UndoNothing(h) ==
    /\ mem' = mem /\ cache' = cache
    /\ ops' = IF pc[h] = "stored" THEN Tail(ops) ELSE ops
    /\ pc' = [pc EXCEPT ![h] = "report"]

\* disconnect() in the catch of a login whose profile cannot be fetched.
Undo(h) ==
    /\ mem' = NoCred /\ cache' = NoCred
    /\ ops' = Append(IF pc[h] = "stored" THEN Tail(ops) ELSE ops, Ask("set", NoCred, h))
    /\ pc' = [pc EXCEPT ![h] = "undo"]

\* getProfile(true) after configure has stored the credential; it is not sent
\* when the memory has lost the credential meanwhile.
ConfigStored(h) ==
    /\ Answered("set", h) /\ cred[h] # NoCred /\ pc[h] = "stored"
    /\ stored' = ops[1].cred
    /\ used' = [used EXCEPT ![h] = mem]
    /\ IF mem = NoCred /\ op[h] = "login" THEN Undo(h)
       ELSE /\ ops' = Tail(ops)
            /\ pc' = [pc EXCEPT ![h] = IF mem # NoCred THEN "fetch" ELSE "answer"]
            /\ UNCHANGED client
    /\ UNCHANGED <<pending, up, inFlight, op, cred, minted, issued>>

ConfigRemoved(h) ==
    /\ Answered("set", h) /\ (pc[h] = "undo" \/ op[h] = "disconnect")
    /\ ops' = Tail(ops)
    /\ stored' = NoCred
    /\ pc' = [pc EXCEPT ![h] = IF op[h] = "login" THEN "report" ELSE "answer"]
    /\ UNCHANGED <<pending, worker, op, cred, used, minted, issued>>

PendingStored(h) ==
    /\ Answered("setPending", h)
    /\ ops' = Tail(ops)
    /\ pending' = "open"
    /\ pc' = [pc EXCEPT ![h] = "answer"]
    /\ UNCHANGED <<stored, worker, op, cred, used, minted, issued>>

\* handleOfficialLoginCompletion returns { ignored: true }.
LoginIgnored(h) ==
    /\ Answered("getPending", h)
    /\ pending = "none" \/ (pending = "open" /\ inFlight)
    /\ ops' = Tail(ops)
    /\ pc' = [pc EXCEPT ![h] = "answer"]
    /\ UNCHANGED <<stored, pending, worker, op, cred, used, minted, issued>>

LoginTooLate(h) ==
    /\ Answered("getPending", h) /\ pending = "late"
    /\ ops' = Append(Tail(ops), Ask("clearPending", NoCred, h))
    /\ UNCHANGED <<stored, pending, worker, calls, minted, issued>>

LoginBegins(h) ==
    /\ Answered("getPending", h) /\ pending = "open" /\ ~inFlight
    /\ ops' = Tail(ops)
    /\ inFlight' = TRUE
    /\ pc' = [pc EXCEPT ![h] = "mint"]
    /\ UNCHANGED <<stored, pending, up, client, op, cred, used, minted, issued>>

PendingCleared(h) ==
    /\ Answered("clearPending", h)
    /\ ops' = Tail(ops)
    /\ pending' = "none"
    /\ pc' = [pc EXCEPT ![h] = IF cred[h] = NoCred THEN "answer" ELSE "tell"]
    /\ UNCHANGED <<stored, worker, op, cred, used, minted, issued>>

\* What a worker has asked for before it was stopped is still done.
Orphaned ==
    /\ ops # <<>> /\ ops[1].by = "nobody"
    /\ ops' = Tail(ops)
    /\ stored' = IF ops[1].do = "set" THEN ops[1].cred ELSE stored
    /\ pending' = CASE ops[1].do = "setPending" -> "open"
                    [] ops[1].do = "clearPending" -> "none"
                    [] OTHER -> pending
    /\ UNCHANGED <<worker, calls, minted, issued>>

-----------------------------------------------------------------------------
(* The hub answers. *)

\* POST /api/tokens, and the configure that follows at once.
TokenCreated(h) ==
    /\ pc[h] = "mint" /\ minted < MaxMints
    /\ minted' = minted + 1
    /\ cred' = [cred EXCEPT ![h] = minted']
    /\ mem' = minted' /\ cache' = NoCred
    /\ ops' = Append(ops, Ask("set", minted', h))
    /\ pc' = [pc EXCEPT ![h] = "stored"]
    /\ UNCHANGED <<stored, pending, up, inFlight, op, used, issued>>

\* The request fails, or its answer is lost and the token with it.
TokenFails(h) ==
    /\ pc[h] = "mint"
    /\ minted' \in {minted, minted + 1} \cap 0 .. MaxMints
    /\ pc' = [pc EXCEPT ![h] = "report"]
    /\ UNCHANGED <<disk, worker, op, cred, used, issued>>

Accepted(c) == c \in Valid \/ c \in Nat

ProfileFetched(h) ==
    /\ pc[h] = "fetch" /\ Accepted(used[h])
    /\ cache' = used[h]
    /\ IF op[h] = "login"
       THEN /\ ops' = Append(ops, Ask("clearPending", NoCred, h))
            /\ pc' = [pc EXCEPT ![h] = "stored"]
       ELSE /\ ops' = ops
            /\ pc' = [pc EXCEPT ![h] = "answer"]
    /\ UNCHANGED <<stored, pending, up, mem, inFlight, op, cred, used, minted, issued>>

ProfileFails(h) ==
    /\ pc[h] = "fetch"
    /\ used' = [used EXCEPT ![h] = NoCred]
    /\ IF op[h] = "login" THEN Undo(h)
       ELSE /\ pc' = [pc EXCEPT ![h] = "answer"]
            /\ UNCHANGED <<ops, client>>
    /\ UNCHANGED <<stored, pending, up, inFlight, op, cred, minted, issued>>

-----------------------------------------------------------------------------
(* Answers.  A login has told the tabs and the popup before. *)

Reset(h) ==
    /\ pc' = [pc EXCEPT ![h] = "idle"]
    /\ op' = [op EXCEPT ![h] = "none"]
    /\ cred' = [cred EXCEPT ![h] = NoCred]
    /\ used' = [used EXCEPT ![h] = NoCred]

Answer(h) ==
    /\ pc[h] = "answer"
    /\ Reset(h)
    /\ UNCHANGED <<disk, worker, minted, issued>>

\* Mutant: the flag is not given back when the login fails.
LoginReturnsMarked(h) ==
    /\ pc[h] \in {"tell", "report"}
    /\ Reset(h)
    /\ inFlight' = (inFlight /\ pc[h] = "report")
    /\ UNCHANGED <<disk, up, client, minted, issued>>

LoginReturns(h) ==
    /\ pc[h] \in {"tell", "report"}
    /\ Reset(h)
    /\ inFlight' = FALSE
    /\ UNCHANGED <<disk, up, client, minted, issued>>

-----------------------------------------------------------------------------
\* Chrome stops the worker: its messages fail at their senders.
Stop ==
    /\ up /\ up' = FALSE
    /\ mem' = NoCred /\ cache' = NoCred /\ inFlight' = FALSE
    /\ ops' = [i \in 1 .. Len(ops) |-> [ops[i] EXCEPT !.by = "nobody"]]
    /\ pc' = [h \in Msgs |-> "idle"] /\ op' = [h \in Msgs |-> "none"]
    /\ cred' = [h \in Msgs |-> NoCred] /\ used' = [h \in Msgs |-> NoCred]
    /\ UNCHANGED <<stored, pending, minted, issued>>

\* OFFICIAL_LOGIN_PENDING_TTL_MS and _cacheTTL.
LoginGetsLate ==
    /\ pending = "open" /\ pending' = "late"
    /\ UNCHANGED <<stored, ops, worker, calls, minted, issued>>

CacheGetsOld ==
    /\ cache # NoCred /\ cache' = NoCred
    /\ UNCHANGED <<disk, up, mem, inFlight, calls, minted, issued>>

Send(h) ==
    \/ GetStatus(h) \/ Disconnect(h) \/ GetPreferences(h)
    \/ StartOfficialLogin(h) \/ CompleteOfficialLogin(h)
    \/ \E c \in Typed : Configure(h, c)

Resume(h) ==
    \/ StatusLoaded(h) \/ ConfigStored(h) \/ ConfigRemoved(h) \/ PendingStored(h)
    \/ LoginIgnored(h) \/ LoginTooLate(h) \/ LoginBegins(h) \/ PendingCleared(h)
    \/ TokenCreated(h) \/ TokenFails(h) \/ ProfileFetched(h) \/ ProfileFails(h)
    \/ Answer(h) \/ LoginReturns(h)

\* A message that changes the credential, and one that uses it.
Changing(h) == /\ pc[h] # "idle"
               /\ \/ op[h] \in {"configure", "disconnect"}
                  \/ op[h] = "login" /\ (cred[h] # NoCred \/ pc[h] = "undo")
Using(h)    == pc[h] # "idle" /\ op[h] \in {"status", "prefs"}
Starting    == \E i \in 1 .. Len(ops) : ops[i].by = "boot"

\* The credential changes while somebody else reads, uses or changes it.
Overlap == \E h \in Msgs : /\ Changing(h)
                          /\ (Starting \/ \E g \in Msgs \ {h} : Using(g) \/ Changing(g))

Next ==
    /\ \/ \E h \in Msgs : Send(h) \/ Resume(h)
       \/ BootLoaded \/ Orphaned \/ Stop \/ LoginGetsLate \/ CacheGetsOld
    /\ calm' = (calm /\ ~Overlap')

Spec == Init /\ [][Next]_vars

\* The storage and the hub answer, and handlers go on; nobody has to send a
\* message, and Chrome need not stop the worker.
Answering == (BootLoaded \/ Orphaned) /\ calm' = (calm /\ ~Overlap')
Handling(h) == Resume(h) /\ calm' = (calm /\ ~Overlap')

Fairness == WF_vars(Answering) /\ \A h \in Msgs : WF_vars(Handling(h))

FairSpec == Spec /\ Fairness

-----------------------------------------------------------------------------
\* While the credential has never changed under somebody else, a worker that
\* waits for nothing has in its memory what is stored, and in its cache no
\* profile but that of the stored credential.
CalmClientAgrees ==
    calm /\ up /\ ops = <<>> => mem = stored /\ cache \in {NoCred, stored}

\* A login that ends with an error does not leave its token stored, whatever
\* ran beside it.
FailedLoginIsUndone ==
    \A h \in Msgs : pc[h] = "report" /\ cred[h] # NoCred => stored # cred[h]

\* The flag that makes other logins be ignored is given back, also by logins
\* that fail.
LoginFlagReleased == inFlight ~> ~inFlight

\* configure answers with a profile only if the credential it was given fetched
\* it (the comment at background.js:56: "Validate by fetching profile").
ConfigureIsValidated ==
    \A h \in Msgs : pc[h] = "answer" /\ op[h] = "configure" /\ used[h] # NoCred
                       => used[h] = cred[h]
=============================================================================
