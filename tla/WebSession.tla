----------------------------- MODULE WebSession -----------------------------
(***************************************************************************)
(* The login of the web dashboard: the tabs of one browser, the token and  *)
(* refresh_token they share in localStorage, the requests that refresh the *)
(* access token when it is refused (web/src/api.ts), the start of the      *)
(* application and its sign-out (web/src/App.tsx), and the hub's sessions  *)
(* (internal/services/auth_service.go).                                    *)
(*                                                                         *)
(* A tab is one thread whose requests interleave at each await; tabs run   *)
(* beside each other.  Pair n is the n-th access token with its refresh    *)
(* token; the owner token of the local mode comes without one.             *)
(***************************************************************************)
EXTENDS Naturals, FiniteSets

CONSTANTS
    Tabs,      \* tabs of the browser
    Slots,     \* requests a tab may have at a time
    Boot,      \* the one of them that the start of the application uses
    MaxPairs,  \* bound of the model: pairs of tokens issued
    MaxSent    \* bound of the model: requests of the pages

SessionAssumption ==
    Boot \in Slots /\ MaxPairs \in Nat /\ MaxSent \in Nat

VARIABLES
    local,     \* the hub runs in local mode
    token,     \* localStorage "token": 0 or the number of a pair
    refresh,   \* localStorage "refresh_token"
    sessions,  \* pairs whose session the hub has
    expired,   \* pairs whose access token is too old
    issued,    \* pairs so far
    sent,      \* requests so far
    tab,       \* each tab: where its App is
    leaving,   \* the refresh token that a sign-out sends
    pc, used,  \* each request: the await it is at, the token it carries
    rf,        \* the call of /auth/refresh that a request has started
    calm       \* no part of the code: see Disturbed

items == <<token, refresh>>
hub   == <<sessions, expired, issued>>
reqs  == <<pc, used>>
vars  == <<local, items, hub, sent, tab, leaving, reqs, rf, calm>>

Pairs == 1 .. MaxPairs
NoCall == [at |-> "none", with |-> 0, new |-> 0]
Call  == [at : {"none", "sent", "found", "rotated", "failed"}, with : Nat, new : Nat]

Init ==
    /\ local \in BOOLEAN
    /\ token = 0 /\ refresh = 0 /\ sessions = {} /\ expired = {}
    /\ issued = 0 /\ sent = 0
    /\ tab = [t \in Tabs |-> "closed"] /\ leaving = [t \in Tabs |-> 0]
    /\ pc = [t \in Tabs |-> [s \in Slots |-> "idle"]]
    /\ used = [t \in Tabs |-> [s \in Slots |-> 0]]
    /\ rf = [t \in Tabs |-> [s \in Slots |-> NoCall]]
    /\ calm = TRUE

Refreshing(t) == \E s \in Slots : rf[t][s].at # "none"

\* Nothing is going on but in tab t.
Alone(t) == \A u \in Tabs \ {t} : tab[u] \in {"closed", "public"} /\ ~Refreshing(u)

\* A refresh of one tab beside one of another, or beside a sign-in or a
\* sign-out; and a sign-out while another tab shows the application.
Disturbed ==
    \/ \E t, u \in Tabs : /\ t # u /\ Refreshing(t)
                          /\ Refreshing(u) \/ tab[u] \in {"config", "leaving"}
    \/ \E t \in Tabs : tab[t] = "leaving" /\ (Refreshing(t) \/ ~Alone(t))

-----------------------------------------------------------------------------
(* Requests. *)

Send(t, s) ==
    /\ pc' = [pc EXCEPT ![t][s] = "sent"]
    /\ used' = [used EXCEPT ![t][s] = token']

PageRequest(t, s) ==
    /\ tab[t] = "app" /\ pc[t][s] = "idle" /\ sent < MaxSent
    /\ sent' = sent + 1
    /\ UNCHANGED items
    /\ Send(t, s)
    /\ UNCHANGED <<local, hub, tab, leaving, rf>>

Fresh(p) == p # 0 /\ p \notin expired
Waiting  == {"sent", "retried"}

\* getMe has answered: the App shows the user.
Succeeded(t, s) ==
    /\ pc[t][s] \in Waiting /\ Fresh(used[t][s])
    /\ pc' = [pc EXCEPT ![t][s] = "idle"]
    /\ used' = [used EXCEPT ![t][s] = 0]
    /\ tab' = [tab EXCEPT ![t] = IF @ \in {"me", "me2"} THEN "app" ELSE @]
    /\ UNCHANGED <<local, items, hub, sent, leaving, rf>>

\* getMe has failed: checkAuth drops the tokens, whatever the reason was, and
\* asks once for another owner token.
MeFailed(t) ==
    /\ token' = 0 /\ refresh' = 0
    /\ tab' = [tab EXCEPT ![t] = IF local /\ @ = "me" THEN "owner2" ELSE "public"]

\* The page shows the error, or the start of the application goes on.
Fails(t) == IF tab[t] \in {"me", "me2"} THEN MeFailed(t)
            ELSE UNCHANGED <<items, tab>>

\* 401, and no refresh token, or a second 401.
Refused(t, s) ==
    /\ pc[t][s] \in Waiting /\ ~Fresh(used[t][s])
    /\ pc[t][s] = "sent" => refresh = 0
    /\ pc' = [pc EXCEPT ![t][s] = "idle"]
    /\ used' = [used EXCEPT ![t][s] = 0]
    /\ Fails(t)
    /\ UNCHANGED <<local, hub, sent, leaving, rf>>

\* Mutant: every refused request refreshes for itself.
StartsOwnRefresh(t, s) ==
    /\ pc[t][s] = "sent" /\ ~Fresh(used[t][s]) /\ refresh # 0
    /\ pc' = [pc EXCEPT ![t][s] = "waiting"]
    /\ used' = [used EXCEPT ![t][s] = 0]
    /\ rf' = [rf EXCEPT ![t][s] = [at |-> "sent", with |-> refresh, new |-> 0]]
    /\ UNCHANGED <<local, items, hub, sent, tab, leaving>>

\* 401: one call of /auth/refresh for all requests of the tab.
StartsRefresh(t, s) ==
    /\ pc[t][s] = "sent" /\ ~Fresh(used[t][s]) /\ refresh # 0
    /\ pc' = [pc EXCEPT ![t][s] = "waiting"]
    /\ used' = [used EXCEPT ![t][s] = 0]
    /\ rf' = IF Refreshing(t) THEN rf
             ELSE [rf EXCEPT ![t][s] = [at |-> "sent", with |-> refresh, new |-> 0]]
    /\ UNCHANGED <<local, items, hub, sent, tab, leaving>>

\* The network or the hub fails.
Breaks(t, s) ==
    /\ pc[t][s] \in Waiting
    /\ pc' = [pc EXCEPT ![t][s] = "idle"]
    /\ used' = [used EXCEPT ![t][s] = 0]
    /\ Fails(t)
    /\ UNCHANGED <<local, hub, sent, leaving, rf>>

-----------------------------------------------------------------------------
(* /auth/refresh: RefreshToken looks the session up, deletes it, and       *)
(* inserts another one.                                                    *)

At(t, s, where) == rf' = [rf EXCEPT ![t][s].at = where]
Failed(t, s)    == rf' = [rf EXCEPT ![t][s] = [at |-> "failed", with |-> 0, new |-> 0]]

SessionFound(t, s) ==
    /\ rf[t][s].at = "sent"
    /\ IF rf[t][s].with \in sessions THEN At(t, s, "found") ELSE Failed(t, s)
    /\ UNCHANGED <<local, items, hub, sent, tab, leaving, reqs>>

Rotated(t, s) ==
    /\ rf[t][s].at = "found" /\ issued < MaxPairs
    /\ issued' = issued + 1
    /\ sessions' = (sessions \ {rf[t][s].with}) \cup {issued'}
    /\ rf' = [rf EXCEPT ![t][s].at = "rotated", ![t][s].new = issued']
    /\ UNCHANGED <<local, items, expired, sent, tab, leaving, reqs>>

\* The call does not arrive, stops between its two statements, or its answer
\* is lost.
RefreshBreaks(t, s) ==
    /\ rf[t][s].at \in {"sent", "found", "rotated"}
    /\ sessions' \in {sessions} \cup
                     (IF rf[t][s].at = "found" THEN {sessions \ {rf[t][s].with}} ELSE {})
    /\ Failed(t, s)
    /\ UNCHANGED <<local, items, expired, issued, sent, tab, leaving, reqs>>

\* The promise settles: the requests of the tab that wait for it go on.
RefreshStored(t, s) ==
    /\ rf[t][s].at = "rotated"
    /\ token' = rf[t][s].new /\ refresh' = rf[t][s].new
    /\ pc' = [pc EXCEPT ![t] = [x \in Slots |-> IF @[x] = "waiting" THEN "retried" ELSE @[x]]]
    /\ used' = [used EXCEPT ![t] = [x \in Slots |-> IF pc[t][x] = "waiting"
                                                    THEN rf[t][s].new ELSE @[x]]]
    /\ rf' = [rf EXCEPT ![t][s] = NoCall]
    /\ UNCHANGED <<local, hub, sent, tab, leaving>>

\* "session expired" for the requests that wait; those of the page show it.
RefreshDropped(t, s) ==
    /\ rf[t][s].at = "failed"
    /\ token' = 0 /\ refresh' = 0
    /\ tab' = [tab EXCEPT ![t] = IF pc[t][Boot] = "waiting" /\ @ \in {"me", "me2"}
                                 THEN IF local /\ @ = "me" THEN "owner2" ELSE "public"
                                 ELSE @]
    /\ pc' = [pc EXCEPT ![t] = [x \in Slots |-> IF @[x] = "waiting" THEN "idle" ELSE @[x]]]
    /\ rf' = [rf EXCEPT ![t][s] = NoCall]
    /\ UNCHANGED <<local, hub, sent, leaving, used>>

-----------------------------------------------------------------------------
(* The application starts: checkAuth. *)

\* A tab is opened or reloaded.
Open(t) ==
    /\ tab[t] = "closed"
    /\ tab' = [tab EXCEPT ![t] = "config"]
    /\ UNCHANGED <<local, items, hub, sent, leaving, reqs, rf>>

\* The identity provider sends the browser back with ?auth_token&auth_refresh.
OpenSignedIn(t) ==
    /\ tab[t] = "public" /\ ~local /\ issued < MaxPairs
    /\ issued' = issued + 1
    /\ sessions' = sessions \cup {issued'}
    /\ token' = issued' /\ refresh' = issued'
    /\ tab' = [tab EXCEPT ![t] = "config"]
    /\ leaving' = [leaving EXCEPT ![t] = 0]
    /\ UNCHANGED <<local, expired, sent, reqs, rf>>

\* getPublicConfig has answered, or failed, which means: not local.
ConfigLoaded(t) ==
    /\ tab[t] = "config"
    /\ UNCHANGED items
    /\ \/ /\ token # 0
          /\ tab' = [tab EXCEPT ![t] = "me"]
          /\ Send(t, Boot)
       \/ /\ token = 0
          /\ tab' = [tab EXCEPT ![t] = IF local THEN "owner" ELSE "public"]
          /\ UNCHANGED reqs
    /\ UNCHANGED <<local, hub, sent, leaving, rf>>

\* Mutant: a start that gets no owner token goes on loading.
NoOwnerTokenLoading(t) ==
    /\ tab[t] \in {"owner", "owner2"}
    /\ tab' = [tab EXCEPT ![t] = IF @ = "owner" THEN "public" ELSE @]
    /\ UNCHANGED <<local, items, hub, sent, leaving, reqs, rf>>

\* bootstrapLocalOwnerToken.
OwnerToken(t) ==
    /\ tab[t] \in {"owner", "owner2"} /\ issued < MaxPairs
    /\ issued' = issued + 1
    /\ token' = issued' /\ refresh' = 0
    /\ tab' = [tab EXCEPT ![t] = IF @ = "owner" THEN "me" ELSE "me2"]
    /\ Send(t, Boot)
    /\ UNCHANGED <<local, sessions, expired, sent, leaving, rf>>

NoOwnerToken(t) ==
    /\ tab[t] \in {"owner", "owner2"}
    /\ tab' = [tab EXCEPT ![t] = "public"]
    /\ UNCHANGED <<local, items, hub, sent, leaving, reqs, rf>>

\* The tab is closed or left for another site; what it has sent is lost, and a
\* refresh may still be done.
Leave(t) ==
    /\ tab[t] \in {"public", "app"}
    /\ tab' = [tab EXCEPT ![t] = "closed"]
    /\ pc' = [pc EXCEPT ![t] = [s \in Slots |-> "idle"]]
    /\ used' = [used EXCEPT ![t] = [s \in Slots |-> 0]]
    /\ leaving' = [leaving EXCEPT ![t] = 0]
    /\ \/ sessions' = sessions
       \/ /\ Refreshing(t)
          /\ sessions' = sessions \ {rf[t][s].with : s \in {x \in Slots : rf[t][x].at # "none"}}
    /\ rf' = [rf EXCEPT ![t] = [s \in Slots |-> NoCall]]
    /\ UNCHANGED <<local, items, expired, issued, sent>>

-----------------------------------------------------------------------------
(* Sign-out. *)

Logout(t) ==
    /\ tab[t] = "app"
    /\ IF refresh # 0
       THEN /\ leaving' = [leaving EXCEPT ![t] = refresh]
            /\ tab' = [tab EXCEPT ![t] = "leaving"]
            /\ UNCHANGED items
       ELSE /\ token' = 0 /\ refresh' = 0
            /\ tab' = [tab EXCEPT ![t] = "public"]
            /\ UNCHANGED leaving
    /\ UNCHANGED <<local, hub, sent, reqs, rf>>

\* Mutant: the tokens are dropped before the hub is told.
LoggedOutHere(t) ==
    /\ tab[t] = "leaving"
    /\ token' = 0 /\ refresh' = 0
    /\ tab' = [tab EXCEPT ![t] = "public"]
    /\ UNCHANGED <<local, hub, sent, leaving, reqs, rf>>

\* The hub deletes the session; an error is ignored.
LoggedOut(t) ==
    /\ tab[t] = "leaving"
    /\ sessions' = sessions \ {leaving[t]}
    /\ token' = 0 /\ refresh' = 0
    /\ tab' = [tab EXCEPT ![t] = "public"]
    /\ UNCHANGED <<local, expired, issued, sent, leaving, reqs, rf>>

LogoutBreaks(t) ==
    /\ tab[t] = "leaving"
    /\ token' = 0 /\ refresh' = 0
    /\ tab' = [tab EXCEPT ![t] = "public"]
    /\ leaving' = [leaving EXCEPT ![t] = 0]
    /\ UNCHANGED <<local, hub, sent, reqs, rf>>

\* An access token gets too old, though not between the refresh that brings
\* it and the request that is sent again; owner tokens and sessions last.
Expire(p) ==
    /\ p \in 1 .. issued /\ p \notin expired /\ ~local
    /\ \A t \in Tabs, s \in Slots : /\ rf[t][s].new # p
                                    /\ pc[t][s] = "retried" => used[t][s] # p
    /\ expired' = expired \cup {p}
    /\ UNCHANGED <<local, items, sessions, issued, sent, tab, leaving, reqs, rf>>

-----------------------------------------------------------------------------
Breakdown(t) ==
    \/ \E s \in Slots : Breaks(t, s) \/ RefreshBreaks(t, s)
    \/ Refreshing(t) /\ Leave(t)

RequestStep(t, s) ==
    \/ Succeeded(t, s) \/ Refused(t, s) \/ StartsRefresh(t, s)
    \/ SessionFound(t, s) \/ Rotated(t, s)
    \/ RefreshStored(t, s) \/ RefreshDropped(t, s)

StartStep(t) ==
    \/ ConfigLoaded(t) \/ OwnerToken(t) \/ NoOwnerToken(t)
    \/ LoggedOut(t) \/ LogoutBreaks(t)

TabStep(t) == StartStep(t) \/ \E s \in Slots : RequestStep(t, s)

Watch == calm' = (calm /\ ~Disturbed')

Next ==
    \E t \in Tabs :
       \/ TabStep(t) /\ Watch
       \/ (Open(t) \/ OpenSignedIn(t)) /\ Watch
       \/ Logout(t) /\ calm' = (calm /\ Alone(t) /\ ~Disturbed')
       \/ ~Refreshing(t) /\ Leave(t) /\ Watch
       \/ (\E s \in Slots : PageRequest(t, s)) /\ Watch
       \/ (\E p \in Pairs : Expire(p)) /\ Watch
       \/ Breakdown(t) /\ calm' = FALSE

Spec == Init /\ [][Next]_vars

\* Every request is answered in the end, or breaks, and the start of the
\* application goes on; users need not do anything.
Answering(t, s) ==
    \/ RequestStep(t, s) /\ Watch
    \/ (Breaks(t, s) \/ RefreshBreaks(t, s)) /\ calm' = FALSE
Starting(t) == StartStep(t) /\ Watch

Fairness == \A t \in Tabs : WF_vars(Starting(t)) /\ \A s \in Slots : WF_vars(Answering(t, s))

FairSpec == Spec /\ Fairness

-----------------------------------------------------------------------------
\* The refresh token that the browser has stored can be redeemed, or has just
\* been redeemed by the one call whose answer replaces it, and no tab shows the
\* application without a token: so long as tabs do not refresh beside each other
\* and nothing breaks, nobody loses a session.
CalmSessionLasts ==
    calm => /\ refresh # 0 => \/ refresh \in sessions
                              \/ \E t \in Tabs, s \in Slots :
                                    rf[t][s].at = "rotated" /\ rf[t][s].with = refresh
            /\ \A t \in Tabs : tab[t] = "app" => token # 0

\* A sign-out that the hub has confirmed has ended the session whose refresh token it
\* sent, and no refresh or sign-in that ran beside it, in whichever tab, brings that
\* session back.
SignedOut(t) == tab[t] = "public" /\ leaving[t] # 0
LogoutRevokes == \A t \in Tabs : SignedOut(t) => leaving[t] \notin sessions

\* The start of the application ends, on every way through checkAuth.
StartEnds == \A t \in Tabs : tab[t] = "config" ~> tab[t] \in {"app", "public"}
=============================================================================
