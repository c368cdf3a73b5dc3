--------------------------- MODULE Services_proofs --------------------------
(***************************************************************************)
(* What the web app promises of its login session and of the file editor,  *)
(* and what the hub promises of the inbox and of the logs of projects: for *)
(* any number of tabs, requests, files, messages and writers.  Each has    *)
(* its own inductive invariant, in a section of its own; that of the login *)
(* of the extension is in Login_proofs.                                    *)
(***************************************************************************)
EXTENDS Services, Integers, TLAPS

-----------------------------------------------------------------------------
(* The login session of the web app (api.ts, App.tsx, auth_service.go).    *)

\* Where a tab is, and the awaits of a request.
Places == {"closed", "config", "me", "me2", "owner", "owner2", "app", "public", "leaving"}
Awaits == {"idle", "sent", "waiting", "retried"}

\* The type invariant of the login session.
WebTypeOK ==
    /\ local \in BOOLEAN /\ webCalm \in BOOLEAN /\ webIssued \in Nat
    /\ token \in 0 .. webIssued /\ refresh \in 0 .. webIssued
    /\ sessions \subseteq 1 .. webIssued /\ expired \subseteq 1 .. webIssued
    /\ tab \in [Tabs -> Places] /\ leaving \in [Tabs -> 0 .. webIssued]
    /\ webPc \in [Tabs -> [Slots -> Awaits]] /\ webUsed \in [Tabs -> [Slots -> Nat]]
    /\ rf \in [Tabs -> [Slots -> Web!Call]]

\* The local mode has owner tokens only, a hub that signs in only pairs.
Modes ==
    /\ ~local => token = refresh
    /\ local => refresh = 0 /\ expired = {} /\ \A t \in Tabs, s \in Slots : rf[t][s].at = "none"
    /\ \A t \in Tabs : tab[t] \in {"owner", "owner2"} => local

\* A tab has one call of /auth/refresh at a time, and what that brings is new.
Calls ==
    /\ \A t \in Tabs : \A s, x \in Slots :
          rf[t][s].at # "none" /\ rf[t][x].at # "none" => s = x
    /\ \A t \in Tabs, s \in Slots :
          /\ rf[t][s].at = "rotated" => rf[t][s].new \in (1 .. webIssued) \ expired
          /\ webPc[t][s] = "retried" => webUsed[t][s] # 0 /\ webUsed[t][s] \notin expired

\* A sign-out that has been confirmed has ended its session.
SignOuts ==
    \A t \in Tabs : leaving[t] # 0
       => \/ tab[t] = "leaving"
          \/ tab[t] = "public" /\ leaving[t] \notin sessions

\* One tab at a time refreshes, signs in or signs out.
Undisturbed ==
    /\ \A t, u \in Tabs, s, x \in Slots :
          t # u /\ rf[t][s].at # "none"
             => rf[u][x].at = "none" /\ tab[u] \notin {"config", "leaving"}
    /\ \A t \in Tabs : tab[t] = "leaving"
          => /\ \A u \in Tabs, s \in Slots : rf[u][s].at = "none"
             /\ \A u \in Tabs \ {t} : tab[u] \in {"closed", "public"}

\* Then no call fails, and the pair that is stored can be redeemed, or just has been.
Redeemable ==
    /\ \A t \in Tabs : tab[t] \in {"me", "me2", "app", "leaving"} => token # 0
    /\ \A t \in Tabs, s \in Slots :
          /\ webPc[t][s] \in {"sent", "retried"} => webUsed[t][s] # 0
          /\ rf[t][s].at # "failed"
          /\ rf[t][s].at \in {"sent", "found"} => rf[t][s].with \in sessions
          /\ rf[t][s].at = "rotated" => rf[t][s].new \in sessions
    /\ refresh # 0 => \/ refresh \in sessions
                      \/ \E t \in Tabs, s \in Slots :
                            rf[t][s].at = "rotated" /\ rf[t][s].with = refresh

\* What holds whatever tabs do beside each other.
WebAlways == WebTypeOK /\ Modes /\ Calls /\ SignOuts
\* The invariant of the login session.
WebInv == WebAlways /\ (webCalm => Undisturbed /\ Redeemable)
\* It, while the login session is looked at.
WebIInv == part = "web" => WebInv

\* Table g is f but for request s of tab t.
OnlyAt(f, g, t, s, v) ==
    /\ g[t][s] = v
    /\ \A u \in Tabs, x \in Slots : u # t \/ x # s => g[u][x] = f[u][x]

\* Table g is f but for tab t.
OnlyOf(f, g, t, v) == g[t] = v /\ \A u \in Tabs \ {t} : g[u] = f[u]

\* A step of the module is one of the tabs, while those are looked at.
LEMMA WebStep ==
    ASSUME [ServicesNext]_allVars
    PROVE  part' = part /\ (part = "web" => [Web!Next]_webVars)
BY DEF ServicesNext, allVars

\* What the proofs need of the constants.
LEMMA WebConstants == Boot \in Slots /\ MaxPairs \in Nat
BY ServicesAssumption DEF Web!SessionAssumption

\* What a call of /auth/refresh begins with.
LEMMA NewCall ==
    ASSUME NEW k \in {"sent", "failed"}, NEW w \in Nat
    PROVE  LET c == [at |-> k, with |-> w, new |-> 0]
           IN  c \in Web!Call /\ c.at = k /\ c.with = w
BY DEF Web!Call

\* What a request that waits for none has.
LEMMA NoCallIs == Web!NoCall \in Web!Call /\ Web!NoCall.at = "none"
BY DEF Web!NoCall, Web!Call

\* Undisturbed is the negation of what the model calls disturbed.
LEMMA UndisturbedIs == Undisturbed <=> ~Web!Disturbed
<1>1. Undisturbed => ~Web!Disturbed
  BY DEF Undisturbed, Web!Disturbed, Web!Refreshing, Web!Alone
<1>2. ~Web!Disturbed => Undisturbed
  BY DEF Undisturbed, Web!Disturbed, Web!Refreshing, Web!Alone
<1> QED
  BY <1>1, <1>2

\* No tab is open at the beginning.
LEMMA InitWeb == ServicesInit => WebIInv
<1> SUFFICES ASSUME ServicesInit, part = "web" PROVE WebInv
  BY DEF WebIInv
<1>1. Web!Init
  BY DEF ServicesInit
<1> QED
  BY <1>1, NoCallIs DEF Web!Init, WebInv, WebAlways, WebTypeOK, Places, Awaits, Modes, Calls,
     SignOuts, Undisturbed, Redeemable

\* Every step keeps the invariant.
LEMMA WebNext == WebInv /\ [Web!Next]_webVars => WebInv'
<1> SUFFICES ASSUME WebInv, [Web!Next]_webVars PROVE WebInv'
  OBVIOUS
<1> USE DEF Web!items, Web!hub, Web!reqs
<1>t. WebTypeOK /\ Modes /\ Calls /\ SignOuts
  BY DEF WebInv, WebAlways
<1>b. webCalm' \in BOOLEAN
  BY <1>t DEF WebTypeOK, Web!Next, Web!Watch, webVars
<1>w. webCalm' => webCalm /\ Undisturbed /\ Redeemable
  BY DEF WebInv, Web!Next, Web!Watch, webVars
<1>u. webCalm' => Undisturbed'
  <2>1. Undisturbed' <=> ~Web!Disturbed'
    BY UndisturbedIs, PTL
  <2>2. CASE Web!Next
    BY <2>1, <2>2 DEF Web!Next, Web!Watch
  <2>3. CASE UNCHANGED webVars
    BY <1>w, <2>3 DEF webVars, Undisturbed
  <2> QED
    BY <2>2, <2>3
<1>q. ASSUME WebAlways', webCalm' => Redeemable' PROVE WebInv'
  BY <1>u, <1>q DEF WebInv
<1>c. Boot \in Slots
  BY WebConstants
<1>p. ASSUME NEW t \in Tabs, NEW s \in Slots, NEW a \in Awaits, webPc' = [webPc EXCEPT ![t][s] = a]
      PROVE  /\ webPc' \in [Tabs -> [Slots -> Awaits]] /\ OnlyAt(webPc, webPc', t, s, a)
  BY <1>t, <1>p DEF WebTypeOK, OnlyAt
<1>v. ASSUME NEW t \in Tabs, NEW s \in Slots, NEW n \in Nat, webUsed' = [webUsed EXCEPT ![t][s] = n]
      PROVE  /\ webUsed' \in [Tabs -> [Slots -> Nat]] /\ OnlyAt(webUsed, webUsed', t, s, n)
  BY <1>t, <1>v DEF WebTypeOK, OnlyAt
<1>r. ASSUME NEW t \in Tabs, NEW s \in Slots, NEW c \in Web!Call, rf' = [rf EXCEPT ![t][s] = c]
      PROVE  /\ rf' \in [Tabs -> [Slots -> Web!Call]] /\ OnlyAt(rf, rf', t, s, c)
  BY <1>t, <1>r DEF WebTypeOK, OnlyAt
<1>o. ASSUME NEW t \in Tabs, NEW p \in Places, tab' = [tab EXCEPT ![t] = p]
      PROVE  /\ tab' \in [Tabs -> Places] /\ OnlyOf(tab, tab', t, p)
  BY <1>t, <1>o DEF WebTypeOK, OnlyOf
<1>l. ASSUME NEW t \in Tabs, NEW n \in Nat, leaving' = [leaving EXCEPT ![t] = n]
      PROVE  /\ leaving' \in [Tabs -> Nat] /\ OnlyOf(leaving, leaving', t, n)
  BY <1>t, <1>l DEF WebTypeOK, OnlyOf
\* A request is sent by the page.
<1>1. ASSUME NEW t \in Tabs, NEW s \in Slots, Web!PageRequest(t, s) PROVE WebInv'
  <2>1. /\ tab[t] = "app" /\ webPc' = [webPc EXCEPT ![t][s] = "sent"]
        /\ webUsed' = [webUsed EXCEPT ![t][s] = token]
        /\ UNCHANGED <<local, token, refresh, sessions, expired, webIssued, tab, leaving, rf>>
    BY <1>1 DEF Web!PageRequest, Web!Send
  <2>2. token \in Nat
    BY <1>t DEF WebTypeOK
  <2>3. /\ webPc' \in [Tabs -> [Slots -> Awaits]] /\ OnlyAt(webPc, webPc', t, s, "sent")
        /\ webUsed' \in [Tabs -> [Slots -> Nat]] /\ OnlyAt(webUsed, webUsed', t, s, token)
    BY <1>p, <1>v, <2>1, <2>2 DEF Awaits
  <2>4. WebAlways'
    BY <1>t, <1>b, <2>1, <2>3 DEF WebAlways, WebTypeOK, Modes, Calls, SignOuts, OnlyAt
  <2>5. webCalm' => Redeemable'
    BY <1>w, <2>1, <2>3 DEF Redeemable, OnlyAt
  <2> QED
    BY <1>q, <2>4, <2>5
\* A request is over.
<1>e. ASSUME NEW t \in Tabs, NEW s \in Slots,
             webPc' = [webPc EXCEPT ![t][s] = "idle"], webUsed' = [webUsed EXCEPT ![t][s] = 0],
             UNCHANGED <<local, sessions, expired, webIssued, leaving, rf>>,
             NEW p \in Places, tab' = [tab EXCEPT ![t] = p],
             p = tab[t] \/ (leaving[t] = 0 /\ p \in {"app", "owner2", "public"}),
             p = "owner2" => local,
             UNCHANGED <<token, refresh>> \/ (token' = 0 /\ refresh' = 0)
      PROVE  /\ WebAlways' /\ OnlyOf(tab, tab', t, p)
             /\ OnlyAt(webPc, webPc', t, s, "idle") /\ OnlyAt(webUsed, webUsed', t, s, 0)
  <2>1. token' \in 0 .. webIssued /\ refresh' \in 0 .. webIssued /\ (~local => token' = refresh')
        /\ (local => refresh' = 0)
    BY <1>t, <1>e DEF WebTypeOK, Modes
  <2>2. /\ webPc' \in [Tabs -> [Slots -> Awaits]] /\ OnlyAt(webPc, webPc', t, s, "idle")
        /\ webUsed' \in [Tabs -> [Slots -> Nat]] /\ OnlyAt(webUsed, webUsed', t, s, 0)
        /\ tab' \in [Tabs -> Places] /\ OnlyOf(tab, tab', t, p)
    BY <1>p, <1>v, <1>o, <1>e DEF Awaits
  <2>3. WebTypeOK' /\ Calls'
    BY <1>t, <1>b, <1>e, <2>1, <2>2 DEF WebTypeOK, Calls, OnlyAt
  <2>4. Modes'
    BY <1>t, <1>e, <2>1, <2>2 DEF Modes, OnlyOf
  <2>5. SignOuts'
    BY <1>t, <1>e, <2>2 DEF SignOuts, OnlyOf
  <2> QED
    BY <2>2, <2>3, <2>4, <2>5 DEF WebAlways
<1>2. ASSUME NEW t \in Tabs, NEW s \in Slots, Web!Succeeded(t, s) PROVE WebInv'
  <2>1. PICK p : /\ tab' = [tab EXCEPT ![t] = p]
                 /\ p = IF tab[t] \in {"me", "me2"} THEN "app" ELSE tab[t]
    BY <1>2 DEF Web!Succeeded
  <2>2. /\ webPc' = [webPc EXCEPT ![t][s] = "idle"] /\ webUsed' = [webUsed EXCEPT ![t][s] = 0]
        /\ UNCHANGED <<local, token, refresh, sessions, expired, webIssued, leaving, rf>>
    BY <1>2 DEF Web!Succeeded
  <2>3. /\ p \in Places /\ (p = "owner2" => local)
        /\ p \in {"me", "me2", "app", "leaving"} => tab[t] \in {"me", "me2", "app", "leaving"}
    BY <1>t, <2>1 DEF WebTypeOK, Places, Modes
  <2>m. tab[t] \in {"me", "me2"} => leaving[t] = 0
    BY <1>t DEF SignOuts
  <2>4. p = tab[t] \/ (leaving[t] = 0 /\ p \in {"app", "owner2", "public"})
    BY <2>1, <2>m
  <2>5. /\ WebAlways' /\ OnlyOf(tab, tab', t, p)
        /\ OnlyAt(webPc, webPc', t, s, "idle") /\ OnlyAt(webUsed, webUsed', t, s, 0)
    BY <1>e, <2>1, <2>2, <2>3, <2>4
  <2>6. webCalm' => Redeemable'
    BY <1>w, <2>2, <2>3, <2>5 DEF Redeemable, OnlyAt, OnlyOf
  <2> QED
    BY <1>q, <2>5, <2>6
<1>f. ASSUME NEW t \in Tabs, Web!Fails(t)
      PROVE  \E p \in Places :
                /\ tab' = [tab EXCEPT ![t] = p]
                /\ p = tab[t] \/ (leaving[t] = 0 /\ p \in {"app", "owner2", "public"})
                /\ p = "owner2" => local
                /\ UNCHANGED <<token, refresh>> \/ (token' = 0 /\ refresh' = 0)
  <2>1. CASE tab[t] \in {"me", "me2"}
    <3>1. PICK p : p = IF local /\ tab[t] = "me" THEN "owner2" ELSE "public"
      OBVIOUS
    <3>2. token' = 0 /\ refresh' = 0 /\ tab' = [tab EXCEPT ![t] = p]
      BY <1>f, <2>1, <3>1 DEF Web!Fails, Web!MeFailed
    <3>3. leaving[t] = 0
      BY <1>t, <2>1 DEF SignOuts
    <3>4. p \in Places /\ p \in {"owner2", "public"} /\ (p = "owner2" => local)
      BY <3>1 DEF Places
    <3> QED
      BY <3>2, <3>3, <3>4
  <2>2. CASE tab[t] \notin {"me", "me2"}
    <3>1. UNCHANGED <<token, refresh, tab>>
      BY <1>f, <2>2 DEF Web!Fails
    <3>2. tab' = [tab EXCEPT ![t] = tab[t]] /\ tab[t] \in Places
      BY <1>t, <3>1 DEF WebTypeOK
    <3>3. tab[t] = "owner2" => local
      BY <1>t DEF Modes
    <3> QED
      BY <3>1, <3>2, <3>3
  <2> QED
    BY <2>1, <2>2
<1>3. ASSUME NEW t \in Tabs, NEW s \in Slots, Web!Refused(t, s) PROVE WebInv'
  <2>1. /\ webPc' = [webPc EXCEPT ![t][s] = "idle"] /\ webUsed' = [webUsed EXCEPT ![t][s] = 0]
        /\ Web!Fails(t) /\ UNCHANGED <<local, sessions, expired, webIssued, leaving, rf>>
    BY <1>3 DEF Web!Refused
  <2>2. WebAlways' /\ OnlyAt(webPc, webPc', t, s, "idle") /\ OnlyAt(webUsed, webUsed', t, s, 0)
    BY <1>e, <1>f, <2>1
  <2>3. webCalm' => tab[t] \notin {"me", "me2"}
    <3> SUFFICES ASSUME webCalm', tab[t] \in {"me", "me2"} PROVE FALSE
      OBVIOUS
    <3>1. webPc[t][s] = "sent" /\ refresh = 0
      BY <1>t, <1>3 DEF Web!Refused, Web!Waiting, Web!Fresh, Calls
    <3>2. token # 0 /\ webUsed[t][s] # 0
      BY <1>w, <3>1 DEF Redeemable
    <3> QED
      BY <1>t, <1>3, <3>1, <3>2 DEF Web!Refused, Web!Fresh, Modes
  <2>4. webCalm' => UNCHANGED <<token, refresh, tab>>
    BY <2>1, <2>3 DEF Web!Fails
  <2>5. webCalm' => Redeemable'
    BY <1>w, <2>1, <2>2, <2>4 DEF Redeemable, OnlyAt
  <2> QED
    BY <1>q, <2>2, <2>5
<1>4. ASSUME NEW t \in Tabs, NEW s \in Slots, Web!Breaks(t, s), ~webCalm' PROVE WebInv'
  BY <1>4, <1>e, <1>f, <1>q DEF Web!Breaks
\* The calls of /auth/refresh.
<1>5. ASSUME NEW t \in Tabs, NEW s \in Slots, Web!StartsRefresh(t, s) PROVE WebInv'
  <2>1. /\ refresh # 0 /\ webPc' = [webPc EXCEPT ![t][s] = "waiting"]
        /\ webUsed' = [webUsed EXCEPT ![t][s] = 0]
        /\ UNCHANGED <<local, token, refresh, sessions, expired, webIssued, tab, leaving>>
    BY <1>5 DEF Web!StartsRefresh
  <2>2. refresh \in Nat /\ ~local
    BY <1>t, <2>1 DEF WebTypeOK, Modes
  <2>3. /\ webPc' \in [Tabs -> [Slots -> Awaits]] /\ OnlyAt(webPc, webPc', t, s, "waiting")
        /\ webUsed' \in [Tabs -> [Slots -> Nat]] /\ OnlyAt(webUsed, webUsed', t, s, 0)
    BY <1>p, <1>v, <2>1 DEF Awaits
  <2>4. Modes' /\ SignOuts'
    BY <1>t, <2>1, <2>2 DEF Modes, SignOuts
  <2>5. CASE rf' = rf
    <3>1. WebAlways'
      BY <1>t, <1>b, <2>1, <2>3, <2>4, <2>5 DEF WebAlways, WebTypeOK, Calls, OnlyAt
    <3>2. webCalm' => Redeemable'
      BY <1>w, <2>1, <2>3, <2>5 DEF Redeemable, OnlyAt
    <3> QED
      BY <1>q, <3>1, <3>2
  <2>6. CASE rf' # rf
    <3>1. PICK c \in Web!Call : /\ rf' = [rf EXCEPT ![t][s] = c]
                                /\ c.at = "sent" /\ c.with = refresh
      BY <1>5, <2>2, <2>6, NewCall DEF Web!StartsRefresh
    <3>2. \A x \in Slots : rf[t][x].at = "none"
      BY <1>5, <2>6 DEF Web!StartsRefresh, Web!Refreshing
    <3>3. rf' \in [Tabs -> [Slots -> Web!Call]] /\ OnlyAt(rf, rf', t, s, c)
      BY <1>r, <3>1
    <3>4. Calls'
      BY <1>t, <2>1, <2>3, <3>1, <3>2, <3>3 DEF Calls, OnlyAt
    <3>5. WebAlways'
      BY <1>t, <1>b, <2>1, <2>3, <2>4, <3>3, <3>4 DEF WebAlways, WebTypeOK
    <3>6. webCalm' => \A u \in Tabs, x \in Slots : rf[u][x].at = "none"
      BY <1>u, <3>1, <3>2, <3>3 DEF Undisturbed, OnlyAt
    <3>7. webCalm' => refresh \in sessions
      BY <1>w, <2>1, <3>6 DEF Redeemable
    <3>8. webCalm' => Redeemable'
      BY <1>w, <2>1, <2>3, <3>1, <3>3, <3>7 DEF Redeemable, OnlyAt
    <3> QED
      BY <1>q, <3>5, <3>8
  <2> QED
    BY <2>5, <2>6
<1>6. ASSUME NEW t \in Tabs, NEW s \in Slots, Web!SessionFound(t, s) PROVE WebInv'
  <2>1. /\ rf[t][s].at = "sent"
        /\ UNCHANGED <<local, token, refresh, sessions, expired, webIssued, tab, leaving, webPc,
                       webUsed>>
    BY <1>6 DEF Web!SessionFound
  <2>2. PICK c \in Web!Call :
           /\ rf' = [rf EXCEPT ![t][s] = c] /\ c.at \in {"found", "failed"}
           /\ rf[t][s].with \in sessions => c.at = "found" /\ c.with = rf[t][s].with
    <3>1. CASE rf[t][s].with \in sessions
      <4> DEFINE c == [rf[t][s] EXCEPT !.at = "found"]
      <4>1. rf' = [rf EXCEPT ![t][s] = c]
        BY <1>6, <3>1 DEF Web!SessionFound, Web!At
      <4>2. rf[t][s] \in Web!Call
        BY <1>t DEF WebTypeOK
      <4>3. c \in Web!Call /\ c.at = "found" /\ c.with = rf[t][s].with
        BY <4>2 DEF Web!Call
      <4> HIDE DEF c
      <4> QED
        BY <4>1, <4>3
    <3>2. CASE rf[t][s].with \notin sessions
      <4> DEFINE c == [at |-> "failed", with |-> 0, new |-> 0]
      <4>1. rf' = [rf EXCEPT ![t][s] = c]
        BY <1>6, <3>2 DEF Web!SessionFound, Web!Failed
      <4>2. c \in Web!Call /\ c.at = "failed"
        BY NewCall
      <4> HIDE DEF c
      <4> QED
        BY <3>2, <4>1, <4>2
    <3> QED
      BY <3>1, <3>2
  <2>3. rf' \in [Tabs -> [Slots -> Web!Call]] /\ OnlyAt(rf, rf', t, s, c)
    BY <1>r, <2>2
  <2>4. ~local
    BY <1>t, <2>1 DEF Modes
  <2>5. WebAlways'
    BY <1>t, <1>b, <2>1, <2>2, <2>3, <2>4 DEF WebAlways, WebTypeOK, Modes, Calls, SignOuts,
       OnlyAt
  <2>6. webCalm' => Redeemable'
    BY <1>w, <2>1, <2>2, <2>3 DEF Redeemable, OnlyAt
  <2> QED
    BY <1>q, <2>5, <2>6
\* Nothing that the next pair would bring is known.
<1>n. /\ webIssued + 1 \in Nat /\ webIssued + 1 \notin expired /\ webIssued + 1 # 0
      /\ \A t \in Tabs : leaving[t] # webIssued + 1
  BY <1>t DEF WebTypeOK
<1>g. ASSUME webIssued' = webIssued + 1
      PROVE  /\ webIssued' \in Nat /\ webIssued + 1 \in 1 .. webIssued'
             /\ token \in 0 .. webIssued' /\ refresh \in 0 .. webIssued'
             /\ sessions \subseteq 1 .. webIssued' /\ expired \subseteq 1 .. webIssued'
             /\ leaving \in [Tabs -> 0 .. webIssued']
  <2>1. /\ webIssued' \in Nat /\ webIssued + 1 \in 1 .. webIssued'
        /\ 0 .. webIssued \subseteq 0 .. webIssued' /\ 1 .. webIssued \subseteq 1 .. webIssued'
    BY <1>t, <1>g DEF WebTypeOK
  <2>2. \A t \in Tabs : leaving[t] \in 0 .. webIssued'
    BY <1>t, <2>1 DEF WebTypeOK
  <2>3. leaving \in [Tabs -> 0 .. webIssued']
    BY <1>t, <2>2 DEF WebTypeOK
  <2>4. token \in 0 .. webIssued' /\ refresh \in 0 .. webIssued'
    BY <1>t, <2>1 DEF WebTypeOK
  <2>5. sessions \subseteq 1 .. webIssued' /\ expired \subseteq 1 .. webIssued'
    BY <1>t, <2>1 DEF WebTypeOK
  <2> QED
    BY <2>1, <2>3, <2>4, <2>5
<1>7. ASSUME NEW t \in Tabs, NEW s \in Slots, Web!Rotated(t, s) PROVE WebInv'
  <2>1. /\ rf[t][s].at = "found" /\ webIssued' = webIssued + 1
        /\ sessions' = (sessions \ {rf[t][s].with}) \cup {webIssued + 1}
        /\ UNCHANGED <<local, token, refresh, expired, tab, leaving, webPc, webUsed>>
    BY <1>7 DEF Web!Rotated
  <2>2. PICK c \in Web!Call :
           /\ rf' = [rf EXCEPT ![t][s] = c] /\ c.at = "rotated" /\ c.with = rf[t][s].with
           /\ c.new = webIssued + 1
    <3> DEFINE c == [rf[t][s] EXCEPT !.at = "rotated", !.new = webIssued + 1]
    <3>1. rf' = [rf EXCEPT ![t][s] = c]
      BY <1>7, <2>1 DEF Web!Rotated
    <3>2. rf[t][s] \in Web!Call
      BY <1>t DEF WebTypeOK
    <3>3. c \in Web!Call /\ c.at = "rotated" /\ c.with = rf[t][s].with /\ c.new = webIssued + 1
      BY <1>n, <3>2 DEF Web!Call
    <3> HIDE DEF c
    <3> QED
      BY <3>1, <3>3
  <2>3. rf' \in [Tabs -> [Slots -> Web!Call]] /\ OnlyAt(rf, rf', t, s, c)
    BY <1>r, <2>2
  <2>4. ~local
    BY <1>t, <2>1 DEF Modes
  <2>5. WebTypeOK'
    BY <1>t, <1>b, <1>g, <2>1, <2>3 DEF WebTypeOK
  <2>6. Modes' /\ SignOuts'
    BY <1>t, <1>n, <2>1, <2>4 DEF Modes, SignOuts
  <2>7. Calls'
    BY <1>t, <1>n, <2>1, <2>2, <2>3 DEF Calls, OnlyAt, WebTypeOK
  <2>8. webCalm' => Redeemable'
    <3> SUFFICES ASSUME webCalm' PROVE Redeemable'
      OBVIOUS
    <3>1. \A u \in Tabs, x \in Slots : u # t \/ x # s => rf[u][x].at = "none"
      BY <1>t, <1>w, <2>1 DEF Undisturbed, Calls
    <3>2. \A u \in Tabs, x \in Slots :
             /\ rf'[u][x].at \notin {"failed", "sent", "found"}
             /\ rf'[u][x].at = "rotated" => rf'[u][x].new \in sessions'
      BY <2>1, <2>2, <2>3, <3>1 DEF OnlyAt
    <3>3. refresh # 0 => refresh \in sessions
      BY <1>w, <2>1, <3>1 DEF Redeemable
    <3>4. refresh # 0 => refresh \in sessions' \/ (rf'[t][s].at = "rotated" /\ rf'[t][s].with = refresh)
      BY <2>1, <2>2, <2>3, <3>3 DEF OnlyAt
    <3>5. \A u \in Tabs : tab[u] \in {"me", "me2", "app", "leaving"} => token # 0
      BY <1>w DEF Redeemable
    <3>6. \A u \in Tabs, x \in Slots : webPc[u][x] \in {"sent", "retried"} => webUsed[u][x] # 0
      BY <1>w DEF Redeemable
    <3> QED
      BY <2>1, <3>2, <3>4, <3>5, <3>6 DEF Redeemable
  <2> QED
    BY <1>q, <2>5, <2>6, <2>7, <2>8 DEF WebAlways
<1>8. ASSUME NEW t \in Tabs, NEW s \in Slots, Web!RefreshBreaks(t, s), ~webCalm' PROVE WebInv'
  <2>1. /\ rf[t][s].at # "none" /\ sessions' \subseteq sessions
        /\ UNCHANGED <<local, token, refresh, expired, webIssued, tab, leaving, webPc, webUsed>>
    BY <1>8 DEF Web!RefreshBreaks
  <2>2. PICK c \in Web!Call : rf' = [rf EXCEPT ![t][s] = c] /\ c.at = "failed"
    BY <1>8, NewCall DEF Web!RefreshBreaks, Web!Failed
  <2>3. rf' \in [Tabs -> [Slots -> Web!Call]] /\ OnlyAt(rf, rf', t, s, c)
    BY <1>r, <2>2
  <2>4. ~local
    BY <1>t, <2>1 DEF Modes
  <2>5. WebTypeOK'
    BY <1>t, <1>b, <2>1, <2>3 DEF WebTypeOK
  <2>6. Modes' /\ SignOuts'
    BY <1>t, <2>1, <2>4 DEF Modes, SignOuts
  <2>7. Calls'
    BY <1>t, <2>1, <2>2, <2>3 DEF Calls, OnlyAt
  <2> QED
    BY <1>8, <1>q, <2>5, <2>6, <2>7 DEF WebAlways
<1>9. ASSUME NEW t \in Tabs, NEW s \in Slots, Web!RefreshStored(t, s) PROVE WebInv'
  <2>1. PICK n : n = rf[t][s].new
    OBVIOUS
  <2>2. /\ rf[t][s].at = "rotated" /\ token' = n /\ refresh' = n
        /\ rf' = [rf EXCEPT ![t][s] = Web!NoCall]
        /\ UNCHANGED <<local, sessions, expired, webIssued, tab, leaving>>
    BY <1>9, <2>1 DEF Web!RefreshStored
  <2>3. n \in 1 .. webIssued /\ n \notin expired /\ n \in Nat /\ n # 0
    BY <1>t, <2>1, <2>2 DEF Calls, WebTypeOK
  <2>4. rf' \in [Tabs -> [Slots -> Web!Call]] /\ OnlyAt(rf, rf', t, s, Web!NoCall)
        /\ Web!NoCall.at = "none"
    BY <1>r, <2>2, NoCallIs
  <2>5. /\ webPc' \in [Tabs -> [Slots -> Awaits]]
        /\ \A x \in Slots : webPc'[t][x] = IF webPc[t][x] = "waiting" THEN "retried" ELSE webPc[t][x]
        /\ \A u \in Tabs \ {t} : webPc'[u] = webPc[u]
    <3> DEFINE g == [x \in Slots |-> IF webPc[t][x] = "waiting" THEN "retried" ELSE webPc[t][x]]
    <3>1. webPc' = [webPc EXCEPT ![t] = g]
      BY <1>9 DEF Web!RefreshStored
    <3>2. g \in [Slots -> Awaits]
      BY <1>t DEF WebTypeOK, Awaits
    <3>3. \A x \in Slots : g[x] = IF webPc[t][x] = "waiting" THEN "retried" ELSE webPc[t][x]
      OBVIOUS
    <3> HIDE DEF g
    <3> QED
      BY <1>t, <3>1, <3>2, <3>3 DEF WebTypeOK
  <2>6. /\ webUsed' \in [Tabs -> [Slots -> Nat]]
        /\ \A x \in Slots : webUsed'[t][x] = IF webPc[t][x] = "waiting" THEN n ELSE webUsed[t][x]
        /\ \A u \in Tabs \ {t} : webUsed'[u] = webUsed[u]
    <3> DEFINE g == [x \in Slots |-> IF webPc[t][x] = "waiting" THEN n ELSE webUsed[t][x]]
    <3>1. webUsed' = [webUsed EXCEPT ![t] = g]
      BY <1>9, <2>1 DEF Web!RefreshStored
    <3>2. g \in [Slots -> Nat]
      BY <1>t, <2>3 DEF WebTypeOK
    <3>3. \A x \in Slots : g[x] = IF webPc[t][x] = "waiting" THEN n ELSE webUsed[t][x]
      OBVIOUS
    <3> HIDE DEF g
    <3> QED
      BY <1>t, <3>1, <3>2, <3>3 DEF WebTypeOK
  <2>7. WebTypeOK'
    BY <1>t, <1>b, <2>2, <2>3, <2>4, <2>5, <2>6 DEF WebTypeOK
  <2>8. ~local
    BY <1>t, <2>2 DEF Modes
  <2>9. Modes' /\ SignOuts'
    BY <1>t, <2>2, <2>8 DEF Modes, SignOuts
  <2>10. Calls'
    BY <1>t, <2>2, <2>3, <2>4, <2>5, <2>6 DEF Calls, OnlyAt
  <2>11. webCalm' => Redeemable'
    <3> SUFFICES ASSUME webCalm' PROVE Redeemable'
      OBVIOUS
    <3>1. n \in sessions
      BY <1>w, <2>1, <2>2 DEF Redeemable
    <3>2. \A u \in Tabs, x \in Slots : webPc'[u][x] \in {"sent", "retried"} => webUsed'[u][x] # 0
      BY <1>w, <2>3, <2>5, <2>6 DEF Redeemable
    <3> QED
      BY <1>w, <2>2, <2>3, <2>4, <3>1, <3>2 DEF Redeemable, OnlyAt
  <2> QED
    BY <1>q, <2>7, <2>9, <2>10, <2>11 DEF WebAlways
<1>10. ASSUME NEW t \in Tabs, NEW s \in Slots, Web!RefreshDropped(t, s) PROVE WebInv'
  <2>1. /\ rf[t][s].at = "failed" /\ token' = 0 /\ refresh' = 0
        /\ rf' = [rf EXCEPT ![t][s] = Web!NoCall]
        /\ UNCHANGED <<local, sessions, expired, webIssued, leaving, webUsed>>
    BY <1>10 DEF Web!RefreshDropped
  <2>2. rf' \in [Tabs -> [Slots -> Web!Call]] /\ OnlyAt(rf, rf', t, s, Web!NoCall)
        /\ Web!NoCall.at = "none"
    BY <1>r, <2>1, NoCallIs
  <2>3. /\ webPc' \in [Tabs -> [Slots -> Awaits]]
        /\ \A x \in Slots : webPc'[t][x] = IF webPc[t][x] = "waiting" THEN "idle" ELSE webPc[t][x]
        /\ \A u \in Tabs \ {t} : webPc'[u] = webPc[u]
    <3> DEFINE g == [x \in Slots |-> IF webPc[t][x] = "waiting" THEN "idle" ELSE webPc[t][x]]
    <3>1. webPc' = [webPc EXCEPT ![t] = g]
      BY <1>10 DEF Web!RefreshDropped
    <3>2. g \in [Slots -> Awaits]
      BY <1>t DEF WebTypeOK, Awaits
    <3>3. \A x \in Slots : g[x] = IF webPc[t][x] = "waiting" THEN "idle" ELSE webPc[t][x]
      OBVIOUS
    <3> HIDE DEF g
    <3> QED
      BY <1>t, <3>1, <3>2, <3>3 DEF WebTypeOK
  <2>4. ~local
    BY <1>t, <2>1 DEF Modes
  <2>5. PICK p \in Places : /\ tab' = [tab EXCEPT ![t] = p]
                            /\ p = tab[t] \/ (leaving[t] = 0 /\ p = "public")
    <3>1. CASE webPc[t][Boot] = "waiting" /\ tab[t] \in {"me", "me2"}
      <4>1. tab' = [tab EXCEPT ![t] = "public"]
        BY <1>10, <2>4, <3>1 DEF Web!RefreshDropped
      <4>2. leaving[t] = 0
        BY <1>t, <3>1 DEF SignOuts
      <4> QED
        BY <4>1, <4>2 DEF Places
    <3>2. CASE ~(webPc[t][Boot] = "waiting" /\ tab[t] \in {"me", "me2"})
      <4>1. tab' = [tab EXCEPT ![t] = tab[t]]
        BY <1>10, <3>2 DEF Web!RefreshDropped
      <4> QED
        BY <1>t, <4>1 DEF WebTypeOK
    <3> QED
      BY <3>1, <3>2
  <2>6. tab' \in [Tabs -> Places] /\ OnlyOf(tab, tab', t, p)
    BY <1>o, <2>5
  <2>7. WebTypeOK'
    BY <1>t, <1>b, <2>1, <2>2, <2>3, <2>6 DEF WebTypeOK
  <2>8. Modes'
    BY <1>t, <2>1, <2>4, <2>5, <2>6 DEF Modes, OnlyOf
  <2>9. SignOuts'
    BY <1>t, <2>1, <2>5, <2>6 DEF SignOuts, OnlyOf
  <2>10. Calls'
    <3>1. \A u \in Tabs, x \in Slots : webPc'[u][x] = "retried" => webPc[u][x] = "retried"
      BY <2>3
    <3>2. \A u \in Tabs, x \in Slots : rf'[u][x] = rf[u][x] \/ rf'[u][x].at = "none"
      BY <2>2 DEF OnlyAt
    <3> QED
      BY <1>t, <2>1, <3>1, <3>2 DEF Calls
  <2>11. ~webCalm'
    BY <1>w, <2>1 DEF Redeemable
  <2> QED
    BY <1>q, <2>7, <2>8, <2>9, <2>10, <2>11 DEF WebAlways
\* The start of the application.
<1>a. ASSUME NEW t \in Tabs, NEW p \in Places, tab' = [tab EXCEPT ![t] = p],
             leaving[t] = 0, p \in {"owner", "owner2"} => local, p # "leaving",
             p \in {"me", "me2", "app"} => token # 0,
             UNCHANGED <<local, token, refresh, sessions, expired, webIssued, leaving, webPc, webUsed,
                         rf>>
      PROVE  WebInv'
  <2>1. tab' \in [Tabs -> Places] /\ OnlyOf(tab, tab', t, p)
    BY <1>o, <1>a
  <2>2. WebTypeOK' /\ Calls'
    BY <1>t, <1>b, <1>a, <2>1 DEF WebTypeOK, Calls
  <2>3. Modes' /\ SignOuts'
    BY <1>t, <1>a, <2>1 DEF Modes, SignOuts, OnlyOf
  <2>4. webCalm' => Redeemable'
    BY <1>w, <1>a, <2>1 DEF Redeemable, OnlyOf
  <2> QED
    BY <1>q, <2>2, <2>3, <2>4 DEF WebAlways
<1>11. ASSUME NEW t \in Tabs, Web!Open(t) PROVE WebInv'
  <2>1. leaving[t] = 0
    BY <1>t, <1>11 DEF Web!Open, SignOuts
  <2> QED
    BY <1>11, <1>a, <2>1 DEF Web!Open, Places
<1>12. ASSUME NEW t \in Tabs, Web!NoOwnerToken(t) PROVE WebInv'
  <2>1. leaving[t] = 0
    BY <1>t, <1>12 DEF Web!NoOwnerToken, SignOuts
  <2> QED
    BY <1>12, <1>a, <2>1 DEF Web!NoOwnerToken, Places
\* It asks who the user is.
<1>s. ASSUME NEW t \in Tabs, NEW n \in Nat, n # 0, NEW p \in {"me", "me2"}, leaving[t] = 0,
             webPc' = [webPc EXCEPT ![t][Boot] = "sent"], webUsed' = [webUsed EXCEPT ![t][Boot] = n],
             tab' = [tab EXCEPT ![t] = p], token' = n, n \in 0 .. webIssued',
             (UNCHANGED <<refresh, webIssued>> /\ n = token)
                \/ (refresh' = 0 /\ local /\ webIssued' = webIssued + 1),
             UNCHANGED <<local, sessions, expired, leaving, rf>>
      PROVE  WebInv'
  <2>1. /\ webPc' \in [Tabs -> [Slots -> Awaits]] /\ OnlyAt(webPc, webPc', t, Boot, "sent")
        /\ webUsed' \in [Tabs -> [Slots -> Nat]] /\ OnlyAt(webUsed, webUsed', t, Boot, n)
        /\ tab' \in [Tabs -> Places] /\ OnlyOf(tab, tab', t, p)
    BY <1>c, <1>p, <1>v, <1>o, <1>s DEF Awaits, Places
  <2>2. /\ webIssued' \in Nat /\ refresh' \in 0 .. webIssued'
        /\ sessions \subseteq 1 .. webIssued' /\ expired \subseteq 1 .. webIssued'
        /\ leaving \in [Tabs -> 0 .. webIssued']
    BY <1>t, <1>g, <1>s DEF WebTypeOK
  <2>3. WebTypeOK'
    BY <1>t, <1>b, <1>s, <2>1, <2>2 DEF WebTypeOK
  <2>4. Modes'
    BY <1>t, <1>s, <2>1 DEF Modes, OnlyOf
  <2>5. SignOuts'
    BY <1>t, <1>s, <2>1 DEF SignOuts, OnlyOf
  <2>6. 1 .. webIssued \subseteq 1 .. webIssued'
    BY <1>t, <1>s DEF WebTypeOK
  <2>7. Calls'
    BY <1>t, <1>s, <2>1, <2>6 DEF Calls, OnlyAt
  <2>8. webCalm' => Redeemable'
    BY <1>w, <1>s, <2>1 DEF Redeemable, OnlyAt, OnlyOf
  <2> QED
    BY <1>q, <2>3, <2>4, <2>5, <2>7, <2>8 DEF WebAlways
<1>13. ASSUME NEW t \in Tabs, Web!ConfigLoaded(t) PROVE WebInv'
  <2>1. leaving[t] = 0
    BY <1>t, <1>13 DEF Web!ConfigLoaded, SignOuts
  <2>2. CASE token # 0
    <3>1. token \in Nat /\ token \in 0 .. webIssued
      BY <1>t DEF WebTypeOK
    <3>2. /\ webPc' = [webPc EXCEPT ![t][Boot] = "sent"]
          /\ webUsed' = [webUsed EXCEPT ![t][Boot] = token] /\ tab' = [tab EXCEPT ![t] = "me"]
          /\ UNCHANGED <<local, token, refresh, sessions, expired, webIssued, leaving, rf>>
      BY <1>13, <2>2 DEF Web!ConfigLoaded, Web!Send
    <3> QED
      BY <1>s, <2>1, <2>2, <3>1, <3>2
  <2>3. CASE token = 0
    <3>1. /\ tab' = [tab EXCEPT ![t] = IF local THEN "owner" ELSE "public"]
          /\ UNCHANGED <<local, token, refresh, sessions, expired, webIssued, leaving, webPc, webUsed,
                         rf>>
      BY <1>13, <2>3 DEF Web!ConfigLoaded
    <3>2. (IF local THEN "owner" ELSE "public") \in Places
      BY DEF Places
    <3> QED
      BY <1>a, <2>1, <3>1, <3>2
  <2> QED
    BY <2>2, <2>3
<1>14. ASSUME NEW t \in Tabs, Web!OwnerToken(t) PROVE WebInv'
  <2>1. leaving[t] = 0 /\ local
    BY <1>t, <1>14 DEF Web!OwnerToken, SignOuts, Modes
  <2>2. PICK p \in {"me", "me2"} : tab' = [tab EXCEPT ![t] = p]
    BY <1>14 DEF Web!OwnerToken
  <2>3. /\ webIssued' = webIssued + 1 /\ token' = webIssued + 1 /\ refresh' = 0
        /\ webPc' = [webPc EXCEPT ![t][Boot] = "sent"]
        /\ webUsed' = [webUsed EXCEPT ![t][Boot] = webIssued + 1]
        /\ UNCHANGED <<local, sessions, expired, leaving, rf>>
    BY <1>14 DEF Web!OwnerToken, Web!Send
  <2>4. webIssued + 1 \in 0 .. webIssued'
    BY <1>t, <2>3 DEF WebTypeOK
  <2> QED
    BY <1>n, <1>s, <2>1, <2>2, <2>3, <2>4
<1>15. ASSUME NEW t \in Tabs, Web!OpenSignedIn(t) PROVE WebInv'
  <2>1. /\ webIssued' = webIssued + 1 /\ token' = webIssued + 1 /\ refresh' = webIssued + 1
        /\ sessions' = sessions \cup {webIssued + 1} /\ ~local
        /\ tab' = [tab EXCEPT ![t] = "config"] /\ leaving' = [leaving EXCEPT ![t] = 0]
        /\ UNCHANGED <<local, expired, webPc, webUsed, rf>>
    BY <1>15 DEF Web!OpenSignedIn
  <2>2. tab' \in [Tabs -> Places] /\ OnlyOf(tab, tab', t, "config")
    BY <1>o, <2>1 DEF Places
  <2>3. leaving' \in [Tabs -> 0 .. webIssued'] /\ OnlyOf(leaving, leaving', t, 0)
    <3>1. leaving \in [Tabs -> 0 .. webIssued'] /\ 0 \in 0 .. webIssued'
      BY <1>g, <2>1
    <3> QED
      BY <2>1, <3>1 DEF OnlyOf
  <2>4. webIssued + 1 \in 0 .. webIssued'
    BY <1>g, <2>1
  <2>5. WebTypeOK'
    BY <1>t, <1>b, <1>g, <2>1, <2>2, <2>3, <2>4 DEF WebTypeOK
  <2>6. Modes'
    BY <1>t, <2>1, <2>2 DEF Modes, OnlyOf
  <2>7. SignOuts'
    BY <1>t, <1>n, <2>1, <2>2, <2>3 DEF SignOuts, OnlyOf
  <2>8. Calls'
    <3>1. 1 .. webIssued \subseteq 1 .. webIssued'
      BY <1>t, <2>1 DEF WebTypeOK
    <3> QED
      BY <1>t, <2>1, <3>1 DEF Calls
  <2>9. webCalm' => Redeemable'
    BY <1>n, <1>w, <2>1, <2>2 DEF Redeemable, OnlyOf
  <2> QED
    BY <1>q, <2>5, <2>6, <2>7, <2>8, <2>9 DEF WebAlways
\* A tab is left.
<1>16. ASSUME NEW t \in Tabs, Web!Leave(t), Web!Refreshing(t) => ~webCalm' PROVE WebInv'
  <2>1. /\ tab' = [tab EXCEPT ![t] = "closed"] /\ leaving' = [leaving EXCEPT ![t] = 0]
        /\ sessions' \subseteq sessions /\ (~Web!Refreshing(t) => sessions' = sessions)
        /\ webPc' = [webPc EXCEPT ![t] = [s \in Slots |-> "idle"]]
        /\ webUsed' = [webUsed EXCEPT ![t] = [s \in Slots |-> 0]]
        /\ rf' = [rf EXCEPT ![t] = [s \in Slots |-> Web!NoCall]]
        /\ UNCHANGED <<local, token, refresh, expired, webIssued>>
    BY <1>16 DEF Web!Leave
  <2>2. /\ tab' \in [Tabs -> Places] /\ OnlyOf(tab, tab', t, "closed")
        /\ leaving' \in [Tabs -> 0 .. webIssued'] /\ OnlyOf(leaving, leaving', t, 0)
    <3>1. leaving \in [Tabs -> 0 .. webIssued'] /\ 0 \in 0 .. webIssued'
      BY <1>t, <2>1 DEF WebTypeOK
    <3> QED
      BY <1>o, <2>1, <3>1 DEF Places, OnlyOf
  <2>3. /\ webPc' \in [Tabs -> [Slots -> Awaits]] /\ \A s \in Slots : webPc'[t][s] = "idle"
        /\ \A u \in Tabs \ {t} : webPc'[u] = webPc[u]
    BY <1>t, <2>1 DEF WebTypeOK, Awaits
  <2>4. /\ webUsed' \in [Tabs -> [Slots -> Nat]] /\ \A u \in Tabs \ {t} : webUsed'[u] = webUsed[u]
    BY <1>t, <2>1 DEF WebTypeOK
  <2>5. /\ rf' \in [Tabs -> [Slots -> Web!Call]] /\ \A s \in Slots : rf'[t][s].at = "none"
        /\ \A u \in Tabs \ {t} : rf'[u] = rf[u]
    BY <1>t, <2>1, NoCallIs DEF WebTypeOK
  <2>6. WebTypeOK'
    BY <1>t, <1>b, <2>1, <2>2, <2>3, <2>4, <2>5 DEF WebTypeOK
  <2>7. Modes' /\ SignOuts'
    BY <1>t, <2>1, <2>2, <2>5 DEF Modes, SignOuts, OnlyOf
  <2>8. Calls'
    BY <1>t, <2>1, <2>3, <2>4, <2>5 DEF Calls
  <2>9. webCalm' => Redeemable'
    <3> SUFFICES ASSUME webCalm' PROVE Redeemable'
      OBVIOUS
    <3>1. sessions' = sessions /\ \A s \in Slots : rf[t][s].at = "none"
      BY <1>16, <2>1 DEF Web!Refreshing
    <3>2. \A u \in Tabs : tab'[u] \in {"me", "me2", "app", "leaving"} => token # 0
      BY <1>w, <2>2 DEF Redeemable, OnlyOf
    <3>3. \A u \in Tabs, s \in Slots : webPc'[u][s] \in {"sent", "retried"} => webUsed'[u][s] # 0
      BY <1>w, <2>3, <2>4 DEF Redeemable
    <3>4. \A u \in Tabs, s \in Slots :
             /\ rf'[u][s].at # "failed"
             /\ rf'[u][s].at \in {"sent", "found"} => rf'[u][s].with \in sessions
             /\ rf'[u][s].at = "rotated" => rf'[u][s].new \in sessions
      BY <1>w, <2>5 DEF Redeemable
    <3>5. refresh # 0 => \/ refresh \in sessions
                         \/ \E u \in Tabs, s \in Slots :
                               rf'[u][s].at = "rotated" /\ rf'[u][s].with = refresh
      BY <1>w, <2>5, <3>1 DEF Redeemable
    <3> QED
      BY <2>1, <3>1, <3>2, <3>3, <3>4, <3>5 DEF Redeemable
  <2> QED
    BY <1>q, <2>6, <2>7, <2>8, <2>9 DEF WebAlways
\* Sign-out.
<1>d. ASSUME NEW t \in Tabs, tab' = [tab EXCEPT ![t] = "public"], token' = 0, refresh' = 0,
             leaving' = leaving \/ leaving' = [leaving EXCEPT ![t] = 0],
             sessions' \subseteq sessions, leaving'[t] # 0 => leaving'[t] \notin sessions',
             webCalm' => \A u \in Tabs \ {t} : tab[u] \in {"closed", "public"},
             sessions' = sessions \/ (webCalm' => \A u \in Tabs, s \in Slots : rf[u][s].at = "none"),
             UNCHANGED <<local, expired, webIssued, webPc, webUsed, rf>>
      PROVE  WebInv'
  <2>1. /\ tab' \in [Tabs -> Places] /\ OnlyOf(tab, tab', t, "public")
        /\ leaving' \in [Tabs -> 0 .. webIssued'] /\ \A u \in Tabs \ {t} : leaving'[u] = leaving[u]
    <3>1. leaving \in [Tabs -> 0 .. webIssued'] /\ 0 \in 0 .. webIssued'
      BY <1>t, <1>d DEF WebTypeOK
    <3> QED
      BY <1>o, <1>d, <3>1 DEF Places
  <2>2. 0 \in 0 .. webIssued'
    BY <1>t, <1>d DEF WebTypeOK
  <2>3. WebTypeOK'
    BY <1>t, <1>b, <1>d, <2>1, <2>2 DEF WebTypeOK
  <2>4. Modes' /\ Calls'
    BY <1>t, <1>d, <2>1 DEF Modes, Calls, OnlyOf
  <2>5. SignOuts'
    BY <1>t, <1>d, <2>1 DEF SignOuts, OnlyOf
  <2>6. webCalm' => Redeemable'
    <3> SUFFICES ASSUME webCalm' PROVE Redeemable'
      OBVIOUS
    <3>1. \A u \in Tabs : tab'[u] \notin {"me", "me2", "app", "leaving"}
      BY <1>d, <2>1 DEF OnlyOf
    <3>2. CASE sessions' = sessions
      BY <1>w, <1>d, <3>1, <3>2 DEF Redeemable
    <3>3. CASE \A u \in Tabs, s \in Slots : rf[u][s].at = "none"
      BY <1>w, <1>d, <3>1, <3>3 DEF Redeemable
    <3> QED
      BY <1>d, <3>2, <3>3
  <2> QED
    BY <1>q, <2>3, <2>4, <2>5, <2>6 DEF WebAlways
<1>17. ASSUME NEW t \in Tabs, Web!Logout(t), webCalm' => Web!Alone(t) PROVE WebInv'
  <2>1. leaving[t] = 0
    BY <1>t, <1>17 DEF Web!Logout, SignOuts
  <2>2. CASE refresh = 0
    BY <1>17, <1>d, <2>1, <2>2 DEF Web!Logout, Web!Alone
  <2>3. CASE refresh # 0
    <3>1. /\ leaving' = [leaving EXCEPT ![t] = refresh] /\ tab' = [tab EXCEPT ![t] = "leaving"]
          /\ tab[t] = "app"
          /\ UNCHANGED <<local, token, refresh, sessions, expired, webIssued, webPc, webUsed, rf>>
      BY <1>17, <2>3 DEF Web!Logout
    <3>2. /\ tab' \in [Tabs -> Places] /\ OnlyOf(tab, tab', t, "leaving")
          /\ leaving' \in [Tabs -> 0 .. webIssued] /\ OnlyOf(leaving, leaving', t, refresh)
      <4>1. leaving \in [Tabs -> 0 .. webIssued] /\ refresh \in 0 .. webIssued
        BY <1>t DEF WebTypeOK
      <4> QED
        BY <1>o, <3>1, <4>1 DEF Places, OnlyOf
    <3>3. WebTypeOK' /\ Calls'
      BY <1>t, <1>b, <3>1, <3>2 DEF WebTypeOK, Calls
    <3>4. Modes' /\ SignOuts'
      BY <1>t, <3>1, <3>2 DEF Modes, SignOuts, OnlyOf
    <3>5. webCalm' => Redeemable'
      BY <1>w, <3>1, <3>2 DEF Redeemable, OnlyOf
    <3> QED
      BY <1>q, <3>3, <3>4, <3>5 DEF WebAlways
  <2> QED
    BY <2>2, <2>3
<1>18. ASSUME NEW t \in Tabs, Web!LoggedOut(t) PROVE WebInv'
  <2>1. /\ tab' = [tab EXCEPT ![t] = "public"] /\ token' = 0 /\ refresh' = 0
        /\ sessions' = sessions \ {leaving[t]} /\ tab[t] = "leaving"
        /\ UNCHANGED <<local, expired, webIssued, leaving, webPc, webUsed, rf>>
    BY <1>18 DEF Web!LoggedOut
  <2>2. webCalm' => /\ \A u \in Tabs \ {t} : tab[u] \in {"closed", "public"}
                    /\ \A u \in Tabs, s \in Slots : rf[u][s].at = "none"
    BY <1>w, <2>1 DEF Undisturbed
  <2> QED
    BY <1>d, <2>1, <2>2
<1>19. ASSUME NEW t \in Tabs, Web!LogoutBreaks(t) PROVE WebInv'
  <2>1. /\ tab' = [tab EXCEPT ![t] = "public"] /\ token' = 0 /\ refresh' = 0
        /\ leaving' = [leaving EXCEPT ![t] = 0] /\ tab[t] = "leaving"
        /\ UNCHANGED <<local, sessions, expired, webIssued, webPc, webUsed, rf>>
    BY <1>19 DEF Web!LogoutBreaks
  <2>2. webCalm' => \A u \in Tabs \ {t} : tab[u] \in {"closed", "public"}
    BY <1>w, <2>1 DEF Undisturbed
  <2>3. leaving'[t] = 0
    BY <1>t, <2>1 DEF WebTypeOK
  <2> QED
    BY <1>d, <2>1, <2>2, <2>3
<1>20. ASSUME NEW p \in Web!Pairs, Web!Expire(p) PROVE WebInv'
  <2>1. /\ p \in 1 .. webIssued /\ ~local /\ expired' = expired \cup {p}
        /\ \A t \in Tabs, s \in Slots : /\ rf[t][s].new # p
                                        /\ webPc[t][s] = "retried" => webUsed[t][s] # p
        /\ UNCHANGED <<local, token, refresh, sessions, webIssued, tab, leaving, webPc, webUsed, rf>>
    BY <1>20 DEF Web!Expire
  <2>2. WebAlways'
    BY <1>t, <1>b, <2>1 DEF WebAlways, WebTypeOK, Modes, Calls, SignOuts
  <2>3. webCalm' => Redeemable'
    BY <1>w, <2>1 DEF Redeemable
  <2> QED
    BY <1>q, <2>2, <2>3
<1>21. CASE UNCHANGED webVars
  <2>1. UNCHANGED <<local, token, refresh, sessions, expired, webIssued, tab, leaving, webPc, webUsed,
                    rf, webCalm>>
    BY <1>21 DEF webVars
  <2>2. WebAlways'
    BY <1>t, <2>1 DEF WebAlways, WebTypeOK, Modes, Calls, SignOuts
  <2>3. webCalm' => Redeemable'
    BY <1>w, <2>1 DEF Redeemable
  <2> QED
    BY <1>q, <2>2, <2>3
<1>22. CASE Web!Next
  <2>1. PICK t \in Tabs :
           \/ Web!TabStep(t) /\ Web!Watch
           \/ (Web!Open(t) \/ Web!OpenSignedIn(t)) /\ Web!Watch
           \/ Web!Logout(t) /\ webCalm' = (webCalm /\ Web!Alone(t) /\ ~Web!Disturbed')
           \/ ~Web!Refreshing(t) /\ Web!Leave(t) /\ Web!Watch
           \/ (\E s \in Slots : Web!PageRequest(t, s)) /\ Web!Watch
           \/ (\E p \in Web!Pairs : Web!Expire(p)) /\ Web!Watch
           \/ Web!Breakdown(t) /\ webCalm' = FALSE
    BY <1>22 DEF Web!Next
  <2>2. CASE Web!TabStep(t)
    BY <2>2, <1>2, <1>3, <1>5, <1>6, <1>7, <1>9, <1>10, <1>12, <1>13, <1>14, <1>18, <1>19
       DEF Web!TabStep, Web!StartStep, Web!RequestStep
  <2>3. CASE Web!Breakdown(t) /\ webCalm' = FALSE
    BY <2>3, <1>4, <1>8, <1>16 DEF Web!Breakdown
  <2> QED
    BY <2>1, <2>2, <2>3, <1>1, <1>11, <1>15, <1>16, <1>17, <1>20
<1> QED
  BY <1>21, <1>22

\* It holds for any number of tabs, requests and pairs of tokens.
LEMMA WebInvariant == ServicesSpec => []WebIInv
<1>1. WebIInv /\ [ServicesNext]_allVars => WebIInv'
  BY WebStep, WebNext DEF WebIInv
<1> QED
  BY <1>1, InitWeb, PTL DEF ServicesSpec

\* So long as tabs do not refresh beside each other and nothing breaks, nobody loses a
\* session: the stored refresh token can be redeemed, or has just been by the one call
\* whose answer replaces it (api.ts:383-407, App.tsx:160-215).
THEOREM SessionLasts == ServicesSpec => []CalmSessionLasts
<1>1. WebIInv => CalmSessionLasts
  BY DEF WebIInv, WebInv, Redeemable, CalmSessionLasts, Web!CalmSessionLasts
<1> QED
  BY <1>1, WebInvariant, PTL

\* A sign-out that the hub has confirmed has ended its session for good, whatever other
\* tabs refresh or sign in beside it (App.tsx, auth_service.go).
THEOREM SignOutsLast == ServicesSpec => []LogoutRevokes
<1>1. WebIInv => LogoutRevokes
  BY DEF WebIInv, WebInv, WebAlways, SignOuts, LogoutRevokes, Web!LogoutRevokes, Web!SignedOut
<1> QED
  BY <1>1, WebInvariant, PTL

-----------------------------------------------------------------------------
(* The file editor (DataFileEditorPage.tsx).                               *)

\* A file of the hub, and what a page has read of it.
Files == [ver : Nat, text : Bodies \cup {Nothing}]
Nodes == [path : Edited, ver : Nat, text : Bodies \cup {Nothing}]

\* A save that the page has sent.
EditorSave ==
    [at : {"off", "asked", "answered"}, path : Edited \cup {Nothing},
     text : Bodies \cup {Nothing}, was : Nodes \cup {Nothing}, reply : Nodes \cup {Nothing}]

\* A rename: a write under the new name, then the deletion of the old one.
EditorRename ==
    [at : {"off", "first", "second", "done"}, from : Edited \cup {Nothing},
     to : Edited \cup {Nothing}, was : Bodies \cup {Nothing}, text : Bodies \cup {Nothing}]

\* The type invariant of the file editor.
EditorTypeOK ==
    /\ editorHub \in [Edited -> Files] /\ address \in Edited
    /\ node \in Nodes \cup {Nothing} /\ content \in Bodies \cup {Nothing}
    /\ loading \in BOOLEAN /\ stale \in BOOLEAN /\ editorCalm \in BOOLEAN
    /\ load \in [at : {"off", "asked", "answered"}, reply : Nodes \cup {Nothing}]
    /\ load.at = "answered" => load.reply \in Nodes
    /\ saves \in [Saves -> EditorSave] /\ rename \in EditorRename
    /\ \A s \in Saves : saves[s].at # "off" => saves[s].path \in Edited /\ saves[s].was \in Nodes
    /\ rename.at # "off" => rename.from \in Edited /\ rename.to \in Edited /\ rename.from # rename.to

\* The versions that requests rest on have been on the page.
Known ==
    /\ node # Nothing => node \in shown
    /\ \A s \in Saves : /\ saves[s].at # "off" => saves[s].was \in shown
                        /\ saves[s].at = "asked" => saves[s].reply = Nothing

\* While nothing has crossed, one thing goes on at a time, and the page holds what
\* the hub has, or what is about to come does.
Saving == \E s \in Saves : saves[s].at # "off"

\* Nothing has crossed.
EditorCalm ==
    /\ ~stale /\ (loading <=> load.at # "off")
    /\ load.at = "answered" => load.reply = Editor!FileNode(editorHub, address)
    /\ rename.at # "off" => ~loading /\ address = rename.from
    /\ rename.at = "first" => editorHub[rename.from].text = rename.was
    /\ rename.at \in {"second", "done"} => editorHub[rename.to].text = rename.text
    /\ \A s \in Saves : saves[s].at # "off" =>
          /\ ~loading /\ rename.at = "off" /\ saves[s].path = address
          /\ \A r \in Saves \ {s} : saves[r].at = "off"
          /\ saves[s].at = "answered" /\ saves[s].reply # Nothing
                => saves[s].reply = Editor!FileNode(editorHub, address)
    /\ node # Nothing /\ ~loading /\ rename.at # "done" /\ ~Saving
          => node = Editor!FileNode(editorHub, address)

\* The invariant of the file editor.
EditorInv == EditorTypeOK /\ Known /\ (editorCalm => EditorCalm)
\* It, while the file editor is looked at.
EditorIInv == part = "editor" => EditorInv

\* A step of the module is one of the file editor, while that is looked at.
LEMMA EditorStep ==
    ASSUME [ServicesNext]_allVars
    PROVE  part' = part /\ (part = "editor" => [Editor!Next]_editorVars)
BY DEF ServicesNext, allVars

\* What the proofs need of the constants.
LEMMA EditorConstants == Nothing \notin Edited /\ Nothing \notin Bodies
BY ServicesAssumption DEF Editor!EditorAssumption

\* What a page that has sent nothing has.
LEMMA Idle ==
    /\ Editor!NoSave \in EditorSave /\ Editor!NoSave.at = "off" /\ Editor!NoSave.reply = Nothing
    /\ Editor!NoRename \in EditorRename /\ Editor!NoRename.at = "off"
BY DEF Editor!NoSave, Editor!NoRename, EditorSave, EditorRename

\* What a load begins with.
LEMMA NewLoad ==
    LET n == [Editor!NoLoad EXCEPT !.at = "asked"]
    IN  n \in [at : {"off", "asked", "answered"}, reply : Nodes \cup {Nothing}] /\ n.at = "asked"
BY DEF Editor!NoLoad

\* What the hub answers is a version of the file.
LEMMA FileNodes ==
    ASSUME NEW f \in [Edited -> Files], NEW p \in Edited
    PROVE  Editor!FileNode(f, p) \in Nodes
BY DEF Editor!FileNode, Files, Nodes

\* A write changes one file.
LEMMA HubWritten ==
    ASSUME NEW p \in Edited, NEW t \in Bodies \cup {Nothing}, editorHub \in [Edited -> Files],
           Editor!Written(p, t)
    PROVE  /\ editorHub' \in [Edited -> Files] /\ editorHub'[p].text = t
           /\ \A q \in Edited \ {p} : editorHub'[q] = editorHub[q]
<1>1. [ver |-> editorHub[p].ver + 1, text |-> t] \in Files
  BY DEF Files
<1> QED
  BY <1>1 DEF Editor!Written

\* The page begins with a load.
LEMMA InitEditor == ServicesInit => EditorIInv
<1> SUFFICES ASSUME ServicesInit, part = "editor" PROVE EditorInv
  BY DEF EditorIInv
<1>1. Editor!Init
  BY DEF ServicesInit
<1>2. editorHub \in [Edited -> Files]
  BY <1>1 DEF Editor!Init, Files
<1> QED
  BY <1>1, <1>2, Idle, NewLoad DEF Editor!Init, EditorInv, EditorTypeOK, Known, EditorCalm,
     Saving

\* Every step keeps the invariant.
LEMMA EditorNext == EditorInv /\ [Editor!Next]_editorVars => EditorInv'
<1> SUFFICES ASSUME EditorInv, [Editor!Next]_editorVars PROVE EditorInv'
  OBVIOUS
<1> USE DEF Editor!page, Editor!requests
<1>t. EditorTypeOK /\ Known
  BY DEF EditorInv
<1>b. editorCalm' \in BOOLEAN
  BY <1>t DEF EditorTypeOK, Editor!Next, editorVars
<1>w. editorCalm' => editorCalm /\ EditorCalm
  BY DEF EditorInv, Editor!Next, editorVars
<1>x. ~UNCHANGED editorVars /\ editorCalm' => ~Editor!Crossing
  BY DEF Editor!Next
<1>c. Nothing \notin Edited /\ Nothing \notin Bodies
  BY EditorConstants
\* Somebody else writes.
<1>1. ASSUME NEW p \in Edited, NEW t \in Bodies \cup {Nothing}, Editor!Foreign(p, t)
      PROVE  EditorInv'
  <2>1. editorHub' \in [Edited -> Files] /\ editorHub'[p].text = t
    BY <1>t, <1>1, HubWritten DEF Editor!Foreign, EditorTypeOK
  <2>2. /\ UNCHANGED <<address, node, content, loading, load, stale, saves, rename, shown>>
        /\ editorHub'[p] # editorHub[p]
    BY <1>1, <2>1 DEF Editor!Foreign
  <2>3. ~editorCalm'
    BY <1>x, <2>2 DEF Editor!Crossing, editorVars
  <2> QED
    BY <1>t, <1>b, <2>1, <2>2, <2>3 DEF EditorInv, EditorTypeOK, Known
\* The loads of the address.
<1>2. CASE Editor!LoadAnswered
  <2> DEFINE f == Editor!FileNode(editorHub, address)
  <2>1. /\ load.at = "asked" /\ load' = [at |-> "answered", reply |-> f]
        /\ UNCHANGED <<editorHub, address, node, content, loading, stale, saves, rename, shown>>
    BY <1>2 DEF Editor!LoadAnswered
  <2>2. f \in Nodes
    BY <1>t, FileNodes DEF EditorTypeOK
  <2>3. load'.reply = Editor!FileNode(editorHub, address)'
    BY <2>1 DEF Editor!FileNode
  <2>4. Editor!FileNode(editorHub, address)' = Editor!FileNode(editorHub, address)
    BY <2>1 DEF Editor!FileNode
  <2> HIDE DEF f
  <2>5. EditorTypeOK' /\ Known'
    BY <1>t, <1>b, <2>1, <2>2 DEF EditorTypeOK, Known
  <2>6. editorCalm' => EditorCalm'
    BY <1>t, <1>w, <2>1, <2>3, <2>4 DEF EditorCalm, Saving
  <2> QED
    BY <2>5, <2>6 DEF EditorInv
<1>n. UNCHANGED <<editorHub, address>>
         => Editor!FileNode(editorHub, address)' = Editor!FileNode(editorHub, address)
  BY DEF Editor!FileNode
<1>3. CASE Editor!Loaded
  <2>1. /\ load.at = "answered" /\ node' = load.reply /\ content' = load.reply.text
        /\ shown' = shown \cup {load.reply} /\ load' = Editor!NoLoad /\ loading' = FALSE
        /\ UNCHANGED <<editorHub, address, stale, saves, rename>>
    BY <1>3 DEF Editor!Loaded
  <2>2. load.reply \in Nodes /\ load.reply.text \in Bodies \cup {Nothing}
    BY <1>t, <2>1 DEF EditorTypeOK, Nodes
  <2>3. EditorTypeOK' /\ Known'
    BY <1>t, <1>b, <2>1, <2>2 DEF EditorTypeOK, Known, Editor!NoLoad
  <2>4. editorCalm' => EditorCalm'
    BY <1>n, <1>t, <1>w, <2>1 DEF EditorCalm, Saving, Editor!NoLoad
  <2> QED
    BY <2>3, <2>4 DEF EditorInv
<1>4. CASE Editor!LoadFails
  <2>1. /\ load.at # "off" /\ load' = Editor!NoLoad /\ loading' = FALSE
        /\ UNCHANGED <<editorHub, address, node, content, stale, saves, rename, shown>>
    BY <1>4 DEF Editor!LoadFails
  <2>2. load' # load /\ load'.at # "answered"
    BY <2>1 DEF Editor!NoLoad
  <2>3. ~editorCalm'
    BY <1>x, <2>1, <2>2 DEF Editor!Crossing, editorVars
  <2> QED
    BY <1>t, <1>b, <2>1, <2>3 DEF EditorInv, EditorTypeOK, Known, Editor!NoLoad
<1>5. CASE Editor!StaleLoadEnds
  <2>1. /\ stale /\ stale' = FALSE /\ loading' = FALSE
        /\ UNCHANGED <<editorHub, address, node, content, load, saves, rename, shown>>
    BY <1>5 DEF Editor!StaleLoadEnds
  <2>2. ~editorCalm'
    BY <1>w, <2>1 DEF EditorCalm
  <2> QED
    BY <1>t, <1>b, <2>1, <2>2 DEF EditorInv, EditorTypeOK, Known
\* The page goes to another address.
<1>g. ASSUME NEW p \in Edited, p # address, Editor!GoTo(p)
      PROVE  /\ address' = p /\ stale' = (load.at # "off") /\ loading' = TRUE
             /\ load' \in [at : {"off", "asked", "answered"}, reply : Nodes \cup {Nothing}]
             /\ load'.at = "asked"
  BY <1>g, NewLoad DEF Editor!GoTo
<1>6. ASSUME NEW p \in Edited, Editor!Jump(p) PROVE EditorInv'
  <2>1. p # address /\ Editor!GoTo(p) /\ UNCHANGED <<editorHub, node, content, saves, rename, shown>>
    BY <1>6 DEF Editor!Jump
  <2>2. EditorTypeOK' /\ Known'
    BY <1>t, <1>b, <1>g, <2>1 DEF EditorTypeOK, Known
  <2>3. editorCalm' => load.at = "off" /\ rename.at = "off" /\ \A s \in Saves : saves[s].at = "off"
    BY <1>x, <1>g, <2>1 DEF Editor!Crossing, editorVars
  <2>4. editorCalm' => EditorCalm'
    BY <1>w, <1>g, <2>1, <2>3 DEF EditorCalm, Saving
  <2> QED
    BY <2>2, <2>4 DEF EditorInv
\* The form and the saves.
<1>7. ASSUME NEW t \in Bodies, Editor!Type(t) PROVE EditorInv'
  <2>1. /\ content' = t
        /\ UNCHANGED <<editorHub, address, node, loading, load, stale, saves, rename, shown>>
    BY <1>7 DEF Editor!Type
  <2> QED
    BY <1>n, <1>t, <1>b, <1>w, <2>1 DEF EditorInv, EditorTypeOK, Known, EditorCalm, Saving
<1>8. ASSUME NEW s \in Saves, Editor!Save(s) PROVE EditorInv'
  <2> DEFINE n == [Editor!NoSave EXCEPT !.at = "asked", !.path = address, !.text = content,
                                        !.was = node]
  <2>1. /\ node # Nothing /\ saves[s].at = "off" /\ saves' = [saves EXCEPT ![s] = n]
        /\ UNCHANGED <<editorHub, address, node, content, loading, load, stale, rename, shown>>
    BY <1>8 DEF Editor!Save
  <2>2. n \in EditorSave /\ n.at = "asked" /\ n.path = address /\ n.was = node /\ n.reply = Nothing
    BY <1>t DEF EditorTypeOK, Editor!NoSave, EditorSave
  <2> HIDE DEF n
  <2>3. saves' \in [Saves -> EditorSave] /\ saves'[s] = n
        /\ \A r \in Saves \ {s} : saves'[r] = saves[r]
    BY <1>t, <2>1, <2>2 DEF EditorTypeOK
  <2>4. EditorTypeOK' /\ Known'
    BY <1>t, <1>b, <2>1, <2>2, <2>3 DEF EditorTypeOK, Known
  <2>5. editorCalm' => ~loading /\ rename.at = "off" /\ \A r \in Saves \ {s} : saves[r].at = "off"
    BY <1>x, <1>t, <2>1, <2>2, <2>3 DEF Editor!Crossing, editorVars, EditorTypeOK
  <2>6. editorCalm' => EditorCalm'
    BY <1>n, <1>w, <2>1, <2>2, <2>3, <2>5 DEF EditorCalm, Saving
  <2> QED
    BY <2>4, <2>6 DEF EditorInv
\* An answer reaches the page.
<1>a. ASSUME NEW s \in Saves, NEW r \in Nodes \cup {Nothing}, saves[s].at = "asked",
             saves' = [saves EXCEPT ![s].at = "answered", ![s].reply = r]
      PROVE  /\ saves' \in [Saves -> EditorSave] /\ saves'[s].at = "answered"
             /\ saves'[s].path = saves[s].path /\ saves'[s].was = saves[s].was
             /\ saves'[s].reply = r /\ \A q \in Saves \ {s} : saves'[q] = saves[q]
  <2> DEFINE n == [saves[s] EXCEPT !.at = "answered", !.reply = r]
  <2>1. n \in EditorSave /\ n.at = "answered" /\ n.path = saves[s].path
        /\ n.was = saves[s].was /\ n.reply = r
    <3>1. saves[s] \in EditorSave
      BY <1>t DEF EditorTypeOK
    <3> QED
      BY <3>1 DEF EditorSave
  <2>2. saves' = [saves EXCEPT ![s] = n]
    BY <1>a, <1>t DEF EditorTypeOK, EditorSave
  <2> HIDE DEF n
  <2> QED
    BY <1>t, <2>1, <2>2 DEF EditorTypeOK
<1>9. ASSUME NEW s \in Saves, Editor!SaveServed(s) PROVE EditorInv'
  <2>1. PICK p, t : p = saves[s].path /\ t = saves[s].text
    OBVIOUS
  <2> DEFINE f == Editor!FileNode(editorHub', p)
  <2>2. /\ saves[s].at = "asked" /\ Editor!Written(p, t)
        /\ saves' = [saves EXCEPT ![s].at = "answered", ![s].reply = f]
        /\ UNCHANGED <<address, node, content, loading, load, stale, rename, shown>>
    BY <1>9, <2>1 DEF Editor!SaveServed, Editor!Answer
  <2>3. p \in Edited /\ t \in Bodies \cup {Nothing}
    BY <1>t, <2>1, <2>2 DEF EditorTypeOK, EditorSave
  <2>4. editorHub' \in [Edited -> Files]
    BY <1>t, <2>2, <2>3, HubWritten DEF EditorTypeOK
  <2>5. f \in Nodes
    BY <2>3, <2>4, FileNodes
  <2>6. p = address' => f = Editor!FileNode(editorHub, address)'
    BY DEF Editor!FileNode
  <2> HIDE DEF f
  <2>7. /\ saves' \in [Saves -> EditorSave] /\ saves'[s].at = "answered"
        /\ saves'[s].path = p /\ saves'[s].was = saves[s].was
        /\ saves'[s].reply = f /\ \A q \in Saves \ {s} : saves'[q] = saves[q]
    BY <1>a, <2>1, <2>2, <2>5
  <2>8. EditorTypeOK' /\ Known'
    BY <1>t, <1>b, <2>2, <2>3, <2>4, <2>7 DEF EditorTypeOK, Known
  <2>9. editorCalm' => EditorCalm'
    BY <1>t, <1>w, <2>1, <2>2, <2>6, <2>7 DEF EditorCalm, Saving, EditorTypeOK
  <2> QED
    BY <2>8, <2>9 DEF EditorInv
<1>10. ASSUME NEW s \in Saves, Editor!SaveConflicts(s) PROVE EditorInv'
  <2>1. /\ saves[s].at = "asked"
        /\ saves' = [saves EXCEPT ![s].at = "answered", ![s].reply = Nothing]
        /\ UNCHANGED <<editorHub, address, node, content, loading, load, stale, rename, shown>>
    BY <1>10 DEF Editor!SaveConflicts, Editor!Answer
  <2>2. /\ saves' \in [Saves -> EditorSave] /\ saves'[s].at = "answered"
        /\ saves'[s].path = saves[s].path /\ saves'[s].was = saves[s].was
        /\ saves'[s].reply = Nothing /\ \A q \in Saves \ {s} : saves'[q] = saves[q]
    BY <1>a, <2>1
  <2>3. EditorTypeOK' /\ Known'
    BY <1>t, <1>b, <2>1, <2>2 DEF EditorTypeOK, Known
  <2>4. editorCalm' => EditorCalm'
    BY <1>n, <1>w, <2>1, <2>2 DEF EditorCalm, Saving
  <2> QED
    BY <2>3, <2>4 DEF EditorInv
\* A save is over.
<1>o. ASSUME NEW s \in Saves, saves' = [saves EXCEPT ![s] = Editor!NoSave]
      PROVE  /\ saves' \in [Saves -> EditorSave] /\ saves'[s].at = "off"
             /\ \A q \in Saves \ {s} : saves'[q] = saves[q]
  BY <1>o, <1>t, Idle DEF EditorTypeOK
<1>11. ASSUME NEW s \in Saves, Editor!SaveEnds(s) PROVE EditorInv'
  <2>1. /\ saves[s].at = "answered" /\ saves[s].reply # Nothing
        /\ node' = saves[s].reply /\ shown' = shown \cup {saves[s].reply}
        /\ saves' = [saves EXCEPT ![s] = Editor!NoSave]
        /\ UNCHANGED <<editorHub, address, content, loading, load, stale, rename>>
    BY <1>11 DEF Editor!SaveEnds
  <2>2. saves[s].reply \in Nodes
    BY <1>t, <2>1 DEF EditorTypeOK, EditorSave
  <2>3. EditorTypeOK' /\ Known'
    BY <1>t, <1>b, <1>o, <2>1, <2>2 DEF EditorTypeOK, Known
  <2>4. editorCalm' => EditorCalm'
    BY <1>n, <1>w, <1>o, <2>1 DEF EditorCalm, Saving
  <2> QED
    BY <2>3, <2>4 DEF EditorInv
<1>12. ASSUME NEW s \in Saves, Editor!SaveFails(s) PROVE EditorInv'
  <2>1. /\ saves[s].at # "off" /\ saves' = [saves EXCEPT ![s] = Editor!NoSave]
        /\ UNCHANGED <<editorHub, address, node, content, loading, load, stale, rename, shown>>
    BY <1>12 DEF Editor!SaveFails
  <2>2. saves'[s].at = "off"
    BY <1>o, <2>1
  <2>3. ~editorCalm'
    BY <1>x, <2>1, <2>2 DEF Editor!Crossing, editorVars
  <2> QED
    BY <1>t, <1>b, <1>o, <2>1, <2>3 DEF EditorInv, EditorTypeOK, Known
\* The renames.
<1>13. ASSUME NEW p \in Edited, Editor!Rename(p) PROVE EditorInv'
  <2>1. /\ node # Nothing /\ ~loading /\ p # address /\ rename.at = "off"
        /\ rename' = [at |-> "first", from |-> address, to |-> p, was |-> editorHub[address].text,
                      text |-> content]
        /\ UNCHANGED <<editorHub, address, node, content, loading, load, stale, saves, shown>>
    BY <1>13 DEF Editor!Rename
  <2>2. editorHub[address].text \in Bodies \cup {Nothing}
    BY <1>t DEF EditorTypeOK, Files
  <2>3. rename' \in EditorRename
    BY <1>t, <2>1, <2>2 DEF EditorTypeOK, EditorRename
  <2>4. EditorTypeOK' /\ Known'
    BY <1>t, <1>b, <2>1, <2>3 DEF EditorTypeOK, Known
  <2>n. rename'.at = "first" /\ rename' # rename
    BY <2>1
  <2>5. editorCalm' => \A s \in Saves : saves[s].at = "off"
    BY <1>x, <2>1, <2>n DEF Editor!Crossing, editorVars
  <2>6. editorCalm' => EditorCalm'
    BY <1>n, <1>w, <2>1, <2>5 DEF EditorCalm, Saving
  <2> QED
    BY <2>4, <2>6 DEF EditorInv
<1>r. ASSUME NEW k \in {"second", "done"}, rename.at # "off", rename' = [rename EXCEPT !.at = k]
      PROVE  /\ rename' \in EditorRename /\ rename'.at = k /\ rename'.from = rename.from
             /\ rename'.to = rename.to /\ rename'.was = rename.was /\ rename'.text = rename.text
  BY <1>r, <1>t DEF EditorTypeOK, EditorRename
<1>14. CASE Editor!Renames
  <2>1. PICK p, q, t : p = rename.from /\ q = rename.to /\ t = rename.text
    OBVIOUS
  <2>u. UNCHANGED <<address, node, content, loading, load, stale, saves, shown>>
    BY <1>14 DEF Editor!Renames
  <2>2. ASSUME rename.at # "off" PROVE p \in Edited /\ q \in Edited /\ p # q
                                         /\ t \in Bodies \cup {Nothing}
    BY <1>t, <2>1, <2>2 DEF EditorTypeOK, EditorRename
  <2>m. p = address /\ editorHub'[p] = editorHub[p]
           => Editor!FileNode(editorHub, address)' = Editor!FileNode(editorHub, address)
    BY <2>u DEF Editor!FileNode
  <2>3. CASE rename.at = "first"
    <3>1. rename' = [rename EXCEPT !.at = "second"] /\ Editor!Written(q, t)
      BY <1>14, <2>1, <2>3 DEF Editor!Renames
    <3>2. /\ editorHub' \in [Edited -> Files] /\ editorHub'[q].text = t
          /\ editorHub'[p] = editorHub[p]
      BY <1>t, <2>2, <2>3, <3>1, HubWritten DEF EditorTypeOK
    <3>3. EditorTypeOK' /\ Known'
      BY <1>t, <1>b, <1>r, <2>u, <2>3, <3>1, <3>2 DEF EditorTypeOK, Known
    <3>4. editorCalm' => EditorCalm'
      BY <1>t, <1>w, <1>r, <2>1, <2>m, <2>u, <2>3, <3>1, <3>2 DEF EditorCalm, Saving,
         EditorTypeOK
    <3> QED
      BY <3>3, <3>4 DEF EditorInv
  <2>4. CASE rename.at = "second"
    <3>1. rename' = [rename EXCEPT !.at = "done"] /\ Editor!Written(p, Nothing)
      BY <1>14, <2>1, <2>4 DEF Editor!Renames
    <3>2. /\ editorHub' \in [Edited -> Files] /\ editorHub'[q] = editorHub[q]
      BY <1>t, <2>2, <2>4, <3>1, HubWritten DEF EditorTypeOK
    <3>3. EditorTypeOK' /\ Known'
      BY <1>t, <1>b, <1>r, <2>u, <2>4, <3>1, <3>2 DEF EditorTypeOK, Known
    <3>4. editorCalm' => EditorCalm'
      BY <1>t, <1>w, <1>r, <2>1, <2>u, <2>4, <3>1, <3>2 DEF EditorCalm, Saving, EditorTypeOK
    <3> QED
      BY <3>3, <3>4 DEF EditorInv
  <2> QED
    BY <1>14, <2>3, <2>4 DEF Editor!Renames
<1>15. CASE Editor!RenameEnds
  <2>1. PICK p : p = rename.to
    OBVIOUS
  <2>2. /\ rename.at = "done" /\ rename' = Editor!NoRename /\ Editor!GoTo(p)
        /\ UNCHANGED <<editorHub, node, content, saves, shown>>
    BY <1>15, <2>1 DEF Editor!RenameEnds
  <2>3. p \in Edited
    BY <1>t, <2>1, <2>2 DEF EditorTypeOK
  <2>4. CASE p = address
    <3>1. UNCHANGED <<address, load, loading, stale>>
      BY <2>2, <2>4 DEF Editor!GoTo
    <3>2. ~editorCalm'
      BY <1>t, <1>w, <2>1, <2>2, <2>4 DEF EditorCalm, EditorTypeOK
    <3> QED
      BY <1>t, <1>b, <2>2, <3>1, <3>2, Idle DEF EditorInv, EditorTypeOK, Known
  <2>5. CASE p # address
    <3>1. EditorTypeOK' /\ Known'
      BY <1>t, <1>b, <1>g, <2>2, <2>3, <2>5, Idle DEF EditorTypeOK, Known
    <3>2. editorCalm' => EditorCalm'
      BY <1>w, <1>g, <2>2, <2>3, <2>5, Idle DEF EditorCalm, Saving
    <3> QED
      BY <3>1, <3>2 DEF EditorInv
  <2> QED
    BY <2>4, <2>5
<1>16. CASE Editor!RenameFails
  <2>1. /\ rename.at # "off" /\ rename' = Editor!NoRename
        /\ UNCHANGED <<editorHub, address, node, content, loading, load, stale, saves, shown>>
    BY <1>16 DEF Editor!RenameFails
  <2>2. EditorTypeOK' /\ Known'
    BY <1>t, <1>b, <2>1, Idle DEF EditorTypeOK, Known
  <2>3. editorCalm' => rename.at # "done"
    <3> SUFFICES ASSUME editorCalm', rename.at = "done" PROVE FALSE
      OBVIOUS
    <3>1. address' # rename.to
      BY <1>t, <1>w, <2>1 DEF EditorCalm, EditorTypeOK
    <3> QED
      BY <1>x, <2>1, <3>1, Idle DEF Editor!Crossing, editorVars
  <2>4. editorCalm' => EditorCalm'
    BY <1>n, <1>w, <2>1, <2>3, Idle DEF EditorCalm, Saving
  <2> QED
    BY <2>2, <2>4 DEF EditorInv
<1>17. CASE UNCHANGED editorVars
  <2>1. UNCHANGED <<editorHub, address, node, content, loading, load, stale, saves, rename, shown,
                    editorCalm>>
    BY <1>17 DEF editorVars
  <2> QED
    BY <1>n, <1>t, <1>w, <2>1 DEF EditorInv, EditorTypeOK, Known, EditorCalm, Saving
<1> QED
  BY <1>1, <1>2, <1>3, <1>4, <1>5, <1>6, <1>7, <1>8, <1>9, <1>10, <1>11, <1>12, <1>13, <1>14,
     <1>15, <1>16, <1>17
     DEF Editor!Next, Editor!Step, Editor!Others, Editor!Saving, Editor!Lost, Editor!User

\* It holds for any number of files, texts, saves and versions.
LEMMA EditorInvariant == ServicesSpec => []EditorIInv
<1>1. EditorIInv /\ [ServicesNext]_allVars => EditorIInv'
  BY EditorStep, EditorNext DEF EditorIInv
<1> QED
  BY <1>1, InitEditor, PTL DEF ServicesSpec

\* While nothing has crossed, a page that says "Saved" shows what the hub has
\* (DataFileEditorPage.tsx:312-342).
THEOREM SavedIsStored == ServicesSpec => []CalmSavedIsStored
<1>1. EditorIInv => CalmSavedIsStored
  BY DEF EditorIInv, EditorInv, EditorCalm, Saving, CalmSavedIsStored, Editor!CalmSavedIsStored
<1> QED
  BY <1>1, EditorInvariant, PTL

\* A rename may stop anywhere, and still the file is there under its old name or its new
\* one, unless somebody else has written meanwhile (DataFileEditorPage.tsx:344-384).
THEOREM RenameKeepsFile == ServicesSpec => []CalmRenameKeepsFile
<1>1. EditorIInv => CalmRenameKeepsFile
  BY DEF EditorIInv, EditorInv, EditorTypeOK, EditorRename, EditorCalm, CalmRenameKeepsFile,
     Editor!CalmRenameKeepsFile
<1> QED
  BY <1>1, EditorInvariant, PTL

\* WriteEntry takes a save only over the file that the page had when it was asked for.
THEOREM SavesReplaceTheShown == ServicesSpec => SavesReplaceWhatWasShown
<1>1. EditorInv /\ [Editor!Next]_editorVars /\ ~UNCHANGED editorVars
         => Editor!SavesReplaceWhatWasShownStep
  <2> SUFFICES ASSUME EditorInv, Editor!Next, NEW s \in Saves, saves[s].at = "asked",
                      saves'[s].reply # Nothing
               PROVE  \/ editorHub[saves[s].path].ver = 0
                      \/ Editor!FileNode(editorHub, saves[s].path) \in shown
    BY DEF Editor!SavesReplaceWhatWasShownStep
  <2>t. EditorTypeOK /\ Known /\ saves[s].reply = Nothing /\ saves[s].was \in shown
    BY DEF EditorInv, Known
  <2>1. CASE Editor!SaveServed(s)
    BY <2>t, <2>1 DEF Editor!SaveServed, Editor!Accepts
  <2>2. ASSUME saves' = saves PROVE FALSE
    BY <2>2, <2>t
  <2>3. ASSUME NEW r \in Saves, NEW n, saves' = [saves EXCEPT ![r] = n], r # s \/ n.reply = Nothing
        PROVE  FALSE
    BY <2>3, <2>t DEF EditorTypeOK
  <2>4. ASSUME NEW r \in Saves, Editor!SaveServed(r), r # s PROVE FALSE
    <3>1. PICK n : saves' = [saves EXCEPT ![r] = n]
      BY <2>4, <2>t DEF Editor!SaveServed, Editor!Answer, EditorTypeOK
    <3> QED
      BY <2>3, <2>4, <3>1
  <2>5. ASSUME NEW r \in Saves, Editor!SaveConflicts(r) PROVE FALSE
    <3>1. saves' = [saves EXCEPT ![r] = [saves[r] EXCEPT !.at = "answered", !.reply = Nothing]]
      BY <2>5, <2>t DEF Editor!SaveConflicts, Editor!Answer, EditorTypeOK
    <3>2. saves[r] \in EditorSave
      BY <2>t DEF EditorTypeOK
    <3>3. [saves[r] EXCEPT !.at = "answered", !.reply = Nothing].reply = Nothing
      BY <3>2 DEF EditorSave
    <3> QED
      BY <2>3, <3>1, <3>3
  <2>6. ASSUME NEW r \in Saves, Editor!SaveEnds(r) \/ Editor!SaveFails(r) PROVE FALSE
    BY <2>3, <2>6, Idle DEF Editor!SaveEnds, Editor!SaveFails
  <2>7. ASSUME NEW r \in Saves, Editor!Save(r) PROVE FALSE
    <3>1. saves' = [saves EXCEPT ![r] = [Editor!NoSave EXCEPT !.at = "asked", !.path = address,
                                                              !.text = content, !.was = node]]
          /\ saves[r].at = "off"
      BY <2>7 DEF Editor!Save
    <3>2. r # s
      BY <3>1
    <3> QED
      BY <2>3, <3>1, <3>2
  <2>8. CASE \/ Editor!LoadAnswered \/ Editor!Loaded \/ Editor!LoadFails \/ Editor!StaleLoadEnds
            \/ Editor!Renames \/ Editor!RenameEnds \/ Editor!RenameFails \/ Editor!Others
            \/ (\E t \in Bodies : Editor!Type(t))
            \/ (\E p \in Edited : Editor!Rename(p) \/ Editor!Jump(p))
    BY <2>2, <2>8 DEF Editor!LoadAnswered, Editor!Loaded, Editor!LoadFails,
       Editor!StaleLoadEnds,
       Editor!Renames, Editor!RenameEnds, Editor!RenameFails, Editor!Others, Editor!Foreign,
       Editor!Type, Editor!Rename, Editor!Jump, Editor!requests
  <2> QED
    BY <2>1, <2>4, <2>5, <2>6, <2>7, <2>8 DEF Editor!Next, Editor!Step, Editor!Saving,
       Editor!User,
       Editor!Lost
<1>2. EditorIInv /\ [ServicesNext]_allVars
         => [part = "editor" => Editor!SavesReplaceWhatWasShownStep]_editorVars
  BY <1>1, EditorStep DEF EditorIInv
<1> QED
  BY <1>2, EditorInvariant, PTL DEF ServicesSpec, SavesReplaceWhatWasShown

-----------------------------------------------------------------------------
(* The types of both.                                                      *)

\* What the variables of the web app hold.
ServicesTypeOK ==
    /\ part = "web" => WebTypeOK
    /\ part = "editor" => EditorTypeOK

\* They hold nothing else, for every value of the constants: tokens are pairs that the
\* hub has issued, and versions are those of a file (api.ts, DataFileEditorPage.tsx).
THEOREM ServicesTypeCorrect == ServicesSpec => []ServicesTypeOK
<1>1. WebIInv /\ EditorIInv => ServicesTypeOK
  BY DEF WebIInv, WebInv, WebAlways, EditorIInv, EditorInv, ServicesTypeOK
<1> QED
  BY <1>1, WebInvariant, EditorInvariant, PTL

-----------------------------------------------------------------------------
(* Where the messages of the inbox are, for any number of messages and of  *)
(* callers that move them at a time.                                       *)

At(m, places) == \E h \in Movers : msg[h] = m /\ pc[h] \in places

\* A message that has no id yet is nowhere.
Unsent ==
    \A m \in Msgs \ sent :
        files[m] = {} /\ rows[m] = None /\ ~At(m, {"post", "insert"})

\* Until Send has inserted the row, its file is where Send has put it.
Sending ==
    \A h \in Movers : pc[h] \in {"post", "insert"} =>
        /\ rows[msg[h]] = None
        /\ files[msg[h]] = IF pc[h] = "post" THEN {} ELSE {"incoming"}
        /\ \A g \in Movers \ {h} : pc[g] \in {"post", "insert"} => msg[g] # msg[h]

\* Who moves a message has read its row, and no row goes back to "incoming".
Looked ==
    \A h \in Movers : pc[h] \in {"delete", "write", "update"} =>
        /\ rows[msg[h]] # None
        /\ seen[h] = "archived" => rows[msg[h]] = "archived"

\* The folders of a message, none of whose moves has had a step that failed.
Placed(m) ==
    /\ rows[m] = "archived" \/ At(m, {"write", "update"}) => "incoming" \notin files[m]
    /\ (rows[m] = "archived" \/ At(m, {"update"})) /\ ~At(m, {"write"})
          => "archived" \in files[m]
    /\ rows[m] = "incoming" /\ ~At(m, {"write", "update"}) => files[m] = {"incoming"}

Kept(m) == At(m, {"write"}) \/ files[m] # {} \/ m \in lost

InboxIInv ==
    /\ TypeOK /\ Unsent /\ Sending /\ Looked
    /\ \A m \in Msgs : rows[m] # None => Kept(m) /\ (m \in calm => Placed(m))

\* Nothing has been sent at the beginning.
LEMMA InitInbox == Init => InboxIInv
BY InboxAssumption DEF Init, InboxIInv, TypeOK, Unsent, Sending, Looked, At, Folders

\* Every step keeps the invariant.
LEMMA NextInbox ==
    ASSUME InboxIInv, [Next]_vars
    PROVE  InboxIInv'
<1> USE InboxAssumption DEF InboxIInv, TypeOK, Folders, Movers, Goto, stored, work, observers
<1>1. ASSUME NEW h \in Handlers, NEW m \in Msgs, Send(h, m) PROVE InboxIInv'
  <2>1. TypeOK' /\ Looked'
    BY <1>1 DEF Send, Begins, Looked
  <2>2. Unsent'
    BY <1>1 DEF Send, Begins, Unsent, At
  <2>3. Sending'
    BY <1>1 DEF Send, Begins, Unsent, Sending, At
  <2>4. \A n \in Msgs : /\ At(n, {"write"})' = At(n, {"write"})
                        /\ At(n, {"update"})' = At(n, {"update"})
                        /\ At(n, {"write", "update"})' = At(n, {"write", "update"})
    BY <1>1 DEF Send, Begins, At
  <2> QED
    BY <1>1, <2>1, <2>2, <2>3, <2>4 DEF Send, Begins, Placed, Kept
<1>2. ASSUME NEW h \in Handlers, NEW m \in Msgs, Archive(h, m) PROVE InboxIInv'
  BY <1>2 DEF Archive, Begins, Unsent, Sending, Looked, Placed, Kept, At
<1>3. ASSUME NEW h \in Handlers, PostFile(h) PROVE InboxIInv'
  <2>1. TypeOK' /\ Looked'
    BY <1>3 DEF PostFile, Looked
  <2>2. Unsent'
    BY <1>3 DEF PostFile, Unsent, At
  <2>3. Sending'
    BY <1>3 DEF PostFile, Sending
  <2>4. \A n \in Msgs : rows[n] # None => files'[n] = files[n]
    BY <1>3 DEF PostFile, Sending
  <2>5. \A n \in Msgs : /\ At(n, {"write"})' = At(n, {"write"})
                        /\ At(n, {"update"})' = At(n, {"update"})
                        /\ At(n, {"write", "update"})' = At(n, {"write", "update"})
    BY <1>3 DEF PostFile, At
  <2> QED
    BY <1>3, <2>1, <2>2, <2>3, <2>4, <2>5 DEF PostFile, Placed, Kept
<1>4. ASSUME NEW h \in Handlers, InsertRow(h) PROVE InboxIInv'
  BY <1>4 DEF InsertRow, Ends, Unsent, Sending, Looked, Placed, Kept, At
<1>5. ASSUME NEW h \in Movers, Lookup(h) PROVE InboxIInv'
  BY <1>5 DEF Lookup, Unsent, Sending, Looked, Placed, Kept, At
<1>6. ASSUME NEW h \in Movers, LookupFails(h) PROVE InboxIInv'
  BY <1>6 DEF LookupFails, Ends, Unsent, Sending, Looked, Placed, Kept, At
<1>7. ASSUME NEW h \in Movers, DeleteOld(h) PROVE InboxIInv'
  BY <1>7 DEF DeleteOld, Leaves, Unsent, Sending, Looked, Placed, Kept, At
<1>8. ASSUME NEW h \in Movers, DeleteFails(h) PROVE InboxIInv'
  BY <1>8 DEF DeleteFails, Unsent, Sending, Looked, Placed, Kept, At
<1>9. ASSUME NEW h \in Movers, WriteNew(h) PROVE InboxIInv'
  BY <1>9 DEF WriteNew, Unsent, Sending, Looked, Placed, Kept, At
<1>10. ASSUME NEW h \in Movers, UpdateRow(h) PROVE InboxIInv'
  BY <1>10 DEF UpdateRow, Ends, Unsent, Sending, Looked, Placed, Kept, At
<1>11. ASSUME NEW h \in Movers, BreakOff(h) PROVE InboxIInv'
  BY <1>11 DEF BreakOff, Ends, Unsent, Sending, Looked, Placed, Kept, At
<1>12. ASSUME NEW m \in Msgs, Expire(m) PROVE InboxIInv'
  BY <1>12 DEF Expire, Unsent, Sending, Looked, Placed, Kept, At
<1>13. ASSUME NEW m \in Msgs, SweepNext(m) PROVE InboxIInv'
  BY <1>13 DEF SweepNext, Unsent, Sending, Looked, Placed, Kept, At
<1>14. CASE SweepBegins \/ SweepEnds
  BY <1>14 DEF SweepBegins, SweepEnds, Unsent, Sending, Looked, Placed, Kept, At
<1>15. CASE UNCHANGED vars
  BY <1>15 DEF vars, Unsent, Sending, Looked, Placed, Kept, At
<1> QED
  BY <1>1, <1>2, <1>3, <1>4, <1>5, <1>6, <1>7, <1>8, <1>9, <1>10, <1>11, <1>12,
     <1>13, <1>14, <1>15 DEF Next, Moves

\* The variables keep their types.
THEOREM InboxTypeCorrect == Spec => []TypeOK
<1>1. InboxIInv => TypeOK
  BY DEF InboxIInv
<1> QED
  BY <1>1, InitInbox, NextInbox, PTL DEF Spec

\* Between moves a message is in the folder of its row and nowhere else, unless a
\* statement failed, and in the tree, unless a move broke off behind its delete
\* (inbox_service.go, moveStatus).
THEOREM MessagesAreFiled == Spec => []Filed
<1>1. InboxIInv => Filed
  <2> SUFFICES ASSUME InboxIInv, NEW m \in Msgs, rows[m] # None, Still(m)
               PROVE  /\ files[m] # {} \/ m \in lost
                      /\ m \in calm => files[m] = {rows[m]}
    BY DEF Filed
  <2>1. ~At(m, {"write", "update"}) /\ ~At(m, {"write"}) /\ ~At(m, {"update"})
    BY DEF Still, At
  <2>2. files[m] \subseteq Folders /\ rows[m] \in Folders
    BY DEF InboxIInv, TypeOK
  <2>3. Kept(m) /\ (m \in calm => Placed(m))
    BY DEF InboxIInv
  <2> QED
    BY <2>1, <2>2, <2>3 DEF Kept, Placed, Folders
<1> QED
  BY <1>1, InitInbox, NextInbox, PTL DEF Spec

-----------------------------------------------------------------------------
(* The log of a project is whole as long as no write replaces what its     *)
(* writer has not read: for any number of writers and entries.             *)

\* Create takes the file for empty, which is what it writes.
TakenForEmpty == \A h \in Writers : logPc[h] = "found" => got[h] = <<>>

\* Between its write and its INSERT an entry is in the file.
Written ==
    logCalm => \A h \in Writers : logPc[h] = "insert" => entry[h] \in Entries(file)

LogIInv == LogTypeOK /\ TakenForEmpty /\ Written /\ CalmLogIsWhole

\* A sequence with one more element.
LEMMA OneMoreEntry ==
    ASSUME NEW s \in Seq(Nat), NEW e \in Nat
    PROVE  /\ Append(s, e) \in Seq(Nat)
           /\ Entries(s) \subseteq Entries(Append(s, e))
           /\ e \in Entries(Append(s, e))
           /\ Entries(Append(s, e)) \subseteq Entries(s) \cup {e}
<1>1. /\ Append(s, e) \in Seq(Nat) /\ Len(Append(s, e)) = Len(s) + 1
      /\ Append(s, e)[Len(s) + 1] = e
      /\ \A i \in 1 .. Len(s) : Append(s, e)[i] = s[i]
  OBVIOUS
<1>2. Len(s) \in Nat
  OBVIOUS
<1>3. \A i \in 1 .. Len(s) + 1 : i \in 1 .. Len(s) \/ i = Len(s) + 1
  BY <1>2
<1>4. 1 .. Len(s) \subseteq 1 .. Len(s) + 1 /\ Len(s) + 1 \in 1 .. Len(s) + 1
  BY <1>2
<1> HIDE <1>2
<1> QED
  BY <1>1, <1>3, <1>4, Zenon DEF Entries

\* Nothing.
LEMMA NoEntries == <<>> \in Seq(Nat) /\ Entries(<<>>) = {}
BY DEF Entries

\* The log is empty at the beginning.
LEMMA InitLog == LogInit => LogIInv
<1> SUFFICES ASSUME LogInit PROVE LogIInv
  OBVIOUS
<1>1. LogTypeOK
  <2>1. file \in Seq(Nat) /\ table \in Seq(Nat)
    BY NoEntries DEF LogInit
  <2>2. got \in [Writers -> Seq(Nat)]
    BY NoEntries, Zenon DEF LogInit
  <2> QED
    BY <2>1, <2>2 DEF LogInit, LogTypeOK
<1>2. Entries(<<>>) = {}
  BY NoEntries
<1> QED
  BY <1>1, <1>2 DEF LogInit, LogIInv, TakenForEmpty, Written, CalmLogIsWhole

\* Every step keeps the invariant.
LEMMA NextLog ==
    ASSUME LogIInv, [LogNext]_logVars
    PROVE  LogIInv'
<1> USE DEF LogIInv, LogTypeOK, LogGoto
<1>1. ASSUME NEW h \in Writers, Create(h) PROVE LogIInv'
  BY <1>1 DEF Create, TakenForEmpty, Written, CalmLogIsWhole
<1>2. ASSUME NEW h \in Writers, FoundLog(h) PROVE LogIInv'
  <2>1. LogTypeOK' /\ TakenForEmpty'
    BY <1>2 DEF FoundLog, Replaces, TakenForEmpty
  <2>2. logCalm' => logCalm /\ file' = file
    BY <1>2 DEF FoundLog, Replaces, TakenForEmpty
  <2> QED
    BY <1>2, <2>1, <2>2 DEF FoundLog, Written, CalmLogIsWhole
<1>3. ASSUME NEW h \in Writers, AppendLog(h) PROVE LogIInv'
  BY <1>3 DEF AppendLog, logStored, TakenForEmpty, Written, CalmLogIsWhole
<1>4. ASSUME NEW h \in Writers, ReadLog(h) \/ ReadFails(h) PROVE LogIInv'
  <2>1. PICK found \in Seq(Nat) : got' = [got EXCEPT ![h] = found]
    BY <1>4, NoEntries, Zenon DEF ReadLog, ReadFails
  <2>2. LogTypeOK' /\ TakenForEmpty'
    BY <1>4, <2>1 DEF ReadLog, ReadFails, logStored, TakenForEmpty
  <2> QED
    BY <1>4, <2>2 DEF ReadLog, ReadFails, logStored, Written, CalmLogIsWhole
<1>5. ASSUME NEW h \in Writers, WriteLog(h) PROVE LogIInv'
  <2>1. file' = Append(got[h], entry[h]) /\ (logCalm' => logCalm /\ file = got[h])
    BY <1>5 DEF WriteLog, Replaces, Joined
  <2>2. file' \in Seq(Nat) /\ entry[h] \in Entries(file') /\ Entries(got[h]) \subseteq Entries(file')
    BY <2>1, OneMoreEntry
  <2>3. LogTypeOK' /\ TakenForEmpty'
    BY <1>5, <2>2 DEF WriteLog, Replaces, TakenForEmpty
  <2>4. logCalm' => Entries(file) \subseteq Entries(file')
    BY <2>1, <2>2
  <2> QED
    BY <1>5, <2>1, <2>2, <2>3, <2>4 DEF WriteLog, Written, CalmLogIsWhole
<1>6. ASSUME NEW h \in Writers, InsertLogRow(h) PROVE LogIInv'
  <2>1. table' \in Seq(Nat) /\ Entries(table') \subseteq Entries(table) \cup {entry[h]}
    BY <1>6, OneMoreEntry DEF InsertLogRow
  <2>2. LogTypeOK' /\ TakenForEmpty' /\ Written'
    BY <1>6, <2>1 DEF InsertLogRow, TakenForEmpty, Written
  <2> QED
    BY <1>6, <2>1, <2>2 DEF InsertLogRow, Written, CalmLogIsWhole
<1>7. ASSUME NEW h \in Writers, AppendBreaksOff(h) PROVE LogIInv'
  BY <1>7 DEF AppendBreaksOff, logStored, TakenForEmpty, Written, CalmLogIsWhole
<1>8. CASE DeleteLog
  <2>1. file' \in Seq(Nat) /\ ~logCalm'
    BY <1>8, NoEntries DEF DeleteLog
  <2> QED
    BY <1>8, <2>1 DEF DeleteLog, TakenForEmpty, Written, CalmLogIsWhole
<1>9. CASE UNCHANGED logVars
  BY <1>9 DEF logVars, logStored, TakenForEmpty, Written, CalmLogIsWhole
<1> QED
  BY <1>1, <1>2, <1>3, <1>4, <1>5, <1>6, <1>7, <1>8, <1>9 DEF LogNext, Appends

\* The variables keep their types.
THEOREM LogTypeCorrect == LogSpec => []LogTypeOK
<1>1. LogIInv => LogTypeOK
  BY DEF LogIInv
<1> QED
  BY <1>1, InitLog, NextLog, PTL DEF LogSpec

\* What project_logs has is in the log file, as long as every write of the file has
\* replaced what its writer had read (project_service.go, AppendLog).
THEOREM LogIsWhole == LogSpec => []CalmLogIsWhole
<1>1. LogIInv => CalmLogIsWhole
  BY DEF LogIInv
<1> QED
  BY <1>1, InitLog, NextLog, PTL DEF LogSpec

-----------------------------------------------------------------------------
(* Both, in the composition.                                               *)

\* The inbox and the log go on as they do by themselves, whichever part is looked at.
LEMMA InboxAndLogGoOn == ServicesSpec => Spec /\ LogSpec
<1>1. ServicesInit => Init /\ LogInit
  BY DEF ServicesInit
<1>2. [ServicesNext]_allVars => [Next]_vars /\ [LogNext]_logVars
  BY DEF ServicesNext, allVars, inboxVars
<1> QED
  BY <1>1, <1>2, PTL DEF ServicesSpec, Spec, LogSpec

\* So both properties hold of the composition that the run checks (inbox_service.go,
\* project_service.go).
COROLLARY FiledAndWhole == ServicesSpec => []Filed /\ []CalmLogIsWhole
BY InboxAndLogGoOn, MessagesAreFiled, LogIsWhole, PTL

=============================================================================
