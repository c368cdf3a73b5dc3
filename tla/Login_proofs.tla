---------------------------- MODULE Login_proofs ----------------------------
(***************************************************************************)
(* What the browser extension keeps of its connection, for any number of   *)
(* messages that it handles at a time, of credentials and of tokens.       *)
(*                                                                         *)
(* The invariant has two halves.  LoginAlways holds whatever runs beside   *)
(* what: each handler is at an await that fits its message, waits for at   *)
(* most one storage call, which is its own, and a token belongs to one     *)
(* login.  Agreeing holds while no change of the credential has run beside *)
(* a use of it: memory, cache and storage agree, but for the one change    *)
(* under way.                                                              *)
(***************************************************************************)
EXTENDS Services, Integers, TLAPS

-----------------------------------------------------------------------------
(* The invariant.                                                          *)

\* What a variable for a credential holds.
Credential == Login!Creds \cup {NoCred}
\* The awaits of a handler.
HandlerAt == {"idle", "stored", "fetch", "mint", "undo", "tell", "report", "answer"}
\* The messages of the worker.
Messages == {"none", "status", "configure", "disconnect", "prefs", "start", "login"}

\* The type invariant of the login.
LoginTypeOK ==
    /\ loginStored \in Credential /\ mem \in Credential /\ cache \in Credential
    /\ loginPending \in {"none", "open", "late"} /\ minted \in Nat
    /\ ops \in Seq(Login!StorageCall)
    /\ up \in BOOLEAN /\ inFlight \in BOOLEAN /\ loginCalm \in BOOLEAN
    /\ loginPc \in [Contacts -> HandlerAt] /\ op \in [Contacts -> Messages]
    /\ cred \in [Contacts -> Credential] /\ loginUsed \in [Contacts -> Credential]

\* The storage calls that are not answered yet.
Asked == 1 .. Len(ops)

\* A handler at an await, by what it was called for.
Handler(h) ==
    /\ loginPc[h] = "fetch" => \/ op[h] \in {"status", "prefs", "configure"}
                               \/ op[h] = "login" /\ cred[h] # NoCred
    /\ loginPc[h] = "mint" => op[h] = "login" /\ cred[h] = NoCred
    /\ loginPc[h] = "undo" => op[h] = "login" /\ cred[h] # NoCred
    /\ loginPc[h] \in {"tell", "report"} => op[h] = "login"
    /\ op[h] = "login" => cred[h] \in (1 .. minted) \cup {NoCred}
    /\ op[h] = "configure" => cred[h] \in Typed
    /\ op[h] \notin {"login", "configure"} => cred[h] = NoCred

\* All of them.
LoginHandlers == \A h \in Contacts : Handler(h)

\* A handler waits for one storage call at most, one of its own.
Waits(c, h) ==
    \/ /\ c.do = "get" /\ op[h] = "status" /\ loginPc[h] = "stored"
    \/ /\ c.do = "set" /\ c.cred = cred[h] /\ cred[h] # NoCred
       /\ op[h] \in {"configure", "login"} /\ loginPc[h] = "stored"
    \/ /\ c.do = "set" /\ c.cred = NoCred
       /\ \/ op[h] = "disconnect" /\ loginPc[h] = "stored"
          \/ op[h] = "login" /\ loginPc[h] = "undo"
    \/ /\ c.do = "getPending" /\ op[h] = "login" /\ loginPc[h] = "stored" /\ cred[h] = NoCred
    \/ /\ c.do = "setPending" /\ op[h] = "start" /\ loginPc[h] = "stored"
    \/ /\ c.do = "clearPending" /\ op[h] = "login" /\ loginPc[h] = "stored"

\* Every call that waits for a handler waits for one that is at it, and each has one.
StorageCalls ==
    /\ \A i \in Asked : /\ ops[i].by \in Contacts => Waits(ops[i], ops[i].by)
                        /\ ops[i].by = "boot" => ops[i].do = "get"
    /\ \A i, j \in Asked : ops[i].by \in Contacts /\ ops[i].by = ops[j].by => i = j

\* What the worker that is gone has asked for comes first, then the script's own call.
Started ==
    /\ ~up => /\ mem = NoCred /\ cache = NoCred
              /\ \A h \in Contacts : loginPc[h] = "idle"
              /\ \A i \in Asked : ops[i].by = "nobody"
    /\ \A i, j \in Asked : ops[i].by = "boot" => (j < i <=> ops[j].by = "nobody")
    /\ up /\ (\E i \in Asked : ops[i].by = "nobody") => Login!Starting

\* A token that was created for a login is that login's alone.
Minted ==
    /\ \A i \in Asked : ops[i].cred \in Nat => ops[i].cred <= minted
    /\ \A g, h \in Contacts : cred[h] \in Nat /\ cred[g] = cred[h] => g = h
    /\ \A h \in Contacts : cred[h] \in Nat
          => /\ \A i \in Asked : ops[i].do = "set" /\ ops[i].cred = cred[h] => ops[i].by = h
             /\ loginPc[h] = "report" => loginStored # cred[h]

\* While no change has run beside something else.
Agreeing ==
    /\ ~Login!Overlap
    /\ Login!Starting => mem = NoCred /\ cache = NoCred /\ \A h \in Contacts : loginPc[h] # "fetch"
    /\ ~Login!Starting =>
         /\ \A i \in Asked : ops[i].do = "set" /\ up => mem = ops[i].cred
         /\ up /\ (\A i \in Asked : ops[i].do # "set") => mem = loginStored
         /\ cache \in {NoCred, mem}
         /\ \A h \in Contacts : loginPc[h] = "fetch" => loginUsed[h] = mem

\* The invariant of the login.
LoginInv ==
    /\ LoginTypeOK /\ LoginHandlers /\ StorageCalls /\ Started /\ Minted
    /\ loginCalm => Agreeing
\* It, while the login is looked at.
LoginIInv == part = "login" => LoginInv

-----------------------------------------------------------------------------
(* Storage calls.                                                          *)

\* A step of the module is one of the login, while that is looked at.
LEMMA LoginStep ==
    ASSUME [ServicesNext]_allVars
    PROVE  part' = part /\ (part = "login" => [Login!Next]_loginVars)
BY DEF ServicesNext, allVars

\* What the proofs need of the constants.
LEMMA LoginConstants ==
    /\ Typed \cap Nat = {} /\ NoCred \notin Typed /\ NoCred \notin Nat
    /\ "boot" \notin Contacts /\ "nobody" \notin Contacts
BY ServicesAssumption DEF Login!AuthAssumption

\* The first k of the calls are answered, and e more are made.
Queued(k, e) ==
    /\ ops' \in Seq(Login!StorageCall) /\ Len(ops') \in Nat /\ Len(ops) \in Nat
    /\ k \in Nat /\ e \in Nat /\ k <= Len(ops) /\ Len(ops') = Len(ops) - k + e
    /\ \A i \in 1 .. (Len(ops) - k) : ops'[i] = ops[i + k]

\* The storage answers its first call.
LEMMA Popped ==
    ASSUME ops \in Seq(Login!StorageCall), ops # <<>>, ops' = Tail(ops)
    PROVE  Queued(1, 0)
BY DEF Queued

\* A handler makes a call.
LEMMA Pushed ==
    ASSUME ops \in Seq(Login!StorageCall), NEW c \in Login!StorageCall, ops' = Append(ops, c)
    PROVE  Queued(0, 1) /\ ops'[Len(ops')] = c
BY DEF Queued

\* A handler that is answered makes another call.
LEMMA PoppedPushed ==
    ASSUME ops \in Seq(Login!StorageCall), ops # <<>>, NEW c \in Login!StorageCall,
           ops' = Append(Tail(ops), c)
    PROVE  Queued(1, 1) /\ ops'[Len(ops')] = c
BY DEF Queued

\* Nothing is answered or asked.
LEMMA Kept == ASSUME ops \in Seq(Login!StorageCall), ops' = ops PROVE Queued(0, 0)
BY DEF Queued

\* What a call is made of.
LEMMA Asks ==
    ASSUME NEW d \in {"get", "set", "getPending", "setPending", "clearPending"},
           NEW c \in Credential, NEW h \in Contacts \cup {"boot", "nobody"}
    PROVE  /\ Login!Ask(d, c, h) \in Login!StorageCall /\ Login!Ask(d, c, h).do = d
           /\ Login!Ask(d, c, h).cred = c /\ Login!Ask(d, c, h).by = h
BY DEF Login!Ask, Login!StorageCall, Credential

\* What a call holds.
LEMMA CallFields ==
    ASSUME ops \in Seq(Login!StorageCall), NEW i \in Asked
    PROVE  /\ ops[i].cred \in Credential /\ ops[i].by \in Contacts \cup {"boot", "nobody"}
           /\ ops[i].do \in {"get", "set", "getPending", "setPending", "clearPending"}
<1>1. ops[i] \in Login!StorageCall
  BY DEF Asked
<1> QED
  BY <1>1 DEF Login!StorageCall, Credential

-----------------------------------------------------------------------------
(* A handler goes on.                                                      *)

\* Only the handler of message h goes on.
SameFor(f, g, h) == \A x \in Contacts \ {h} : g[x] = f[x]

\* The handler of message h goes on, with at most one call answered and one made.
Handled(h) ==
    /\ SameFor(loginPc, loginPc', h) /\ SameFor(op, op', h) /\ SameFor(cred, cred', h)
    /\ \E k, e \in {0, 1} :
          /\ Queued(k, e)
          /\ k = 1 => ops[1].by = h
          /\ k = 0 => loginPc[h] \notin {"stored", "undo"}
          /\ e = 1 => \E c \in Login!StorageCall :
                         /\ ops'[Len(ops')] = c /\ c.by = h
                         /\ c.cred \in {NoCred, cred'[h]} /\ Waits(c, h)'

\* The storage calls stay in order, and each handler has its own.
LEMMA HandledCalls ==
    ASSUME LoginTypeOK, StorageCalls, Started, NEW h \in Contacts, Handled(h), up, up'
    PROVE  StorageCalls' /\ Started' /\ (Login!Starting' <=> Login!Starting)
<1>1. PICK k, e \in {0, 1} :
         /\ Queued(k, e)
         /\ k = 1 => ops[1].by = h
         /\ k = 0 => loginPc[h] \notin {"stored", "undo"}
         /\ e = 1 => \E c \in Login!StorageCall :
                        /\ ops'[Len(ops')] = c /\ c.by = h
                        /\ c.cred \in {NoCred, cred'[h]} /\ Waits(c, h)'
  BY DEF Handled
<1>n. h # "boot" /\ h # "nobody"
  BY LoginConstants
<1>2. \A i \in 1 .. Len(ops) : i > k => ops[i].by # h
  <2>1. CASE k = 1
    BY <1>1, <2>1 DEF StorageCalls, Asked, Queued
  <2>2. CASE k = 0
    BY <1>1, <2>2 DEF StorageCalls, Asked, Waits
  <2> QED
    BY <1>1, <2>1, <2>2
<1>o. e = 1 => ops'[Len(ops')].by = h
  BY <1>1
<1>l. Len(ops) \in Nat /\ Len(ops') \in Nat
  BY <1>1 DEF Queued
\* A call is an old one or the new one.
<1>3. \A i \in 1 .. Len(ops') :
         \/ i <= Len(ops) - k /\ i + k \in 1 .. Len(ops) /\ i + k > k /\ ops'[i] = ops[i + k]
         \/ e = 1 /\ i = Len(ops') /\ i = Len(ops) - k + 1
  BY <1>1 DEF Queued
<1>4. ASSUME NEW g \in Contacts \ {h}, NEW c
      PROVE  Waits(c, g) => Waits(c, g)'
  BY <1>4 DEF Handled, SameFor, Waits
<1>5. ASSUME NEW i \in 1 .. Len(ops'), NEW c, ops'[i] = c
      PROVE  /\ c.by \in Contacts => Waits(c, c.by)'
             /\ c.by = "boot" => c.do = "get"
  <2>1. CASE i + k \in 1 .. Len(ops) /\ i + k > k /\ c = ops[i + k]
    <3>1. /\ c.by \in Contacts => Waits(c, c.by)
          /\ c.by = "boot" => c.do = "get"
      BY <2>1 DEF StorageCalls, Asked
    <3> QED
      BY <1>2, <1>4, <2>1, <3>1
  <2>2. CASE e = 1 /\ i = Len(ops')
    BY <1>1, <1>n, <1>5, <2>2
  <2> QED
    BY <1>3, <1>5, <2>1, <2>2
<1>6. StorageCalls'
  <2>1. \A i, j \in 1 .. Len(ops') : ops'[i].by \in Contacts /\ ops'[i].by = ops'[j].by => i = j
    <3> SUFFICES ASSUME NEW i \in 1 .. Len(ops'), NEW j \in 1 .. Len(ops'), i # j,
                        ops'[i].by \in Contacts, ops'[i].by = ops'[j].by
                 PROVE  FALSE
      OBVIOUS
    <3>1. CASE ops'[i] = ops[i + k] /\ ops'[j] = ops[j + k] /\ i + k \in 1 .. Len(ops)
                 /\ j + k \in 1 .. Len(ops)
      <4>1. i + k = j + k
        BY <3>1 DEF StorageCalls, Asked
      <4> QED
        BY <4>1
    <3>2. CASE e = 1 /\ i = Len(ops')
      BY <1>o, <1>2, <1>3, <3>2
    <3>3. CASE e = 1 /\ j = Len(ops')
      BY <1>o, <1>2, <1>3, <3>3
    <3> QED
      BY <1>3, <3>1, <3>2, <3>3
  <2>2. \A i \in 1 .. Len(ops') : \A c : c = ops'[i]
           => (c.by \in Contacts => Waits(c, c.by)') /\ (c.by = "boot" => c.do = "get")
    BY <1>5
  <2> QED
    BY <2>1, <2>2 DEF StorageCalls, Asked, Waits
<1>7. Login!Starting' <=> Login!Starting
  <2>1. Login!Starting => Login!Starting'
    <3> SUFFICES ASSUME NEW i \in 1 .. Len(ops), ops[i].by = "boot"
                 PROVE  Login!Starting'
      BY DEF Login!Starting
    <3>1. i > k /\ i - k \in 1 .. Len(ops')
      BY <1>1, <1>n DEF Queued
    <3>2. ops'[i - k] = ops[i]
      BY <1>1, <3>1 DEF Queued
    <3> QED
      BY <3>1, <3>2 DEF Login!Starting
  <2>2. Login!Starting' => Login!Starting
    BY <1>1, <1>n, <1>3 DEF Login!Starting
  <2> QED
    BY <2>1, <2>2
<1>8. Started'
  <2>1. \A i, j \in 1 .. Len(ops') : ops'[i].by = "boot" => (j < i <=> ops'[j].by = "nobody")
    <3> SUFFICES ASSUME NEW i \in 1 .. Len(ops'), NEW j \in 1 .. Len(ops'), ops'[i].by = "boot"
                 PROVE  j < i <=> ops'[j].by = "nobody"
      OBVIOUS
    <3>1. ops'[i] = ops[i + k] /\ i + k \in 1 .. Len(ops) /\ i <= Len(ops) - k
      BY <1>o, <1>n, <1>3
    <3>2. CASE ops'[j] = ops[j + k] /\ j + k \in 1 .. Len(ops)
      <4>1. j + k < i + k <=> ops[j + k].by = "nobody"
        BY <3>1, <3>2 DEF Started, Asked
      <4> QED
        BY <3>1, <3>2, <4>1
    <3>3. CASE e = 1 /\ j = Len(ops') /\ j = Len(ops) - k + 1
      BY <1>o, <1>n, <1>l, <3>1, <3>3
    <3> QED
      BY <1>3, <3>2, <3>3
  <2>2. (\E i \in 1 .. Len(ops') : ops'[i].by = "nobody") => Login!Starting
    BY <1>1, <1>n, <1>3 DEF Started, Asked
  <2> QED
    BY <1>7, <2>1, <2>2 DEF Started, Asked
<1> QED
  BY <1>6, <1>7, <1>8

\* What h has may be taken from it, be typed, or be the token that is just created.
Credited(h) ==
    /\ minted \in Nat /\ minted' \in Nat /\ minted <= minted'
    /\ \/ cred'[h] \in {cred[h], NoCred} \cup Typed
       \/ cred'[h] = minted + 1 /\ minted' = minted + 1

\* No other handler is changed by that.
LEMMA HandledHandlers ==
    ASSUME LoginHandlers, NEW h \in Contacts, Handled(h), Credited(h), Handler(h)'
    PROVE  LoginHandlers'
<1> SUFFICES ASSUME NEW g \in Contacts PROVE Handler(g)'
  BY DEF LoginHandlers
<1>1. CASE g = h
  BY <1>1
<1>2. CASE g # h
  <2>1. 1 .. minted \subseteq 1 .. minted'
    BY DEF Credited
  <2>2. loginPc'[g] = loginPc[g] /\ op'[g] = op[g] /\ cred'[g] = cred[g] /\ Handler(g)
    BY <1>2 DEF Handled, SameFor, LoginHandlers
  <2> QED
    BY <2>1, <2>2 DEF Handler
<1> QED
  BY <1>1, <1>2

\* Only logins have tokens of the official hub.
LEMMA NatCred ==
    ASSUME LoginHandlers, minted \in Nat, NEW h \in Contacts, cred[h] \in Nat
    PROVE  op[h] = "login" /\ cred[h] <= minted
BY LoginConstants DEF LoginHandlers, Handler

\* A call is an old one, or one of h, or brings no token.
CallsOf(h) ==
    \A i \in Asked' : \/ \E j \in Asked : ops'[i] = ops[j]
                      \/ ops'[i].cred \in Nat => ops'[i].by = h /\ ops'[i].cred = cred'[h]

\* A handler asks for nothing but its own.
LEMMA HandledCallsOf ==
    ASSUME NEW h \in Contacts, Handled(h)
    PROVE  CallsOf(h)
<1>1. PICK k, e \in {0, 1} :
         /\ Queued(k, e)
         /\ e = 1 => \E c \in Login!StorageCall :
                        /\ ops'[Len(ops')] = c /\ c.by = h
                        /\ c.cred \in {NoCred, cred'[h]} /\ Waits(c, h)'
  BY DEF Handled
<1>2. e = 1 => ops'[Len(ops')].by = h /\ ops'[Len(ops')].cred \in {NoCred, cred'[h]}
  BY <1>1
<1>3. \A i \in 1 .. Len(ops') :
         \/ i + k \in 1 .. Len(ops) /\ ops'[i] = ops[i + k]
         \/ e = 1 /\ i = Len(ops')
  BY <1>1 DEF Queued
<1> QED
  BY <1>2, <1>3, LoginConstants DEF CallsOf, Asked

\* No two handlers have the same token, and a login that has failed has it no more.
LEMMA HandledMinted ==
    ASSUME LoginTypeOK, LoginHandlers, Minted, NEW h \in Contacts,
           SameFor(loginPc, loginPc', h), SameFor(cred, cred', h), CallsOf(h), Credited(h),
           loginPc'[h] = "report" /\ cred'[h] \in Nat => loginStored' # cred'[h],
           \/ loginStored' \in {loginStored, NoCred}
           \/ /\ ops # <<>> /\ ops[1].do = "set" /\ ops[1].by = h
              /\ loginStored' = ops[1].cred
    PROVE  Minted'
<1>c. Typed \cap Nat = {} /\ NoCred \notin Typed /\ NoCred \notin Nat
  BY LoginConstants
<1>4. \A g \in Contacts \ {h} : /\ loginPc'[g] = loginPc[g] /\ cred'[g] = cred[g]
  BY DEF SameFor
<1>5. \A g \in Contacts : cred[g] \in Nat => cred[g] <= minted
  BY NatCred DEF LoginTypeOK
<1>6. cred'[h] \in Nat => \/ cred'[h] = cred[h]
                          \/ cred'[h] = minted + 1 /\ minted' = minted + 1
  BY <1>c DEF Credited
<1>m. minted \in Nat /\ minted' \in Nat /\ minted <= minted'
  BY DEF Credited
<1>7. ASSUME NEW i \in Asked', ops'[i].cred \in Nat PROVE ops'[i].cred <= minted'
  <2>1. CASE \E j \in Asked : ops'[i] = ops[j]
    <3>1. ops'[i].cred <= minted
      BY <1>7, <2>1 DEF Minted
    <3> QED
      BY <1>7, <1>m, <3>1
  <2>2. CASE ops'[i].cred = cred'[h]
    BY <1>5, <1>6, <1>7, <1>m, <2>2
  <2> QED
    BY <1>7, <2>1, <2>2 DEF CallsOf
<1>8. ASSUME NEW f \in Contacts, NEW g \in Contacts, cred'[g] \in Nat, cred'[f] = cred'[g]
      PROVE  f = g
  BY <1>4, <1>5, <1>6, <1>8, <1>m DEF Minted
<1>9. ASSUME NEW g \in Contacts, cred'[g] \in Nat, NEW i \in Asked',
             ops'[i].do = "set", ops'[i].cred = cred'[g]
      PROVE  ops'[i].by = g
  <2>1. CASE \E j \in Asked : ops'[i] = ops[j]
    <3>1. ops'[i].cred <= minted
      BY <1>9, <2>1 DEF Minted
    <3>2. cred'[g] = cred[g]
      BY <1>4, <1>6, <1>9, <1>m, <3>1
    <3> QED
      BY <1>9, <2>1, <3>2 DEF Minted
  <2>2. CASE ops'[i].by = h /\ ops'[i].cred = cred'[h]
    BY <1>8, <1>9, <2>2
  <2> QED
    BY <1>9, <2>1, <2>2 DEF CallsOf
<1>10. ASSUME NEW g \in Contacts, cred'[g] \in Nat, loginPc'[g] = "report"
       PROVE  loginStored' # cred'[g]
  <2>1. CASE g = h
    BY <1>10, <2>1
  <2>2. CASE g # h
    <3>1. loginPc[g] = "report" /\ cred[g] = cred'[g] /\ loginStored # cred[g]
      BY <1>4, <1>10, <2>2 DEF Minted
    <3>2. CASE ops # <<>> /\ ops[1].do = "set" /\ ops[1].by = h /\ loginStored' = ops[1].cred
      <4>1. 1 \in Asked
        BY <3>2 DEF LoginTypeOK, Asked
      <4> QED
        BY <1>10, <2>2, <3>1, <3>2, <4>1 DEF Minted
    <3> QED
      BY <1>c, <1>10, <3>1, <3>2
  <2> QED
    BY <2>1, <2>2
<1> QED
  BY <1>7, <1>8, <1>9, <1>10 DEF Minted

-----------------------------------------------------------------------------
(* What the memory, the cache and the storage agree on.                    *)

\* Who fetches a profile uses the credential; who stores one changes it.
LEMMA WhoOverlaps ==
    ASSUME LoginHandlers, StorageCalls, NEW h \in Contacts
    PROVE  /\ loginPc[h] = "fetch" => Login!Using(h) \/ Login!Changing(h)
           /\ \A i \in Asked : ops[i].do = "set" /\ ops[i].by = h => Login!Changing(h)
<1>1. loginPc[h] = "fetch" => Login!Using(h) \/ Login!Changing(h)
  BY DEF LoginHandlers, Handler, Login!Using, Login!Changing
<1>2. \A i \in Asked : ops[i].do = "set" /\ ops[i].by = h => Login!Changing(h)
  BY DEF StorageCalls, Waits, Login!Changing
<1> QED
  BY <1>1, <1>2

\* What goes on while nothing else does, when a handler changes the credential.
Alone(h) ==
    /\ ~Login!Starting
    /\ \A g \in Contacts \ {h} : ~Login!Using(g) /\ ~Login!Changing(g)

\* While nothing overlaps, a change is alone.
LEMMA ChangesAlone ==
    ASSUME ~Login!Overlap, NEW h \in Contacts, Login!Changing(h)
    PROVE  Alone(h)
BY DEF Login!Overlap, Alone

\* A change that has told the memory and asked the storage for the same.
Asking(h) ==
    /\ up /\ ~Login!Overlap /\ Login!Changing(h) /\ loginPc[h] # "fetch" /\ cache = NoCred
    /\ \E i \in Asked : ops[i].do = "set" /\ ops[i].by = h /\ mem = ops[i].cred

\* Then the memory, the cache and the storage agree again when it is stored.
Changes ==
    LoginTypeOK /\ LoginHandlers /\ StorageCalls /\ Started
       => \A h \in Contacts : Asking(h) => Agreeing

\* As a formula, to be used of the next state.
LEMMA ChangeAgrees == Changes
<1> SUFFICES ASSUME LoginTypeOK, LoginHandlers, StorageCalls, Started,
                    NEW h \in Contacts, Asking(h)
             PROVE  Agreeing
  BY DEF Changes
<1>1. Alone(h)
  BY ChangesAlone DEF Asking
<1>2. PICK i \in Asked : ops[i].do = "set" /\ ops[i].by = h /\ mem = ops[i].cred
  BY DEF Asking
<1>3. \A g \in Contacts : loginPc[g] # "fetch"
  BY <1>1, WhoOverlaps DEF Asking, Alone
<1>4. ASSUME NEW j \in Asked, ops[j].do = "set" PROVE j = i
  <2>1. ops[j].by \in Contacts
    <3>1. ops[j].by \in Contacts \cup {"boot", "nobody"}
      BY CallFields DEF LoginTypeOK
    <3>2. ops[j].by # "boot"
      BY <1>4 DEF StorageCalls
    <3>3. ops[j].by # "nobody"
      BY <1>1 DEF Started, Alone, Asking
    <3> QED
      BY <3>1, <3>2, <3>3
  <2>2. ops[j].by = h
    BY <1>1, <1>4, <2>1, WhoOverlaps DEF Alone
  <2> QED
    BY <1>2, <2>1, <2>2 DEF StorageCalls
<1> QED
  BY <1>1, <1>2, <1>3, <1>4 DEF Agreeing, Asking, Alone

\* A step of a handler that changes no credential.
LEMMA QuietAgrees ==
    ASSUME Agreeing, ~Login!Overlap', Login!Starting' <=> Login!Starting, up, up',
           mem' = mem, loginStored' = loginStored, NEW h \in Contacts,
           SameFor(loginPc, loginPc', h), SameFor(loginUsed, loginUsed', h),
           cache' \in {cache, NoCred} \/ (~Login!Starting /\ cache' = mem),
           loginPc'[h] = "fetch" => ~Login!Starting /\ loginUsed'[h] = mem,
           \A i \in Asked' : ops'[i].do = "set" => \E j \in Asked : ops[j] = ops'[i],
           \A i \in Asked : ops[i].do = "set" => \E j \in Asked' : ops'[j] = ops[i]
    PROVE  Agreeing'
<1>1. Login!Starting' => mem' = NoCred /\ cache' = NoCred /\ \A g \in Contacts : loginPc'[g] # "fetch"
  BY DEF Agreeing, SameFor
<1>2. ~Login!Starting' => \A g \in Contacts : loginPc'[g] = "fetch" => loginUsed'[g] = mem'
  BY DEF Agreeing, SameFor
<1>3. ~Login!Starting' =>
         /\ \A i \in Asked' : ops'[i].do = "set" => mem' = ops'[i].cred
         /\ (\A i \in Asked' : ops'[i].do # "set") => mem' = loginStored'
         /\ cache' \in {NoCred, mem'}
  BY DEF Agreeing
<1> QED
  BY <1>1, <1>2, <1>3 DEF Agreeing

\* The storage has done what a handler has asked for.
LEMMA StoredAgrees ==
    ASSUME LoginTypeOK, LoginHandlers, StorageCalls, Started, Agreeing, ~Login!Overlap', up, up',
           NEW h \in Contacts, ops # <<>>, ops[1].do = "set", ops[1].by = h, Queued(1, 0),
           Login!Starting' <=> Login!Starting,
           mem' = mem, cache' = cache, loginStored' = ops[1].cred,
           SameFor(loginPc, loginPc', h), SameFor(loginUsed, loginUsed', h),
           loginPc'[h] = "fetch" => loginUsed'[h] = mem
    PROVE  Agreeing'
<1>1. 1 \in Asked /\ Len(ops) \in Nat
  BY DEF LoginTypeOK, Asked
<1>2. Login!Changing(h) /\ ~Login!Overlap
  BY <1>1, WhoOverlaps DEF Agreeing
<1>3. Alone(h)
  BY <1>2, ChangesAlone
<1>4. mem = ops[1].cred /\ cache \in {NoCred, mem}
  BY <1>1, <1>3 DEF Agreeing, Alone
<1>5. ASSUME NEW j \in Asked, ops[j].do = "set" PROVE j = 1
  <2>1. ops[j].by \in Contacts
    <3>1. ops[j].by \in Contacts \cup {"boot", "nobody"}
      BY CallFields DEF LoginTypeOK
    <3>2. ops[j].by # "boot"
      BY <1>5 DEF StorageCalls
    <3>3. ops[j].by # "nobody"
      BY <1>3 DEF Started, Alone
    <3> QED
      BY <3>1, <3>2, <3>3
  <2>2. ops[j].by = h
    BY <1>3, <1>5, <2>1, WhoOverlaps DEF Alone
  <2> QED
    BY <1>1, <2>1, <2>2 DEF StorageCalls
<1>6. \A i \in Asked' : ops'[i].do # "set"
  <2> SUFFICES ASSUME NEW i \in 1 .. Len(ops'), ops'[i].do = "set" PROVE FALSE
    BY DEF Asked
  <2>1. i + 1 \in Asked /\ ops'[i] = ops[i + 1] /\ i + 1 # 1
    BY DEF Queued, Asked
  <2> QED
    BY <1>5, <2>1
<1>7. \A g \in Contacts : loginPc'[g] = "fetch" => loginUsed'[g] = mem
  <2> SUFFICES ASSUME NEW g \in Contacts, g # h, loginPc'[g] = "fetch" PROVE FALSE
    OBVIOUS
  <2>1. loginPc[g] = "fetch"
    BY DEF SameFor
  <2> QED
    BY <1>3, <2>1, WhoOverlaps DEF Alone
<1> QED
  BY <1>3, <1>4, <1>6, <1>7 DEF Agreeing, Alone

-----------------------------------------------------------------------------
(* A message comes in.                                                     *)

\* A message wakes the worker: the script asks for the credential first.
Wakes(h) ==
    /\ ~up /\ up' /\ SameFor(loginPc, loginPc', h) /\ SameFor(op, op', h) /\ SameFor(cred, cred', h)
    /\ \E e \in {1, 2} :
          /\ Queued(0, e)
          /\ ops'[Len(ops) + 1] = Login!Ask("get", NoCred, "boot")
          /\ e = 2 => \E c \in Login!StorageCall :
                         /\ ops'[Len(ops')] = c /\ c.by = h
                         /\ c.cred \in {NoCred, cred'[h]} /\ Waits(c, h)'

\* The calls are in order when the worker has been woken.
LEMMA WokenCalls ==
    ASSUME LoginTypeOK, Started, NEW h \in Contacts, Wakes(h)
    PROVE  StorageCalls' /\ Started' /\ Login!Starting' /\ CallsOf(h)
<1>1. PICK e \in {1, 2} :
          /\ Queued(0, e)
          /\ ops'[Len(ops) + 1] = Login!Ask("get", NoCred, "boot")
          /\ e = 2 => \E c \in Login!StorageCall :
                         /\ ops'[Len(ops')] = c /\ c.by = h
                         /\ c.cred \in {NoCred, cred'[h]} /\ Waits(c, h)'
  BY DEF Wakes
<1>n. h # "boot" /\ h # "nobody" /\ "nobody" \notin Contacts /\ "boot" \notin Contacts
      /\ NoCred \notin Nat
  BY LoginConstants
<1>b. /\ ops'[Len(ops) + 1].by = "boot" /\ ops'[Len(ops) + 1].do = "get"
      /\ ops'[Len(ops) + 1].cred = NoCred
  BY <1>1, Asks DEF Credential
<1>o. e = 2 => ops'[Len(ops')].by = h /\ ops'[Len(ops')].cred \in {NoCred, cred'[h]}
  BY <1>1
<1>l. Len(ops) \in Nat /\ Len(ops') \in Nat /\ Len(ops') = Len(ops) + e
  BY <1>1 DEF Queued
<1>3. \A i \in 1 .. Len(ops') :
         \/ i \in 1 .. Len(ops) /\ ops'[i] = ops[i] /\ ops[i].by = "nobody"
         \/ i = Len(ops) + 1
         \/ e = 2 /\ i = Len(ops')
  BY <1>1, <1>l DEF Queued, Started, Wakes, Asked
<1>4. \A i \in 1 .. Len(ops') : \A c :
         c = ops'[i] => (c.by \in Contacts => Waits(c, c.by)') /\ (c.by = "boot" => c.do = "get")
  BY <1>1, <1>3, <1>b, <1>n
<1>5. \A i, j \in 1 .. Len(ops') : ops'[i].by \in Contacts /\ ops'[i].by = ops'[j].by => i = j
  BY <1>3, <1>b, <1>n
<1>6. StorageCalls'
  BY <1>4, <1>5 DEF StorageCalls, Asked, Waits
<1>7. Login!Starting'
  BY <1>b, <1>l DEF Login!Starting
<1>8. \A i, j \in 1 .. Len(ops') : ops'[i].by = "boot" => (j < i <=> ops'[j].by = "nobody")
  <2> SUFFICES ASSUME NEW i \in 1 .. Len(ops'), NEW j \in 1 .. Len(ops'), ops'[i].by = "boot"
               PROVE  j < i <=> ops'[j].by = "nobody"
    OBVIOUS
  <2>1. i = Len(ops) + 1
    BY <1>3, <1>n, <1>o
  <2> QED
    BY <1>3, <1>b, <1>l, <1>n, <1>o, <2>1
<1>9. Started'
  BY <1>7, <1>8 DEF Started, Asked, Wakes
<1>10. CallsOf(h)
  BY <1>3, <1>b, <1>n, <1>o DEF CallsOf, Asked
<1> QED
  BY <1>6, <1>7, <1>9, <1>10

\* What an update of one handler leaves of a table.
LEMMA One ==
    ASSUME NEW S, NEW f \in [Contacts -> S], NEW h \in Contacts, NEW v \in S,
           NEW g, g = [f EXCEPT ![h] = v]
    PROVE  g \in [Contacts -> S] /\ g[h] = v /\ SameFor(f, g, h)
BY DEF SameFor

\* A sequence with one more element.
LEMMA AppendIs ==
    ASSUME NEW S, NEW q \in Seq(S), NEW c \in S
    PROVE  /\ Append(q, c) \in Seq(S) /\ Len(q) \in Nat /\ Len(Append(q, c)) = Len(q) + 1
           /\ Append(q, c)[Len(q) + 1] = c
           /\ \A i \in 1 .. Len(q) : Append(q, c)[i] = q[i]
OBVIOUS

\* The call of a message follows that of the start of the script, if that starts.
LEMMA Boots ==
    ASSUME ops \in Seq(Login!StorageCall), NEW c \in Login!StorageCall,
           ops' = ops \o Login!Booting \o <<c>>
    PROVE  /\ ops'[Len(ops')] = c
           /\ up => Queued(0, 1)
           /\ ~up => Queued(0, 2) /\ ops'[Len(ops) + 1] = Login!Ask("get", NoCred, "boot")
<1>1. CASE up
  <2>1. ops' = ops \o <<c>>
    BY <1>1 DEF Login!Booting
  <2>2. ops' = Append(ops, c)
    BY <2>1
  <2> QED
    BY <1>1, <2>2, Pushed
<1>2. CASE ~up
  <2>1. PICK b \in Login!StorageCall : b = Login!Ask("get", NoCred, "boot")
    BY Asks DEF Credential
  <2>2. ops' = ops \o <<b>> \o <<c>>
    BY <1>2, <2>1 DEF Login!Booting
  <2>3. PICK q \in Seq(Login!StorageCall) : q = Append(ops, b)
    BY AppendIs
  <2>4. /\ Len(q) = Len(ops) + 1 /\ q[Len(ops) + 1] = b
        /\ \A i \in 1 .. Len(ops) : q[i] = ops[i]
    BY <2>3, AppendIs
  <2>5. ops' = Append(q, c)
    BY <2>2, <2>3
  <2>6. /\ ops' \in Seq(Login!StorageCall) /\ Len(ops') = Len(q) + 1 /\ ops'[Len(q) + 1] = c
        /\ \A i \in 1 .. Len(q) : ops'[i] = q[i]
    <3> DEFINE r == Append(q, c)
    <3>1. /\ r \in Seq(Login!StorageCall) /\ Len(r) = Len(q) + 1 /\ r[Len(q) + 1] = c
          /\ \A i \in 1 .. Len(q) : r[i] = q[i]
      BY AppendIs
    <3>2. ops' = r
      BY <2>5
    <3> HIDE DEF r
    <3> QED
      BY <3>1, <3>2
  <2>7. Len(ops) \in Nat /\ Len(ops') \in Nat
    BY <2>6
  <2>8. \A i \in 1 .. Len(ops) : ops'[i] = ops[i]
    BY <2>4, <2>6, <2>7
  <2>9. ops'[Len(ops) + 1] = b /\ ops'[Len(ops')] = c /\ Len(ops') = Len(ops) + 2
    BY <2>4, <2>6, <2>7
  <2> QED
    BY <1>2, <2>1, <2>6, <2>7, <2>8, <2>9 DEF Queued
<1> QED
  BY <1>1, <1>2

\* A message that makes no call.
LEMMA BootsOnly ==
    ASSUME ops \in Seq(Login!StorageCall), ops' = ops \o Login!Booting
    PROVE  /\ up => ops' = ops /\ Queued(0, 0)
           /\ ~up => Queued(0, 1) /\ ops'[Len(ops) + 1] = Login!Ask("get", NoCred, "boot")
<1>1. CASE up
  BY <1>1 DEF Login!Booting, Queued
<1>2. CASE ~up
  <2>1. PICK b \in Login!StorageCall : b = Login!Ask("get", NoCred, "boot")
    BY Asks DEF Credential
  <2>2. ops' = ops \o <<b>>
    BY <1>2, <2>1 DEF Login!Booting
  <2> QED
    BY <1>2, <2>1, <2>2 DEF Queued
<1> QED
  BY <1>1, <1>2

\* The part of the invariant that holds whatever runs beside what.
LoginAlways == LoginTypeOK /\ LoginHandlers /\ StorageCalls /\ Started /\ Minted

\* A message h of some kind has come in, with its credential c.
Came(h, kind, where, c) ==
    /\ loginPc[h] = "idle" /\ up'
    /\ loginPc' \in [Contacts -> HandlerAt] /\ loginPc'[h] = where /\ SameFor(loginPc, loginPc', h)
    /\ op' \in [Contacts -> Messages] /\ op'[h] = kind /\ SameFor(op, op', h)
    /\ cred' \in [Contacts -> Credential] /\ cred'[h] = c /\ SameFor(cred, cred', h)

\* What Receive does with a message.
LEMMA Comes ==
    ASSUME LoginTypeOK, NEW h \in Contacts, NEW kind \in Messages, NEW where \in HandlerAt,
           NEW c \in Credential, Login!Receive(h, kind, where, c)
    PROVE  Came(h, kind, where, c)
BY One DEF LoginTypeOK, Login!Receive, Came

\* A message that comes in disturbs nothing that is under way, whether or not it wakes
\* the worker.
LEMMA CameSafely ==
    ASSUME LoginAlways, NEW h \in Contacts, NEW kind \in Messages \ {"none"},
           NEW where \in {"stored", "fetch", "answer"}, NEW c \in Typed \cup {NoCred},
           Came(h, kind, where, c), kind = "configure" <=> c # NoCred,
           where = "fetch" => kind = "prefs", UNCHANGED <<minted, loginStored>>,
           \/ ops' = ops \o Login!Booting
           \/ \E d \in {"get", "set", "getPending", "setPending", "clearPending"} :
                 /\ ops' = ops \o Login!Booting \o <<Login!Ask(d, c, h)>>
                 /\ \A x \in Login!StorageCall :
                       x.do = d /\ x.cred = c /\ x.by = h => Waits(x, h)'
    PROVE  /\ LoginHandlers' /\ StorageCalls' /\ Started' /\ Minted'
           /\ up => Handled(h) /\ (Login!Starting' <=> Login!Starting)
           /\ ~up => Login!Starting'
           /\ ops' \in Seq(Login!StorageCall)
<1>1. Credited(h) /\ Handler(h)'
  BY DEF LoginAlways, LoginTypeOK, Credited, Came, Handler
<1>c. c \in Credential
  BY DEF Credential, Login!Creds
<1>2. ASSUME up PROVE Handled(h)
  <2>1. CASE ops' = ops \o Login!Booting
    BY <1>2, <2>1, BootsOnly DEF LoginAlways, LoginTypeOK, Handled, Came
  <2>2. ASSUME NEW d \in {"get", "set", "getPending", "setPending", "clearPending"},
               ops' = ops \o Login!Booting \o <<Login!Ask(d, c, h)>>,
               \A x \in Login!StorageCall :
                  x.do = d /\ x.cred = c /\ x.by = h => Waits(x, h)'
        PROVE  Handled(h)
    <3>1. PICK x \in Login!StorageCall : /\ x = Login!Ask(d, c, h)
                                         /\ x.do = d /\ x.cred = c /\ x.by = h
      BY <1>c, Asks
    <3>2. Queued(0, 1) /\ ops'[Len(ops')] = x
      BY <1>2, <2>2, <3>1, Boots DEF LoginAlways, LoginTypeOK
    <3>3. Waits(x, h)'
      BY <2>2, <3>1
    <3> QED
      BY <3>1, <3>2, <3>3 DEF Handled, Came
  <2> QED
    BY <2>1, <2>2
<1>3. ASSUME ~up PROVE Wakes(h)
  <2>1. CASE ops' = ops \o Login!Booting
    <3>1. Queued(0, 1) /\ ops'[Len(ops) + 1] = Login!Ask("get", NoCred, "boot")
      BY <1>3, <2>1, BootsOnly DEF LoginAlways, LoginTypeOK
    <3>2. 1 \in {1, 2} /\ 1 # 2
      OBVIOUS
    <3> QED
      BY <1>3, <3>1, <3>2 DEF Wakes, Came
  <2>2. ASSUME NEW d \in {"get", "set", "getPending", "setPending", "clearPending"},
               ops' = ops \o Login!Booting \o <<Login!Ask(d, c, h)>>,
               \A x \in Login!StorageCall :
                  x.do = d /\ x.cred = c /\ x.by = h => Waits(x, h)'
        PROVE  Wakes(h)
    <3>1. PICK x \in Login!StorageCall : /\ x = Login!Ask(d, c, h)
                                         /\ x.do = d /\ x.cred = c /\ x.by = h
      BY <1>c, Asks
    <3>2. /\ Queued(0, 2) /\ ops'[Len(ops')] = x
          /\ ops'[Len(ops) + 1] = Login!Ask("get", NoCred, "boot")
      BY <1>3, <2>2, <3>1, Boots DEF LoginAlways, LoginTypeOK
    <3>3. Waits(x, h)'
      BY <2>2, <3>1
    <3> QED
      BY <1>3, <3>1, <3>2, <3>3 DEF Wakes, Came
  <2> QED
    BY <2>1, <2>2
<1>4. SameFor(loginPc, loginPc', h) /\ SameFor(op, op', h) /\ SameFor(cred, cred', h)
      /\ loginPc'[h] # "report"
  BY DEF Came
<1>5. CallsOf(h) /\ StorageCalls' /\ Started'
  BY <1>2, <1>3, HandledCalls, HandledCallsOf, WokenCalls DEF LoginAlways, Came
<1>6. Minted'
  BY <1>1, <1>4, <1>5, HandledMinted DEF LoginAlways
<1>7. LoginHandlers'
  <2> SUFFICES ASSUME NEW g \in Contacts PROVE Handler(g)'
    BY DEF LoginHandlers
  <2> QED
    BY <1>1, <1>4 DEF LoginAlways, LoginHandlers, Handler, SameFor
<1>8. ops' \in Seq(Login!StorageCall)
  BY <1>2, <1>3 DEF Handled, Wakes, Queued
<1> QED
  BY <1>2, <1>3, <1>5, <1>6, <1>7, <1>8, HandledCalls, WokenCalls DEF LoginAlways, Came

\* A handler that goes on disturbs nothing that is under way.
LEMMA HandledSafely ==
    ASSUME LoginAlways, NEW h \in Contacts, Handled(h), up, up', Credited(h), Handler(h)',
           loginPc'[h] = "report" /\ cred'[h] \in Nat => loginStored' # cred'[h],
           \/ loginStored' \in {loginStored, NoCred}
           \/ /\ ops # <<>> /\ ops[1].do = "set" /\ ops[1].by = h
              /\ loginStored' = ops[1].cred
    PROVE  /\ LoginHandlers' /\ StorageCalls' /\ Started' /\ Minted'
           /\ Login!Starting' <=> Login!Starting
<1>1. LoginTypeOK /\ LoginHandlers /\ StorageCalls /\ Started /\ Minted
  BY DEF LoginAlways
<1>2. StorageCalls' /\ Started' /\ (Login!Starting' <=> Login!Starting)
  BY <1>1, HandledCalls
<1>3. LoginHandlers'
  BY <1>1, HandledHandlers
<1>4. CallsOf(h) /\ SameFor(loginPc, loginPc', h) /\ SameFor(cred, cred', h)
  BY HandledCallsOf DEF Handled
<1>5. Minted'
  BY <1>1, <1>4, HandledMinted
<1> QED
  BY <1>2, <1>3, <1>5

\* No call that would store a credential comes or goes.
SetsKept ==
    /\ \A i \in Asked' : ops'[i].do = "set" => \E j \in Asked : ops[j] = ops'[i]
    /\ \A i \in Asked : ops[i].do = "set" => \E j \in Asked' : ops'[j] = ops[i]

\* Calls that are answered or made, none of which stores a credential.
LEMMA QueuedKeeps ==
    ASSUME NEW k \in {0, 1}, NEW e \in {0, 1, 2}, Queued(k, e), k = 1 => ops[1].do # "set",
           \A i \in 1 .. Len(ops') : i > Len(ops) - k => ops'[i].do # "set"
    PROVE  SetsKept
<1>l. Len(ops) \in Nat /\ Len(ops') \in Nat /\ Len(ops') = Len(ops) - k + e
  BY DEF Queued
<1>1. ASSUME NEW i \in 1 .. Len(ops'), ops'[i].do = "set"
      PROVE  \E j \in 1 .. Len(ops) : ops[j] = ops'[i]
  <2>1. i <= Len(ops) - k /\ i + k \in 1 .. Len(ops)
    BY <1>1, <1>l
  <2>2. ops'[i] = ops[i + k]
    BY <2>1 DEF Queued
  <2> QED
    BY <2>1, <2>2
<1>2. ASSUME NEW i \in 1 .. Len(ops), ops[i].do = "set"
      PROVE  \E j \in 1 .. Len(ops') : ops'[j] = ops[i]
  <2>1. i - k \in 1 .. (Len(ops) - k) /\ i - k \in 1 .. Len(ops')
    BY <1>2, <1>l
  <2>2. ops'[i - k] = ops[(i - k) + k]
    BY <2>1 DEF Queued
  <2>3. (i - k) + k = i
    BY <1>l
  <2> QED
    BY <2>1, <2>2, <2>3
<1> QED
  BY <1>1, <1>2 DEF SetsKept, Asked

\* A message that asks for something else than to store a credential.
LEMMA SendKeeps ==
    ASSUME ops \in Seq(Login!StorageCall), NEW h \in Contacts,
           \/ ops' = ops \o Login!Booting
           \/ \E d \in {"get", "getPending", "setPending"} :
                 ops' = ops \o Login!Booting \o <<Login!Ask(d, NoCred, h)>>
    PROVE  SetsKept
<1>c. NoCred \in Credential
  BY DEF Credential
<1>b. Login!Ask("get", NoCred, "boot").do = "get"
  BY <1>c, Asks
<1>1. CASE ops' = ops \o Login!Booting
  <2>1. CASE up
    BY <1>1, <2>1, BootsOnly DEF SetsKept, Asked
  <2>2. CASE ~up
    <3>1. Queued(0, 1) /\ ops'[Len(ops) + 1].do = "get"
      BY <1>1, <1>b, <2>2, BootsOnly
    <3>2. \A i \in 1 .. Len(ops') : i > Len(ops) - 0 => ops'[i].do # "set"
      BY <3>1 DEF Queued
    <3> QED
      BY <3>1, <3>2, QueuedKeeps
  <2> QED
    BY <2>1, <2>2
<1>2. ASSUME NEW d \in {"get", "getPending", "setPending"},
             ops' = ops \o Login!Booting \o <<Login!Ask(d, NoCred, h)>>
      PROVE  SetsKept
  <2>1. PICK x \in Login!StorageCall : x = Login!Ask(d, NoCred, h) /\ x.do = d
    BY <1>c, Asks
  <2>2. CASE up
    <3>1. Queued(0, 1) /\ ops'[Len(ops')] = x
      BY <1>2, <2>1, <2>2, Boots
    <3>2. \A i \in 1 .. Len(ops') : i > Len(ops) - 0 => ops'[i].do # "set"
      BY <2>1, <3>1 DEF Queued
    <3> QED
      BY <3>1, <3>2, QueuedKeeps
  <2>3. CASE ~up
    <3>1. Queued(0, 2) /\ ops'[Len(ops')] = x /\ ops'[Len(ops) + 1].do = "get"
      BY <1>2, <1>b, <2>1, <2>3, Boots
    <3>2. \A i \in 1 .. Len(ops') : i > Len(ops) - 0 => ops'[i].do # "set"
      BY <2>1, <3>1 DEF Queued
    <3> QED
      BY <3>1, <3>2, QueuedKeeps
  <2> QED
    BY <2>2, <2>3
<1> QED
  BY <1>1, <1>2

\* A message that changes no credential has come in.
LEMMA CameAgrees ==
    ASSUME LoginAlways, Agreeing, ~Login!Overlap', NEW h \in Contacts, SetsKept,
           NEW kind, NEW where, NEW c, Came(h, kind, where, c),
           up => (Login!Starting' <=> Login!Starting), ~up => Login!Starting',
           UNCHANGED <<mem, cache, loginStored>>, SameFor(loginUsed, loginUsed', h),
           where = "fetch" => mem # NoCred /\ loginUsed'[h] = mem
    PROVE  Agreeing'
<1>1. CASE up
  <2>1. loginPc'[h] = "fetch" => ~Login!Starting /\ loginUsed'[h] = mem
    BY DEF Agreeing, Came
  <2> QED
    BY <1>1, <2>1, QuietAgrees DEF Came, SetsKept
<1>2. CASE ~up
  <2>1. mem = NoCred /\ cache = NoCred /\ \A g \in Contacts : loginPc[g] = "idle"
    BY <1>2 DEF LoginAlways, Started
  <2>2. \A g \in Contacts : loginPc'[g] # "fetch"
    BY <2>1 DEF Came, SameFor
  <2> QED
    BY <1>2, <2>1, <2>2 DEF Agreeing
<1> QED
  BY <1>1, <1>2

-----------------------------------------------------------------------------
(* The messages, one by one.                                               *)

\* Whether the step has run beside another that uses what it changes.
Turn == loginCalm' = (loginCalm /\ ~Login!Overlap')

\* The invariant from its two halves.
LEMMA LoginParts ==
    ASSUME LoginInv, Turn, LoginAlways', Agreeing /\ ~Login!Overlap' => Agreeing'
    PROVE  LoginInv'
<1>1. loginCalm' => Agreeing /\ ~Login!Overlap'
  BY DEF Turn, LoginInv
<1> QED
  BY <1>1 DEF LoginInv, LoginAlways

\* A message that changes no credential has come in.
LEMMA QuietSend ==
    ASSUME LoginInv, Turn, NEW h \in Contacts, NEW kind \in {"status", "prefs", "start", "login"},
           NEW where \in {"stored", "fetch", "answer"}, Login!Receive(h, kind, where, NoCred),
           UNCHANGED <<mem, cache, minted, loginStored, loginPending, inFlight>>,
           loginUsed' \in [Contacts -> Credential], SameFor(loginUsed, loginUsed', h),
           where = "fetch" => kind = "prefs" /\ mem # NoCred /\ loginUsed'[h] = mem,
           \/ ops' = ops \o Login!Booting
           \/ \E d \in {"get", "getPending", "setPending"} :
                 /\ ops' = ops \o Login!Booting \o <<Login!Ask(d, NoCred, h)>>
                 /\ \A x \in Login!StorageCall :
                       x.do = d /\ x.cred = NoCred /\ x.by = h => Waits(x, h)'
    PROVE  LoginInv'
<1>a. LoginAlways
  BY DEF LoginInv, LoginAlways
<1>c. NoCred \in Credential /\ kind \in Messages /\ where \in HandlerAt
  BY DEF Credential, Messages, HandlerAt
<1>1. Came(h, kind, where, NoCred)
  BY <1>a, <1>c, Comes DEF LoginAlways
<1>2. /\ LoginHandlers' /\ StorageCalls' /\ Started' /\ Minted'
      /\ up => Handled(h) /\ (Login!Starting' <=> Login!Starting)
      /\ ~up => Login!Starting'
      /\ ops' \in Seq(Login!StorageCall)
  <2>1. kind \in Messages \ {"none"} /\ NoCred \in Typed \cup {NoCred}
    BY DEF Messages
  <2>2. \/ ops' = ops \o Login!Booting
        \/ \E d \in {"get", "set", "getPending", "setPending", "clearPending"} :
              /\ ops' = ops \o Login!Booting \o <<Login!Ask(d, NoCred, h)>>
              /\ \A x \in Login!StorageCall :
                    x.do = d /\ x.cred = NoCred /\ x.by = h => Waits(x, h)'
    OBVIOUS
  <2> QED
    BY <1>a, <1>1, <2>1, <2>2, CameSafely
<1>3. up' = TRUE /\ loginCalm' \in BOOLEAN
  BY DEF Login!Receive, Turn, LoginInv, LoginTypeOK
<1>4. LoginTypeOK'
  BY <1>1, <1>2, <1>3 DEF LoginInv, LoginTypeOK, Came
<1>5. ASSUME Agreeing, ~Login!Overlap' PROVE Agreeing'
  <2>1. SetsKept
    BY SendKeeps DEF LoginInv, LoginTypeOK
  <2> QED
    BY <1>a, <1>1, <1>2, <1>5, <2>1, CameAgrees
<1> QED
  BY <1>2, <1>4, <1>5, LoginParts DEF LoginAlways

\* Those are getStatus, getPreferences and the two of the official login.
LEMMA QuietSends ==
    ASSUME LoginInv, Turn, NEW h \in Contacts,
           \/ Login!GetStatus(h) \/ Login!GetPreferences(h)
           \/ Login!StartOfficialLogin(h) \/ Login!CompleteOfficialLogin(h)
    PROVE  LoginInv'
<1>t. LoginTypeOK
  BY DEF LoginInv
<1>u. loginUsed' = loginUsed => loginUsed' \in [Contacts -> Credential] /\ SameFor(loginUsed, loginUsed', h)
  BY <1>t DEF LoginTypeOK, SameFor
<1>1. CASE Login!GetStatus(h)
  <2>1. /\ Login!Receive(h, "status", "stored", NoCred)
        /\ ops' = ops \o Login!Booting \o <<Login!Ask("get", NoCred, h)>>
        /\ UNCHANGED <<mem, cache, minted, loginStored, loginPending, inFlight>>
        /\ loginUsed' = loginUsed
    BY <1>1 DEF Login!GetStatus, Login!client
  <2>2. \A x \in Login!StorageCall : x.do = "get" /\ x.cred = NoCred /\ x.by = h => Waits(x, h)'
    BY <1>t, <2>1 DEF Waits, Login!Receive, LoginTypeOK
  <2> QED
    BY <1>u, <2>1, <2>2, QuietSend
<1>2. CASE Login!GetPreferences(h)
  <2> DEFINE where == IF cache = NoCred /\ mem # NoCred THEN "fetch" ELSE "answer"
             v == IF cache # NoCred THEN cache ELSE mem
  <2>1. /\ Login!Receive(h, "prefs", where, NoCred)
        /\ ops' = ops \o Login!Booting
        /\ UNCHANGED <<mem, cache, minted, loginStored, loginPending, inFlight>>
        /\ loginUsed' = [loginUsed EXCEPT ![h] = v]
    BY <1>2 DEF Login!GetPreferences, Login!client
  <2>2. v \in Credential
    BY <1>t DEF LoginTypeOK
  <2>3. where \in {"fetch", "answer"} /\ (where = "fetch" => mem # NoCred /\ v = mem)
    OBVIOUS
  <2> HIDE DEF where, v
  <2>4. loginUsed' \in [Contacts -> Credential] /\ SameFor(loginUsed, loginUsed', h) /\ loginUsed'[h] = v
    BY <1>t, <2>1, <2>2, One DEF LoginTypeOK
  <2> QED
    BY <2>1, <2>3, <2>4, QuietSend
<1>3. CASE Login!StartOfficialLogin(h)
  <2>1. /\ Login!Receive(h, "start", "stored", NoCred)
        /\ ops' = ops \o Login!Booting \o <<Login!Ask("setPending", NoCred, h)>>
        /\ UNCHANGED <<mem, cache, minted, loginStored, loginPending, inFlight>>
        /\ loginUsed' = loginUsed
    BY <1>3 DEF Login!StartOfficialLogin, Login!client
  <2>2. \A x \in Login!StorageCall : x.do = "setPending" /\ x.cred = NoCred /\ x.by = h => Waits(x, h)'
    BY <1>t, <2>1 DEF Waits, Login!Receive, LoginTypeOK
  <2> QED
    BY <1>u, <2>1, <2>2, QuietSend
<1>4. CASE Login!CompleteOfficialLogin(h)
  <2>1. /\ Login!Receive(h, "login", "stored", NoCred)
        /\ ops' = ops \o Login!Booting \o <<Login!Ask("getPending", NoCred, h)>>
        /\ UNCHANGED <<mem, cache, minted, loginStored, loginPending, inFlight>>
        /\ loginUsed' = loginUsed
    BY <1>4 DEF Login!CompleteOfficialLogin, Login!client
  <2>2. \A x \in Login!StorageCall : x.do = "getPending" /\ x.cred = NoCred /\ x.by = h => Waits(x, h)'
    BY <1>t, <2>1 DEF Waits, Login!Receive, LoginTypeOK
  <2> QED
    BY <1>u, <2>1, <2>2, QuietSend
<1> QED
  BY <1>1, <1>2, <1>3, <1>4

\* A message that changes the credential has come in: it tells the memory and asks the storage.
LEMMA ChangingSend ==
    ASSUME LoginInv, Turn, NEW h \in Contacts, NEW kind \in {"configure", "disconnect"},
           NEW c \in Typed \cup {NoCred}, Login!Receive(h, kind, "stored", c),
           kind = "configure" <=> c # NoCred, mem' = c, cache' = NoCred,
           ops' = ops \o Login!Booting \o <<Login!Ask("set", c, h)>>,
           UNCHANGED <<minted, loginStored, loginPending, inFlight, loginUsed>>
    PROVE  LoginInv'
<1>a. LoginAlways
  BY DEF LoginInv, LoginAlways
<1>c. /\ NoCred \in Credential /\ c \in Credential /\ kind \in Messages \ {"none"}
      /\ "stored" \in HandlerAt
  BY DEF Credential, Messages, HandlerAt, Login!Creds
<1>1. Came(h, kind, "stored", c)
  BY <1>a, <1>c, Comes DEF LoginAlways
<1>w. \A x \in Login!StorageCall : x.do = "set" /\ x.cred = c /\ x.by = h => Waits(x, h)'
  BY <1>1 DEF Waits, Came
<1>2. /\ LoginHandlers' /\ StorageCalls' /\ Started' /\ Minted'
      /\ up => Handled(h) /\ (Login!Starting' <=> Login!Starting)
      /\ ~up => Login!Starting'
      /\ ops' \in Seq(Login!StorageCall)
  <2>1. \E d \in {"get", "set", "getPending", "setPending", "clearPending"} :
              /\ ops' = ops \o Login!Booting \o <<Login!Ask(d, c, h)>>
              /\ \A x \in Login!StorageCall :
                    x.do = d /\ x.cred = c /\ x.by = h => Waits(x, h)'
    BY <1>w
  <2> QED
    BY <1>a, <1>c, <1>1, <2>1, CameSafely
<1>3. up' = TRUE /\ loginCalm' \in BOOLEAN
  BY DEF Login!Receive, Turn, LoginInv, LoginTypeOK
<1>4. LoginTypeOK'
  BY <1>c, <1>1, <1>2, <1>3 DEF LoginInv, LoginTypeOK, Came
<1>5. ASSUME Agreeing, ~Login!Overlap' PROVE Agreeing'
  <2>1. PICK x \in Login!StorageCall : /\ x = Login!Ask("set", c, h)
                                       /\ x.do = "set" /\ x.cred = c /\ x.by = h
    BY <1>c, Asks
  <2>2. ops'[Len(ops')] = x /\ (Queued(0, 1) \/ Queued(0, 2))
    BY <1>a, <2>1, Boots DEF LoginAlways, LoginTypeOK
  <2>3. Len(ops') \in Asked'
    BY <2>2 DEF Queued, Asked
  <2>4. Login!Changing(h)' /\ loginPc'[h] # "fetch"
    BY <1>1 DEF Came, Login!Changing
  <2>5. Asking(h)'
    BY <1>3, <1>5, <2>1, <2>2, <2>3, <2>4 DEF Asking
  <2>6. Changes'
    BY ChangeAgrees, PTL
  <2> QED
    BY <1>2, <1>4, <2>5, <2>6 DEF Changes
<1> QED
  BY <1>2, <1>4, <1>5, LoginParts DEF LoginAlways

\* Those are configure and disconnect.
LEMMA ChangingSends ==
    ASSUME LoginInv, Turn, NEW h \in Contacts,
           Login!Disconnect(h) \/ \E c \in Typed : Login!Configure(h, c)
    PROVE  LoginInv'
<1>1. CASE Login!Disconnect(h)
  BY <1>1, ChangingSend DEF Login!Disconnect
<1>2. ASSUME NEW c \in Typed, Login!Configure(h, c) PROVE LoginInv'
  <2>1. c # NoCred
    BY LoginConstants
  <2> QED
    BY <1>2, <2>1, ChangingSend DEF Login!Configure
<1> QED
  BY <1>1, <1>2

\* Nothing is stored or asked at the beginning.
LEMMA InitLogin == ASSUME Login!Init PROVE LoginInv
<1>1. ops = <<>> /\ Len(ops) = 0 /\ ops \in Seq(Login!StorageCall)
  BY DEF Login!Init
<1>2. Asked = {}
  BY <1>1 DEF Asked
<1>3. LoginTypeOK
  BY <1>1 DEF Login!Init, LoginTypeOK, Credential, HandlerAt, Messages
<1>4. LoginHandlers /\ StorageCalls /\ Started /\ Minted
  BY <1>2, LoginConstants DEF Login!Init, LoginHandlers, Handler, StorageCalls, Started, Minted
<1>5. ~Login!Starting /\ ~Login!Overlap
  BY <1>1 DEF Login!Init, Login!Starting, Login!Overlap, Login!Changing
<1>6. Agreeing
  BY <1>2, <1>5 DEF Login!Init, Agreeing
<1> QED
  BY <1>3, <1>4, <1>6 DEF LoginInv

-----------------------------------------------------------------------------
(* The handlers, await by await.                                           *)

\* The handler of h goes on, nobody else's does.
Proceeds(h) ==
    /\ loginPc[h] # "idle" /\ up' = up
    /\ loginPc' \in [Contacts -> HandlerAt] /\ SameFor(loginPc, loginPc', h)
    /\ op' \in [Contacts -> Messages] /\ SameFor(op, op', h)
    /\ cred' \in [Contacts -> Credential] /\ SameFor(cred, cred', h)
    /\ loginUsed' \in [Contacts -> Credential] /\ SameFor(loginUsed, loginUsed', h)
    /\ inFlight' \in BOOLEAN /\ loginPending' \in {"none", "open", "late"}
    /\ mem' \in Credential /\ cache' \in Credential /\ loginStored' \in Credential

\* Most handlers only go to another await.
LEMMA Goes ==
    ASSUME LoginInv, NEW h \in Contacts, loginPc[h] # "idle", NEW at \in HandlerAt,
           loginPc' = [loginPc EXCEPT ![h] = at], UNCHANGED <<up, op, cred>>,
           loginUsed' \in [Contacts -> Credential], SameFor(loginUsed, loginUsed', h),
           inFlight' \in BOOLEAN, loginPending' \in {"none", "open", "late"},
           mem' \in Credential, cache' \in Credential, loginStored' \in Credential
    PROVE  Proceeds(h) /\ loginPc'[h] = at /\ op'[h] = op[h] /\ cred'[h] = cred[h]
<1>1. loginPc' \in [Contacts -> HandlerAt] /\ loginPc'[h] = at /\ SameFor(loginPc, loginPc', h)
  BY One DEF LoginInv, LoginTypeOK
<1> QED
  BY <1>1 DEF Proceeds, LoginInv, LoginTypeOK, SameFor

\* Its storage calls: k is answered, e is made.
Turns(h, k, e) ==
    /\ k \in {0, 1} /\ e \in {0, 1} /\ Queued(k, e)
    /\ k = 1 => ops[1].by = h
    /\ k = 0 => loginPc[h] \notin {"stored", "undo"}
    /\ e = 1 => \E c \in Login!StorageCall :
                   /\ ops'[Len(ops')] = c /\ c.by = h
                   /\ c.cred \in {NoCred, cred'[h]} /\ Waits(c, h)'

\* What holds whatever runs beside what, after a step of a handler.
LEMMA Proceeding ==
    ASSUME LoginInv, Turn, NEW h \in Contacts, Proceeds(h), NEW k, NEW e, Turns(h, k, e),
           Credited(h), Handler(h)',
           loginPc'[h] = "report" /\ cred'[h] \in Nat => loginStored' # cred'[h],
           \/ loginStored' \in {loginStored, NoCred}
           \/ /\ ops # <<>> /\ ops[1].do = "set" /\ ops[1].by = h
              /\ loginStored' = ops[1].cred
    PROVE  LoginAlways' /\ (Login!Starting' <=> Login!Starting) /\ up /\ up'
<1>a. LoginAlways
  BY DEF LoginInv, LoginAlways
<1>1. up /\ up'
  BY <1>a DEF LoginAlways, Started, Proceeds, LoginTypeOK
<1>2. Handled(h)
  BY DEF Turns, Handled, Proceeds
<1>3. LoginHandlers' /\ StorageCalls' /\ Started' /\ Minted' /\ (Login!Starting' <=> Login!Starting)
  BY <1>a, <1>1, <1>2, HandledSafely
<1>4. LoginTypeOK'
  <2>1. ops' \in Seq(Login!StorageCall) /\ minted' \in Nat /\ loginCalm' \in BOOLEAN
    BY DEF Turns, Queued, Credited, Turn, LoginInv, LoginTypeOK
  <2> QED
    BY <1>1, <2>1 DEF LoginTypeOK, Proceeds
<1> QED
  BY <1>1, <1>3, <1>4 DEF LoginAlways

\* A step of a handler that neither makes nor awaits a call that stores a credential.
LEMMA QuietStep ==
    ASSUME LoginInv, Turn, NEW h \in Contacts, Proceeds(h), NEW k, NEW e, Turns(h, k, e),
           Credited(h), Handler(h)',
           loginPc'[h] = "report" => cred'[h] \notin Nat,
           loginStored' = loginStored,
           k = 1 => ops[1].do # "set", e = 1 => ops'[Len(ops')].do # "set",
           Agreeing => /\ mem' = mem
                       /\ cache' \in {cache, NoCred} \/ (~Login!Starting /\ cache' = mem)
                       /\ loginPc'[h] = "fetch" => ~Login!Starting /\ loginUsed'[h] = mem
    PROVE  LoginInv'
<1>1. LoginAlways' /\ (Login!Starting' <=> Login!Starting) /\ up /\ up'
  <2>1. loginPc'[h] = "report" /\ cred'[h] \in Nat => loginStored' # cred'[h]
    BY DEF LoginInv, Minted
  <2> QED
    BY <2>1, Proceeding
<1>2. SetsKept
  <2>1. \A i \in 1 .. Len(ops') : i > Len(ops) - k => e = 1 /\ i = Len(ops')
    BY DEF Turns, Queued
  <2>2. \A i \in 1 .. Len(ops') : i > Len(ops) - k => ops'[i].do # "set"
    BY <2>1
  <2> QED
    BY <2>2, QueuedKeeps DEF Turns
<1>3. Agreeing /\ ~Login!Overlap' => Agreeing'
  BY <1>1, <1>2, QuietAgrees DEF SetsKept, Proceeds
<1> QED
  BY <1>1, <1>3, LoginParts

\* The call that the storage answers is that of a handler.
LEMMA FirstCall ==
    ASSUME LoginInv, NEW h \in Contacts, NEW do, Login!Answered(do, h)
    PROVE  /\ ops # <<>> /\ 1 \in Asked /\ ops[1].do = do /\ ops[1].by = h
           /\ Waits(ops[1], h) /\ loginPc[h] # "idle" /\ up /\ ~Login!Starting
           /\ ops' = Tail(ops) => Queued(1, 0)
<1>1. ops # <<>> /\ ops \in Seq(Login!StorageCall) /\ ops[1].do = do /\ ops[1].by = h
  BY DEF Login!Answered, LoginInv, LoginTypeOK
<1>2. 1 \in Asked
  BY <1>1 DEF Asked
<1>3. Waits(ops[1], h)
  BY <1>1, <1>2 DEF LoginInv, StorageCalls
<1>4. loginPc[h] # "idle" /\ up
  BY <1>3 DEF Waits, LoginInv, Started, LoginTypeOK
<1>5. ~Login!Starting
  <2> SUFFICES ASSUME NEW i \in 1 .. Len(ops), ops[i].by = "boot" PROVE FALSE
    BY DEF Login!Starting
  <2>1. i # 1 /\ ops[1].by # "nobody"
    BY <1>1, LoginConstants
  <2>2. 1 < i
    BY <1>1, <2>1
  <2> QED
    BY <1>2, <2>1, <2>2 DEF LoginInv, Started, Asked
<1>6. ops' = Tail(ops) => Queued(1, 0)
  BY <1>1, Popped
<1> QED
  BY <1>1, <1>2, <1>3, <1>4, <1>5, <1>6

\* A handler that creates no token.
LEMMA GoesOn ==
    ASSUME LoginInv, NEW h \in Contacts, UNCHANGED minted, cred'[h] \in {cred[h], NoCred}
    PROVE  Credited(h)
BY DEF Credited, LoginInv, LoginTypeOK

\* The profile that a status asks for is that of what is stored.
LEMMA StatusNext ==
    ASSUME LoginInv, Turn, NEW h \in Contacts, Login!StatusLoaded(h)
    PROVE  LoginInv'
<1>h. /\ ops # <<>> /\ 1 \in Asked /\ ops[1].do = "get" /\ ops[1].by = h
      /\ Waits(ops[1], h) /\ loginPc[h] # "idle" /\ up /\ ~Login!Starting
      /\ Queued(1, 0)
  BY FirstCall DEF Login!StatusLoaded
<1>o. op[h] = "status"
  BY <1>h DEF Waits
<1>t. LoginTypeOK
  BY DEF LoginInv
<1> DEFINE at == IF loginStored # NoCred /\ cache = NoCred THEN "fetch" ELSE "answer"
           v == IF loginStored = NoCred THEN NoCred ELSE IF cache # NoCred THEN cache ELSE loginStored
<1>1. /\ loginPc' = [loginPc EXCEPT ![h] = at] /\ loginUsed' = [loginUsed EXCEPT ![h] = v]
      /\ mem' = loginStored
      /\ UNCHANGED <<loginStored, loginPending, up, cache, inFlight, op, cred, minted>>
  BY DEF Login!StatusLoaded
<1>2. at \in {"fetch", "answer"} /\ v \in Credential /\ (at = "fetch" => v = loginStored)
  BY <1>t DEF LoginTypeOK, Credential
<1> HIDE DEF at, v
<1>3. loginUsed' \in [Contacts -> Credential] /\ SameFor(loginUsed, loginUsed', h) /\ loginUsed'[h] = v
  BY <1>t, <1>1, <1>2, One DEF LoginTypeOK
<1>4. Proceeds(h) /\ loginPc'[h] = at /\ op'[h] = op[h] /\ cred'[h] = cred[h]
  <2>1. at \in HandlerAt
    BY <1>2 DEF HandlerAt
  <2> QED
    BY <1>h, <1>t, <1>1, <1>3, <2>1, Goes DEF LoginTypeOK
<1>5. Turns(h, 1, 0) /\ Credited(h)
  BY <1>h, <1>1, <1>4, GoesOn DEF Turns
<1>6. Handler(h)'
  BY <1>o, <1>1, <1>2, <1>4 DEF Handler, LoginInv, LoginHandlers
<1>7. ASSUME Agreeing PROVE mem = loginStored
  <2>1. ASSUME NEW j \in Asked, ops[j].do = "set" PROVE FALSE
    <3>1. ops[j].by \in Contacts
      <4>1. ops[j].by \in Contacts \cup {"boot", "nobody"}
        BY <1>t, CallFields DEF LoginTypeOK
      <4>2. ops[j].by # "boot"
        BY <2>1 DEF LoginInv, StorageCalls
      <4>3. ops[j].by # "nobody"
        BY <1>h DEF LoginInv, Started
      <4> QED
        BY <4>1, <4>2, <4>3
    <3>2. Login!Changing(ops[j].by)
      BY <2>1, <3>1, WhoOverlaps DEF LoginInv
    <3>3. Login!Using(h) /\ ops[j].by # h
      BY <1>h, <1>o, <3>2 DEF Login!Using, Login!Changing
    <3> QED
      BY <1>7, <3>1, <3>2, <3>3 DEF Agreeing, Login!Overlap
  <2> QED
    BY <1>7, <1>h, <2>1 DEF Agreeing
<1> QED
  BY <1>h, <1>1, <1>2, <1>3, <1>4, <1>5, <1>6, <1>7, QuietStep

\* A credential is stored: its profile is fetched, or the login is undone when the memory
\* has lost it.
LEMMA ConfigStoredNext ==
    ASSUME LoginInv, Turn, NEW h \in Contacts, Login!ConfigStored(h)
    PROVE  LoginInv'
<1>h. /\ ops # <<>> /\ 1 \in Asked /\ ops[1].do = "set" /\ ops[1].by = h
      /\ Waits(ops[1], h) /\ loginPc[h] = "stored" /\ up /\ ~Login!Starting
      /\ ops' = Tail(ops) => Queued(1, 0)
  BY FirstCall DEF Login!ConfigStored
<1>t. LoginTypeOK /\ ops[1].cred \in Credential
  BY <1>h, CallFields DEF LoginInv, LoginTypeOK
<1>o. op[h] \in {"configure", "login"} /\ cred[h] # NoCred /\ ops[1].cred = cred[h]
  BY <1>h DEF Waits, Login!ConfigStored, LoginInv, LoginHandlers, Handler
<1>1. /\ loginStored' = ops[1].cred /\ loginUsed' = [loginUsed EXCEPT ![h] = mem]
      /\ UNCHANGED <<loginPending, up, inFlight, op, cred, minted>>
  BY DEF Login!ConfigStored
<1>3. loginUsed' \in [Contacts -> Credential] /\ SameFor(loginUsed, loginUsed', h) /\ loginUsed'[h] = mem
  BY <1>t, <1>1, One DEF LoginTypeOK
<1>4. CASE mem = NoCred /\ op[h] = "login"
  <2>1. /\ mem' = NoCred /\ cache' = NoCred /\ loginPc' = [loginPc EXCEPT ![h] = "undo"]
        /\ ops' = Append(Tail(ops), Login!Ask("set", NoCred, h))
    BY <1>h, <1>4 DEF Login!ConfigStored, Login!Undo
  <2>2. "undo" \in HandlerAt /\ NoCred \in Credential
    BY DEF HandlerAt, Credential
  <2>3. Proceeds(h) /\ loginPc'[h] = "undo" /\ op'[h] = op[h] /\ cred'[h] = cred[h]
    BY <1>h, <1>t, <1>1, <1>3, <2>1, <2>2, Goes DEF LoginTypeOK
  <2>4. PICK x \in Login!StorageCall : /\ x = Login!Ask("set", NoCred, h)
                                       /\ x.do = "set" /\ x.cred = NoCred /\ x.by = h
    BY <2>2, Asks
  <2>5. Queued(1, 1) /\ ops'[Len(ops')] = x
    BY <1>h, <1>t, <2>1, <2>4, PoppedPushed DEF LoginTypeOK
  <2>6. Waits(x, h)'
    BY <1>4, <2>3, <2>4 DEF Waits
  <2>7. Turns(h, 1, 1) /\ Credited(h)
    BY <1>h, <1>1, <2>3, <2>4, <2>5, <2>6, GoesOn DEF Turns
  <2>8. Handler(h)'
    BY <1>o, <1>4, <1>1, <2>3 DEF Handler, LoginInv, LoginHandlers
  <2>9. LoginAlways' /\ up /\ up'
    BY <1>h, <1>1, <2>3, <2>7, <2>8, Proceeding
  <2>10. ASSUME ~Login!Overlap' PROVE Agreeing'
    <3>1. Len(ops') \in Asked'
      BY <2>5 DEF Queued, Asked
    <3>2. Login!Changing(h)' /\ loginPc'[h] # "fetch"
      BY <1>4, <2>3 DEF Login!Changing
    <3>3. Asking(h)'
      BY <2>1, <2>4, <2>5, <2>9, <2>10, <3>1, <3>2 DEF Asking
    <3>4. Changes'
      BY ChangeAgrees, PTL
    <3> QED
      BY <2>9, <3>3, <3>4 DEF Changes, LoginAlways
  <2> QED
    BY <2>9, <2>10, LoginParts
<1>5. CASE ~(mem = NoCred /\ op[h] = "login")
  <2> DEFINE at == IF mem # NoCred THEN "fetch" ELSE "answer"
  <2>1. /\ mem' = mem /\ cache' = cache /\ loginPc' = [loginPc EXCEPT ![h] = at]
        /\ ops' = Tail(ops)
    BY <1>5 DEF Login!ConfigStored, Login!client
  <2>2. at \in {"fetch", "answer"}
    OBVIOUS
  <2> HIDE DEF at
  <2>3. Proceeds(h) /\ loginPc'[h] = at /\ op'[h] = op[h] /\ cred'[h] = cred[h]
    <3>1. at \in HandlerAt
      BY <2>2 DEF HandlerAt
    <3> QED
      BY <1>h, <1>t, <1>1, <1>3, <2>1, <3>1, Goes DEF LoginTypeOK
  <2>4. Turns(h, 1, 0) /\ Credited(h)
    BY <1>h, <1>1, <2>1, <2>3, GoesOn DEF Turns
  <2>5. Handler(h)'
    BY <1>o, <1>1, <2>2, <2>3 DEF Handler, LoginInv, LoginHandlers
  <2>6. LoginAlways' /\ (Login!Starting' <=> Login!Starting) /\ up /\ up'
    BY <1>h, <1>1, <2>2, <2>3, <2>4, <2>5, Proceeding
  <2>7. Agreeing /\ ~Login!Overlap' => Agreeing'
    BY <1>h, <1>1, <1>3, <2>1, <2>3, <2>6, StoredAgrees DEF LoginInv, Proceeds
  <2> QED
    BY <2>6, <2>7, LoginParts
<1> QED
  BY <1>4, <1>5

\* A credential is removed, by the user or by a login that fails.
LEMMA ConfigRemovedNext ==
    ASSUME LoginInv, Turn, NEW h \in Contacts, Login!ConfigRemoved(h)
    PROVE  LoginInv'
<1>h. /\ ops # <<>> /\ 1 \in Asked /\ ops[1].do = "set" /\ ops[1].by = h
      /\ Waits(ops[1], h) /\ loginPc[h] # "idle" /\ up /\ ~Login!Starting
      /\ Queued(1, 0)
  BY FirstCall DEF Login!ConfigRemoved
<1>t. LoginTypeOK
  BY DEF LoginInv
<1>o. /\ ops[1].cred = NoCred
      /\ op[h] = "disconnect" \/ op[h] = "login"
  BY <1>h DEF Waits, Login!ConfigRemoved
<1> DEFINE at == IF op[h] = "login" THEN "report" ELSE "answer"
<1>1. /\ loginStored' = NoCred /\ loginPc' = [loginPc EXCEPT ![h] = at]
      /\ UNCHANGED <<loginPending, up, mem, cache, inFlight, op, cred, loginUsed, minted>>
  BY DEF Login!ConfigRemoved, Login!worker, Login!client
<1>2. at \in {"report", "answer"} /\ (at = "report" => op[h] = "login")
  OBVIOUS
<1> HIDE DEF at
<1>3. Proceeds(h) /\ loginPc'[h] = at /\ op'[h] = op[h] /\ cred'[h] = cred[h]
  <2>1. at \in HandlerAt /\ NoCred \in Credential
    BY <1>2 DEF HandlerAt, Credential
  <2>2. loginUsed' \in [Contacts -> Credential] /\ SameFor(loginUsed, loginUsed', h)
    BY <1>t, <1>1 DEF LoginTypeOK, SameFor
  <2> QED
    BY <1>h, <1>t, <1>1, <2>1, <2>2, Goes DEF LoginTypeOK
<1>4. Turns(h, 1, 0) /\ Credited(h)
  BY <1>h, <1>1, <1>3, GoesOn DEF Turns
<1>5. Handler(h)'
  BY <1>o, <1>1, <1>2, <1>3 DEF Handler, LoginInv, LoginHandlers
<1>6. LoginAlways' /\ (Login!Starting' <=> Login!Starting) /\ up /\ up'
  BY <1>h, <1>1, <1>3, <1>4, <1>5, LoginConstants, Proceeding
<1>7. Agreeing /\ ~Login!Overlap' => Agreeing'
  <2>1. SameFor(loginUsed, loginUsed', h) /\ SameFor(loginPc, loginPc', h) /\ loginPc'[h] # "fetch"
    BY <1>2, <1>3 DEF Proceeds
  <2> QED
    BY <1>h, <1>o, <1>1, <1>6, <2>1, StoredAgrees DEF LoginInv
<1> QED
  BY <1>6, <1>7, LoginParts

\* What the storage answers about the mark that a login is pending.
LEMMA PendingNext ==
    ASSUME LoginInv, Turn, NEW h \in Contacts,
           \/ Login!PendingStored(h) \/ Login!LoginIgnored(h)
           \/ Login!LoginBegins(h) \/ Login!PendingCleared(h)
    PROVE  LoginInv'
<1>t. LoginTypeOK /\ Handler(h)
  BY DEF LoginInv, LoginHandlers
<1>h. /\ ops # <<>> /\ 1 \in Asked /\ ops[1].do # "set" /\ ops[1].by = h
      /\ Waits(ops[1], h) /\ loginPc[h] # "idle" /\ up /\ ~Login!Starting
      /\ Queued(1, 0)
  BY FirstCall DEF Login!PendingStored, Login!LoginIgnored, Login!LoginBegins,
     Login!PendingCleared
<1>1. PICK at \in {"answer", "mint", "tell"} :
         /\ loginPc' = [loginPc EXCEPT ![h] = at]
         /\ at = "mint" => ops[1].do = "getPending"
         /\ at = "tell" => ops[1].do = "clearPending"
         /\ inFlight' \in BOOLEAN /\ loginPending' \in {"none", "open", "late"}
         /\ UNCHANGED <<loginStored, up, mem, cache, op, cred, loginUsed, minted>>
  <2>1. CASE Login!PendingStored(h)
    BY <1>t, <2>1 DEF Login!PendingStored, Login!worker, Login!client, LoginTypeOK
  <2>2. CASE Login!LoginIgnored(h)
    BY <1>t, <2>2 DEF Login!LoginIgnored, Login!worker, Login!client, LoginTypeOK
  <2>3. CASE Login!LoginBegins(h)
    BY <1>t, <2>3 DEF Login!LoginBegins, Login!Answered, Login!client, LoginTypeOK
  <2>4. CASE Login!PendingCleared(h)
    <3>1. loginPc' = [loginPc EXCEPT ![h] = IF cred[h] = NoCred THEN "answer" ELSE "tell"]
      BY <2>4 DEF Login!PendingCleared
    <3>2. \E a \in {"answer", "tell"} : loginPc' = [loginPc EXCEPT ![h] = a]
      BY <3>1
    <3> QED
      BY <1>t, <2>4, <3>2 DEF Login!PendingCleared, Login!Answered, Login!worker, Login!client,
         LoginTypeOK
  <2> QED
    BY <2>1, <2>2, <2>3, <2>4
<1>2. loginUsed' \in [Contacts -> Credential] /\ SameFor(loginUsed, loginUsed', h)
  BY <1>t, <1>1 DEF LoginTypeOK, SameFor
<1>3. Proceeds(h) /\ loginPc'[h] = at /\ op'[h] = op[h] /\ cred'[h] = cred[h]
  <2>1. at \in HandlerAt
    BY DEF HandlerAt
  <2> QED
    BY <1>h, <1>t, <1>1, <1>2, <2>1, Goes DEF LoginTypeOK
<1>4. Turns(h, 1, 0) /\ Credited(h)
  BY <1>h, <1>1, <1>3, GoesOn DEF Turns
<1>5. Handler(h)'
  <2>1. /\ at = "mint" => op[h] = "login" /\ cred[h] = NoCred
        /\ at = "tell" => op[h] = "login"
    BY <1>h, <1>1 DEF Waits
  <2> QED
    BY <1>t, <1>1, <1>3, <2>1 DEF Handler
<1> QED
  BY <1>h, <1>1, <1>2, <1>3, <1>4, <1>5, QuietStep

\* A login that is completed after 15 minutes.
LEMMA TooLateNext ==
    ASSUME LoginInv, Turn, NEW h \in Contacts, Login!LoginTooLate(h)
    PROVE  LoginInv'
<1>t. LoginTypeOK /\ Handler(h)
  BY DEF LoginInv, LoginHandlers
<1>h. /\ ops # <<>> /\ 1 \in Asked /\ ops[1].do = "getPending" /\ ops[1].by = h
      /\ Waits(ops[1], h) /\ loginPc[h] # "idle" /\ up /\ ~Login!Starting
  BY FirstCall DEF Login!LoginTooLate
<1>1. /\ ops' = Append(Tail(ops), Login!Ask("clearPending", NoCred, h))
      /\ UNCHANGED <<loginStored, loginPending, up, mem, cache, inFlight, loginPc, op, cred,
                     loginUsed, minted>>
  BY DEF Login!LoginTooLate, Login!worker, Login!client, Login!calls
<1>2. op[h] = "login" /\ loginPc[h] = "stored"
  BY <1>h DEF Waits
<1>3. Proceeds(h)
  BY <1>h, <1>t, <1>1 DEF Proceeds, LoginTypeOK, SameFor
<1>4. PICK x \in Login!StorageCall : /\ x = Login!Ask("clearPending", NoCred, h)
                                     /\ x.do = "clearPending" /\ x.cred = NoCred /\ x.by = h
  BY Asks DEF Credential
<1>5. Queued(1, 1) /\ ops'[Len(ops')] = x
  BY <1>h, <1>t, <1>1, <1>4, PoppedPushed DEF LoginTypeOK
<1>6. Turns(h, 1, 1) /\ Credited(h)
  BY <1>h, <1>1, <1>2, <1>4, <1>5, GoesOn DEF Turns, Waits
<1>7. Handler(h)'
  BY <1>t, <1>1 DEF Handler
<1> QED
  BY <1>h, <1>1, <1>2, <1>3, <1>4, <1>5, <1>6, <1>7, QuietStep

\* The token of a login is configured at once.
LEMMA TokenNext ==
    ASSUME LoginInv, Turn, NEW h \in Contacts, Login!TokenCreated(h)
    PROVE  LoginInv'
<1>t. LoginTypeOK /\ Handler(h) /\ minted \in Nat
  BY DEF LoginInv, LoginHandlers, LoginTypeOK
<1>1. /\ loginPc[h] = "mint" /\ minted' = minted + 1
      /\ cred' = [cred EXCEPT ![h] = minted + 1] /\ mem' = minted + 1 /\ cache' = NoCred
      /\ ops' = Append(ops, Login!Ask("set", minted + 1, h))
      /\ loginPc' = [loginPc EXCEPT ![h] = "stored"]
      /\ UNCHANGED <<loginStored, loginPending, up, inFlight, op, loginUsed>>
  BY DEF Login!TokenCreated
<1>c. minted + 1 \in Credential /\ minted + 1 \in Nat /\ minted + 1 # NoCred /\ NoCred \in Credential
  BY <1>t, LoginConstants DEF Credential, Login!Creds
<1>2. op[h] = "login"
  BY <1>t, <1>1 DEF Handler
<1>3. /\ cred' \in [Contacts -> Credential] /\ cred'[h] = minted + 1 /\ SameFor(cred, cred', h)
      /\ loginPc' \in [Contacts -> HandlerAt] /\ loginPc'[h] = "stored"
      /\ SameFor(loginPc, loginPc', h)
  <2>1. cred' \in [Contacts -> Credential] /\ cred'[h] = minted + 1 /\ SameFor(cred, cred', h)
    <3>1. PICK n \in Credential : n = minted + 1
      BY <1>c
    <3>2. cred' = [cred EXCEPT ![h] = n]
      BY <1>1, <3>1
    <3>3. cred' \in [Contacts -> Credential] /\ cred'[h] = n /\ SameFor(cred, cred', h)
      BY <1>t, <3>2, One DEF LoginTypeOK
    <3> QED
      BY <3>1, <3>3
  <2>2. "stored" \in HandlerAt
    BY DEF HandlerAt
  <2> QED
    BY <1>t, <1>1, <2>1, <2>2, One DEF LoginTypeOK
<1>4. Proceeds(h)
  BY <1>t, <1>1, <1>c, <1>3 DEF Proceeds, LoginTypeOK, SameFor
<1>5. PICK x \in Login!StorageCall : /\ x = Login!Ask("set", minted + 1, h)
                                     /\ x.do = "set" /\ x.cred = minted + 1 /\ x.by = h
  BY <1>c, Asks
<1>6. Queued(0, 1) /\ ops'[Len(ops')] = x
  BY <1>t, <1>1, <1>5, Pushed DEF LoginTypeOK
<1>7. Waits(x, h)'
  BY <1>1, <1>2, <1>3, <1>5, <1>c DEF Waits
<1>8. Turns(h, 0, 1)
  BY <1>1, <1>3, <1>5, <1>6, <1>7 DEF Turns
<1>9. Credited(h)
  BY <1>t, <1>1, <1>3 DEF Credited
<1>10. Handler(h)'
  BY <1>t, <1>1, <1>2, <1>3 DEF Handler
<1>11. LoginAlways' /\ up /\ up'
  BY <1>1, <1>3, <1>4, <1>8, <1>9, <1>10, Proceeding
<1>12. ASSUME ~Login!Overlap' PROVE Agreeing'
  <2>1. Len(ops') \in Asked'
    BY <1>6 DEF Queued, Asked
  <2>2. Login!Changing(h)' /\ loginPc'[h] # "fetch"
    BY <1>1, <1>2, <1>3, <1>c DEF Login!Changing
  <2>3. Asking(h)'
    BY <1>1, <1>5, <1>6, <1>11, <1>12, <2>1, <2>2 DEF Asking
  <2>4. Changes'
    BY ChangeAgrees, PTL
  <2> QED
    BY <1>11, <2>3, <2>4 DEF Changes, LoginAlways
<1> QED
  BY <1>11, <1>12, LoginParts

\* The hub creates no token, or its answer is lost.
LEMMA TokenFailsNext ==
    ASSUME LoginInv, Turn, NEW h \in Contacts, Login!TokenFails(h)
    PROVE  LoginInv'
<1>t. LoginTypeOK /\ Handler(h) /\ minted \in Nat
  BY DEF LoginInv, LoginHandlers, LoginTypeOK
<1>1. /\ loginPc[h] = "mint" /\ minted' \in Nat /\ minted <= minted'
      /\ loginPc' = [loginPc EXCEPT ![h] = "report"]
      /\ UNCHANGED <<loginStored, loginPending, ops, up, mem, cache, inFlight, op, cred, loginUsed>>
  BY <1>t DEF Login!TokenFails, Login!disk, Login!worker, Login!client
<1>2. op[h] = "login" /\ cred[h] = NoCred
  BY <1>t, <1>1 DEF Handler
<1>3. Proceeds(h) /\ loginPc'[h] = "report" /\ op'[h] = op[h] /\ cred'[h] = cred[h]
  <2>1. "report" \in HandlerAt
    BY DEF HandlerAt
  <2>2. loginUsed' \in [Contacts -> Credential] /\ SameFor(loginUsed, loginUsed', h)
    BY <1>t, <1>1 DEF LoginTypeOK, SameFor
  <2> QED
    BY <1>t, <1>1, <2>1, <2>2, Goes DEF LoginTypeOK
<1>4. Turns(h, 0, 0) /\ Credited(h)
  BY <1>t, <1>1, <1>2, <1>3, Kept DEF Turns, Credited, LoginTypeOK
<1>5. Handler(h)'
  BY <1>2, <1>3 DEF Handler
<1> QED
  BY <1>1, <1>2, <1>3, <1>4, <1>5, LoginConstants, QuietStep

\* The profile has been fetched.
LEMMA ProfileFetchedNext ==
    ASSUME LoginInv, Turn, NEW h \in Contacts, Login!ProfileFetched(h)
    PROVE  LoginInv'
<1>t. LoginTypeOK /\ Handler(h)
  BY DEF LoginInv, LoginHandlers
<1> DEFINE at == IF op[h] = "login" THEN "stored" ELSE "answer"
<1>1. /\ loginPc[h] = "fetch" /\ cache' = loginUsed[h]
      /\ loginPc' = [loginPc EXCEPT ![h] = at]
      /\ op[h] = "login" => ops' = Append(ops, Login!Ask("clearPending", NoCred, h))
      /\ op[h] # "login" => ops' = ops
      /\ UNCHANGED <<loginStored, loginPending, up, mem, inFlight, op, cred, loginUsed, minted>>
  BY DEF Login!ProfileFetched
<1>2. at \in {"stored", "answer"} /\ (at = "stored" => op[h] = "login")
      /\ (op[h] = "login" => at = "stored")
  OBVIOUS
<1> HIDE DEF at
<1>3. Proceeds(h) /\ loginPc'[h] = at /\ op'[h] = op[h] /\ cred'[h] = cred[h]
  <2>1. at \in HandlerAt
    BY <1>2 DEF HandlerAt
  <2>2. loginUsed' \in [Contacts -> Credential] /\ SameFor(loginUsed, loginUsed', h)
        /\ cache' \in Credential
    BY <1>t, <1>1 DEF LoginTypeOK, SameFor
  <2> QED
    BY <1>t, <1>1, <2>1, <2>2, Goes DEF LoginTypeOK
<1>4. Credited(h)
  BY <1>1, <1>3, GoesOn
<1>5. Handler(h)'
  BY <1>t, <1>1, <1>2, <1>3 DEF Handler
<1>6. Agreeing => ~Login!Starting /\ cache' = mem
  BY <1>1 DEF Agreeing
<1>7. CASE op[h] = "login"
  <2>1. PICK x \in Login!StorageCall : /\ x = Login!Ask("clearPending", NoCred, h)
                                       /\ x.do = "clearPending" /\ x.cred = NoCred /\ x.by = h
    BY Asks DEF Credential
  <2>2. Queued(0, 1) /\ ops'[Len(ops')] = x
    BY <1>t, <1>1, <1>7, <2>1, Pushed DEF LoginTypeOK
  <2>3. Waits(x, h)'
    BY <1>2, <1>3, <1>7, <2>1 DEF Waits
  <2>4. Turns(h, 0, 1)
    BY <1>1, <2>1, <2>2, <2>3 DEF Turns
  <2> QED
    BY <1>1, <1>2, <1>3, <1>4, <1>5, <1>6, <2>1, <2>2, <2>4, QuietStep
<1>8. CASE op[h] # "login"
  <2>1. Turns(h, 0, 0)
    BY <1>t, <1>1, <1>8, Kept DEF Turns, LoginTypeOK
  <2> QED
    BY <1>1, <1>2, <1>3, <1>4, <1>5, <1>6, <2>1, QuietStep
<1> QED
  BY <1>7, <1>8

\* It has not: a login is undone, everything else answers.
LEMMA ProfileFailsNext ==
    ASSUME LoginInv, Turn, NEW h \in Contacts, Login!ProfileFails(h)
    PROVE  LoginInv'
<1>t. LoginTypeOK /\ Handler(h)
  BY DEF LoginInv, LoginHandlers
<1>1. /\ loginPc[h] = "fetch" /\ loginUsed' = [loginUsed EXCEPT ![h] = NoCred]
      /\ UNCHANGED <<loginStored, loginPending, up, inFlight, op, cred, minted>>
  BY DEF Login!ProfileFails
<1>c. NoCred \in Credential
  BY DEF Credential
<1>3. loginUsed' \in [Contacts -> Credential] /\ SameFor(loginUsed, loginUsed', h)
  BY <1>t, <1>1, <1>c, One DEF LoginTypeOK
<1>4. CASE op[h] = "login"
  <2>1. /\ mem' = NoCred /\ cache' = NoCred /\ loginPc' = [loginPc EXCEPT ![h] = "undo"]
        /\ ops' = Append(ops, Login!Ask("set", NoCred, h))
    BY <1>1, <1>4 DEF Login!ProfileFails, Login!Undo
  <2>2. "undo" \in HandlerAt
    BY DEF HandlerAt
  <2>3. Proceeds(h) /\ loginPc'[h] = "undo" /\ op'[h] = op[h] /\ cred'[h] = cred[h]
    BY <1>t, <1>c, <1>1, <1>3, <2>1, <2>2, Goes DEF LoginTypeOK
  <2>4. PICK x \in Login!StorageCall : /\ x = Login!Ask("set", NoCred, h)
                                       /\ x.do = "set" /\ x.cred = NoCred /\ x.by = h
    BY <1>c, Asks
  <2>5. Queued(0, 1) /\ ops'[Len(ops')] = x
    BY <1>t, <2>1, <2>4, Pushed DEF LoginTypeOK
  <2>6. Waits(x, h)'
    BY <1>4, <2>3, <2>4 DEF Waits
  <2>7. Turns(h, 0, 1) /\ Credited(h)
    BY <1>1, <2>3, <2>4, <2>5, <2>6, GoesOn DEF Turns
  <2>8. Handler(h)'
    BY <1>t, <1>1, <1>4, <2>3 DEF Handler
  <2>9. LoginAlways' /\ up /\ up'
    BY <1>1, <2>3, <2>7, <2>8, Proceeding
  <2>10. ASSUME ~Login!Overlap' PROVE Agreeing'
    <3>1. Len(ops') \in Asked'
      BY <2>5 DEF Queued, Asked
    <3>2. Login!Changing(h)' /\ loginPc'[h] # "fetch"
      BY <1>4, <2>3 DEF Login!Changing
    <3>3. Asking(h)'
      BY <2>1, <2>4, <2>5, <2>9, <2>10, <3>1, <3>2 DEF Asking
    <3>4. Changes'
      BY ChangeAgrees, PTL
    <3> QED
      BY <2>9, <3>3, <3>4 DEF Changes, LoginAlways
  <2> QED
    BY <2>9, <2>10, LoginParts
<1>5. CASE op[h] # "login"
  <2>1. UNCHANGED <<mem, cache, ops>> /\ loginPc' = [loginPc EXCEPT ![h] = "answer"]
    BY <1>5 DEF Login!ProfileFails, Login!client
  <2>2. "answer" \in HandlerAt
    BY DEF HandlerAt
  <2>3. Proceeds(h) /\ loginPc'[h] = "answer" /\ op'[h] = op[h] /\ cred'[h] = cred[h]
    BY <1>t, <1>1, <1>3, <2>1, <2>2, Goes DEF LoginTypeOK
  <2>4. Turns(h, 0, 0) /\ Credited(h)
    BY <1>t, <1>1, <2>1, <2>3, Kept, GoesOn DEF Turns, LoginTypeOK
  <2>5. Handler(h)'
    BY <1>t, <1>1, <2>3 DEF Handler
  <2> QED
    BY <1>1, <1>3, <2>1, <2>3, <2>4, <2>5, QuietStep
<1> QED
  BY <1>4, <1>5

\* The handler is through.
LEMMA AnswerNext ==
    ASSUME LoginInv, Turn, NEW h \in Contacts, Login!Answer(h) \/ Login!LoginReturns(h)
    PROVE  LoginInv'
<1>t. LoginTypeOK
  BY DEF LoginInv
<1>1. /\ loginPc[h] \in {"answer", "tell", "report"} /\ Login!Reset(h) /\ inFlight' \in BOOLEAN
      /\ UNCHANGED <<loginStored, loginPending, ops, up, mem, cache, minted>>
  BY <1>t DEF Login!Answer, Login!LoginReturns, Login!disk, Login!worker, Login!client,
     LoginTypeOK
<1>c. NoCred \in Credential /\ "idle" \in HandlerAt /\ "none" \in Messages
  BY DEF Credential, HandlerAt, Messages
<1>2. /\ loginPc' \in [Contacts -> HandlerAt] /\ loginPc'[h] = "idle" /\ SameFor(loginPc, loginPc', h)
      /\ op' \in [Contacts -> Messages] /\ op'[h] = "none" /\ SameFor(op, op', h)
  BY <1>t, <1>1, <1>c, One DEF LoginTypeOK, Login!Reset
<1>3. /\ cred' \in [Contacts -> Credential] /\ cred'[h] = NoCred /\ SameFor(cred, cred', h)
      /\ loginUsed' \in [Contacts -> Credential] /\ SameFor(loginUsed, loginUsed', h)
  BY <1>t, <1>1, <1>c, One DEF LoginTypeOK, Login!Reset
<1>4. Proceeds(h)
  BY <1>t, <1>1, <1>2, <1>3 DEF Proceeds, LoginTypeOK
<1>5. Turns(h, 0, 0) /\ Credited(h)
  BY <1>t, <1>1, <1>3, Kept, GoesOn DEF Turns, LoginTypeOK
<1>6. Handler(h)'
  BY <1>2, <1>3 DEF Handler
<1> QED
  BY <1>1, <1>2, <1>4, <1>5, <1>6, QuietStep

\* Whatever a handler does, the invariant stays.
LEMMA ResumeNext ==
    ASSUME LoginInv, Turn, NEW h \in Contacts, Login!Resume(h)
    PROVE  LoginInv'
BY StatusNext, ConfigStoredNext, ConfigRemovedNext, PendingNext, TooLateNext, TokenNext,
   TokenFailsNext, ProfileFetchedNext, ProfileFailsNext, AnswerNext
   DEF Login!Resume

\* Whatever message comes in, the invariant stays.
LEMMA SendNext ==
    ASSUME LoginInv, Turn, NEW h \in Contacts, Login!Send(h)
    PROVE  LoginInv'
BY QuietSends, ChangingSends DEF Login!Send

-----------------------------------------------------------------------------
(* The worker is started and stopped, and time passes.                     *)

\* A step in which no handler goes on.
Rests ==
    /\ UNCHANGED <<up, loginPc, op, cred, loginUsed, minted>> /\ cache' \in {cache, NoCred}
    /\ mem' \in Credential /\ loginStored' \in Credential /\ inFlight' \in BOOLEAN
    /\ loginPending' \in {"none", "open", "late"}

\* What is asked for stays in its order.
LEMMA RestCalls ==
    ASSUME LoginInv, Turn, Rests, NEW k \in {0, 1}, Queued(k, 0),
           k = 1 => ops[1].by \notin Contacts,
           ~up => mem' = mem,
           up /\ (\E i \in Asked : ops[i].by = "nobody") /\ k = 1 => ops[1].by = "nobody",
           \A h \in Contacts : cred[h] \in Nat /\ loginPc[h] = "report" => loginStored' # cred[h]
    PROVE  LoginAlways'
<1>t. LoginTypeOK /\ LoginHandlers /\ StorageCalls /\ Started /\ Minted
  BY DEF LoginInv
<1>1. \A i \in 1 .. Len(ops') : i + k \in 1 .. Len(ops) /\ ops'[i] = ops[i + k]
  BY DEF Queued
<1>2. LoginTypeOK'
  BY <1>t DEF Rests, Queued, Turn, LoginTypeOK, Credential
<1>3. LoginHandlers'
  BY <1>t DEF Rests, LoginHandlers, Handler
<1>4. StorageCalls'
  <2>1. \A i \in 1 .. Len(ops') : \A c : c = ops'[i]
           => (c.by \in Contacts => Waits(c, c.by)') /\ (c.by = "boot" => c.do = "get")
    BY <1>t, <1>1 DEF Rests, StorageCalls, Asked, Waits
  <2>2. \A i, j \in 1 .. Len(ops') : ops'[i].by \in Contacts /\ ops'[i].by = ops'[j].by => i = j
    <3> SUFFICES ASSUME NEW i \in 1 .. Len(ops'), NEW j \in 1 .. Len(ops'),
                        ops'[i].by \in Contacts, ops'[i].by = ops'[j].by
                 PROVE  i = j
      OBVIOUS
    <3>1. i + k = j + k
      BY <1>t, <1>1 DEF StorageCalls, Asked
    <3> QED
      BY <3>1
  <2> QED
    BY <2>1, <2>2 DEF StorageCalls, Asked, Waits
<1>5. Started'
  <2>1. \A i, j \in 1 .. Len(ops') : ops'[i].by = "boot" => (j < i <=> ops'[j].by = "nobody")
    <3> SUFFICES ASSUME NEW i \in 1 .. Len(ops'), NEW j \in 1 .. Len(ops'), ops'[i].by = "boot"
                 PROVE  j < i <=> ops'[j].by = "nobody"
      OBVIOUS
    <3>1. j + k < i + k <=> ops[j + k].by = "nobody"
      BY <1>t, <1>1 DEF Started, Asked
    <3> QED
      BY <1>1, <3>1
  <2>2. ASSUME up, NEW j \in 1 .. Len(ops'), ops'[j].by = "nobody"
        PROVE  \E i \in 1 .. Len(ops') : ops'[i].by = "boot"
    <3>1. j + k \in 1 .. Len(ops) /\ ops[j + k].by = "nobody"
      BY <1>1, <2>2
    <3>2. PICK i \in 1 .. Len(ops) : ops[i].by = "boot"
      BY <1>t, <2>2, <3>1 DEF Started, Asked, Login!Starting
    <3>3. i > k /\ i - k \in 1 .. Len(ops')
      <4>1. k = 1 => i # 1
        BY <2>2, <3>1, <3>2 DEF Asked
      <4> QED
        BY <3>2, <4>1 DEF Queued
    <3>4. ops'[i - k] = ops[(i - k) + k] /\ (i - k) + k = i
      BY <1>1, <3>3
    <3> QED
      BY <3>2, <3>3, <3>4
  <2>3. (\E i \in 1 .. Len(ops') : ops'[i].by = "nobody") /\ up => Login!Starting'
    BY <2>2 DEF Login!Starting
  <2>4. ~up => \A i \in 1 .. Len(ops') : ops'[i].by = "nobody"
    BY <1>t, <1>1 DEF Started, Asked
  <2> QED
    BY <1>t, <2>1, <2>3, <2>4 DEF Started, Asked, Rests
<1>6. Minted'
  <2>1. \A i \in 1 .. Len(ops') : ops'[i].cred \in Nat => ops'[i].cred <= minted
    BY <1>t, <1>1 DEF Minted, Asked
  <2>2. ASSUME NEW h \in Contacts, cred[h] \in Nat
        PROVE  \A i \in 1 .. Len(ops') : ops'[i].do = "set" /\ ops'[i].cred = cred[h] => ops'[i].by = h
    BY <1>t, <1>1, <2>2 DEF Minted, Asked
  <2>3. \A g, h \in Contacts : cred[h] \in Nat /\ cred[g] = cred[h] => g = h
    BY <1>t DEF Minted
  <2> QED
    BY <2>1, <2>2, <2>3 DEF Minted, Asked, Rests
<1> QED
  BY <1>2, <1>3, <1>4, <1>5, <1>6 DEF LoginAlways

\* The script that has started learns what is stored.
LEMMA BootNext ==
    ASSUME LoginInv, Turn, Login!BootLoaded
    PROVE  LoginInv'
<1>t. LoginTypeOK /\ StorageCalls /\ Started
  BY DEF LoginInv
<1>1. /\ ops # <<>> /\ ops[1].do = "get" /\ ops[1].by = "boot" /\ ops' = Tail(ops) /\ mem' = loginStored
      /\ UNCHANGED <<loginStored, loginPending, up, cache, inFlight, loginPc, op, cred, loginUsed, minted>>
  BY DEF Login!BootLoaded, Login!Answered, Login!calls
<1>n. "boot" \notin Contacts /\ "nobody" \notin Contacts
  BY LoginConstants
<1>2. Queued(1, 0) /\ 1 \in Asked
  BY <1>t, <1>1, Popped DEF LoginTypeOK, Asked
<1>3. Rests
  BY <1>t, <1>1 DEF Rests, LoginTypeOK
<1>4. \A j \in Asked : ops[j].by # "nobody"
  BY <1>t, <1>1, <1>2 DEF Started, Asked
<1>5. up
  BY <1>t, <1>1, <1>2 DEF Started, LoginTypeOK
<1>6. LoginAlways'
  BY <1>1, <1>2, <1>3, <1>4, <1>5, <1>n, RestCalls DEF LoginInv, Minted
<1>7. ASSUME Agreeing, ~Login!Overlap' PROVE Agreeing'
  <2>1. Login!Starting
    BY <1>1, <1>2 DEF Login!Starting, Asked
  <2>2. \A i \in 1 .. Len(ops') : i + 1 \in 1 .. Len(ops) /\ ops'[i] = ops[i + 1]
    BY <1>2 DEF Queued
  <2>3. ~Login!Starting'
    <3> SUFFICES ASSUME NEW i \in 1 .. Len(ops'), ops'[i].by = "boot" PROVE FALSE
      BY DEF Login!Starting
    <3>1. i + 1 \in 1 .. Len(ops) /\ ops[i + 1].by = "boot"
      BY <2>2
    <3>2. 1 < i + 1 <=> ops[1].by = "nobody"
      BY <1>t, <1>2, <3>1 DEF Started, Asked
    <3> QED
      BY <1>1, <3>2
  <2>4. ASSUME NEW j \in Asked, ops[j].do = "set" PROVE FALSE
    <3>1. ops[j].by \in Contacts
      <4>1. ops[j].by \in Contacts \cup {"boot", "nobody"}
        BY <1>t, CallFields DEF LoginTypeOK
      <4>2. ops[j].by # "boot"
        BY <1>t, <2>4 DEF StorageCalls
      <4> QED
        BY <1>4, <4>1, <4>2
    <3>2. Login!Changing(ops[j].by)
      BY <2>4, <3>1, WhoOverlaps DEF LoginInv
    <3> QED
      BY <1>7, <2>1, <3>1, <3>2 DEF Agreeing, Login!Overlap
  <2>5. \A i \in Asked' : ops'[i].do # "set"
    BY <2>2, <2>4 DEF Asked
  <2> QED
    BY <1>1, <1>7, <2>1, <2>3, <2>5 DEF Agreeing
<1> QED
  BY <1>6, <1>7, LoginParts

\* What a worker that is gone has asked for is done; the new one has not read the storage yet.
LEMMA OrphanNext ==
    ASSUME LoginInv, Turn, Login!Orphaned
    PROVE  LoginInv'
<1>t. LoginTypeOK /\ StorageCalls /\ Started /\ Minted
  BY DEF LoginInv
<1>1. /\ ops # <<>> /\ ops[1].by = "nobody" /\ ops' = Tail(ops)
      /\ loginStored' = IF ops[1].do = "set" THEN ops[1].cred ELSE loginStored
      /\ loginPending' \in {"open", "none", loginPending}
      /\ UNCHANGED <<up, mem, cache, inFlight, loginPc, op, cred, loginUsed, minted>>
  BY DEF Login!Orphaned, Login!worker, Login!client, Login!calls
<1>n. "boot" \notin Contacts /\ "nobody" \notin Contacts
  BY LoginConstants
<1>2. Queued(1, 0) /\ 1 \in Asked
  BY <1>t, <1>1, Popped DEF LoginTypeOK, Asked
<1>3. Rests
  <2>1. ops[1].cred \in Credential
    BY <1>t, <1>2, CallFields DEF LoginTypeOK
  <2> QED
    BY <1>t, <1>1, <2>1 DEF Rests, LoginTypeOK
<1>4. \A h \in Contacts : cred[h] \in Nat /\ loginPc[h] = "report" => loginStored' # cred[h]
  BY <1>t, <1>1, <1>2, <1>n DEF Minted
<1>6. LoginAlways'
  BY <1>1, <1>2, <1>3, <1>4, <1>n, RestCalls
<1>7. ASSUME Agreeing, ~Login!Overlap' PROVE Agreeing'
  <2>1. CASE up
    <3>1. PICK i \in 1 .. Len(ops) : ops[i].by = "boot"
      BY <1>t, <1>1, <1>2, <2>1 DEF Started, Login!Starting
    <3>2. i # 1
      BY <1>1, <3>1
    <3>3. i - 1 \in 1 .. Len(ops') /\ i - 1 \in 1 .. (Len(ops) - 1)
      BY <1>2, <3>1, <3>2 DEF Queued
    <3>4. ops'[i - 1] = ops[(i - 1) + 1] /\ (i - 1) + 1 = i
      BY <1>2, <3>3 DEF Queued
    <3>5. Login!Starting /\ Login!Starting'
      BY <3>1, <3>3, <3>4 DEF Login!Starting
    <3> QED
      BY <1>1, <1>7, <3>5 DEF Agreeing
  <2>2. CASE ~up
    <3>1. \A h \in Contacts : loginPc[h] = "idle"
      BY <1>t, <2>2 DEF Started
    <3> QED
      BY <1>t, <1>1, <1>7, <2>2, <3>1 DEF Agreeing, Started
  <2> QED
    BY <2>1, <2>2
<1> QED
  BY <1>6, <1>7, LoginParts

\* What the worker has asked for when it is stopped is nobody's.
LEMMA StopNext ==
    ASSUME LoginInv, Turn, Login!Stop
    PROVE  LoginInv'
<1>t. LoginTypeOK /\ StorageCalls /\ Started /\ Minted
  BY DEF LoginInv
<1>1. /\ up' = FALSE /\ mem' = NoCred /\ cache' = NoCred /\ inFlight' = FALSE
      /\ ops' = [i \in 1 .. Len(ops) |-> [ops[i] EXCEPT !.by = "nobody"]]
      /\ loginPc' = [h \in Contacts |-> "idle"] /\ op' = [h \in Contacts |-> "none"]
      /\ cred' = [h \in Contacts |-> NoCred] /\ loginUsed' = [h \in Contacts |-> NoCred]
      /\ UNCHANGED <<loginStored, loginPending, minted>>
  BY DEF Login!Stop
<1>n. "boot" \notin Contacts /\ "nobody" \notin Contacts /\ NoCred \notin Nat
  BY LoginConstants
<1>2. /\ ops' \in Seq(Login!StorageCall) /\ Len(ops') = Len(ops)
      /\ \A i \in 1 .. Len(ops) : /\ ops'[i].by = "nobody" /\ ops'[i].cred = ops[i].cred
                                  /\ ops'[i].do = ops[i].do
  <2>1. Len(ops) \in Nat
    BY <1>t DEF LoginTypeOK
  <2>2. ASSUME NEW c \in Login!StorageCall
        PROVE  /\ [c EXCEPT !.by = "nobody"] \in Login!StorageCall
               /\ [c EXCEPT !.by = "nobody"].by = "nobody"
               /\ [c EXCEPT !.by = "nobody"].cred = c.cred
               /\ [c EXCEPT !.by = "nobody"].do = c.do
    BY DEF Login!StorageCall
  <2>3. \A i \in 1 .. Len(ops) : ops[i] \in Login!StorageCall
    BY <1>t DEF LoginTypeOK
  <2>4. ops' \in [1 .. Len(ops) -> Login!StorageCall]
    BY <1>1, <2>2, <2>3
  <2>5. ops' \in Seq(Login!StorageCall) /\ Len(ops') = Len(ops)
    BY <2>1, <2>4
  <2>6. \A i \in 1 .. Len(ops) : ops'[i] = [ops[i] EXCEPT !.by = "nobody"]
    BY <1>1
  <2>7. ASSUME NEW i \in 1 .. Len(ops)
        PROVE  /\ ops'[i].by = "nobody" /\ ops'[i].cred = ops[i].cred
               /\ ops'[i].do = ops[i].do
    <3>1. PICK c \in Login!StorageCall : c = ops[i]
      BY <2>3
    <3>2. ops'[i] = [c EXCEPT !.by = "nobody"]
      BY <2>6, <3>1
    <3> QED
      BY <2>2, <3>1, <3>2
  <2> QED
    BY <2>5, <2>7
<1>3. LoginTypeOK'
  <2>1. loginCalm' \in BOOLEAN
    BY <1>t DEF Turn, LoginTypeOK
  <2> QED
    BY <1>t, <1>1, <1>2, <2>1 DEF LoginTypeOK, Credential, HandlerAt, Messages
<1>4. LoginHandlers' /\ StorageCalls'
  BY <1>1, <1>2, <1>n DEF LoginHandlers, Handler, StorageCalls, Asked
<1>5. Started' /\ Minted'
  BY <1>t, <1>1, <1>2, <1>n DEF Started, Minted, Asked
<1>6. Agreeing /\ ~Login!Overlap' => Agreeing'
  <2>1. ~Login!Starting'
    BY <1>2 DEF Login!Starting
  <2> QED
    BY <1>1, <2>1 DEF Agreeing
<1> QED
  BY <1>3, <1>4, <1>5, <1>6, LoginParts DEF LoginAlways

\* Time passes.
LEMMA AgeNext ==
    ASSUME LoginInv, Turn, Login!LoginGetsLate \/ Login!CacheGetsOld
    PROVE  LoginInv'
<1>t. LoginTypeOK /\ StorageCalls /\ Started /\ Minted
  BY DEF LoginInv
<1>1. /\ cache' \in {cache, NoCred} /\ loginPending' \in {"late", loginPending}
      /\ UNCHANGED <<loginStored, ops, up, mem, inFlight, loginPc, op, cred, loginUsed, minted>>
  BY DEF Login!LoginGetsLate, Login!CacheGetsOld, Login!disk, Login!worker, Login!client,
     Login!calls
<1>2. Queued(0, 0)
  BY <1>t, <1>1, Kept DEF LoginTypeOK
<1>3. Rests
  BY <1>t, <1>1 DEF Rests, LoginTypeOK
<1>4. LoginAlways'
  BY <1>t, <1>1, <1>2, <1>3, RestCalls DEF Minted
<1>5. Agreeing /\ ~Login!Overlap' => Agreeing'
  BY <1>1 DEF Agreeing, Asked, Login!Starting
<1> QED
  BY <1>4, <1>5, LoginParts

\* A step of something else.
LEMMA LoginStays ==
    ASSUME LoginInv, UNCHANGED loginVars
    PROVE  LoginInv'
<1> USE DEF loginVars
<1>1. LoginTypeOK' /\ LoginHandlers'
  BY DEF LoginInv, LoginTypeOK, LoginHandlers, Handler
<1>2. StorageCalls' /\ Started' /\ Minted'
  BY DEF LoginInv, StorageCalls, Waits, Asked, Started, Minted, Login!Starting
<1>3. Agreeing => Agreeing'
  BY DEF Agreeing, Asked, Login!Starting, Login!Overlap, Login!Changing, Login!Using
<1> QED
  BY <1>1, <1>2, <1>3 DEF LoginInv

-----------------------------------------------------------------------------
(* The theorems.                                                           *)

\* It holds for any number of messages at a time, of credentials and of tokens.
LEMMA LoginInvariant == ServicesSpec => []LoginIInv
<1>1. ServicesInit => LoginIInv
  BY InitLogin DEF ServicesInit, LoginIInv
<1>2. LoginIInv /\ [ServicesNext]_allVars => LoginIInv'
  <2> SUFFICES ASSUME LoginIInv, [ServicesNext]_allVars, part' = "login"
               PROVE  LoginInv'
    BY DEF LoginIInv
  <2>1. LoginInv /\ [Login!Next]_loginVars
    BY LoginStep DEF LoginIInv
  <2>2. CASE Login!Next
    <3>1. Turn
      BY <2>2 DEF Login!Next, Turn
    <3> QED
      BY <2>1, <2>2, <3>1, ResumeNext, SendNext, BootNext, OrphanNext, StopNext, AgeNext
         DEF Login!Next
  <2>3. CASE UNCHANGED loginVars
    BY <2>1, <2>3, LoginStays
  <2> QED
    BY <2>1, <2>2, <2>3
<1> QED
  BY <1>1, <1>2, PTL DEF ServicesSpec

\* While the credential has never changed under somebody else, a worker that waits for
\* nothing has in its memory what is stored, and in its cache no profile but that of the
\* stored credential, wherever Chrome has stopped it (background.js, neudrive-client.js).
THEOREM ClientAgrees == ServicesSpec => []CalmClientAgrees
<1>1. LoginIInv => CalmClientAgrees
  <2> SUFFICES ASSUME LoginInv, loginCalm, up, ops = <<>>
               PROVE  mem = loginStored /\ cache \in {NoCred, loginStored}
    BY DEF LoginIInv, CalmClientAgrees, Login!CalmClientAgrees
  <2>1. Asked = {} /\ ~Login!Starting
    BY DEF Asked, Login!Starting
  <2> QED
    BY <2>1 DEF LoginInv, Agreeing
<1> QED
  BY <1>1, LoginInvariant, PTL

\* A login that ends with an error does not leave its token stored, whatever ran beside it
\* (background.js:180-185).
THEOREM FailedLoginLeavesNothing == ServicesSpec => []FailedLoginIsUndone
<1>1. LoginIInv => FailedLoginIsUndone
  <2> SUFFICES ASSUME LoginInv, NEW h \in Contacts, loginPc[h] = "report", cred[h] # NoCred
               PROVE  loginStored # cred[h]
    BY DEF LoginIInv, FailedLoginIsUndone, Login!FailedLoginIsUndone
  <2>1. cred[h] \in Nat
    BY DEF LoginInv, LoginTypeOK, LoginHandlers, Handler
  <2> QED
    BY <2>1 DEF LoginInv, Minted
<1> QED
  BY <1>1, LoginInvariant, PTL

\* The memory, the cache and the storage hold credentials, and storage calls are those
\* of a handler, of the start or of nobody (background.js, neudrive-client.js).
THEOREM LoginTypeCorrect == ServicesSpec => [](part = "login" => LoginTypeOK)
<1>1. LoginIInv => (part = "login" => LoginTypeOK)
  BY DEF LoginIInv, LoginInv
<1> QED
  BY <1>1, LoginInvariant, PTL

=============================================================================
