---------------------------- MODULE AccessPages ----------------------------
(***************************************************************************)
(* The pages that list who has access and take it away: tokens              *)
(* (DeveloperAccessPage.tsx) and connected apps (ConnectionsPage.tsx).      *)
(* Every change is a request and then a load of the list; nothing calls a   *)
(* load off or keeps the loads of two changes in order.                     *)
(***************************************************************************)
EXTENDS Naturals, FiniteSets

CONSTANTS
    Tokens,       \* scoped tokens
    Connections,  \* connections that were made by hand
    Grants,       \* grants of OAuth
    MaxLoads,     \* bound of the model: loads under way at once
    MaxChanges    \* bound of the model: what the user and others change

Items == Tokens \cup Connections \cup Grants

AccessAssumption ==
    /\ Tokens \cap (Connections \cup Grants) = {} /\ Connections \cap Grants = {}
    /\ MaxLoads \in Nat \ {0} /\ MaxChanges \in Nat

VARIABLES
    page,     \* "tokens" or "connections"
    access,   \* what every item is: "none", "live" or "revoked"
    list,     \* what the page shows each of them as
    loads,    \* the loads under way: after which change, and the answer
    loading,
    creating,
    jobs,     \* the changes under way
    error,    \* whether the page shows one
    changes,
    calm      \* no part of the code: see Strays

vars == <<page, access, list, loads, loading, creating, jobs, error, changes, calm>>

\* The lists that a load of the page reads; the scopes to choose from are left out.
Listed == IF page = "tokens" THEN {Tokens} ELSE {Connections, Grants}
Mine == UNION Listed

Load(after) == [after |-> after, done |-> FALSE, reply |-> [i \in {} |-> "none"]]

Init ==
    /\ page \in {"tokens", "connections"}
    /\ access \in [Items -> {"none", "live"}]
    /\ \A i \in Items \ Mine : access[i] = "none"
    /\ list = [i \in Items |-> "none"]
    /\ loads = {Load(<<>>)} /\ loading = TRUE
    /\ creating = FALSE /\ jobs = {} /\ error = FALSE /\ changes = 0 /\ calm = TRUE

-----------------------------------------------------------------------------
(* load *)

Begin(after) == loads' = loads \cup {Load(after)} /\ loading' = TRUE

LoadServed(l) ==
    /\ ~l.done
    /\ loads' = (loads \ {l}) \cup {[l EXCEPT !.done = TRUE, !.reply = [i \in Mine |-> access[i]]]}
    /\ UNCHANGED <<access, list, loading, creating, jobs, error, changes>>

\* Each list is taken or refused by itself; only the first one tells its error.  A
\* creation ends with its load.
Loaded(l, refused) ==
    /\ l.done /\ refused \subseteq Listed
    /\ loads' = loads \ {l} /\ loading' = FALSE
    /\ list' = [i \in Items |-> IF i \in Mine \ UNION refused THEN l.reply[i] ELSE list[i]]
    /\ error' = (error \/ refused \cap {Tokens, Connections} # {})
    /\ creating' = (creating /\ (l.after = <<>> \/ l.after[1] # "create"))
    /\ UNCHANGED <<access, jobs, changes>>

-----------------------------------------------------------------------------
(* createToken, revoke, rename; what an item is called is left out.          *)

Change == changes < MaxChanges /\ changes' = changes + 1
Job(does, i) == [does |-> does, item |-> i, served |-> FALSE]

Create(i) ==
    /\ page = "tokens" /\ ~loading /\ ~creating /\ access[i] = "none" /\ Change
    /\ i \in Tokens /\ \A j \in jobs : j.item # i
    /\ creating' = TRUE /\ error' = FALSE
    /\ jobs' = jobs \cup {Job("create", i)}
    /\ UNCHANGED <<access, list, loads, loading>>

Revoke(i) ==
    /\ ~loading /\ list[i] = "live" /\ Change
    /\ jobs' = jobs \cup {Job("revoke", i)}
    /\ UNCHANGED <<access, list, loads, loading, creating, error>>

Rename(i) ==
    /\ page = "tokens" /\ ~loading /\ list[i] # "none" /\ Change
    /\ jobs' = jobs \cup {Job("rename", i)}
    /\ UNCHANGED <<access, list, loads, loading, creating, error>>

\* A token that is revoked stays listed; a connection or a grant is gone.
Gone(i) == IF i \in Tokens THEN "revoked" ELSE "none"

JobServed(j) ==
    /\ ~j.served
    /\ jobs' = (jobs \ {j}) \cup {[j EXCEPT !.served = TRUE]}
    /\ access' = [access EXCEPT ![j.item] =
                    CASE j.does = "create" -> "live"
                      [] j.does = "rename" -> @
                      [] OTHER -> Gone(j.item)]
    /\ UNCHANGED <<list, loads, loading, creating, error, changes>>

\* Mutant: the page does not load its lists again.
JobDoneQuietly(j) ==
    /\ j.served /\ jobs' = jobs \ {j}
    /\ creating' = (creating /\ j.does # "create")
    /\ UNCHANGED <<access, list, loads, loading, error, changes>>

\* The error of ConnectionsPage is taken back by the load.
JobDone(j) ==
    /\ j.served /\ Cardinality(loads) < MaxLoads
    /\ jobs' = jobs \ {j}
    /\ Begin(<<j.does, j.item>>)
    /\ error' = (error /\ page = "tokens")
    /\ UNCHANGED <<access, list, creating, changes>>

JobFails(j) ==
    /\ jobs' = jobs \ {j} /\ error' = TRUE
    /\ creating' = (creating /\ j.does # "create")
    /\ UNCHANGED <<access, list, loads, loading, changes>>

\* Another tab or a client: grants are given, tokens are revoked.
Foreign(i) ==
    /\ i \in Mine /\ access[i] # "revoked" /\ Change
    /\ access' = [access EXCEPT ![i] = IF @ = "live" THEN Gone(i) ELSE "live"]
    /\ UNCHANGED <<list, loads, loading, creating, jobs, error>>

-----------------------------------------------------------------------------
\* Others change what is listed; a load begins while another is under way, or the
\* answer to it is lost; the grants cannot be read, which the page does not tell; the
\* error of one change is taken back by the load of another.
Strays ==
    \/ access' # access /\ jobs' = jobs
    \/ loads' # loads /\ \E l, m \in loads' : l # m
    \/ loads' # loads /\ loading' = FALSE /\ \E g \in Grants \cap Mine :
          \E l \in loads \ loads' : l.done /\ list'[g] # l.reply[g]
    \/ error /\ ~error'

Step ==
    \/ \E l \in loads : LoadServed(l) \/ \E refused \in SUBSET Listed : Loaded(l, refused)
    \/ \E i \in Items : Create(i) \/ Revoke(i) \/ Rename(i) \/ Foreign(i)
    \/ \E j \in jobs : JobServed(j) \/ JobDone(j) \/ JobFails(j)

Next == Step /\ page' = page /\ calm' = (calm /\ ~Strays)

Spec == Init /\ [][Next]_vars

-----------------------------------------------------------------------------
\* When nothing is under way, the page shows who has access, or an error: nobody is
\* shown as revoked who is not, and no access is missing from the list; while nothing
\* has strayed.
CalmListIsAccess ==
    calm /\ loads = {} /\ jobs = {}
       => error \/ \A i \in Mine : list[i] = access[i]
=============================================================================
