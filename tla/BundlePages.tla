---------------------------- MODULE BundlePages ----------------------------
(***************************************************************************)
(* The pages of skills and projects (DataSkillsPage.tsx, ProjectsPage.tsx): *)
(* a list of bundles, the contents of one bundle, the selection, and the    *)
(* dialogs that delete or archive (useTreeDeleteDialog.ts).                 *)
(*                                                                         *)
(* Every change of the address loads again and no load is called off; the   *)
(* keyboard works while the page says "Loading"; and a deletion is          *)
(* inspected, confirmed and made at three different moments.                *)
(***************************************************************************)
EXTENDS Naturals, FiniteSets

CONSTANTS
    Bundles,
    Nothing,   \* as an address: the list of the bundles
    MaxLoads,  \* bound of the model: loads under way at once
    MaxActs,   \* bound of the model: what the user does
    MaxForeign \* bound of the model: what others write

BundleAssumption ==
    /\ Nothing \notin Bundles
    /\ MaxLoads \in Nat \ {0} /\ MaxActs \in Nat /\ MaxForeign \in Nat

\* What is in a bundle: SKILL.md or context.md, and a directory.
Names == {"main", "dir"}
Entries == Bundles \X Names

VARIABLES
    kind,      \* the page: "skills" or "projects"
    hub,       \* the entries of every bundle
    archived,  \* the projects that are archived
    at,        \* the address of the page
    node,      \* bundleNode: the bundle it holds and its entries
    cards,     \* skills or projects: the bundles it lists
    entry,     \* selectedEntryPath
    card,      \* selectedBundlePath or selectedProjectName
    loading,
    loads,     \* the loads under way and their answers
    inspected, \* requestDelete: what is being inspected, and the answer
    dialog,    \* the deletion to confirm: its path and its warning
    job,       \* the deletion, archiving or creation that is submitted
    acts, foreign,
    calm       \* no part of the code: see Crossing

data == <<hub, archived>>
page == <<at, node, cards, entry, card, loading>>
vars == <<kind, data, page, loads, inspected, dialog, job, acts, foreign, calm>>

There(b) == {n \in Names : hub[b][n] # "absent"}
Live == {b \in Bundles : There(b) # {}}

NoJob == [does |-> "nothing", path |-> Nothing, warned |-> FALSE, served |-> FALSE, back |-> Nothing]
Asked(a) == [for |-> a, done |-> FALSE, reply |-> {}]

Init ==
    /\ kind \in {"skills", "projects"}
    /\ hub = [b \in Bundles |-> [main |-> "edited", dir |-> "full"]]
    /\ archived = {} /\ at \in Bundles \cup {Nothing}
    /\ node = Nothing /\ cards = {} /\ entry = Nothing /\ card = Nothing
    /\ loading = TRUE /\ loads = {Asked(at)}
    /\ inspected = Nothing /\ dialog = Nothing /\ job = NoJob
    /\ acts = 0 /\ foreign = 0 /\ calm = TRUE

-----------------------------------------------------------------------------
(* load: its address is that of the moment it began. *)

LoadAnswered(l) ==
    /\ ~l.done
    /\ loads' = (loads \ {l}) \cup
                {[l EXCEPT !.done = TRUE, !.reply = IF l.for = Nothing THEN Live ELSE There(l.for)]}
    /\ UNCHANGED <<data, page, inspected, dialog, job, acts, foreign>>

\* The list clears its own selection, the contents of a bundle theirs.
Loaded(l) ==
    /\ l.done /\ loads' = loads \ {l} /\ loading' = FALSE
    /\ IF l.for = Nothing
       THEN /\ cards' = l.reply /\ node' = Nothing /\ card' = Nothing
            /\ UNCHANGED entry
       ELSE /\ cards' = {} /\ node' = [of |-> l.for, names |-> l.reply]
            /\ entry' = Nothing /\ UNCHANGED card
    /\ UNCHANGED <<data, at, inspected, dialog, job, acts, foreign>>

LoadFails(l) ==
    /\ loads' = loads \ {l} /\ loading' = FALSE
    /\ UNCHANGED <<data, at, node, cards, entry, card, inspected, dialog, job, acts, foreign>>

Reload(a) == loads' = loads \cup {Asked(a)} /\ loading' = TRUE

Act == acts < MaxActs /\ acts' = acts + 1

\* A card, a breadcrumb, the history.
Navigate(a) ==
    /\ a # at /\ Cardinality(loads) < MaxLoads /\ Act
    /\ at' = a /\ Reload(a)
    /\ UNCHANGED <<data, node, cards, entry, card, inspected, dialog, job, foreign>>

-----------------------------------------------------------------------------
(* The selection: what the page shows can be picked. *)

Shown == IF at = Nothing \/ node = Nothing THEN {} ELSE {<<node.of, n>> : n \in node.names}

SelectEntry(e) ==
    /\ ~loading /\ e \in Shown \cup {Nothing} /\ e # entry /\ entry' = e
    /\ UNCHANGED <<data, at, node, cards, card, loading, loads, inspected, dialog, job, acts, foreign>>

SelectCard(b) ==
    /\ ~loading /\ at = Nothing /\ b \in cards \cup {Nothing} /\ b # card /\ card' = b
    /\ UNCHANGED <<data, at, node, cards, entry, loading, loads, inspected, dialog, job, acts, foreign>>

-----------------------------------------------------------------------------
(* useTreeDeleteDialog.  The path of a bundle stands for all that is in it. *)

Contents(p) == IF p \in Bundles THEN {<<p, n>> : n \in Names} ELSE {p}
NotEmpty(p) == \E e \in Contents(p) : IF p \in Bundles THEN hub[e[1]][e[2]] # "absent"
                                                       ELSE hub[e[1]][e[2]] = "full"

Request(p) ==
    /\ job = NoJob /\ inspected = Nothing  \* bound of the model: one inspection at a time
    /\ Act
    /\ inspected' = [path |-> p, done |-> FALSE, warned |-> FALSE]
    /\ UNCHANGED <<data, page, loads, dialog, job, foreign>>

\* The menu of an entry.
RequestShown(e) == ~loading /\ e \in Shown /\ Request(e)

\* The Delete key and the button take the selection of the view that the address
\* names; projects are archived, not deleted.
RequestSelected ==
    /\ dialog = Nothing
    /\ IF at # Nothing THEN entry # Nothing /\ Request(entry)
       ELSE kind = "skills" /\ card \in cards /\ Request(card)

\* Mutant: a directory that cannot be inspected counts as empty.
InspectedHopefully ==
    /\ inspected # Nothing /\ ~inspected.done
    /\ \E failed \in BOOLEAN :
          inspected' = [inspected EXCEPT !.done = TRUE,
                                         !.warned = ~failed /\ NotEmpty(inspected.path)]
    /\ UNCHANGED <<data, page, loads, dialog, job, acts, foreign>>

\* inspectTreeDeleteTargets: what cannot be inspected counts as not empty.
Inspected ==
    /\ inspected # Nothing /\ ~inspected.done
    /\ \E failed \in BOOLEAN :
          inspected' = [inspected EXCEPT !.done = TRUE,
                                         !.warned = failed \/ NotEmpty(inspected.path)]
    /\ UNCHANGED <<data, page, loads, dialog, job, acts, foreign>>

DialogOpens ==
    /\ inspected # Nothing /\ inspected.done
    /\ dialog' = [path |-> inspected.path, warned |-> inspected.warned]
    /\ inspected' = Nothing
    /\ UNCHANGED <<data, page, loads, job, acts, foreign>>

CloseDialog ==
    /\ dialog # Nothing /\ job = NoJob
    /\ dialog' = Nothing
    /\ UNCHANGED <<data, page, loads, inspected, job, acts, foreign>>

Submit(does, p, warned) ==
    /\ job = NoJob
    /\ job' = [NoJob EXCEPT !.does = does, !.path = p, !.warned = warned, !.back = at]
    /\ UNCHANGED <<data, page, loads, inspected, dialog, foreign>>

\* The dialog is part of the loaded page.
ConfirmDelete ==
    /\ dialog # Nothing /\ ~loading
    /\ Submit("delete", dialog.path, dialog.warned) /\ UNCHANGED acts

-----------------------------------------------------------------------------
(* handleArchive, handleCreate and handleCreateSkill. *)

Archive(b) ==
    /\ kind = "projects" /\ at = Nothing /\ b \in cards /\ b \notin archived /\ ~loading
    /\ Act /\ Submit("archive", b, FALSE)

Create(b) == at = Nothing /\ ~loading /\ Act /\ Submit("create", b, FALSE)

\* A skill is created over whatever SKILL.md is there; a project is not.
Creatable(b) == kind = "skills" \/ b \notin Live

JobServed ==
    /\ job.does # "nothing" /\ ~job.served
    /\ job' = [job EXCEPT !.served = TRUE]
    /\ CASE job.does = "delete" ->
              /\ hub' = [b \in Bundles |-> [n \in Names |->
                            IF <<b, n>> \in Contents(job.path) THEN "absent" ELSE hub[b][n]]]
              /\ UNCHANGED archived
         [] job.does = "archive" -> archived' = archived \cup {job.path} /\ UNCHANGED hub
         [] job.does = "create" ->
              /\ hub' = [hub EXCEPT ![job.path].main =
                            IF Creatable(job.path) THEN "starter" ELSE @]
              /\ UNCHANGED archived
    /\ UNCHANGED <<page, loads, inspected, dialog, acts, foreign>>

\* A deletion loads again even if it failed; a skill that is created opens in the
\* editor, and the page is left.
JobEnds ==
    /\ job.does # "nothing"
    /\ job' = NoJob
    /\ dialog' = IF job.does = "delete" THEN Nothing ELSE dialog
    /\ IF job.does = "delete" \/ (job.served /\ <<kind, job.does>> # <<"skills", "create">>)
       THEN Reload(job.back) ELSE UNCHANGED <<loads, loading>>
    /\ UNCHANGED <<data, at, node, cards, entry, card, inspected, acts, foreign>>

\* Agents and other tabs write, empty and delete.
Foreign(b, n) ==
    /\ foreign < MaxForeign /\ foreign' = foreign + 1
    /\ \E v \in IF n = "main" THEN {"edited", "absent"} ELSE {"full", "empty"} :
          /\ v # hub[b][n]
          /\ hub' = [hub EXCEPT ![b][n] = v]
    /\ UNCHANGED <<archived, page, loads, inspected, dialog, job, acts>>

-----------------------------------------------------------------------------
User ==
    \/ \E a \in Bundles \cup {Nothing} : Navigate(a)
    \/ \E e \in Entries : SelectEntry(e) \/ RequestShown(e)
    \/ SelectEntry(Nothing) \/ SelectCard(Nothing)
    \/ \E b \in Bundles : SelectCard(b) \/ Archive(b) \/ Create(b)
    \/ RequestSelected \/ CloseDialog \/ ConfirmDelete

Loading == \E l \in loads : LoadAnswered(l) \/ Loaded(l) \/ LoadFails(l)

Deleting == Inspected \/ DialogOpens \/ JobServed \/ JobEnds

Others == \E b \in Bundles, n \in Names : Foreign(b, n)

\* What mixes two views: a key pressed while the page loads, an address that changes
\* under an inspection, a dialog or a load, a load that fails; and somebody, or a
\* creation on the page itself, that writes between an inspection and the deletion.
Crossing ==
    \/ inspected' # inspected /\ loading
    \/ at' # at /\ (loading \/ inspected # Nothing \/ dialog # Nothing \/ job # NoJob)
    \/ loads' # loads /\ loading' = FALSE /\ cards' = cards /\ node' = node
    \/ hub' # hub /\ job' = job /\ (inspected # Nothing \/ dialog # Nothing \/ job # NoJob)
    \/ hub' # hub /\ job.does = "create" /\ (inspected # Nothing \/ dialog # Nothing)

Step == User \/ Loading \/ Deleting \/ Others

Next == Step /\ kind' = kind /\ calm' = (calm /\ ~Crossing)

Spec == Init /\ [][Next]_vars

-----------------------------------------------------------------------------
\* While nothing has crossed, nobody loses what is in a directory without having
\* been warned that it is not empty (inspectTreeDeleteTargets).
CalmLossIsWarnedStep ==
    calm /\ job.does = "delete" /\ ~job.served /\ job'.served /\ NotEmpty(job.path)
       => job.warned
CalmLossIsWarned == [][CalmLossIsWarnedStep]_vars

\* "This will delete the selected project file or directory and cannot be undone."
\* (ProjectsPage.tsx:478): what the dialog deletes is on the page that it
\* stands on.
DialogIsOfPage ==
    dialog # Nothing /\ job = NoJob /\ ~loading /\ at # Nothing
       => dialog.path \in Entries /\ dialog.path[1] = at
=============================================================================
