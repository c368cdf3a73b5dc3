---------------------------- MODULE ImportPanel ----------------------------
(***************************************************************************)
(* The extension's panel on a page of claude.ai (extension/content.js):    *)
(* opening and closing, the batch page with its list of conversations,     *)
(* which follows the sidebar of Claude, the choice of conversations, the   *)
(* actions and what they lock, and the banner on a new conversation.       *)
(* What an import does is in ConversationArchive.                          *)
(***************************************************************************)
EXTENDS Naturals, FiniteSets

CONSTANTS
    Convs,       \* conversations
    MaxPasses,   \* passes of a scan (45 in the code)
    MaxStale,    \* and those without progress (4)
    MaxClicks    \* bound of the model: clicks on actions and boxes

PanelAssumption == MaxPasses \in Nat /\ MaxStale \in Nat /\ MaxClicks \in Nat

VARIABLES
    visible,    \* panelVisible
    connected,  \* isConnected
    batch,      \* claudeBatchViewVisible
    timer,      \* claudeBatchPreviewTimer is set
    inFlight,   \* importInFlight, and the action
    sidebar,    \* conversations that the page has loaded
    refs,       \* claudeBatchPreviewRefs
    chosen,     \* those that claudeBatchSelection has checked
    preset,     \* claudeBatchDefaultSelected
    scan,       \* passes of the scan, and those without progress
    injecting,  \* an inject action waits for the worker
    banner,     \* "none", "checked" before its second is over, or "shown"
    clicks,     \* clicks so far
    out         \* no part of the code: conversations the user has taken out
                \* and that have been in the list ever since

list == <<refs, chosen, out>>
tab  == <<sidebar, connected, injecting, banner>>
vars == <<visible, batch, timer, inFlight, tab, list, preset, scan, clicks>>

Init ==
    /\ visible = FALSE /\ connected \in BOOLEAN /\ batch = FALSE /\ timer = FALSE
    /\ inFlight = "none" /\ sidebar \in SUBSET Convs
    /\ refs = {} /\ chosen = {} /\ preset = TRUE
    /\ scan = [pass |-> 0, stale |-> 0]
    /\ injecting = FALSE /\ banner = "none" /\ clicks = 0 /\ out = {}

-----------------------------------------------------------------------------
(* The list. *)

\* Mutant: every refresh gives every conversation the preset.
Rechecked(new, old, pick, default) == IF default THEN new ELSE {}

\* syncClaudeBatchSelection: conversations that stay keep their box, the others
\* get the preset.
Checked(new, old, pick, default) ==
    (pick \cap new) \cup (IF default THEN new \ old ELSE {})

\* renderClaudeBatchPreview
Render(new) ==
    /\ refs' = new
    /\ chosen' = Checked(new, refs, chosen, preset)
    /\ out' = out \cap new

\* refreshClaudeBatchPreview: the list of an import that runs is frozen.
Preview(vis, bat, run) ==
    IF vis /\ connected /\ bat THEN IF run # "none" THEN refs ELSE sidebar
    ELSE {}

Click == clicks < MaxClicks /\ clicks' = clicks + 1

-----------------------------------------------------------------------------
(* Opening and closing. *)

\* togglePanel is refused while a batch runs; an open panel asks for the status.
TogglePanel ==
    /\ ~(visible /\ inFlight # "none" /\ batch)
    /\ Click
    /\ visible' = ~visible
    /\ timer' = (visible' /\ (timer \/ batch))
    /\ IF timer' /\ ~timer THEN Render(Preview(visible', batch, inFlight)) ELSE UNCHANGED list
    /\ UNCHANGED <<batch, inFlight, tab, preset, scan>>

\* openBatchImportPage forgets the last choice.
OpenBatch ==
    /\ visible /\ connected /\ ~batch /\ Click
    /\ batch' = TRUE /\ timer' = TRUE /\ preset' = TRUE
    /\ refs' = Preview(visible, TRUE, inFlight)
    /\ chosen' = refs' /\ out' = {}
    /\ UNCHANGED <<visible, inFlight, tab, scan>>

CloseBatch ==
    /\ visible /\ batch /\ inFlight = "none" /\ Click
    /\ batch' = FALSE /\ timer' = FALSE
    /\ UNCHANGED <<visible, inFlight, tab, list, preset, scan>>

\* The answer to refreshStatus, which the panel or a finished login has asked:
\* the list is drawn again, or emptied.
StatusRead(up) ==
    /\ connected' = up
    /\ IF ~up THEN Render({})
       ELSE IF ~batch THEN UNCHANGED list
       ELSE Render(IF ~visible THEN {} ELSE IF inFlight # "none" THEN refs ELSE sidebar)
    /\ UNCHANGED <<visible, batch, timer, inFlight, sidebar, injecting, banner, preset,
                   scan, clicks>>

Tick ==
    /\ timer
    /\ Render(Preview(visible, batch, inFlight))
    /\ UNCHANGED <<visible, batch, timer, inFlight, tab, preset, scan, clicks>>

-----------------------------------------------------------------------------
(* The choice; its boxes are locked while an import runs. *)

Boxes == visible /\ connected /\ batch /\ inFlight = "none"

SelectAll(on) ==
    /\ Boxes /\ Click
    /\ preset' = on
    /\ chosen' = IF on THEN refs ELSE {}
    /\ out' = IF on THEN {} ELSE refs
    /\ UNCHANGED <<refs, visible, batch, timer, inFlight, tab, scan>>

SelectItem(c) ==
    /\ Boxes /\ c \in refs /\ Click
    /\ IF c \in chosen THEN chosen' = chosen \ {c} /\ out' = out \cup {c}
       ELSE chosen' = chosen \cup {c} /\ out' = out \ {c}
    /\ UNCHANGED <<refs, visible, batch, timer, inFlight, tab, preset, scan>>

-----------------------------------------------------------------------------
(* Actions.  The buttons of the three imports are disabled while one runs.  *)

Start(action, where) ==
    /\ visible /\ connected /\ batch = where /\ inFlight = "none" /\ Click
    /\ inFlight' = action
    /\ UNCHANGED <<visible, batch, timer, tab, list, preset>>

ImportCurrent == Start("current", FALSE) /\ UNCHANGED scan

ConfirmBatch == chosen # {} /\ Start("batch", TRUE) /\ UNCHANGED scan

LoadMore == Start("scan", TRUE) /\ scan' = [pass |-> 0, stale |-> 0]

\* The finally of handleInjectAction, after an answer or an error.
Ends ==
    /\ inFlight' = "none"
    /\ Render(Preview(visible, batch, "none"))

ImportEnds ==
    /\ inFlight \in {"current", "batch"}
    /\ Ends
    /\ UNCHANGED <<visible, batch, timer, tab, preset, scan, clicks>>

\* A pass of collectAllClaudeConversationRefs: the sidebar scrolls and may load,
\* or drop, conversations.
ScanPass(new) ==
    /\ inFlight = "scan" /\ scan.pass < MaxPasses /\ scan.stale < MaxStale
    /\ sidebar' = new
    /\ \E progress \in {TRUE, Cardinality(new) # Cardinality(sidebar)} :
          scan' = [pass |-> scan.pass + 1, stale |-> IF progress THEN 0 ELSE scan.stale + 1]
    /\ UNCHANGED <<visible, batch, timer, inFlight, connected, injecting, banner, list,
                   preset, clicks>>

\* The list that was found is drawn, and drawn again by the finally.
ScanEnds ==
    /\ inFlight = "scan"
    /\ scan.pass = MaxPasses \/ scan.stale = MaxStale
    /\ Ends
    /\ UNCHANGED <<visible, batch, timer, tab, preset, scan, clicks>>

\* The user scrolls, or opens another conversation, which is always listed.
SidebarChanges(new) ==
    /\ sidebar # new
    /\ sidebar' = new
    /\ UNCHANGED <<visible, batch, timer, inFlight, connected, injecting, banner, list,
                   preset, scan, clicks>>

\* inject-preferences, inject-project and inject-skills are locked by nothing.
Inject ==
    /\ visible /\ connected /\ ~batch /\ ~injecting /\ Click
    /\ injecting' = TRUE
    /\ UNCHANGED <<visible, batch, timer, inFlight, sidebar, connected, banner, list,
                   preset, scan>>

Injected ==
    /\ injecting /\ injecting' = FALSE
    /\ UNCHANGED <<visible, batch, timer, inFlight, sidebar, connected, banner, list,
                   preset, scan, clicks>>

-----------------------------------------------------------------------------
(* The banner. *)

\* handleNewConversation, where autoInject and the platform's switch are on.
NewConversation ==
    /\ connected /\ banner = "none"
    /\ banner' = "checked"
    /\ UNCHANGED <<visible, batch, timer, inFlight, sidebar, connected, injecting, list,
                   preset, scan, clicks>>

ShowBanner ==
    /\ banner = "checked" /\ banner' = "shown"
    /\ UNCHANGED <<visible, batch, timer, inFlight, sidebar, connected, injecting, list,
                   preset, scan, clicks>>

\* Its buttons, or ten seconds.
CloseBanner(yes) ==
    /\ banner = "shown" /\ (yes => ~injecting)
    /\ banner' = "none" /\ injecting' = (injecting \/ yes)
    /\ UNCHANGED <<visible, batch, timer, inFlight, sidebar, connected, list,
                   preset, scan, clicks>>

Next ==
    \/ TogglePanel \/ OpenBatch \/ CloseBatch \/ Tick
    \/ \E b \in BOOLEAN : StatusRead(b) \/ SelectAll(b) \/ CloseBanner(b)
    \/ \E c \in Convs : SelectItem(c)
    \/ ImportCurrent \/ ConfirmBatch \/ LoadMore \/ ImportEnds \/ ScanEnds
    \/ \E new \in SUBSET Convs : ScanPass(new) \/ SidebarChanges(new)
    \/ Inject \/ Injected \/ NewConversation \/ ShowBanner

Spec == Init /\ [][Next]_vars

-----------------------------------------------------------------------------
\* A conversation that the user has taken out of the batch is not imported with
\* it, whatever refreshes come between, as long as it stays in the list.
TakenOutStaysOut == out \cap chosen = {}

\* The batch page follows the sidebar as long as it is shown, and nothing
\* follows it behind another view.
PreviewFollows == timer <=> visible /\ batch
=============================================================================
