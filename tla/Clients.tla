------------------------------- MODULE Clients -------------------------------
(***************************************************************************)
(* The other pages of the web app and the archives of the browser           *)
(* extension, which share nothing but the hub.  Each is looked at by        *)
(* itself: part says which, and the variables of the others are off.        *)
(***************************************************************************)
EXTENDS Naturals, FiniteSets, Sequences

CONSTANTS
    Nothing, MaxActs, MaxLoads,
    Chats, Convs, Writers, Retries, Chunks, MaxCaptures, MaxJobs,  \* archive
    MaxPasses, MaxStale, MaxClicks,                    \* panel
    Urls, Secrets, MaxPolls,                           \* mirror
    Bundles, MaxForeign,                               \* bundles
    Values, NoEntries, Version, Odd, Garbled, Untyped, \* settings
    Broken, Blank, Samples, MaxTyped,
    Platforms, MaxScans, MaxRequests, MaxMoves,        \* imports
    Tokens, Connections, Grants, MaxChanges            \* access

VARIABLES part,
    host, archiveAt, archiveJob, import, archiveHub, about, captures, archiveJobs,
    archiveCalm, still,
    visible, connected, batch, timer, inFlight, sidebar, refs, chosen, preset,
    scan, injecting, banner, clicks, out,
    served, mirror, form, tested, busy, work, mirrorLoads, test, poll, cooling,
    mirrorActs, promised, mirrorCalm,
    kind, bundlesHub, archived, bundlesAt, bundlesNode, cards, entry, card,
    bundlesLoading, bundlesLoads, inspected, dialog, bundlesJob, bundlesActs,
    foreign, bundlesCalm,
    file, raw, draft, view, reading, save, typed, meant, alone, settingsCalm,
    status, cached, held, scans, phase, active, task, preview, result, importsLoading,
    importing, calls, moves, importsCalm, untouched,
    page, access, list, accessLoads, accessLoading, creating, accessJobs, error,
    changes, accessCalm

archiveVars ==
    <<host, archiveAt, archiveJob, import, archiveHub, about, captures,
      archiveJobs, archiveCalm, still>>
panelVars ==
    <<visible, connected, batch, timer, inFlight, sidebar, refs, chosen, preset,
      scan, injecting, banner, clicks, out>>
mirrorVars ==
    <<served, mirror, form, tested, busy, work, mirrorLoads, test, poll, cooling,
      mirrorActs, promised, mirrorCalm>>
bundlesVars ==
    <<kind, bundlesHub, archived, bundlesAt, bundlesNode, cards, entry, card,
      bundlesLoading, bundlesLoads, inspected, dialog, bundlesJob, bundlesActs,
      foreign, bundlesCalm>>
settingsVars ==
    <<file, raw, draft, view, reading, save, typed, meant, alone, settingsCalm>>
importsVars ==
    <<status, cached, held, scans, phase, active, task, preview, result,
      importsLoading, importing, calls, moves, importsCalm, untouched>>
accessVars ==
    <<page, access, list, accessLoads, accessLoading, creating, accessJobs,
      error, changes, accessCalm>>
vars ==
    <<part, archiveVars, panelVars, mirrorVars, bundlesVars, settingsVars,
      importsVars, accessVars>>

Archive == INSTANCE ConversationArchive WITH
    at <- archiveAt, job <- archiveJob, hub <- archiveHub, jobs <- archiveJobs,
    calm <- archiveCalm, Tabs <- Chats, Slots <- Writers, None <- Nothing
Panel == INSTANCE ImportPanel
Mirror == INSTANCE GitMirrorPage WITH
    loads <- mirrorLoads, acts <- mirrorActs, calm <- mirrorCalm, Tokens <- Secrets
Bundle == INSTANCE BundlePages WITH
    hub <- bundlesHub, at <- bundlesAt, node <- bundlesNode, loading <-
    bundlesLoading, loads <- bundlesLoads, job <- bundlesJob, acts <-
    bundlesActs, calm <- bundlesCalm
Settings == INSTANCE SettingsPage WITH
    calm <- settingsCalm, Empty <- Blank
Imports == INSTANCE LocalImportPage WITH
    loading <- importsLoading, calm <- importsCalm, MaxCalls <- MaxRequests
Access == INSTANCE AccessPages WITH
    loads <- accessLoads, loading <- accessLoading, jobs <- accessJobs, calm <-
    accessCalm

ASSUME ClientsAssumption ==
    /\ Archive!ArchiveAssumption /\ Panel!PanelAssumption /\ Mirror!PageAssumption
    /\ Bundle!BundleAssumption /\ Settings!SettingsAssumption
    /\ Imports!LocalImportAssumption /\ Access!AccessAssumption

-----------------------------------------------------------------------------
\* What a part that is not looked at holds.
Off == "off"

ArchiveOff ==
    /\ host = Off /\ archiveAt = Off /\ archiveJob = Off /\ import = Off
    /\ archiveHub = Off /\ about = Off /\ captures = Off /\ archiveJobs = Off /\ archiveCalm = Off
    /\ still = Off
PanelOff ==
    /\ visible = Off /\ connected = Off /\ batch = Off /\ timer = Off
    /\ inFlight = Off /\ sidebar = Off /\ refs = Off /\ chosen = Off
    /\ preset = Off /\ scan = Off /\ injecting = Off /\ banner = Off
    /\ clicks = Off /\ out = Off
MirrorOff ==
    /\ served = Off /\ mirror = Off /\ form = Off /\ tested = Off /\ busy = Off
    /\ work = Off /\ mirrorLoads = Off /\ test = Off /\ poll = Off /\ cooling = Off /\ mirrorActs = Off
    /\ promised = Off /\ mirrorCalm = Off
BundleOff ==
    /\ kind = Off /\ bundlesHub = Off /\ archived = Off /\ bundlesAt = Off
    /\ bundlesNode = Off /\ cards = Off /\ entry = Off /\ card = Off
    /\ bundlesLoading = Off /\ bundlesLoads = Off /\ inspected = Off
    /\ dialog = Off /\ bundlesJob = Off /\ bundlesActs = Off /\ foreign = Off
    /\ bundlesCalm = Off
SettingsOff ==
    /\ file = Off /\ raw = Off /\ draft = Off /\ view = Off /\ reading = Off
    /\ save = Off /\ typed = Off /\ meant = Off /\ alone = Off
    /\ settingsCalm = Off
ImportsOff ==
    /\ status = Off /\ cached = Off /\ held = Off /\ scans = Off /\ phase = Off
    /\ active = Off /\ task = Off /\ preview = Off /\ result = Off /\ importsLoading = Off
    /\ importing = Off /\ calls = Off /\ moves = Off /\ importsCalm = Off
    /\ untouched = Off
AccessOff ==
    /\ page = Off /\ access = Off /\ list = Off /\ accessLoads = Off
    /\ accessLoading = Off /\ creating = Off /\ accessJobs = Off /\ error = Off
    /\ changes = Off /\ accessCalm = Off

Init ==
    /\ part \in {"archive", "panel", "mirror", "bundles", "settings", "imports",
                 "access"}
    /\ IF part = "archive" THEN Archive!Init ELSE ArchiveOff
    /\ IF part = "panel" THEN Panel!Init ELSE PanelOff
    /\ IF part = "mirror" THEN Mirror!Init ELSE MirrorOff
    /\ IF part = "bundles" THEN Bundle!Init ELSE BundleOff
    /\ IF part = "settings" THEN Settings!Init ELSE SettingsOff
    /\ IF part = "imports" THEN Imports!Init ELSE ImportsOff
    /\ IF part = "access" THEN Access!Init ELSE AccessOff

Next ==
    \/ /\ part = "archive" /\ Archive!Next
       /\ UNCHANGED <<part, panelVars, mirrorVars, bundlesVars,
                      settingsVars, importsVars, accessVars>>
    \/ /\ part = "panel" /\ Panel!Next
       /\ UNCHANGED <<part, archiveVars, mirrorVars, bundlesVars,
                      settingsVars, importsVars, accessVars>>
    \/ /\ part = "mirror" /\ Mirror!Next
       /\ UNCHANGED <<part, archiveVars, panelVars, bundlesVars,
                      settingsVars, importsVars, accessVars>>
    \/ /\ part = "bundles" /\ Bundle!Next
       /\ UNCHANGED <<part, archiveVars, panelVars, mirrorVars,
                      settingsVars, importsVars, accessVars>>
    \/ /\ part = "settings" /\ Settings!Next
       /\ UNCHANGED <<part, archiveVars, panelVars, mirrorVars,
                      bundlesVars, importsVars, accessVars>>
    \/ /\ part = "imports" /\ Imports!Next
       /\ UNCHANGED <<part, archiveVars, panelVars, mirrorVars,
                      bundlesVars, settingsVars, accessVars>>
    \/ /\ part = "access" /\ Access!Next
       /\ UNCHANGED <<part, archiveVars, panelVars, mirrorVars,
                      bundlesVars, settingsVars, importsVars>>

Spec == Init /\ [][Next]_vars

\* The fairness of ConversationArchive.
FairSpec ==
    /\ Spec
    /\ \A t \in Chats : WF_archiveVars(part = "archive" /\ Archive!Captures(t))
    /\ \A s \in Writers : WF_archiveVars(part = "archive" /\ Archive!Writes(s))

-----------------------------------------------------------------------------
(* The properties of the parts. *)

\* The normalized copy never gets ahead of the transcript (background.js:326-383).
CopyFollowsTranscript == part = "archive" => Archive!CopyFollowsTranscript

\* An archive has its own address (content.js:960-1037).
AddressIsOwn == part = "archive" => Archive!AddressIsOwn

\* What the user has taken out of a batch is not imported with it (content.js:1382-1533).
TakenOutStaysOut == part = "panel" => Panel!TakenOutStaysOut

\* The page shows the credentials and the destination of the hub, also on the way back
\* from GitHub (GitMirrorPage.tsx:112-374).
CalmPageAgrees == part = "mirror" => Mirror!CalmPageAgrees

\* The status and the preview that are shown are of the page's platform, whichever way it
\* was changed (ClaudeMigrationPage.tsx:188-283).
CalmPageIsOfPlatform == part = "imports" => Imports!CalmPageIsOfPlatform

\* A scan that succeeded comes with its preview (local_platform_dashboard.go:395-487).
SucceededScanIsShown == part = "imports" => Imports!SucceededScanIsShown

\* The page shows who has access (DeveloperAccessPage.tsx, ConnectionsPage.tsx).
CalmListIsAccess == part = "access" => Access!CalmListIsAccess

\* What is counted as imported is in the hub (content.js, background.js:270-324).
CountedIsArchived == [][part = "archive" => Archive!CountedIsArchivedStep]_archiveVars

\* Who loses what is in a directory has been warned (useTreeDeleteDialog.ts:36-52).
CalmLossIsWarned == [][part = "bundles" => Bundle!CalmLossIsWarnedStep]_bundlesVars

\* config.json says what was typed, and what it said in the fields that nobody typed
\* (SystemSettingsPage.tsx:110-207).
CalmSaveIsWanted == [][part = "settings" => Settings!CalmSaveIsWantedStep]_settingsVars

\* A scan has one verdict (local_platform_dashboard.go:395-487).
CalmVerdictStays == [][part = "imports" => Imports!CalmVerdictStaysStep]_importsVars

\* Every import ends, however often the hub limits the rate (content.js).
ImportEnds ==
    \A t \in Chats : (part = "archive" /\ archiveJob[t].kind # "none")
                        ~> (part = "archive" => archiveJob[t].kind = "none")

=============================================================================
