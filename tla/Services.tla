------------------------------ MODULE Services -------------------------------
(***************************************************************************)
(* Who is signed in, and what the services keep in a row and a file: the    *)
(* connection of the browser extension, the tabs of the web app, the way    *)
(* the app routes them, the inbox, the logs of projects, and the page that  *)
(* edits files.  They share nothing but the hub; each is looked at by       *)
(* itself: part says which.  The inbox and the log stay as they begin while *)
(* another part is looked at, the variables of the others are off.          *)
(***************************************************************************)
EXTENDS FiniteSets, Inbox, ProjectLog

CONSTANTS
    Contacts, Typed, Valid, NoCred, MaxContacts, MaxMints,  \* login
    Servers, MaxLaunches, Nothing,                          \* routes
    Tabs, Slots, Boot, FairTab, MaxPairs, MaxSent,          \* web
    Edited, Bodies, Saves, MaxVersion, MaxActs              \* editor

VARIABLES part,
    loginStored, loginPending, ops, up, mem, cache, inFlight, loginPc, op,
    cred, loginUsed, minted, loginIssued, loginCalm,
    server, config, session, user, path, search, wanted, intent, routesPending,
    launching, asked, launches, later,
    local, token, refresh, sessions, expired, webIssued, webSent, tab, leaving,
    webPc, webUsed, rf, webCalm,
    editorHub, address, node, content, loading, load, stale, saves, rename,
    shown, acts, editorCalm

loginVars ==
    <<loginStored, loginPending, ops, up, mem, cache, inFlight, loginPc, op,
      cred, loginUsed, minted, loginIssued, loginCalm>>
routesVars ==
    <<server, config, session, user, path, search, wanted, intent,
      routesPending, launching, asked, launches, later>>
webVars ==
    <<local, token, refresh, sessions, expired, webIssued, webSent, tab,
      leaving, webPc, webUsed, rf, webCalm>>
editorVars ==
    <<editorHub, address, node, content, loading, load, stale, saves, rename,
      shown, acts, editorCalm>>
inboxVars == vars
allVars ==
    <<part, loginVars, routesVars, webVars, editorVars, inboxVars, logVars>>

Login == INSTANCE ExtensionAuth WITH
    stored <- loginStored, pending <- loginPending, pc <- loginPc,
    used <- loginUsed, issued <- loginIssued, calm <- loginCalm, Msgs <- Contacts,
    MaxCalls <- MaxContacts
Routes == INSTANCE AppRouting WITH
    pending <- routesPending
Web == INSTANCE WebSession WITH
    issued <- webIssued, sent <- webSent, pc <- webPc, used <- webUsed,
    calm <- webCalm
Editor == INSTANCE FileEditorPage WITH
    hub <- editorHub, path <- address, calm <- editorCalm, Texts <- Bodies,
    Paths <- Edited, Slots <- Saves

ASSUME ServicesAssumption ==
    /\ Login!AuthAssumption /\ Routes!RoutingAssumption /\ Web!SessionAssumption
    /\ Editor!EditorAssumption /\ FairTab \in Tabs

-----------------------------------------------------------------------------
\* What a part that is not looked at holds.
Off == "off"

LoginOff ==
    /\ loginStored = Off /\ loginPending = Off /\ ops = Off /\ up = Off
    /\ mem = Off /\ cache = Off /\ inFlight = Off /\ loginPc = Off /\ op = Off
    /\ cred = Off /\ loginUsed = Off /\ minted = Off /\ loginIssued = Off
    /\ loginCalm = Off
RoutesOff ==
    /\ server = Off /\ config = Off /\ session = Off /\ user = Off /\ path = Off
    /\ search = Off /\ wanted = Off /\ intent = Off /\ routesPending = Off
    /\ launching = Off /\ asked = Off /\ launches = Off /\ later = Off
WebOff ==
    /\ local = Off /\ token = Off /\ refresh = Off /\ sessions = Off
    /\ expired = Off /\ webIssued = Off /\ webSent = Off /\ tab = Off
    /\ leaving = Off /\ webPc = Off /\ webUsed = Off /\ rf = Off /\ webCalm = Off
EditorOff ==
    /\ editorHub = Off /\ address = Off /\ node = Off /\ content = Off
    /\ loading = Off /\ load = Off /\ stale = Off /\ saves = Off
    /\ rename = Off /\ shown = Off /\ acts = Off /\ editorCalm = Off

ServicesInit ==
    /\ part \in {"login", "routes", "web", "editor", "inbox", "log"}
    /\ IF part = "login" THEN Login!Init ELSE LoginOff
    /\ IF part = "routes" THEN Routes!Init ELSE RoutesOff
    /\ IF part = "web" THEN Web!Init ELSE WebOff
    /\ IF part = "editor" THEN Editor!Init ELSE EditorOff
    /\ Init /\ LogInit

ServicesNext ==
    \/ /\ part = "login" /\ Login!Next
       /\ UNCHANGED <<part, routesVars, webVars, editorVars, inboxVars, logVars>>
    \/ /\ part = "routes" /\ Routes!Next
       /\ UNCHANGED <<part, loginVars, webVars, editorVars, inboxVars, logVars>>
    \/ /\ part = "web" /\ Web!Next
       /\ UNCHANGED <<part, loginVars, routesVars, editorVars, inboxVars, logVars>>
    \/ /\ part = "editor" /\ Editor!Next
       /\ UNCHANGED <<part, loginVars, routesVars, webVars, inboxVars, logVars>>
    \/ /\ part = "inbox" /\ Next
       /\ UNCHANGED <<part, loginVars, routesVars, webVars, editorVars, logVars>>
    \/ /\ part = "log" /\ LogNext
       /\ UNCHANGED <<part, loginVars, routesVars, webVars, editorVars, inboxVars>>

ServicesSpec == ServicesInit /\ [][ServicesNext]_allVars

\* The fairness of ExtensionAuth, of AppRouting, and that of WebSession for one
\* of the tabs, which are interchangeable: the other need not go on.
FairServices ==
    /\ ServicesSpec
    /\ WF_loginVars(part = "login" /\ Login!Answering)
    /\ \A h \in Contacts : WF_loginVars(part = "login" /\ Login!Handling(h))
    /\ WF_routesVars(part = "routes" /\ Routes!Redirect)
    /\ WF_webVars(part = "web" /\ Web!Starting(FairTab))
    /\ \A s \in Slots : WF_webVars(part = "web" /\ Web!Answering(FairTab, s))

-----------------------------------------------------------------------------
(* The properties of the parts. *)

\* The worker's memory and cache agree with what is stored (background.js, neudrive-client.js).
CalmClientAgrees == part = "login" => Login!CalmClientAgrees

\* A login that fails leaves no token stored (background.js:180-185).
FailedLoginIsUndone == part = "login" => Login!FailedLoginIsUndone

\* Nobody loses a session (api.ts:383-407, App.tsx:160-215).
CalmSessionLasts == part = "web" => Web!CalmSessionLasts

\* A sign-out ends its session for good (App.tsx, auth_service.go).
LogoutRevokes == part = "web" => Web!LogoutRevokes

\* A page that says "Saved" shows what the hub has (DataFileEditorPage.tsx:312-342).
CalmSavedIsStored == part = "editor" => Editor!CalmSavedIsStored

\* A rename that stops half-way loses nothing (DataFileEditorPage.tsx:344-384).
CalmRenameKeepsFile == part = "editor" => Editor!CalmRenameKeepsFile

\* A save replaces only what the page has held (DataFileEditorPage.tsx:312-342).
SavesReplaceWhatWasShown == [][part = "editor" => Editor!SavesReplaceWhatWasShownStep]_editorVars

\* The flag that keeps other logins out is given back (background.js:186-199).
LoginFlagReleased ==
    (part = "login" /\ inFlight = TRUE) ~> (part = "login" => ~inFlight)

\* Redirects come to an end (App.tsx).
Settles ==
    (part = "routes" /\ Routes!Offered) ~> (part = "routes" => Routes!Resting \/ ~Routes!Offered)

\* The start of the application ends (App.tsx, checkAuth), whatever the other
\* tab does.
StartEnds ==
    (part = "web" /\ tab[FairTab] = "config")
        ~> (part = "web" => tab[FairTab] \in {"app", "public"})

=============================================================================
