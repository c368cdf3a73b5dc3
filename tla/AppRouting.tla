----------------------------- MODULE AppRouting -----------------------------
(***************************************************************************)
(* Where the web dashboard takes its user: the routes of App.tsx and the   *)
(* effects beside them, sign-in and sign-up, the plan gate, the return     *)
(* from a checkout, the redirect of a refused write to the billing page,   *)
(* and the feedback launcher.                                              *)
(*                                                                         *)
(* A path stands for its route.  Redirects happen one after the other      *)
(* until the location rests; the user acts on pages that rest.             *)
(***************************************************************************)
EXTENDS Naturals

CONSTANTS
    Servers,      \* the configurations a hub may have (public_config)
    MaxLaunches   \* bound of the model: attempts to open the feedback form

Off == [billing |-> FALSE, local |-> FALSE, settings |-> FALSE, feedback |-> FALSE]

RoutingAssumption ==
    /\ Servers \subseteq [DOMAIN Off -> BOOLEAN]
    /\ MaxLaunches \in Nat

VARIABLES
    server,     \* the hub's configuration
    config,     \* publicConfig: what the App has of it
    session,    \* the browser holds tokens
    user,       \* the App shows a user
    path,       \* location.pathname
    search,     \* open_feedback=1 in the router's location.search
    wanted,     \* ?redirect= of the login page, "/" if there is none
    intent,     \* localStorage neudrive.postSignupIntent
    pending,    \* sessionStorage neudrive.pendingFeedbackLaunch
    launching,  \* feedbackLaunching
    asked,      \* no part of the code: times the user asked for the form,
    launches,   \* times the App tried to open it,
    later       \* and: the user has just chosen "Decide later"

place == <<path, search, wanted>>
form  == <<pending, launching, asked, launches>>
vars  == <<server, config, session, user, place, intent, form, later>>

-----------------------------------------------------------------------------
(* Routes. *)

\* Mutant: without billing its page leads to the old address.
TableOldBilling(c) ==
    {"/data", "/data/roles", "/login", "/signup", "/collaborations"} \X {"/"}
    \cup {"/onboarding", "/setup"} \X {"/setup/mcp"}
    \cup {"/docs"} \X {"/onboarding"}
    \cup {"/billing", "/pricing"} \X {"/settings/billing"}
    \cup (IF c.billing THEN {} ELSE {<<"/billing/success", "/onboarding">>,
                                     <<"/settings/billing", "/billing">>})

\* The routes of a signed-in user that lead elsewhere.
Table(c) ==
    {"/data", "/data/roles", "/login", "/signup", "/collaborations"} \X {"/"}
    \cup {"/onboarding", "/setup"} \X {"/setup/mcp"}
    \cup {"/docs"} \X {"/onboarding"}
    \cup {"/integrations"} \X {"/connections"}
    \cup {"/billing", "/pricing"} \X {"/settings/billing"}
    \cup {"/settings", "/info"} \X {"/settings/profile"}
    \cup {"/git-mirror", "/data/sync"} \X {"/sync-backup"}
    \cup (IF c.billing THEN {} ELSE {<<"/billing/success", "/onboarding">>,
                                     <<"/settings/billing", "/settings/profile">>})
    \cup (IF c.settings THEN {} ELSE {<<"/settings/security", "/settings/profile">>})
    \cup (IF c.local THEN {<<"/imports", "/imports/local-apps">>}
          ELSE {<<"/imports", "/imports/claude-export">>, <<"/imports/local-apps", "/">>})

\* Pages outside the login, and those a signed-out visitor may see.
Standalone == {"/oauth/authorize", "/import/skills", "/guides/claude", "/privacy"}
Public     == {"/", "/pricing", "/integrations", "/docs", "/login", "/signup"}
Rested     == {"/plan", "/setup/mcp", "/connections", "/sync-backup", "/settings/profile",
               "/settings/billing", "/settings/security", "/billing/success",
               "/imports/local-apps", "/imports/claude-export", "/sync/login"}
Paths == Standalone \cup Public \cup Rested \cup {p[1] : p \in Table(Off)}

\* The effect that brings a user who came to sign up to the plan gate.
Exempt == {"/plan", "/onboarding", "/billing", "/billing/success"}
Diverted(p)   == user /\ intent /\ p \notin Exempt
DivertedTo(c) == IF c.billing THEN "/plan" ELSE "/onboarding"

\* Where the routes send the page at p, or p.
Routed(p) ==
    IF p \in Standalone THEN p
    ELSE IF ~user THEN IF p \in Public THEN p
                       ELSE IF p \in {"/plan", "/onboarding"} THEN "/signup" ELSE "/login"
    ELSE IF \E r \in Table(config) : r[1] = p
         THEN (CHOOSE r \in Table(config) : r[1] = p)[2] ELSE p

Resting == Routed(path) = path /\ ~Diverted(path)

\* A location of the router: the path and what its search says.
Goes(p, q, w) == path' = p /\ search' = q /\ wanted' = w
Home(p) == Goes(p, FALSE, "/")

\* feedbackLoginHref: FEEDBACK_LOGIN_REDIRECT.
Feedback == "/?open_feedback=1"

-----------------------------------------------------------------------------
(* Page loads and redirects. *)

\* The App starts: configuration and user are fetched before anything is shown.
Loads(p, q, s) ==
    /\ config' \in {server, Off}
    /\ session' = s /\ user' = s
    /\ Goes(p, q, "/")
    /\ launching' = FALSE

Init ==
    /\ server \in Servers /\ config = server
    /\ session \in BOOLEAN /\ user = session
    /\ path = "/" /\ search = FALSE /\ wanted = "/"
    /\ intent = FALSE /\ pending = FALSE /\ launching = FALSE
    /\ asked = 0 /\ launches = 0 /\ later = FALSE

\* A <Navigate> and the effect of the same commit: the effect comes last.
Redirect ==
    /\ ~Resting
    /\ LET p == IF Diverted(path) THEN DivertedTo(config) ELSE Routed(path)
       IN  Goes(p, FALSE, IF p = "/login" THEN path ELSE "/")
    /\ UNCHANGED <<server, config, session, user, intent, form, later>>

\* BillingSuccessPage is mounted.
SuccessShown ==
    /\ path = "/billing/success" /\ config.billing /\ user /\ intent
    /\ intent' = FALSE
    /\ UNCHANGED <<server, config, session, user, place, form, later>>

-----------------------------------------------------------------------------
(* The user. *)

\* A link is followed, or an address opened in the tab.
Follow(p) ==
    /\ Resting
    /\ Home(p) /\ later' = FALSE
    /\ UNCHANGED <<server, config, session, user, intent, form>>

Visit(p) ==
    /\ Resting
    /\ Loads(p, FALSE, session)
    /\ later' = FALSE
    /\ UNCHANGED <<server, intent, pending, asked, launches>>

\* LoginPage: the identity provider sends the user back to the sanitized target.
SignIn ==
    /\ path = "/login" /\ Resting
    /\ Loads(IF wanted \in {"/login", "/signup", Feedback} THEN "/" ELSE wanted,
             wanted = Feedback, TRUE)
    /\ later' = FALSE
    /\ UNCHANGED <<server, intent, pending, asked, launches>>

\* SignupPage: the intent is kept before the provider is asked, which may fail,
\* or the visitor may turn back.
SignUp ==
    /\ path = "/signup" /\ Resting
    /\ intent' = TRUE
    /\ later' = FALSE
    /\ \/ UNCHANGED <<session, config, user, place, launching>>
       \/ Loads("/", FALSE, FALSE)
       \/ Loads("/plan", FALSE, TRUE)
    /\ UNCHANGED <<server, pending, asked, launches>>

SignOut ==
    /\ user /\ Resting /\ path \notin Standalone
    /\ session' = FALSE /\ user' = FALSE
    /\ Home("/login") /\ later' = FALSE
    /\ UNCHANGED <<server, config, intent, form>>

\* PlanGatePage.
ContinueFree ==
    /\ path = "/plan" /\ user /\ Resting
    /\ intent' = FALSE
    /\ Home("/onboarding") /\ later' = FALSE
    /\ UNCHANGED <<server, config, session, user, form>>

DecideLater ==
    /\ path = "/plan" /\ user /\ Resting
    /\ Home("/") /\ later' = TRUE
    /\ UNCHANGED <<server, config, session, user, intent, form>>

\* startCheckout: Stripe sends the user back, having paid or not; without a
\* gateway the button leads to the setup.
StartCheckout ==
    /\ path = "/plan" /\ user /\ Resting
    /\ later' = FALSE
    /\ \/ /\ config.billing
          /\ \E p \in {"/billing/success", "/settings/billing"} : Loads(p, FALSE, session)
       \/ /\ Home("/onboarding")
          /\ UNCHANGED <<config, session, user, launching>>
    /\ UNCHANGED <<server, intent, pending, asked, launches>>

\* A write is refused with quota_exceeded or account_read_only.
BillingRedirect ==
    /\ user /\ Resting /\ config.billing
    /\ Home("/settings/billing") /\ later' = FALSE
    /\ UNCHANGED <<server, config, session, user, intent, form>>

\* The feedback link of the public pages.
AskSignedOut ==
    /\ ~user /\ Resting /\ config.feedback /\ asked < MaxLaunches
    /\ asked' = asked + 1
    /\ pending' = TRUE
    /\ Goes("/login", FALSE, Feedback) /\ later' = FALSE
    /\ UNCHANGED <<server, config, session, user, intent, launching, launches>>

\* The feedback button of the sidebar.
Ask ==
    /\ user /\ config.feedback /\ ~launching /\ asked < MaxLaunches
    /\ asked' = asked + 1 /\ launches' = launches + 1
    /\ launching' = TRUE
    /\ UNCHANGED <<server, config, session, user, place, intent, pending, later>>

-----------------------------------------------------------------------------
(* Feedback after a sign-in: the effect runs when its dependencies change,  *)
(* handleFeedbackOpen and with it feedbackLaunching among them.             *)

LaunchByIntent ==
    /\ user /\ config.feedback /\ ~launching
    /\ search \/ pending
    /\ launches < MaxLaunches + 1
    /\ pending' = FALSE
    /\ launching' = TRUE /\ launches' = launches + 1
    /\ UNCHANGED <<server, config, session, user, place, intent, asked, later>>

\* window.location.assign, and the way back.
Launched ==
    /\ launching
    /\ Loads("/", FALSE, session)
    /\ later' = FALSE
    /\ UNCHANGED <<server, intent, pending, asked, launches>>

\* The alert; the router still has the location the page was loaded with.
LaunchFails ==
    /\ launching
    /\ launching' = FALSE
    /\ UNCHANGED <<server, config, session, user, place, intent, pending, asked,
                   launches, later>>

Next ==
    \/ Redirect \/ SuccessShown
    \/ \E p \in Paths : Follow(p) \/ Visit(p)
    \/ SignIn \/ SignUp \/ SignOut
    \/ ContinueFree \/ DecideLater \/ StartCheckout \/ BillingRedirect
    \/ AskSignedOut \/ Ask \/ LaunchByIntent \/ Launched \/ LaunchFails

Spec == Init /\ [][Next]_vars

\* The browser commits redirects; users may always stop.
FairSpec == Spec /\ WF_vars(Redirect)

-----------------------------------------------------------------------------
\* Redirects come to an end, whatever the routes, the login and the effects
\* make of a location, unless somebody who came to sign up meets a hub that
\* offers no plans (see DecideLaterLeaves).
Offered == config.billing \/ ~intent
Settles == Offered ~> Resting \/ ~Offered

\* "Decide later" (PlanGatePage.tsx:127) leads to the home page and stays there.
DecideLaterLeaves == later ~> (path = "/" /\ Resting) \/ ~later

\* The feedback form is opened when the user has asked for it, once each time.
LaunchesAreAsked == launches <= asked
=============================================================================
