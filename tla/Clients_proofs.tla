--------------------------- MODULE Clients_proofs ---------------------------
(***************************************************************************)
(* What the clients of the hub promise, for any number of conversations,   *)
(* platforms, bundles, tokens and requests: the import panel, the settings *)
(* page, the local import page, the conversation archives, the bundle      *)
(* pages, the backup page and the pages of tokens and connections.  Each   *)
(* has its own inductive invariant, in a section of its own; the parts     *)
(* share no variable but part, which never changes.                        *)
(***************************************************************************)
EXTENDS Clients, Integers, TLAPS

-----------------------------------------------------------------------------
(* The import panel of the extension (content.js).                         *)

\* What is taken out is not chosen, and both are among what the sidebar has shown.
PanelInv ==
    part = "panel" => out \cap chosen = {} /\ out \cup chosen \subseteq refs /\ refs \subseteq Convs
         /\ sidebar \subseteq Convs /\ connected \in BOOLEAN

\* A step of the module is one of the panel, while the panel is looked at.
LEMMA PanelStep ==
    ASSUME [Next]_vars
    PROVE  part' = part /\ (part = "panel" => [Panel!Next]_panelVars)
BY DEF Next, vars

\* The panel begins with nothing listed.
LEMMA InitPanel == Init => PanelInv
BY DEF Init, PanelInv, Panel!Init

\* No click, pass of the scan or change of the page puts back what is taken out.
LEMMA NextPanel ==
    ASSUME PanelInv, [Next]_vars, part = "panel"
    PROVE  PanelInv'
<1> USE DEF PanelInv, Panel!list, Panel!tab, Panel!Render, Panel!Checked, Panel!Preview,
    Panel!Click
<1>0. CASE UNCHANGED panelVars
  BY <1>0, PanelStep DEF panelVars
<1>1. CASE Panel!TogglePanel
  BY <1>1, PanelStep DEF Panel!TogglePanel
<1>2. CASE Panel!OpenBatch
  BY <1>2, PanelStep DEF Panel!OpenBatch
<1>3. CASE Panel!CloseBatch
  BY <1>3, PanelStep DEF Panel!CloseBatch
<1>4. CASE Panel!Tick
  BY <1>4, PanelStep DEF Panel!Tick
<1>5. ASSUME NEW b \in BOOLEAN, Panel!StatusRead(b) \/ Panel!SelectAll(b) \/ Panel!CloseBanner(b)
      PROVE PanelInv'
  BY <1>5, PanelStep DEF Panel!StatusRead, Panel!SelectAll, Panel!CloseBanner, Panel!Boxes
<1>6. ASSUME NEW c \in Convs, Panel!SelectItem(c)
      PROVE PanelInv'
  BY <1>6, PanelStep DEF Panel!SelectItem, Panel!Boxes
<1>7. CASE Panel!ImportCurrent \/ Panel!ConfirmBatch \/ Panel!LoadMore \/ Panel!ImportEnds
           \/ Panel!ScanEnds
  BY <1>7, PanelStep DEF Panel!ImportCurrent, Panel!ConfirmBatch, Panel!LoadMore,
     Panel!ImportEnds, Panel!ScanEnds, Panel!Start, Panel!Ends
<1>8. ASSUME NEW new \in SUBSET Convs, Panel!ScanPass(new) \/ Panel!SidebarChanges(new)
      PROVE PanelInv'
  BY <1>8, PanelStep DEF Panel!ScanPass, Panel!SidebarChanges
<1>9. CASE Panel!Inject \/ Panel!Injected \/ Panel!NewConversation \/ Panel!ShowBanner
  BY <1>9, PanelStep DEF Panel!Inject, Panel!Injected, Panel!NewConversation, Panel!ShowBanner
<1> QED
  BY <1>0, <1>1, <1>2, <1>3, <1>4, <1>5, <1>6, <1>7, <1>8, <1>9, PanelStep DEF Panel!Next

\* What the user has taken out of a batch is not imported with it, whatever refreshes of
\* the list, passes of the scan and "select all" come between (content.js:1382-1533).
THEOREM TakenOutIsNotImported == Spec => []TakenOutStaysOut
<1>1. Init => PanelInv
  BY InitPanel
<1>2. PanelInv /\ [Next]_vars => PanelInv'
  BY NextPanel, PanelStep DEF PanelInv
<1>3. PanelInv => TakenOutStaysOut
  BY DEF PanelInv, TakenOutStaysOut, Panel!TakenOutStaysOut
<1> QED
  BY <1>1, <1>2, <1>3, PTL DEF Spec

-----------------------------------------------------------------------------
(* The settings of the system (SystemSettingsPage.tsx).                    *)

\* What the view that is shown stands for.
ShownConfig == IF view = "raw" THEN Settings!Parse(raw) ELSE Settings!Built(raw, draft)

\* While the page is alone and does not slip, what it shows says what is meant, and
\* what it sends says what it shows.
SettingsCalm ==
    /\ reading => /\ raw = Blank /\ draft = Settings!DraftOf(Blank) /\ view = "settings"
                  /\ save = Settings!NoSave /\ meant = Settings!NoWish
    /\ meant.target = Untyped <=> meant.profile = Untyped
    /\ ~reading /\ Settings!Parses(raw) =>
         Settings!Says(ShownConfig) = Settings!Says(Settings!Wanted(meant))
    /\ save # Settings!NoSave => save.wish = meant /\ Settings!Parses(raw)
    /\ save.stage = "sent" => Settings!Says(save.text) = Settings!Says(Settings!Wanted(meant))
    /\ save.stage = "served" => file = save.text

\* The invariant of the settings page.
SettingsIInv ==
    part = "settings" =>
        Settings!SettingsTypeOK /\ (settingsCalm /\ alone => SettingsCalm)

\* A step of the module is one of the settings page, while that is looked at.
LEMMA SettingsStep ==
    ASSUME [Next]_vars
    PROVE  part' = part /\ (part = "settings" => [Settings!Next]_settingsVars)
BY DEF Next, vars

\* What a text parses to is a config.
LEMMA ParseType ==
    ASSUME NEW text \in Settings!Texts PROVE Settings!Parse(text) \in Settings!Configs
<1>1. Settings!Default \in Settings!Configs
  BY ClientsAssumption DEF Settings!SettingsAssumption, Settings!Default, Settings!Configs,
     Settings!Targets, Settings!Profiles, Settings!Target
<1> QED
  BY <1>1 DEF Settings!Texts, Settings!Parse

\* What the form makes of a text is a draft with an object that parses.
LEMMA DraftType ==
    ASSUME NEW text \in Settings!Texts
    PROVE  /\ Settings!DraftOf(text) \in Settings!Drafts
           /\ Settings!DraftOf(text).object # Garbled
<1> DEFINE c == Settings!Parse(text)
           t == IF Settings!ReadTarget(c.target).is # "absent" THEN c.target
                ELSE Settings!ReadTarget(c.profile)
<1>1. c \in Settings!Configs
  BY ParseType
<1>2. t \in Settings!FormTargets
  BY <1>1 DEF Settings!Configs, Settings!Profiles, Settings!FormTargets, Settings!Targets,
     Settings!ReadTarget, Settings!Target, Settings!Named
<1> HIDE DEF t
<1>3. Settings!Normal(t) \in Settings!FormTargets
  BY <1>2 DEF Settings!Normal, Settings!FormTargets, Settings!Targets, Settings!Target,
     Settings!Profile, Settings!Named
<1>4. Settings!DraftOf(text) =
        [target |-> Settings!Normal(t),
         string |-> IF c.string = Odd THEN Nothing ELSE c.string,
         object |-> IF c.object \in {Nothing, Odd} THEN NoEntries ELSE c.object]
  BY DEF Settings!DraftOf, t
<1> HIDE DEF c
<1> QED
  BY <1>1, <1>3, <1>4, ClientsAssumption DEF Settings!SettingsAssumption, Settings!Configs,
     Settings!Drafts, Settings!FormStrings, Settings!FormObjects

\* What the form builds is a config that says what the form shows, and what the base
\* says in the field that is not shown.
LEMMA BuiltSays ==
    ASSUME NEW text \in Settings!Texts, NEW d \in Settings!Drafts
    PROVE  /\ d.object # Garbled => Settings!Built(text, d) \in Settings!Configs
           /\ Settings!Says(Settings!Built(text, d)) =
                [selects |-> Settings!Normal(d.target), string |-> d.string,
                 object |-> d.object, kept |-> Settings!Parse(text).kept]
<1> DEFINE c == Settings!Parse(text)
           t == Settings!Normal(d.target)
           p == Settings!ProfileIn(t)
           b == Settings!Built(text, d)
<1>1. c \in Settings!Configs
  BY ParseType
<1>2. /\ t \in Settings!Targets /\ t.is \in {"local", "profile"} /\ p \in Settings!Profiles
      /\ t.is = "profile" => t = Settings!Profile(t.name)
      /\ t.is = "local" => t = Settings!Target("local") /\ p = Settings!Target("absent")
  BY DEF Settings!Drafts, Settings!FormTargets, Settings!Targets, Settings!Profiles, Settings!Named,
     Settings!Normal, Settings!ProfileIn, Settings!Target, Settings!Profile, Settings!Bare
<1>3. b = [c EXCEPT !.target = t, !.profile = p, !.string = d.string, !.object = d.object]
  BY DEF Settings!Built
<1> HIDE DEF c, t, p, b
<1>4. /\ b.target = t /\ b.profile = p /\ b.string = d.string /\ b.object = d.object
      /\ b.kept = c.kept
  BY <1>1, <1>3 DEF Settings!Configs
<1>5. d.object # Garbled => b \in Settings!Configs
  BY <1>1, <1>2, <1>3 DEF Settings!Configs, Settings!Drafts, Settings!FormStrings,
     Settings!FormObjects
<1>6. /\ d.string # Odd /\ d.object \notin {Nothing, Odd}
  BY ClientsAssumption DEF Settings!SettingsAssumption, Settings!Drafts, Settings!FormStrings,
     Settings!FormObjects
<1>7. Settings!Says(b) = [selects |-> t, string |-> d.string, object |-> d.object, kept |-> c.kept]
  BY <1>2, <1>4, <1>6 DEF Settings!Says, Settings!Named, Settings!Target
<1> QED
  BY <1>5, <1>7 DEF b, c, t

\* To show a config in the form and to build it again does not change what it says.
LEMMA ShownAgainSays ==
    ASSUME NEW text \in Settings!Texts
    PROVE  Settings!Says(Settings!Built(text, Settings!DraftOf(text)))
             = Settings!Says(Settings!Parse(text))
<1> DEFINE c == Settings!Parse(text)
           d == Settings!DraftOf(text)
<1>1. c \in Settings!Configs /\ d \in Settings!Drafts
  BY ParseType, DraftType
<1>2. Settings!Says(Settings!Built(text, d)) =
        [selects |-> Settings!Normal(d.target), string |-> d.string, object |-> d.object,
         kept |-> c.kept]
  BY <1>1, BuiltSays
<1>3. /\ Settings!Normal(d.target) = Settings!Says(c).selects
      /\ d.string = Settings!Says(c).string /\ d.object = Settings!Says(c).object
      /\ c.kept = Settings!Says(c).kept
  BY <1>1 DEF Settings!DraftOf, Settings!Says, Settings!Configs, Settings!Targets,
     Settings!Profiles, Settings!Named, Settings!Normal, Settings!ReadTarget, Settings!Target,
     Settings!Profile
<1> HIDE DEF c, d
<1> QED
  BY <1>2, <1>3 DEF Settings!Says, c, d

\* The page begins with a load.
LEMMA InitSettings == Init => SettingsIInv
<1> SUFFICES ASSUME Init, part = "settings" PROVE SettingsIInv
  BY DEF SettingsIInv
<1>1. Settings!Init
  BY DEF Init
<1>2. Blank \in Settings!Texts
  BY DEF Settings!Texts
<1>3. Settings!NoWish \in Settings!Wishes
  BY DEF Settings!NoWish, Settings!Wishes, Settings!Fields
<1> QED
  BY <1>1, <1>2, <1>3, DraftType, ClientsAssumption DEF SettingsIInv, SettingsCalm,
     Settings!Init, Settings!SettingsTypeOK, Settings!SettingsAssumption, Settings!Texts,
     Settings!NoSave, Settings!NoWish, Settings!Fields

\* Typing, switching views, saving and answers keep the page at what is meant.
LEMMA NextSettings ==
    ASSUME SettingsIInv, [Settings!Next]_settingsVars, part = "settings", part' = part
    PROVE  SettingsIInv'
<1> DEFINE S == Settings!SettingsTypeOK
           C == settingsCalm /\ alone => SettingsCalm
<1> SUFFICES S' /\ C'
  BY DEF SettingsIInv
<1>a. S /\ C /\ Settings!SettingsAssumption
  BY ClientsAssumption DEF SettingsIInv
<1>0. CASE UNCHANGED settingsVars
  BY <1>a, <1>0 DEF settingsVars, SettingsCalm, ShownConfig, Settings!SettingsTypeOK,
     Settings!Wanted
<1>w. Settings!NoWish \in Settings!Wishes
  BY DEF Settings!NoWish, Settings!Wishes, Settings!Fields
<1> HIDE DEF S, C
<1>n. ASSUME Settings!Step,
             alone' = (alone /\ ~Settings!Interferes), settingsCalm' = (settingsCalm /\ ~Settings!Slips)
      PROVE S' /\ C'
  \* What a text shows, when it is what was read or saved last.
  <2>s. ASSUME NEW text \in Settings!Texts, Settings!Show(text)
        PROVE  /\ raw' \in Settings!Texts /\ draft' \in Settings!Drafts /\ meant' \in Settings!Wishes
               /\ (meant.target = Untyped <=> meant.profile = Untyped)'
               /\ text \in Settings!Configs /\ file' = text =>
                    Settings!Says(ShownConfig)' = Settings!Says(Settings!Wanted(meant))'
    <3>1. raw' = text /\ draft' = Settings!DraftOf(text) /\ meant' = Settings!NoWish
      BY <2>s DEF Settings!Show
    <3>2. text \in Settings!Configs => Settings!Parse(text) = text
      BY <1>a DEF Settings!SettingsAssumption, Settings!Parse
    <3>3. file' = text => Settings!Says(Settings!Wanted(meant))' = Settings!Says(text)
      BY <3>1 DEF Settings!Says, Settings!Wanted, Settings!NoWish, Settings!Fields
    <3> QED
      BY <3>1, <3>2, <3>3, <1>w, DraftType, ShownAgainSays DEF ShownConfig, Settings!NoWish,
         Settings!Fields
  <2>1. CASE Settings!Loads
    <3>1. /\ reading /\ reading' = FALSE /\ Settings!Show(file) /\ UNCHANGED <<file, view, save, typed>>
      BY <2>1 DEF Settings!Loads
    <3>2. file \in Settings!Texts /\ (file \in Settings!Configs \/ file = Broken)
      BY <1>a DEF S, Settings!SettingsTypeOK, Settings!Texts
    <3>0. raw' \in Settings!Texts /\ draft' \in Settings!Drafts /\ meant' \in Settings!Wishes
      BY <2>s, <3>1, <3>2
    <3>3. S'
      BY <1>a, <3>0, <3>1, <1>n DEF S, Settings!SettingsTypeOK
    <3>4. Settings!Parses(raw)' => file \in Settings!Configs
      BY <3>1, <3>2 DEF Settings!Parses, Settings!Show
    <3>5. C'
      BY <1>a, <2>s, <3>1, <3>2, <3>4, <1>n DEF S, C, SettingsCalm, Settings!SettingsTypeOK,
         Settings!NoSave
    <3> QED
      BY <3>3, <3>5
  <2>2. CASE Settings!LoadFails
    BY <1>a, <1>n, <2>2 DEF Settings!LoadFails, Settings!Slips, S, C, Settings!SettingsTypeOK
  <2>3. CASE Settings!TypeField
    <3>0. /\ view = "settings" /\ ~reading /\ typed' \in 0..MaxTyped /\ typed' # typed
          /\ UNCHANGED <<file, raw, view, reading, save>>
      <4>1. /\ view = "settings" /\ Settings!Typing /\ UNCHANGED <<file, raw, view, reading, save>>
        BY <2>3 DEF Settings!TypeField
      <4>2. typed \in 0..MaxTyped /\ MaxTyped \in Nat
        BY <1>a DEF S, Settings!SettingsTypeOK, Settings!SettingsAssumption
      <4> QED
        BY <4>1, <4>2 DEF Settings!Typing
    <3>1. /\ draft' \in Settings!Drafts /\ meant' \in Settings!Wishes
          /\ \/ /\ draft'.string = draft.string /\ draft'.object = draft.object
                /\ meant'.string = meant.string /\ meant'.object = meant.object
                /\ meant'.target = draft'.target /\ meant'.profile = Settings!Target("absent")
             \/ /\ draft'.target = draft.target /\ draft'.object = draft.object
                /\ meant'.target = meant.target /\ meant'.profile = meant.profile
                /\ meant'.object = meant.object /\ meant'.string = draft'.string
             \/ /\ draft'.target = draft.target /\ draft'.string = draft.string
                /\ meant'.target = meant.target /\ meant'.profile = meant.profile
                /\ meant'.string = meant.string /\ meant'.object = draft'.object
          /\ meant'.kept = meant.kept
      <4>1. draft \in Settings!Drafts /\ meant \in Settings!Wishes
        BY <1>a DEF S, Settings!SettingsTypeOK
      <4>2. CASE \E t \in Settings!FormTargets :
                   /\ t # draft.target /\ draft' = [draft EXCEPT !.target = t]
                   /\ meant' = [meant EXCEPT !.target = t, !.profile = Settings!Target("absent")]
        <5>1. PICK t \in Settings!FormTargets :
                /\ draft' = [draft EXCEPT !.target = t]
                /\ meant' = [meant EXCEPT !.target = t, !.profile = Settings!Target("absent")]
          BY <4>2
        <5>2. t \in Settings!Targets /\ Settings!Target("absent") \in Settings!Profiles
          BY DEF Settings!FormTargets, Settings!Profiles, Settings!Targets, Settings!Target
        <5> QED
          BY <4>1, <5>1, <5>2 DEF Settings!Drafts, Settings!Wishes
      <4>3. CASE \E x \in Settings!FormStrings :
                   /\ x # draft.string /\ draft' = [draft EXCEPT !.string = x]
                   /\ meant' = [meant EXCEPT !.string = x]
        BY <4>1, <4>3 DEF Settings!Drafts, Settings!Wishes, Settings!FormStrings
      <4>4. CASE \E x \in Settings!FormObjects :
                   /\ x # draft.object /\ draft' = [draft EXCEPT !.object = x]
                   /\ meant' = [meant EXCEPT !.object = x]
        BY <4>1, <4>4 DEF Settings!Drafts, Settings!Wishes, Settings!FormObjects
      <4> QED
        BY <2>3, <4>2, <4>3, <4>4 DEF Settings!TypeField
    <3>2. S'
      BY <1>a, <1>n, <3>0, <3>1 DEF S, Settings!SettingsTypeOK
    <3>3. ASSUME settingsCalm', alone', Settings!Parses(raw)
          PROVE  Settings!Says(ShownConfig)' = Settings!Says(Settings!Wanted(meant))'
      <4>1. SettingsCalm /\ raw \in Settings!Texts /\ draft \in Settings!Drafts
        BY <1>a, <1>n, <3>3 DEF S, C, Settings!SettingsTypeOK
      <4>2. Settings!Says(ShownConfig) = Settings!Says(Settings!Wanted(meant))
        BY <3>0, <3>3, <4>1 DEF SettingsCalm
      <4> DEFINE A == Settings!Wanted(meant)
                 B == Settings!Wanted(meant)'
      <4>3. Settings!Says(A) =
              [selects |-> Settings!Normal(draft.target), string |-> draft.string,
               object |-> draft.object, kept |-> Settings!Parse(raw).kept]
        BY <3>0, <4>1, <4>2, BuiltSays DEF ShownConfig
      <4>4. Settings!Says(ShownConfig)' =
              [selects |-> Settings!Normal(draft'.target), string |-> draft'.string,
               object |-> draft'.object, kept |-> Settings!Parse(raw).kept]
        BY <3>0, <3>1, <4>1, BuiltSays DEF ShownConfig
      <4>5. /\ Settings!Says(A).string = draft.string /\ Settings!Says(A).object = draft.object
            /\ Settings!Says(A).kept = Settings!Parse(raw).kept
            /\ Settings!Says(A).selects = Settings!Normal(draft.target)
        BY <4>3
      <4>6. /\ Settings!Says(B).string = draft'.string /\ Settings!Says(B).object = draft'.object
            /\ Settings!Says(B).kept = Settings!Parse(raw).kept
        BY <1>a, <3>0, <3>1, <4>5 DEF Settings!Says, Settings!Wanted, Settings!Fields,
           Settings!SettingsAssumption, Settings!Drafts, Settings!FormStrings, Settings!FormObjects
      <4>7. Settings!Says(B).selects = Settings!Normal(draft'.target)
        BY <1>a, <3>0, <3>1, <4>5 DEF Settings!Says, Settings!Wanted, Settings!Fields,
           Settings!SettingsAssumption, Settings!Drafts, Settings!FormTargets, Settings!Targets,
           Settings!Named, Settings!Normal, Settings!Target, Settings!Profile
      <4>8. Settings!Says(B) = [selects |-> Settings!Says(B).selects,
               string |-> Settings!Says(B).string, object |-> Settings!Says(B).object,
               kept |-> Settings!Says(B).kept]
        BY DEF Settings!Says
      <4> QED
        BY <4>4, <4>6, <4>7, <4>8
    <3>4. settingsCalm' /\ alone' => (meant'.target = Untyped <=> meant'.profile = Untyped)
      <4>1. settingsCalm' /\ alone' => (meant.target = Untyped <=> meant.profile = Untyped)
        BY <1>a, <1>n DEF C, SettingsCalm
      <4>2. draft'.target \in Settings!Targets /\ Settings!Target("absent") \in Settings!Targets
        BY <3>1 DEF Settings!Drafts, Settings!FormTargets, Settings!Targets, Settings!Target
      <4>3. draft'.target # Untyped /\ Settings!Target("absent") # Untyped
        BY <1>a, <4>2 DEF Settings!SettingsAssumption
      <4> QED
        BY <3>1, <4>1, <4>3
    <3>5. alone' => save = Settings!NoSave
      BY <1>n, <3>0 DEF Settings!Interferes
    <3>6. C'
      BY <1>a, <1>n, <3>0, <3>3, <3>4, <3>5 DEF C, SettingsCalm, Settings!NoSave, Settings!Parses
    <3> QED
      BY <3>2, <3>6
  <2>4. ASSUME NEW text \in Samples \cup {Broken, Blank}, Settings!TypeText(text) PROVE S' /\ C'
    <3>0. /\ view = "raw" /\ ~reading /\ typed' \in 0..MaxTyped /\ typed' # typed /\ raw' = text
          /\ text \in Settings!Texts /\ UNCHANGED <<file, draft, view, reading, save>>
          /\ meant' = IF Settings!Parses(text) THEN Settings!Parse(text) ELSE meant
      BY <1>a, <2>4 DEF Settings!TypeText, Settings!Typing, S, Settings!SettingsTypeOK,
         Settings!SettingsAssumption, Settings!Texts
    <3>1. Settings!Parse(text) \in Settings!Configs
      BY <3>0, ParseType
    <3>2. /\ Settings!Parse(text) \in Settings!Wishes /\ Settings!Parse(text).target # Untyped
          /\ Settings!Parse(text).profile # Untyped
      BY <1>a, <3>1 DEF Settings!Configs, Settings!Wishes, Settings!SettingsAssumption,
         Settings!Profiles
    <3>3. S'
      BY <1>a, <1>n, <3>0, <3>2 DEF S, Settings!SettingsTypeOK
    <3>4. Settings!Parses(text) =>
            Settings!Says(Settings!Wanted(meant))' = Settings!Says(Settings!Parse(text))
      BY <1>a, <3>0, <3>1 DEF Settings!Says, Settings!Wanted, Settings!Fields, Settings!Configs,
         Settings!SettingsAssumption, Settings!Profiles
    <3>5. alone' => save = Settings!NoSave
      BY <1>n, <3>0 DEF Settings!Interferes
    <3>6. C'
      <4>1. ASSUME settingsCalm', alone' PROVE SettingsCalm'
        <5>1. SettingsCalm /\ save = Settings!NoSave /\ save' = save
          BY <1>a, <1>n, <3>0, <3>5, <4>1 DEF C
        <5>2. meant'.target = Untyped <=> meant'.profile = Untyped
          BY <3>0, <3>2, <5>1 DEF SettingsCalm
        <5>3. Settings!Parses(raw)' =>
                Settings!Says(ShownConfig)' = Settings!Says(Settings!Wanted(meant))'
          BY <3>0, <3>4 DEF ShownConfig, Settings!Parses
        <5> QED
          BY <3>0, <5>1, <5>2, <5>3 DEF SettingsCalm, Settings!NoSave
      <4> QED
        BY <4>1 DEF C
    <3> QED
      BY <3>3, <3>6
  <2>5. CASE Settings!SwitchToRaw
    <3>0. /\ ~reading /\ Settings!Builds(raw, draft) /\ view' = "raw"
          /\ raw' = Settings!Built(raw, draft) /\ UNCHANGED <<file, draft, reading, save, typed, meant>>
          /\ raw \in Settings!Texts /\ draft \in Settings!Drafts
      BY <1>a, <2>5 DEF Settings!SwitchToRaw, S, Settings!SettingsTypeOK
    <3>1. raw' \in Settings!Configs
      BY <3>0, BuiltSays DEF Settings!Builds
    <3>2. S'
      BY <1>a, <1>n, <3>0, <3>1 DEF S, Settings!SettingsTypeOK, Settings!Texts
    <3>3. settingsCalm' => settingsCalm /\ view = "settings"
      BY <1>a, <1>n, <2>5 DEF Settings!Slips, S, Settings!SettingsTypeOK
    <3>4. Settings!Parse(raw') = raw' /\ Settings!Parses(raw) /\ Settings!Parses(raw')
      BY <1>a, <3>0, <3>1 DEF Settings!SettingsAssumption, Settings!Parse, Settings!Parses,
         Settings!Builds
    <3>5. settingsCalm' => ShownConfig' = ShownConfig
      BY <3>0, <3>3, <3>4 DEF ShownConfig, Settings!Parse
    <3>6. Settings!Says(Settings!Wanted(meant))' = Settings!Says(Settings!Wanted(meant))
      BY <3>0 DEF Settings!Wanted, Settings!Says
    <3>7. settingsCalm' => Settings!Says(ShownConfig)' = Settings!Says(ShownConfig)
      BY <3>5 DEF Settings!Says
    <3>8. C'
      BY <1>a, <1>n, <3>0, <3>3, <3>4, <3>6, <3>7 DEF C, SettingsCalm, Settings!Parses
    <3> QED
      BY <3>2, <3>8
  <2>6. CASE Settings!SwitchToSettings
    <3>0. /\ ~reading /\ Settings!Parses(raw) /\ view' = "settings"
          /\ draft' = Settings!DraftOf(raw) /\ UNCHANGED <<file, raw, reading, save, typed, meant>>
          /\ raw \in Settings!Texts
      BY <1>a, <2>6 DEF Settings!SwitchToSettings, S, Settings!SettingsTypeOK
    <3>1. S'
      BY <1>a, <1>n, <3>0, DraftType DEF S, Settings!SettingsTypeOK
    <3>2. settingsCalm' => settingsCalm /\ view = "raw"
      BY <1>a, <1>n, <2>6 DEF Settings!Slips, S, Settings!SettingsTypeOK
    <3>3. settingsCalm' => Settings!Says(ShownConfig)' = Settings!Says(ShownConfig)
      <4>1. Settings!Says(Settings!Built(raw, Settings!DraftOf(raw))) = Settings!Says(Settings!Parse(raw))
        BY <3>0, ShownAgainSays
      <4>2. ShownConfig' = Settings!Built(raw, Settings!DraftOf(raw))
        BY <3>0 DEF ShownConfig, Settings!Built, Settings!Parse
      <4>3. settingsCalm' => ShownConfig = Settings!Parse(raw)
        BY <3>2 DEF ShownConfig
      <4>4. Settings!Says(ShownConfig)' = Settings!Says(Settings!Built(raw, Settings!DraftOf(raw)))
        BY <4>2 DEF Settings!Says
      <4> QED
        BY <4>1, <4>3, <4>4
    <3>4. Settings!Says(Settings!Wanted(meant))' = Settings!Says(Settings!Wanted(meant))
      BY <3>0 DEF Settings!Wanted, Settings!Says
    <3>5. C'
      BY <1>a, <1>n, <3>0, <3>2, <3>3, <3>4 DEF C, SettingsCalm, Settings!Parses
    <3> QED
      BY <3>1, <3>5
  <2>7. CASE Settings!Save
    <3>0. /\ ~reading /\ save = Settings!NoSave /\ Settings!Valid
          /\ save' = [stage |-> "sent", wish |-> meant,
                      text |-> IF view = "raw" THEN raw ELSE Settings!Built(raw, draft)]
          /\ UNCHANGED <<file, raw, draft, view, reading, typed, meant>>
          /\ raw \in Settings!Texts /\ draft \in Settings!Drafts /\ meant \in Settings!Wishes
          /\ view \in {"raw", "settings"}
      BY <1>a, <2>7 DEF Settings!Save, S, Settings!SettingsTypeOK
    <3>1. /\ save'.stage = "sent" /\ save'.wish = meant /\ save' # Settings!NoSave
          /\ save'.text = IF view = "raw" THEN raw ELSE Settings!Built(raw, draft)
      BY <3>0 DEF Settings!NoSave
    <3>2. CASE view = "raw"
      <4>1. raw \in Settings!Configs /\ Settings!Parses(raw) /\ ShownConfig = raw
        BY <3>0, <3>2, <1>a DEF Settings!Valid, Settings!Texts, Settings!Parses, ShownConfig,
           Settings!Parse, Settings!SettingsAssumption
      <4>2. save'.text \in Settings!Configs /\ save'.text = ShownConfig /\ Settings!Parses(raw)
        BY <3>1, <3>2, <4>1
      <4> QED
        BY <1>a, <1>n, <3>0, <3>1, <4>2 DEF S, C, SettingsCalm, Settings!SettingsTypeOK,
           ShownConfig, Settings!Parse, Settings!Parses, Settings!Wanted, Settings!Says
    <3>3. CASE view # "raw"
      <4>1. save'.text \in Settings!Configs /\ save'.text = ShownConfig /\ Settings!Parses(raw)
        BY <3>0, <3>1, <3>3, BuiltSays DEF Settings!Valid, Settings!Builds, ShownConfig
      <4> QED
        BY <1>a, <1>n, <3>0, <3>1, <4>1 DEF S, C, SettingsCalm, Settings!SettingsTypeOK,
           ShownConfig, Settings!Parse, Settings!Parses, Settings!Wanted, Settings!Says,
           Settings!Built
    <3> QED
      BY <3>2, <3>3
  <2>8. CASE Settings!SaveServed
    <3>0. /\ save.stage = "sent" /\ file' = save.text /\ save' = [save EXCEPT !.stage = "served"]
          /\ UNCHANGED <<raw, draft, view, reading, typed, meant>>
          /\ save.text \in Settings!Configs
      BY <1>a, <2>8 DEF Settings!SaveServed, S, Settings!SettingsTypeOK
    <3>1. /\ save'.stage = "served" /\ save'.text = save.text /\ save'.wish = save.wish
          /\ save # Settings!NoSave
      BY <1>a, <3>0 DEF S, Settings!SettingsTypeOK, Settings!NoSave
    <3>2. S'
      BY <1>a, <1>n, <3>0, <3>1 DEF S, Settings!SettingsTypeOK
    <3>3. ASSUME settingsCalm', alone'
          PROVE  Settings!Says(Settings!Wanted(meant))' = Settings!Says(Settings!Wanted(meant))
      <4> DEFINE A == Settings!Wanted(meant)
                 B == Settings!Wanted(meant)'
      <4>1. Settings!Says(save.text) = Settings!Says(A) /\ (meant.target = Untyped <=> meant.profile = Untyped)
        BY <1>a, <1>n, <3>0, <3>3 DEF C, SettingsCalm
      <4>2. B = [f \in Settings!Fields |-> IF meant[f] = Untyped THEN save.text[f] ELSE meant[f]]
        BY <3>0 DEF Settings!Wanted
      <4>3. /\ Settings!Says(B).string = Settings!Says(A).string
            /\ Settings!Says(B).object = Settings!Says(A).object
            /\ Settings!Says(B).kept = Settings!Says(A).kept
        BY <4>1, <4>2 DEF Settings!Says, Settings!Wanted, Settings!Fields
      <4>4. Settings!Says(B).selects = Settings!Says(A).selects
        <5>1. CASE meant.target = Untyped
          <6>1. Settings!Says(B).selects = Settings!Says(save.text).selects
            BY <4>1, <4>2, <5>1 DEF Settings!Says, Settings!Fields
          <6> QED
            BY <4>1, <6>1
        <5>2. CASE meant.target # Untyped
          BY <4>1, <4>2, <5>2 DEF Settings!Says, Settings!Wanted, Settings!Fields
        <5> QED
          BY <5>1, <5>2
      <4> QED
        BY <4>3, <4>4 DEF Settings!Says
    <3>4. Settings!Says(ShownConfig)' = Settings!Says(ShownConfig)
      BY <3>0 DEF ShownConfig, Settings!Says, Settings!Built, Settings!Parse
    <3>5. C'
      BY <1>a, <1>n, <3>0, <3>1, <3>3, <3>4 DEF C, SettingsCalm, Settings!Parses,
         S, Settings!SettingsTypeOK
    <3> QED
      BY <3>2, <3>5
  <2>9. CASE Settings!Saved
    <3>0. /\ save.stage = "served" /\ save' = Settings!NoSave /\ Settings!Show(save.text)
          /\ UNCHANGED <<file, view, reading, typed>> /\ save.text \in Settings!Configs
          /\ save.text \in Settings!Texts /\ view \in {"raw", "settings"}
      BY <1>a, <2>9 DEF Settings!Saved, S, Settings!SettingsTypeOK, Settings!Texts
    <3>1. S'
      <4>1. raw' \in Settings!Texts /\ draft' \in Settings!Drafts /\ meant' \in Settings!Wishes
        BY <2>s, <3>0
      <4> QED
        BY <1>a, <1>n, <1>w, <3>0, <4>1 DEF S, Settings!SettingsTypeOK, Settings!NoSave
    <3>2. save # Settings!NoSave
      BY <3>0 DEF Settings!NoSave
    <3>3. C'
      BY <1>a, <1>n, <2>s, <3>0, <3>2 DEF C, SettingsCalm, Settings!NoSave
    <3> QED
      BY <3>1, <3>3
  <2>10. CASE Settings!SaveFails
    <3>0. save # Settings!NoSave /\ save' = Settings!NoSave
          /\ UNCHANGED <<file, raw, draft, view, reading, typed, meant>>
      BY <2>10 DEF Settings!SaveFails
    <3>1. S'
      BY <1>a, <1>n, <1>w, <3>0 DEF S, Settings!SettingsTypeOK, Settings!NoSave
    <3>2. C'
      BY <1>a, <1>n, <3>0 DEF C, SettingsCalm, ShownConfig, Settings!Wanted, Settings!NoSave,
         Settings!Parses
    <3> QED
      BY <3>1, <3>2
  <2>11. CASE Settings!Foreign
    <3>0. /\ file' # file /\ file' \in Settings!Configs \cup {Broken} /\ typed' \in 0..MaxTyped
          /\ UNCHANGED <<raw, draft, view, reading, save, meant>>
      BY <1>a, <2>11 DEF Settings!Foreign, S, Settings!SettingsTypeOK, Settings!SettingsAssumption
    <3>1. S'
      BY <1>a, <1>n, <3>0 DEF S, Settings!SettingsTypeOK
    <3>2. C'
      <4>1. ASSUME settingsCalm', alone' PROVE SettingsCalm'
        <5>1. SettingsCalm /\ reading
          BY <1>a, <1>n, <3>0, <4>1 DEF C, Settings!Interferes, S, Settings!SettingsTypeOK
        <5> QED
          BY <3>0, <5>1 DEF SettingsCalm, Settings!NoSave
      <4> QED
        BY <4>1 DEF C
    <3> QED
      BY <3>1, <3>2
  <2> QED
    BY <1>n, <2>1, <2>2, <2>3, <2>4, <2>5, <2>6, <2>7, <2>8, <2>9, <2>10, <2>11 DEF Settings!Step
<1> QED
  BY <1>0, <1>n DEF Settings!Next

\* Whichever view a field was typed in last and whichever one is saved, config.json says
\* what was typed, and says what it said in the fields that nobody typed, unless others
\* interfere or the page slips (SystemSettingsPage.tsx:110-207).
THEOREM SavedIsWanted == Spec => CalmSaveIsWanted
<1>1. Init => SettingsIInv
  BY InitSettings
<1>2. SettingsIInv /\ [Next]_vars => SettingsIInv'
  BY NextSettings, SettingsStep DEF SettingsIInv
<1>3. SettingsIInv => [part = "settings" => Settings!CalmSaveIsWantedStep]_settingsVars
  BY DEF SettingsIInv, Settings!CalmSaveIsWantedStep, SettingsCalm, Settings!SettingsTypeOK,
     Settings!SaveServed,
     Settings!NoSave, settingsVars
<1> QED
  BY <1>1, <1>2, <1>3, PTL DEF Spec, CalmSaveIsWanted

-----------------------------------------------------------------------------
(* The import from a local platform (ClaudeMigrationPage.tsx).             *)

\* A scan of a platform.
ScanState == [scan : Nat, state : {"idle", "running", "succeeded", "failed"}]

\* A request of the page to the hub.
Request ==
    [does : {"read", "poll", "start", "import"}, of : Platforms,
     stage : {"sent", "status", "read", "claimed", "refused", "answered"}, saw : ScanState, found : Nat]

\* The type invariant of the local import page.
ImportsTypeOK ==
    /\ status \in [Platforms -> ScanState]
    /\ cached \in [Platforms -> Nat] /\ held \in [Platforms -> Nat] /\ scans \in [Platforms -> Nat]
    /\ phase \in [Platforms -> {"none", "claimed", "scanning", "cached", "concluded"}]
    /\ active \in Platforms
    /\ calls \subseteq Request
    /\ importsCalm \in BOOLEAN /\ untouched \in BOOLEAN

\* A scan that succeeded has left a preview, at least as new as itself.
Covered(job, found) == job.state = "succeeded" => job.scan >= 1 /\ found >= job.scan

\* How the scan of a platform, the preview that is kept and what the page shows relate:
\* nothing that is shown is newer than the last scan that was begun.
ScanOk(p) ==
    /\ held[p] = 0 <=> phase[p] = "none"
    /\ held[p] # 0 => held[p] = scans[p]
    /\ cached[p] <= scans[p] /\ status[p].scan <= scans[p]
    /\ phase[p] = "claimed" => status[p].scan < scans[p]
    /\ phase[p] = "cached" => cached[p] = held[p]
    /\ Covered(status[p], cached[p])
    /\ untouched /\ phase[p] \in {"scanning", "cached"}
          => status[p] = [scan |-> held[p], state |-> "running"]

\* What a request has read is no newer than what the hub has.
CallOk(c) ==
    /\ c.saw.scan <= scans[c.of]
    /\ c.stage = "sent" => c.saw.state = "idle"
    /\ c.stage = "status" => Covered(c.saw, cached[c.of])
    /\ c.stage = "status" /\ phase[c.of] = "claimed" => c.saw.scan < scans[c.of]
    /\ c.stage \in {"read", "answered"} => Covered(c.saw, c.found)
    /\ untouched /\ c.stage = "status" /\ c.saw.state = "running" => status[c.of] = c.saw
    /\ c.does = "import" => c.stage = "sent"
    /\ c.does \in {"read", "poll"} => c.of = active
    /\ c.does = "start" /\ importsCalm => c.of = active

\* The invariant of the local import page.
ImportsIInv ==
    part = "imports" =>
        /\ ImportsTypeOK
        /\ \A p \in Platforms : ScanOk(p)
        /\ \A c \in calls : CallOk(c)
        /\ Imports!SucceededScanIsShown /\ Imports!CalmPageIsOfPlatform

\* A step of the module is one of the local import page, while that is looked at.
LEMMA ImportsStep ==
    ASSUME [Next]_vars
    PROVE  part' = part /\ (part = "imports" => [Imports!Next]_importsVars)
BY DEF Next, vars

\* What a request begins with.
LEMMA NewCall ==
    ASSUME NEW d, NEW p
    PROVE  Imports!CallFor(d, p) =
             [does |-> d, of |-> p, stage |-> "sent",
              saw |-> [scan |-> 0, state |-> "idle"], found |-> 0]
<1>1. Imports!CallFor(d, p) = [Imports!NoCall EXCEPT !.does = d, !.of = p]
  BY DEF Imports!CallFor
<1>2. Imports!NoCall = [does |-> "read", of |-> Nothing, stage |-> "sent",
                        saw |-> Imports!Idle, found |-> 0]
  BY DEF Imports!NoCall
<1> QED
  BY <1>1, <1>2 DEF Imports!Idle

\* No platform is scanned at the beginning.
LEMMA InitImports == Init => ImportsIInv
<1> SUFFICES ASSUME Init, part = "imports" PROVE ImportsIInv
  BY DEF ImportsIInv
<1>1. Imports!Init
  BY DEF Init
<1> QED
  BY <1>1, NewCall DEF ImportsIInv, Imports!Init, ImportsTypeOK, ScanOk, CallOk, Covered,
     ScanState, Request,
     Imports!Idle, Imports!SucceededScanIsShown, Imports!CalmPageIsOfPlatform

\* Answers in any order, restarts of the hub and changes of the platform keep it.
LEMMA NextImports ==
    ASSUME ImportsIInv, [Imports!Next]_importsVars, part = "imports", part' = part
    PROVE  ImportsIInv'
<1> DEFINE S == \A p \in Platforms : ScanOk(p)
           C == \A c \in calls : CallOk(c)
           P == Imports!SucceededScanIsShown /\ Imports!CalmPageIsOfPlatform
<1> SUFFICES ImportsTypeOK' /\ S' /\ C' /\ P'
  BY DEF ImportsIInv
<1>a. ImportsTypeOK /\ S /\ C /\ P
  BY DEF ImportsIInv
<1>b. Nothing \notin [of : Platforms, scan : Nat]
  BY ClientsAssumption DEF Imports!LocalImportAssumption
<1>0. CASE UNCHANGED importsVars
  BY <1>a, <1>0 DEF importsVars, ImportsTypeOK, ScanOk, CallOk, Covered,
     Imports!SucceededScanIsShown, Imports!CalmPageIsOfPlatform
<1>n. ASSUME Imports!Next PROVE ImportsTypeOK' /\ S' /\ C' /\ P'
  <2> USE <1>a, <1>b DEF ImportsTypeOK, ScanState, Request
  <2>a. /\ importsCalm' = (importsCalm /\ ~Imports!Strays)
        /\ untouched' = (untouched /\ ~Imports!Overtakes)
    BY <1>n DEF Imports!Next
  <2>1. ASSUME NEW c \in calls, Imports!StatusRead(c) PROVE ImportsTypeOK' /\ S' /\ C' /\ P'
    <3>0. PICK d \in Request :
            /\ c \in Request /\ calls' = (calls \ {c}) \cup {d}
            /\ d.does = c.does /\ d.of = c.of /\ d.stage = "status" /\ d.saw = status[c.of]
      <4> DEFINE d == [c EXCEPT !.stage = "status", !.saw = status[c.of]]
      <4>1. /\ d \in Request /\ c \in Request /\ calls' = (calls \ {c}) \cup {d}
            /\ d.does = c.does /\ d.of = c.of /\ d.stage = "status" /\ d.saw = status[c.of]
        BY <2>1 DEF Imports!StatusRead, Imports!Becomes
      <4> HIDE DEF d
      <4> QED
        BY <4>1
    <3>1. ImportsTypeOK' /\ S' /\ P'
      BY <2>1, <3>0, <2>a DEF Imports!StatusRead, Imports!server, Imports!shown, ScanOk,
         Covered,
         Imports!Strays, Imports!SucceededScanIsShown, Imports!CalmPageIsOfPlatform
    <3>2. CallOk(d)'
      BY <2>1, <3>0, <2>a DEF Imports!StatusRead, Imports!server, Imports!shown, ScanOk, CallOk,
         Covered
    <3>3. \A e \in calls \ {c} : CallOk(e)'
      BY <2>1, <2>a DEF Imports!StatusRead, Imports!server, Imports!shown, CallOk, Covered
    <3> QED
      BY <3>0, <3>1, <3>2, <3>3
  <2>2. ASSUME NEW c \in calls, Imports!PreviewRead(c) PROVE ImportsTypeOK' /\ S' /\ C' /\ P'
    <3>0. PICK seen \in ScanState :
            /\ c \in Request /\ seen = IF Imports!Interrupted(c.saw, c.of)
                                      THEN [c.saw EXCEPT !.state = "failed"] ELSE c.saw
            /\ seen.scan = c.saw.scan /\ seen.state \in {"failed", c.saw.state}
            /\ seen # c.saw => /\ seen.state = "failed" /\ c.saw.state = "running"
                               /\ held[c.of] # c.saw.scan
      <4> DEFINE failed == [c.saw EXCEPT !.state = "failed"]
      <4>1. c \in Request /\ c.saw \in ScanState
        OBVIOUS
      <4>2. failed \in ScanState /\ failed.scan = c.saw.scan /\ failed.state = "failed"
        BY <4>1
      <4> HIDE DEF failed
      <4>3. CASE Imports!Interrupted(c.saw, c.of)
        BY <4>1, <4>2, <4>3 DEF Imports!Interrupted, failed
      <4>4. CASE ~Imports!Interrupted(c.saw, c.of)
        BY <4>1, <4>4
      <4> QED
        BY <4>3, <4>4
    <3>1. \/ status' = status
          \/ seen # c.saw /\ status' = [status EXCEPT ![c.of] = seen]
      BY <2>2, <3>0 DEF Imports!PreviewRead
    <3>2. calls' = (calls \ {c})
                                  \cup {[c EXCEPT !.stage = IF c.does = "start" THEN "read" ELSE "answered",
                                                      !.saw = seen, !.found = cached[c.of]]}
      BY <2>2, <3>0 DEF Imports!PreviewRead, Imports!Becomes
    <3>3. PICK d \in Request :
            /\ calls' = (calls \ {c}) \cup {d}
            /\ d.does = c.does /\ d.of = c.of /\ d.stage \in {"read", "answered"}
            /\ d.saw = seen /\ d.found = cached[c.of]
      <4> DEFINE d == [c EXCEPT !.stage = IF c.does = "start" THEN "read" ELSE "answered",
                                !.saw = seen, !.found = cached[c.of]]
      <4>1. /\ d \in Request /\ calls' = (calls \ {c}) \cup {d}
            /\ d.does = c.does /\ d.of = c.of /\ d.stage \in {"read", "answered"}
            /\ d.saw = seen /\ d.found = cached[c.of]
        BY <3>0, <3>2
      <4> HIDE DEF d
      <4> QED
        BY <4>1
    <3>4. ImportsTypeOK' /\ P'
      BY <2>2, <3>0, <3>1, <3>2, <3>3, <2>a DEF Imports!PreviewRead, Imports!server,
         Imports!shown,
         Imports!Strays, Imports!SucceededScanIsShown, Imports!CalmPageIsOfPlatform
    <3>5. ASSUME NEW p \in Platforms PROVE ScanOk(p)'
      BY <2>2, <3>0, <3>1, <2>a DEF Imports!PreviewRead, Imports!server, Imports!shown, ScanOk,
         CallOk, Covered
    <3>6. CallOk(d)'
      BY <2>2, <3>0, <3>3, <2>a DEF Imports!PreviewRead, Imports!server, Imports!shown, CallOk,
         Covered
    <3>7. ASSUME NEW e \in calls \ {c} PROVE CallOk(e)'
      <4>1. e \in calls \cap calls' /\ CallOk(e) /\ e \in Request
        BY <3>3
      <4>2. untouched' /\ e.stage = "status" /\ e.saw.state = "running" => status'[e.of] = e.saw
        BY <4>1, <2>a DEF Imports!Overtakes
      <4> QED
        BY <2>2, <4>1, <4>2, <2>a DEF Imports!PreviewRead, CallOk, Covered, Imports!Strays
    <3> QED
      BY <3>3, <3>4, <3>5, <3>6, <3>7
  <2>3. ASSUME NEW c \in calls, Imports!Joins(c) PROVE ImportsTypeOK' /\ S' /\ C' /\ P'
    <3>0. PICK d \in Request :
            /\ c \in Request /\ calls' = (calls \ {c}) \cup {d}
            /\ d.does = c.does /\ d.of = c.of /\ d.stage = "answered" /\ d.found = c.found
            /\ d.saw = IF c.saw = Imports!Idle THEN Imports!Runs(held[c.of]) ELSE c.saw
      <4> DEFINE d == [c EXCEPT !.stage = "answered",
                                !.saw = IF c.saw = Imports!Idle THEN Imports!Runs(held[c.of]) ELSE c.saw]
      <4>1. d \in Request /\ c \in Request
        BY <2>3 DEF Imports!Joins, Imports!Runs
      <4>2. calls' = (calls \ {c}) \cup {d}
        BY <2>3 DEF Imports!Joins, Imports!Becomes
      <4>3. /\ d.does = c.does /\ d.of = c.of /\ d.stage = "answered" /\ d.found = c.found
            /\ d.saw = IF c.saw = Imports!Idle THEN Imports!Runs(held[c.of]) ELSE c.saw
        BY <2>3, <4>1 DEF Imports!Joins, Imports!Runs
      <4> HIDE DEF d
      <4> QED
        BY <4>1, <4>2, <4>3
    <3>1. ImportsTypeOK' /\ P'
      BY <2>3, <3>0, <2>a DEF Imports!Joins, Imports!server, Imports!shown, Imports!Runs,
         Imports!Strays, Imports!SucceededScanIsShown, Imports!CalmPageIsOfPlatform
    <3>2. ASSUME NEW q \in Platforms PROVE ScanOk(q)'
      BY <2>3, <3>0, <2>a DEF Imports!Joins, Imports!server, Imports!shown, Imports!Runs,
         ScanOk, Covered
    <3>3. CallOk(d)'
      BY <2>3, <3>0, <2>a DEF Imports!Joins, Imports!server, Imports!shown, Imports!Runs,
         Imports!Idle, ScanOk, CallOk, Covered, Imports!Strays
    <3>4. ASSUME NEW e \in calls \ {c} PROVE CallOk(e)'
      <4>1. e \in calls \cap calls' /\ CallOk(e) /\ e \in Request
        BY <3>0
      <4>2. untouched' /\ e.stage = "status" /\ e.saw.state = "running" => status'[e.of] = e.saw
        BY <4>1, <2>a DEF Imports!Overtakes
      <4> QED
        BY <2>3, <4>1, <4>2, <2>a DEF Imports!Joins, Imports!server, Imports!shown,
           Imports!Runs, CallOk, Covered, Imports!Strays
    <3> QED
      BY <3>0, <3>1, <3>2, <3>3, <3>4
  <2>4. ASSUME NEW c \in calls, Imports!Claims(c) PROVE ImportsTypeOK' /\ S' /\ C' /\ P'
    <3>0. PICK d \in Request :
            /\ c \in Request /\ calls' = (calls \ {c}) \cup {d}
            /\ d.does = c.does /\ d.of = c.of /\ d.stage = "claimed" /\ d.found = c.found
            /\ d.saw = c.saw
      <4> DEFINE d == [c EXCEPT !.stage = "claimed"]
      <4>1. d \in Request /\ c \in Request
        BY <2>4 DEF Imports!Claims, Imports!Runs
      <4>2. calls' = (calls \ {c}) \cup {d}
        BY <2>4 DEF Imports!Claims, Imports!Becomes
      <4>3. /\ d.does = c.does /\ d.of = c.of /\ d.stage = "claimed" /\ d.found = c.found
            /\ d.saw = c.saw
        BY <2>4, <4>1 DEF Imports!Claims, Imports!Runs
      <4> HIDE DEF d
      <4> QED
        BY <4>1, <4>2, <4>3
    <3>1. ImportsTypeOK' /\ P'
      BY <2>4, <3>0, <2>a DEF Imports!Claims, Imports!server, Imports!shown, Imports!Runs,
         Imports!Strays, Imports!SucceededScanIsShown, Imports!CalmPageIsOfPlatform
    <3>2. ASSUME NEW q \in Platforms PROVE ScanOk(q)'
      BY <2>4, <3>0, <2>a DEF Imports!Claims, Imports!server, Imports!shown, Imports!Runs,
         ScanOk, Covered
    <3>3. CallOk(d)'
      BY <2>4, <3>0, <2>a DEF Imports!Claims, Imports!server, Imports!shown, Imports!Runs,
         Imports!Idle, ScanOk, CallOk, Covered, Imports!Strays
    <3>4. ASSUME NEW e \in calls \ {c} PROVE CallOk(e)'
      <4>1. e \in calls \cap calls' /\ CallOk(e) /\ e \in Request
        BY <3>0
      <4>2. untouched' /\ e.stage = "status" /\ e.saw.state = "running" => status'[e.of] = e.saw
        BY <4>1, <2>a DEF Imports!Overtakes
      <4> QED
        BY <2>4, <4>1, <4>2, <2>a DEF Imports!Claims, Imports!server, Imports!shown,
           Imports!Runs, CallOk, Covered, Imports!Strays
    <3> QED
      BY <3>0, <3>1, <3>2, <3>3, <3>4
  <2>15. ASSUME NEW c \in calls, Imports!Begins(c) PROVE ImportsTypeOK' /\ S' /\ C' /\ P'
    <3>0. PICK d \in Request :
            /\ c \in Request /\ calls' = (calls \ {c}) \cup {d}
            /\ d.does = c.does /\ d.of = c.of /\ d.stage = "answered" /\ d.found = c.found
            /\ d.saw = Imports!Runs(scans[c.of])
      <4> DEFINE d == [c EXCEPT !.stage = "answered", !.saw = Imports!Runs(scans[c.of])]
      <4>1. d \in Request /\ c \in Request
        BY <2>15 DEF Imports!Begins, Imports!Runs
      <4>2. calls' = (calls \ {c}) \cup {d}
        BY <2>15 DEF Imports!Begins, Imports!Becomes
      <4>3. /\ d.does = c.does /\ d.of = c.of /\ d.stage = "answered" /\ d.found = c.found
            /\ d.saw = Imports!Runs(scans[c.of])
        BY <2>15, <4>1 DEF Imports!Begins, Imports!Runs
      <4> HIDE DEF d
      <4> QED
        BY <4>1, <4>2, <4>3
    <3>1. ImportsTypeOK' /\ P'
      BY <2>15, <3>0, <2>a DEF Imports!Begins, Imports!server, Imports!shown, Imports!Runs,
         Imports!Strays, Imports!SucceededScanIsShown, Imports!CalmPageIsOfPlatform
    <3>2. ASSUME NEW q \in Platforms PROVE ScanOk(q)'
      BY <2>15, <3>0, <2>a DEF Imports!Begins, Imports!server, Imports!shown, Imports!Runs,
         ScanOk, Covered
    <3>3. CallOk(d)'
      BY <2>15, <3>0, <2>a DEF Imports!Begins, Imports!server, Imports!shown, Imports!Runs,
         Imports!Idle, ScanOk, CallOk, Covered, Imports!Strays
    <3>4. ASSUME NEW e \in calls \ {c} PROVE CallOk(e)'
      <4>1. e \in calls \cap calls' /\ CallOk(e) /\ e \in Request
        BY <3>0
      <4>2. untouched' /\ e.stage = "status" /\ e.saw.state = "running" => status'[e.of] = e.saw
        BY <4>1, <2>a DEF Imports!Overtakes
      <4> QED
        BY <2>15, <4>1, <4>2, <2>a DEF Imports!Begins, Imports!server, Imports!shown,
           Imports!Runs, CallOk, Covered, Imports!Strays
    <3> QED
      BY <3>0, <3>1, <3>2, <3>3, <3>4
  <2>16. ASSUME NEW c \in calls, Imports!BeginsNot(c) PROVE ImportsTypeOK' /\ S' /\ C' /\ P'
    <3>0. PICK d \in Request :
            /\ c \in Request /\ calls' = (calls \ {c}) \cup {d}
            /\ d.does = c.does /\ d.of = c.of /\ d.stage = "refused" /\ d.found = c.found
            /\ d.saw = c.saw
      <4> DEFINE d == [c EXCEPT !.stage = "refused"]
      <4>1. d \in Request /\ c \in Request
        BY <2>16 DEF Imports!BeginsNot, Imports!Runs
      <4>2. calls' = (calls \ {c}) \cup {d}
        BY <2>16 DEF Imports!BeginsNot, Imports!Becomes
      <4>3. /\ d.does = c.does /\ d.of = c.of /\ d.stage = "refused" /\ d.found = c.found
            /\ d.saw = c.saw
        BY <2>16, <4>1 DEF Imports!BeginsNot, Imports!Runs
      <4> HIDE DEF d
      <4> QED
        BY <4>1, <4>2, <4>3
    <3>1. ImportsTypeOK' /\ P'
      BY <2>16, <3>0, <2>a DEF Imports!BeginsNot, Imports!server, Imports!shown, Imports!Runs,
         Imports!Strays, Imports!SucceededScanIsShown, Imports!CalmPageIsOfPlatform
    <3>2. ASSUME NEW q \in Platforms PROVE ScanOk(q)'
      BY <2>16, <3>0, <2>a DEF Imports!BeginsNot, Imports!server, Imports!shown, Imports!Runs,
         ScanOk, Covered
    <3>3. CallOk(d)'
      BY <2>16, <3>0, <2>a DEF Imports!BeginsNot, Imports!server, Imports!shown, Imports!Runs,
         Imports!Idle, ScanOk, CallOk, Covered, Imports!Strays
    <3>4. ASSUME NEW e \in calls \ {c} PROVE CallOk(e)'
      <4>1. e \in calls \cap calls' /\ CallOk(e) /\ e \in Request
        BY <3>0
      <4>2. untouched' /\ e.stage = "status" /\ e.saw.state = "running" => status'[e.of] = e.saw
        BY <4>1, <2>a DEF Imports!Overtakes
      <4> QED
        BY <2>16, <4>1, <4>2, <2>a DEF Imports!BeginsNot, Imports!server, Imports!shown,
           Imports!Runs, CallOk, Covered, Imports!Strays
    <3> QED
      BY <3>0, <3>1, <3>2, <3>3, <3>4
  <2>17. ASSUME NEW c \in calls, Imports!Imported(c) PROVE ImportsTypeOK' /\ S' /\ C' /\ P'
    <3>1. ImportsTypeOK' /\ S' /\ P'
      BY <2>17, <2>a DEF Imports!Imported, Imports!server, ScanOk, Covered, Imports!Strays,
         Imports!SucceededScanIsShown, Imports!CalmPageIsOfPlatform
    <3>2. C'
      BY <2>17, <2>a DEF Imports!Imported, Imports!server, CallOk, Covered, Imports!Strays,
         Imports!Overtakes
    <3> QED
      BY <3>1, <3>2
  <2>5. ASSUME NEW p \in Platforms, Imports!Caches(p) PROVE ImportsTypeOK' /\ S' /\ C' /\ P'
    <3>1. ImportsTypeOK'
      BY <2>5, <2>a DEF Imports!Caches, Imports!server, Imports!shown
    <3>2. S'
      BY <2>5, <2>a DEF Imports!Caches, Imports!server, Imports!shown, ScanOk, Covered
    <3>3. C'
      BY <2>5, <2>a DEF Imports!Caches, Imports!server, Imports!shown, ScanOk, CallOk, Covered,
         Imports!Strays, Imports!Overtakes
    <3>4. P'
      BY <2>5, <2>a DEF Imports!Caches, Imports!server, Imports!shown, CallOk, Covered,
         Imports!Strays, Imports!SucceededScanIsShown, Imports!CalmPageIsOfPlatform
    <3> QED
      BY <3>1, <3>2, <3>3, <3>4
  <2>6. ASSUME NEW p \in Platforms, Imports!Concludes(p) PROVE ImportsTypeOK' /\ S' /\ C' /\ P'
    <3>1. ImportsTypeOK'
      BY <2>6, <2>a DEF Imports!Concludes, Imports!server, Imports!shown
    <3>2. S'
      BY <2>6, <2>a DEF Imports!Concludes, Imports!server, Imports!shown, ScanOk, Covered
    <3>3. C'
      BY <2>6, <2>a DEF Imports!Concludes, Imports!server, Imports!shown, ScanOk, CallOk,
         Covered, Imports!Strays, Imports!Overtakes
    <3>4. P'
      BY <2>6, <2>a DEF Imports!Concludes, Imports!server, Imports!shown, CallOk, Covered,
         Imports!Strays, Imports!SucceededScanIsShown, Imports!CalmPageIsOfPlatform
    <3> QED
      BY <3>1, <3>2, <3>3, <3>4
  <2>7. ASSUME NEW p \in Platforms, Imports!Releases(p) PROVE ImportsTypeOK' /\ S' /\ C' /\ P'
    <3>1. ImportsTypeOK'
      BY <2>7, <2>a DEF Imports!Releases, Imports!server, Imports!shown
    <3>2. S'
      BY <2>7, <2>a DEF Imports!Releases, Imports!server, Imports!shown, ScanOk, Covered
    <3>3. C'
      BY <2>7, <2>a DEF Imports!Releases, Imports!server, Imports!shown, ScanOk, CallOk,
         Covered, Imports!Strays, Imports!Overtakes
    <3>4. P'
      BY <2>7, <2>a DEF Imports!Releases, Imports!server, Imports!shown, CallOk, Covered,
         Imports!Strays, Imports!SucceededScanIsShown, Imports!CalmPageIsOfPlatform
    <3> QED
      BY <3>1, <3>2, <3>3, <3>4
  <2>8. ASSUME Imports!Restart PROVE ImportsTypeOK' /\ S' /\ C' /\ P'
    <3>1. ImportsTypeOK'
      BY <2>8, <2>a DEF Imports!Restart, Imports!server, Imports!shown, Imports!Move
    <3>2. S'
      BY <2>8, <2>a DEF Imports!Restart, Imports!server, Imports!shown, Imports!Move, ScanOk,
         Covered
    <3>3. C'
      BY <2>8, <2>a DEF Imports!Restart, Imports!server, Imports!shown, Imports!Move, ScanOk,
         CallOk, Covered, Imports!Strays, Imports!Overtakes
    <3>4. P'
      BY <2>8, <2>a DEF Imports!Restart, Imports!server, Imports!shown, Imports!Move, CallOk,
         Covered, Imports!Strays, Imports!SucceededScanIsShown, Imports!CalmPageIsOfPlatform
    <3> QED
      BY <3>1, <3>2, <3>3, <3>4
  <2>9. ASSUME NEW c \in calls, Imports!Answered(c) PROVE ImportsTypeOK' /\ S' /\ C' /\ P'
    <3>1. ImportsTypeOK'
      BY <2>9, <2>a DEF Imports!Answered, Imports!server, Imports!shown, Imports!Sees,
         Imports!CallsOff, Imports!Idle
    <3>2. S'
      BY <2>9, <2>a DEF Imports!Answered, Imports!server, Imports!shown, Imports!Sees,
         Imports!CallsOff, Imports!Idle, ScanOk, Covered
    <3>3. C'
      BY <2>9, <2>a DEF Imports!Answered, Imports!server, Imports!shown, Imports!Sees,
         Imports!CallsOff, Imports!Idle, ScanOk, CallOk, Covered, Imports!Strays,
         Imports!Overtakes
    <3>4. P'
      BY <2>9, <2>a DEF Imports!Answered, Imports!server, Imports!shown, Imports!Sees,
         Imports!CallsOff, Imports!Idle, CallOk, Covered, Imports!Strays,
         Imports!SucceededScanIsShown, Imports!CalmPageIsOfPlatform
    <3> QED
      BY <3>1, <3>2, <3>3, <3>4
  <2>10. ASSUME NEW c \in calls, Imports!Fails(c) PROVE ImportsTypeOK' /\ S' /\ C' /\ P'
    <3>1. ImportsTypeOK'
      BY <2>10, <2>a DEF Imports!Fails, Imports!server, Imports!shown
    <3>2. S'
      BY <2>10, <2>a DEF Imports!Fails, Imports!server, Imports!shown, ScanOk, Covered
    <3>3. C'
      BY <2>10, <2>a DEF Imports!Fails, Imports!server, Imports!shown, ScanOk, CallOk, Covered,
         Imports!Strays, Imports!Overtakes
    <3>4. P'
      BY <2>10, <2>a DEF Imports!Fails, Imports!server, Imports!shown, CallOk, Covered,
         Imports!Strays, Imports!SucceededScanIsShown, Imports!CalmPageIsOfPlatform
    <3> QED
      BY <3>1, <3>2, <3>3, <3>4
  <2>11. ASSUME NEW p \in Platforms, Imports!SelectPlatform(p) \/ Imports!FollowLocation(p)
         PROVE  ImportsTypeOK' /\ S' /\ C' /\ P'
    <3>0. UNCHANGED <<status, cached, held, scans, phase>> /\ Imports!TurnsTo(p)
      BY <2>11 DEF Imports!SelectPlatform, Imports!FollowLocation, Imports!server
    <3>1. CASE p = active
      BY <3>0, <3>1, <2>a DEF Imports!TurnsTo, ScanOk, CallOk, Covered, Imports!Strays,
         Imports!Overtakes, Imports!SucceededScanIsShown, Imports!CalmPageIsOfPlatform
    <3>2. CASE p # active
      <4>1. /\ active' = p /\ task' = Nothing /\ preview' = Nothing
            /\ calls' = Imports!CallsOff({"read", "poll"}) \cup {Imports!CallFor("read", p)}
        BY <3>0, <3>2 DEF Imports!TurnsTo
      <4>2. ImportsTypeOK'
        BY <3>0, <4>1, <2>a, NewCall DEF Imports!CallsOff
      <4>3. S' /\ P'
        BY <3>0, <4>1, <2>a DEF ScanOk, Covered, Imports!SucceededScanIsShown,
           Imports!CalmPageIsOfPlatform
      <4>4. ASSUME NEW c \in calls' PROVE CallOk(c)'
        <5>1. CASE c = Imports!CallFor("read", p)
          BY <3>0, <4>1, <5>1, NewCall DEF CallOk, Covered
        <5>2. CASE c \in calls /\ c.does \in {"start", "import"}
          BY <3>0, <3>2, <4>1, <5>2, <2>a DEF CallOk, Covered, Imports!Strays
        <5> QED
          BY <4>1, <5>1, <5>2 DEF Imports!CallsOff
      <4> QED
        BY <4>2, <4>3, <4>4
    <3> QED
      BY <3>1, <3>2
  <2>12. ASSUME Imports!Poll PROVE ImportsTypeOK' /\ S' /\ C' /\ P'
    <3>1. ImportsTypeOK'
      BY <2>12, <2>a, NewCall DEF Imports!Poll, Imports!server, Imports!shown, Imports!Idle
    <3>2. S'
      BY <2>12, <2>a, NewCall DEF Imports!Poll, Imports!server, Imports!shown, Imports!Idle,
         ScanOk, Covered
    <3>3. C'
      BY <2>12, <2>a, NewCall DEF Imports!Poll, Imports!server, Imports!shown, Imports!Idle,
         ScanOk, CallOk, Covered, Imports!Strays, Imports!Overtakes
    <3>4. P'
      BY <2>12, <2>a, NewCall DEF Imports!Poll, Imports!server, Imports!shown, Imports!Idle,
         CallOk, Covered, Imports!Strays, Imports!SucceededScanIsShown,
         Imports!CalmPageIsOfPlatform
    <3> QED
      BY <3>1, <3>2, <3>3, <3>4
  <2>13. ASSUME Imports!Refresh PROVE ImportsTypeOK' /\ S' /\ C' /\ P'
    <3>1. ImportsTypeOK'
      BY <2>13, <2>a, NewCall DEF Imports!Refresh, Imports!server, Imports!shown, Imports!Idle
    <3>2. S'
      BY <2>13, <2>a, NewCall DEF Imports!Refresh, Imports!server, Imports!shown, Imports!Idle,
         ScanOk, Covered
    <3>3. C'
      BY <2>13, <2>a, NewCall DEF Imports!Refresh, Imports!server, Imports!shown, Imports!Idle,
         ScanOk, CallOk, Covered, Imports!Strays, Imports!Overtakes
    <3>4. P'
      BY <2>13, <2>a, NewCall DEF Imports!Refresh, Imports!server, Imports!shown, Imports!Idle,
         CallOk, Covered, Imports!Strays, Imports!SucceededScanIsShown,
         Imports!CalmPageIsOfPlatform
    <3> QED
      BY <3>1, <3>2, <3>3, <3>4
  <2>14. ASSUME Imports!Import PROVE ImportsTypeOK' /\ S' /\ C' /\ P'
    <3>1. ImportsTypeOK'
      BY <2>14, <2>a, NewCall DEF Imports!Import, Imports!server, Imports!shown, Imports!Idle,
         Imports!Move
    <3>2. S'
      BY <2>14, <2>a, NewCall DEF Imports!Import, Imports!server, Imports!shown, Imports!Idle,
         Imports!Move, ScanOk, Covered
    <3>3. C'
      BY <2>14, <2>a, NewCall DEF Imports!Import, Imports!server, Imports!shown, Imports!Idle,
         Imports!Move, ScanOk, CallOk, Covered, Imports!Strays, Imports!Overtakes
    <3>4. P'
      BY <2>14, <2>a, NewCall DEF Imports!Import, Imports!server, Imports!shown, Imports!Idle,
         Imports!Move, CallOk, Covered, Imports!Strays, Imports!SucceededScanIsShown,
         Imports!CalmPageIsOfPlatform
    <3> QED
      BY <3>1, <3>2, <3>3, <3>4
  <2> QED
    BY <1>n, <2>1, <2>2, <2>3, <2>4, <2>5, <2>6, <2>7, <2>8, <2>9, <2>10, <2>11, <2>12, <2>13,
       <2>14, <2>15, <2>16, <2>17 DEF Imports!Next, Imports!Serving, Imports!Scanning, Imports!Page
<1> QED
  BY <1>0, <1>n

\* It holds for any number of platforms, scans and requests.
LEMMA ImportsInvariant == Spec => []ImportsIInv
<1>1. ImportsIInv /\ [Next]_vars => ImportsIInv'
  BY NextImports, ImportsStep DEF ImportsIInv
<1> QED
  BY InitImports, <1>1, PTL DEF Spec

\* The status and the preview that the page shows are of the platform that it names, whether
\* that was changed by a tab or by going back or forward, unless it was changed while a scan
\* was being asked for (ClaudeMigrationPage.tsx:188-283).
THEOREM PageIsOfPlatform == Spec => []CalmPageIsOfPlatform
<1>1. ImportsIInv => CalmPageIsOfPlatform
  BY DEF ImportsIInv, CalmPageIsOfPlatform
<1> QED
  BY <1>1, ImportsInvariant, PTL

\* A scan that is shown as succeeded comes with a preview that is no older, in whatever
\* order scans, reads of the two files and answers come (local_platform_dashboard.go:395-487).
THEOREM SucceededIsShown == Spec => []SucceededScanIsShown
<1>1. ImportsIInv => SucceededScanIsShown
  BY DEF ImportsIInv, SucceededScanIsShown
<1> QED
  BY <1>1, ImportsInvariant, PTL

\* A step that changes the end of a scan begins another or restarts the hub.
LEMMA VerdictStep ==
    ASSUME ImportsIInv, [Imports!Next]_importsVars, part = "imports"
    PROVE  Imports!CalmVerdictStaysStep
<1> SUFFICES ASSUME NEW p \in Platforms, untouched', status[p].state \in Imports!Verdicts,
                    status'[p].scan = status[p].scan
             PROVE  status'[p] = status[p]
  BY DEF Imports!CalmVerdictStaysStep
<1> USE DEF ImportsTypeOK, Request, ScanState, Imports!Verdicts
<1>a. ImportsTypeOK /\ ScanOk(p) /\ \A c \in calls : CallOk(c)
  BY DEF ImportsIInv
<1>0. CASE UNCHANGED importsVars
  BY <1>0 DEF importsVars
<1>n. ASSUME Imports!Next PROVE status'[p] = status[p]
  <2>0. untouched
    BY <1>n DEF Imports!Next
  <2>1. ASSUME NEW c \in calls, Imports!PreviewRead(c) PROVE status'[p] = status[p]
    <3>1. c.stage = "status" /\ (Imports!Interrupted(c.saw, c.of) => c.saw.state = "running")
      BY <2>1 DEF Imports!PreviewRead, Imports!Interrupted
    <3>2. CASE Imports!Interrupted(c.saw, c.of)
      <4>1. status[c.of] = c.saw
        BY <2>0, <1>a, <3>1, <3>2 DEF CallOk
      <4> QED
        BY <2>1, <4>1, <1>a, <3>1, <3>2 DEF Imports!PreviewRead
    <3>3. CASE ~Imports!Interrupted(c.saw, c.of)
      BY <2>1, <3>3 DEF Imports!PreviewRead
    <3> QED
      BY <3>2, <3>3
  <2>2. ASSUME NEW c \in calls, Imports!Begins(c) PROVE status'[p] = status[p]
    BY <2>0, <2>2, <1>a DEF Imports!Begins, Imports!Runs, ScanOk
  <2>3. ASSUME NEW q \in Platforms, Imports!Concludes(q) PROVE status'[p] = status[p]
    BY <2>0, <2>3, <1>a DEF Imports!Concludes, ScanOk
  <2>4. CASE UNCHANGED status
    BY <2>4
  <2>5. \/ \E c \in calls : Imports!PreviewRead(c) \/ Imports!Begins(c)
        \/ \E q \in Platforms : Imports!Concludes(q)
        \/ UNCHANGED status
    BY <1>n DEF Imports!Next, Imports!Serving, Imports!Scanning, Imports!Page, Imports!Restart,
       Imports!server,
       Imports!StatusRead, Imports!Imported, Imports!Caches, Imports!Releases, Imports!Poll, Imports!Refresh,
       Imports!Import, Imports!Answered, Imports!Fails, Imports!SelectPlatform, Imports!FollowLocation,
       Imports!Joins, Imports!Claims, Imports!BeginsNot
  <2> QED
    BY <2>1, <2>2, <2>3, <2>4, <2>5
<1> QED
  BY <1>0, <1>n

\* A scan has one verdict: unless it ends between the two halves of a read, nothing
\* declares it interrupted that has ended, or the reverse (local_platform_dashboard.go:395-487).
THEOREM VerdictStays == Spec => CalmVerdictStays
<1>1. ImportsIInv /\ [Next]_vars => [part = "imports" => Imports!CalmVerdictStaysStep]_importsVars
  BY VerdictStep, ImportsStep DEF ImportsIInv
<1> QED
  BY <1>1, ImportsInvariant, PTL DEF Spec, CalmVerdictStays

-----------------------------------------------------------------------------
(* The archives of conversations (content.js, background.js).              *)

\* The artifacts of an archive, and the calls of the hub that write one.
Artifacts == {"transcript", "conversation"}
HubCalls == {"delete", "directory"} \cup Artifacts

\* A job of a chat page.
ArchiveJob ==
    [kind : {"none", "current", "batch"},
     step : {"idle", "organizations", "fetch", "import", "wait"},
     conv : Convs \cup {Nothing}, url : Convs \cup {Nothing}, tries : Nat,
     todo : Seq(Convs), ok : SUBSET Convs, said : {"", "imported", "failed", "scope"}]

\* An import of the worker.
ArchiveImport ==
    [step : {"free", "answer"} \cup HubCalls, by : Chats \cup {Nothing},
     conv : Convs \cup {Nothing}, url : Convs \cup {Nothing}, capture : Nat, part : Int,
     result : {"", "ok", "failed", "rate", "scope"}]

\* The type invariant of the conversation archives.
ArchiveTypeOK ==
    /\ archiveAt \in [Chats -> Convs]
    /\ archiveJob \in [Chats -> ArchiveJob] /\ import \in [Writers -> ArchiveImport]
    /\ archiveHub \in [Convs -> [Archive!Files -> Nat]]
    /\ about \in [Convs -> Convs \cup {Nothing}] /\ captures \in [Convs -> Nat]
    /\ archiveCalm \subseteq Convs /\ still \in BOOLEAN

\* What a page knows of the conversation it imports.
JobOk(j, follows) ==
    /\ j.kind = "none" <=> j.step = "idle"
    /\ j.kind # "none" => j.conv # Nothing
    /\ j.step = "fetch" => j.url # Nothing
    /\ j.step = "wait" => j.kind = "batch"
    /\ j.kind = "batch" /\ j.step \in {"fetch", "import", "wait"} => j.url = j.conv
    /\ follows /\ j.step = "fetch" => j.url = j.conv

\* An import belongs to the page that waits for it, if that is still there.
ImportOk(s) ==
    LET i == import[s] IN
    i.step # "free" =>
        /\ i.conv # Nothing /\ i.url # Nothing /\ i.capture > 0
        /\ i.conv \in archiveCalm => i.capture = captures[i.conv]
        /\ still => i.url = i.conv
        /\ i.by # Nothing => archiveJob[i.by].step = "import" /\ archiveJob[i.by].conv = i.conv
        /\ i.step \in Artifacts => i.part <= Chunks + 1 /\ i.part >= -1
        /\ \A r \in Writers \ {s} : import[r].step # "free" =>
              /\ i.by = Nothing \/ import[r].by # i.by
              /\ i.conv \notin archiveCalm \/ import[r].conv # i.conv

\* The first k chunks of an artifact are of the n-th capture or a later one.
Chunked(c, a, n, k) == \A m \in 1 .. k : archiveHub[c][<<a, m>>] >= n

\* What an import has done so far for a conversation that it has for itself.
DoneSoFar(s) ==
    LET i == import[s]
        c == import[s].conv
        n == import[s].capture
    IN  i.step # "free" /\ c \in archiveCalm =>
        /\ i.step \in Artifacts => about[c] # Nothing /\ Chunked(c, i.step, n, i.part - 1)
        /\ i.step = "conversation" => Archive!Whole(c, "transcript", n)
        /\ i.step = "answer" /\ i.result = "ok"
              => /\ about[c] # Nothing
                 /\ Archive!Whole(c, "transcript", n) /\ Archive!Whole(c, "conversation", n)

\* No file is of a capture that is still to come.
FilesAreCaptured ==
    \A c \in archiveCalm : \A f \in Archive!Files : archiveHub[c][f] <= captures[c]

\* The invariant: jobs and imports fit, and an import that has a conversation for itself
\* is of its last capture.
ArchiveInv ==
    /\ ArchiveTypeOK
    /\ \A t \in Chats : JobOk(archiveJob[t], still)
    /\ \A s \in Writers : ImportOk(s) /\ DoneSoFar(s)
    /\ FilesAreCaptured
    /\ Archive!AddressIsOwn /\ Archive!CopyFollowsTranscript

ArchiveIInv == part = "archive" => ArchiveInv

\* A step of the module is one of the archives, while those are looked at.
LEMMA ArchiveStep ==
    ASSUME [Next]_vars
    PROVE  part' = part /\ (part = "archive" => [Archive!Next]_archiveVars)
BY DEF Next, vars

\* What a page that imports nothing has.
LEMMA EmptyJob == Archive!NoJob \in ArchiveJob /\ JobOk(Archive!NoJob, TRUE)
BY DEF Archive!NoJob, ArchiveJob, JobOk

\* What a worker that imports nothing has.
LEMMA EmptyImport == Archive!NoImport \in ArchiveImport /\ Archive!NoImport.step = "free"
BY DEF Archive!NoImport, ArchiveImport

\* The files of an artifact.
LEMMA FileNames == \A a \in Artifacts : \A k \in 0 .. Chunks + 1 : <<a, k>> \in Archive!Files
BY DEF Archive!Files, Artifacts

\* Nothing is imported at the beginning.
LEMMA InitArchive == Init => ArchiveIInv
<1> SUFFICES ASSUME Init, part = "archive" PROVE ArchiveIInv
  BY DEF ArchiveIInv
<1>1. Archive!Init
  BY DEF Init
<1>2. Archive!NoJob \in ArchiveJob /\ JobOk(Archive!NoJob, TRUE)
  BY EmptyJob
<1>3. Archive!NoImport \in ArchiveImport /\ Archive!NoImport.step = "free"
  BY EmptyImport
<1>4. ArchiveTypeOK
  BY <1>1, <1>2, <1>3 DEF Archive!Init, ArchiveTypeOK
<1>5. \A c \in Convs : captures[c] = 0 /\ \A f \in Archive!Files : archiveHub[c][f] = 0
  BY <1>1 DEF Archive!Init
<1>6. FilesAreCaptured /\ Archive!CopyFollowsTranscript
  BY <1>4, <1>5, FileNames DEF ArchiveTypeOK, FilesAreCaptured, Archive!CopyFollowsTranscript,
     Archive!Whole, Artifacts
<1> HIDE DEF Archive!NoJob, Archive!NoImport
<1> QED
  BY <1>1, <1>2, <1>3, <1>4, <1>6 DEF ArchiveIInv, ArchiveInv, Archive!Init, JobOk, ImportOk,
     DoneSoFar, Archive!AddressIsOwn

\* The page's job becomes k.
Becomes(t, k) == k \in ArchiveJob /\ archiveJob' = [archiveJob EXCEPT ![t] = k]

\* A job that ends leaves the page idle, and what it has counted stays counted.
LEMMA JobEnds ==
    ASSUME NEW t \in Chats, NEW j \in ArchiveJob, NEW said \in {"imported", "failed", "scope"},
           Archive!Ends(t, j, said)
    PROVE  \E k : Becomes(t, k) /\ JobOk(k, TRUE) /\ k.step = "idle" /\ k.ok = j.ok
<1> DEFINE k == [Archive!NoJob EXCEPT !.ok = j.ok, !.said = said]
<1>1. Archive!NoJob = [kind |-> "none", step |-> "idle", conv |-> Nothing, url |-> Nothing,
                       tries |-> 0, todo |-> <<>>, ok |-> {}, said |-> ""]
  BY DEF Archive!NoJob
<1>2. Archive!NoJob \in ArchiveJob
  BY EmptyJob
<1>5. j.ok \in SUBSET Convs
  BY DEF ArchiveJob
<1>3. archiveJob' = [archiveJob EXCEPT ![t] = k]
  BY DEF Archive!Ends
<1> HIDE DEF k
<1>4. k \in ArchiveJob /\ k.kind = "none" /\ k.step = "idle" /\ k.ok = j.ok
  BY <1>1, <1>2, <1>5 DEF ArchiveJob, k
<1> QED
  BY <1>3, <1>4 DEF Becomes, JobOk

\* A batch goes on with its next conversation, or ends.
LEMMA JobGoesOn ==
    ASSUME NEW t \in Chats, NEW j \in ArchiveJob, archiveJob[t].kind = "batch", j.kind = "batch",
           Nothing \notin Convs, Archive!NextOf(t, j)
    PROVE  \E k : Becomes(t, k) /\ JobOk(k, TRUE) /\ k.step # "import" /\ k.ok = j.ok
<1>1. CASE j.todo # <<>>
  <2> DEFINE k == [j EXCEPT !.step = "fetch", !.conv = Head(j.todo), !.url = Head(j.todo),
                            !.tries = 0, !.todo = Tail(j.todo)]
  <2>1. archiveJob' = [archiveJob EXCEPT ![t] = k]
    BY <1>1 DEF Archive!NextOf, Archive!Address
  <2>2. Head(j.todo) \in Convs /\ Tail(j.todo) \in Seq(Convs)
    <3>1. j.todo \in Seq(Convs)
      BY DEF ArchiveJob
    <3> QED
      BY <1>1, <3>1
  <2>3. k \in ArchiveJob /\ k.kind = "batch" /\ k.step = "fetch" /\ k.conv = Head(j.todo)
        /\ k.url = k.conv /\ k.ok = j.ok
    BY <2>2 DEF ArchiveJob
  <2> HIDE DEF k
  <2> QED
    BY <2>1, <2>2, <2>3 DEF Becomes, JobOk
<1>2. CASE j.todo = <<>>
  BY <1>2, JobEnds DEF Archive!NextOf
<1> QED
  BY <1>1, <1>2

\* A conversation that fails ends its job, or lets the batch go on.
LEMMA JobFails ==
    ASSUME NEW t \in Chats, NEW err, archiveJob[t] \in ArchiveJob, Nothing \notin Convs,
           Archive!Failed(t, err)
    PROVE  \E k : Becomes(t, k) /\ JobOk(k, TRUE) /\ k.step # "import" /\ k.ok = archiveJob[t].ok
<1>1. CASE archiveJob[t].kind = "batch"
  BY <1>1, JobGoesOn DEF Archive!Failed
<1>2. CASE archiveJob[t].kind # "batch"
  BY <1>2, JobEnds DEF Archive!Failed
<1> QED
  BY <1>1, <1>2

\* A batch that is told to slow down waits, and takes the same conversation again.
LEMMA JobFailsOrWaits ==
    ASSUME NEW t \in Chats, NEW err, archiveJob[t] \in ArchiveJob, Nothing \notin Convs,
           JobOk(archiveJob[t], still), archiveJob[t].step \in {"fetch", "import"},
           Archive!FailsOrWaits(t, err)
    PROVE  \E k : Becomes(t, k) /\ JobOk(k, TRUE) /\ k.step # "import" /\ k.ok = archiveJob[t].ok
<1>1. CASE archiveJob[t].kind = "batch" /\ err = "rate" /\ archiveJob[t].tries < Retries
  <2> DEFINE k == [archiveJob[t] EXCEPT !.step = "wait", !.tries = @ + 1]
  <2>1. archiveJob' = [archiveJob EXCEPT ![t] = k]
    BY <1>1 DEF Archive!FailsOrWaits
  <2>a. archiveJob[t].tries \in Nat
    BY DEF ArchiveJob
  <2>2. k \in ArchiveJob /\ k.kind = "batch" /\ k.step = "wait" /\ k.conv = archiveJob[t].conv
        /\ k.url = archiveJob[t].url /\ k.ok = archiveJob[t].ok
    <3> DEFINE n == archiveJob[t].tries + 1
    <3>1. n \in Nat /\ k = [archiveJob[t] EXCEPT !.step = "wait", !.tries = n]
      BY <2>a
    <3> HIDE DEF n, k
    <3> QED
      BY <1>1, <3>1 DEF ArchiveJob
  <2> HIDE DEF k
  <2> QED
    BY <2>1, <2>2, <1>1 DEF Becomes, JobOk
<1>2. CASE ~(archiveJob[t].kind = "batch" /\ err = "rate" /\ archiveJob[t].tries < Retries)
  BY <1>2, JobFails DEF Archive!FailsOrWaits
<1> QED
  BY <1>1, <1>2

\* A conversation that is imported is counted, and nothing else is.
LEMMA JobImported ==
    ASSUME NEW t \in Chats, archiveJob[t] \in ArchiveJob, Nothing \notin Convs,
           archiveJob[t].conv \in Convs, Archive!Imported(t)
    PROVE  \E k : /\ Becomes(t, k) /\ JobOk(k, TRUE) /\ k.step # "import"
                  /\ k.ok = archiveJob[t].ok \cup {archiveJob[t].conv}
<1> DEFINE j == [archiveJob[t] EXCEPT !.ok = @ \cup {archiveJob[t].conv}]
<1>1. j \in ArchiveJob /\ j.kind = archiveJob[t].kind /\ j.ok = archiveJob[t].ok \cup {archiveJob[t].conv}
  BY DEF ArchiveJob
<1>2. IF j.kind = "batch" THEN Archive!NextOf(t, j) ELSE Archive!Ends(t, j, "imported")
  BY DEF Archive!Imported
<1> HIDE DEF j
<1>3. CASE j.kind = "batch"
  BY <1>1, <1>2, <1>3, JobGoesOn
<1>4. CASE j.kind # "batch"
  BY <1>1, <1>2, <1>4, JobEnds
<1> QED
  BY <1>3, <1>4

\* The page hands a capture to the worker.
LEMMA PageSends ==
    ASSUME ArchiveInv, NEW t \in Chats, NEW c \in Convs, NEW u \in Convs, NEW k,
           Nothing \notin Convs \cup Chats,
           Archive!Send(t, c, u), Becomes(t, k), JobOk(k, still), k.step = "import", k.conv = c,
           archiveJob[t].step # "import", still => u = c,
           UNCHANGED <<archiveAt, archiveHub, about, still>>
    PROVE  ArchiveInv'
<1> USE DEF ArchiveTypeOK
<1>n. captures[c] \in Nat /\ captures' = [captures EXCEPT ![c] = captures[c] + 1]
  BY DEF Archive!Send, ArchiveInv
<1>1. PICK s \in Writers :
        /\ import[s].step = "free"
        /\ import' = [import EXCEPT ![s] = [step |-> "delete", by |-> t, conv |-> c, url |-> u,
                                            capture |-> captures[c] + 1, part |-> 0,
                                            result |-> ""]]
  BY DEF Archive!Send
<1>2. PICK i \in ArchiveImport :
        /\ import' = [import EXCEPT ![s] = i]
        /\ i.step = "delete" /\ i.by = t /\ i.conv = c /\ i.url = u
        /\ i.capture > 0 /\ i.capture = captures'[c]
  <2> DEFINE n == captures[c] + 1
             i == [step |-> "delete", by |-> t, conv |-> c, url |-> u,
                   capture |-> n, part |-> 0, result |-> ""]
  <2>1. n \in Nat /\ n > 0 /\ n = captures'[c]
    BY <1>n DEF ArchiveInv
  <2>2. import' = [import EXCEPT ![s] = i]
    BY <1>1
  <2> HIDE DEF n
  <2>3. i \in ArchiveImport
    BY <2>1 DEF ArchiveImport, HubCalls
  <2> QED
    BY <2>1, <2>2, <2>3
<1>3. /\ archiveCalm' \subseteq archiveCalm
      /\ c \in archiveCalm' => \A r \in Writers : import[r].step = "free" \/ import[r].conv # c
  BY DEF Archive!Send, Archive!Importing
<1>4. ArchiveTypeOK'
  <2>1. captures' \in [Convs -> Nat]
    BY <1>n DEF ArchiveInv
  <2> QED
    BY <1>2, <1>3, <2>1 DEF Becomes, ArchiveInv
<1>5. \A p \in Chats : JobOk(archiveJob[p], still)'
  BY DEF Becomes, ArchiveInv, JobOk
<1>a. import \in [Writers -> ArchiveImport] /\ archiveJob \in [Chats -> ArchiveJob]
  BY DEF ArchiveInv
<1>b. ASSUME NEW q \in Writers, import[q].step # "free" PROVE import[q].by # t
  BY <1>b DEF ArchiveInv, ImportOk
<1>6. ASSUME NEW r \in Writers PROVE ImportOk(r)'
  <2>1. CASE r = s
    <3>1. import'[r] = i /\ archiveJob'[t] = k
      BY <1>a, <1>2, <2>1 DEF Becomes
    <3>2. ASSUME NEW q \in Writers \ {r}, import'[q].step # "free"
          PROVE  import'[q].by # t /\ (c \in archiveCalm' => import'[q].conv # c)
      BY <1>a, <1>b, <1>2, <1>3, <2>1, <3>2
    <3> QED
      BY <1>2, <3>1, <3>2, <2>1 DEF ImportOk, Artifacts
  <2>2. CASE r # s
    <3>1. import'[r] = import[r] /\ ImportOk(r)
      BY <1>2, <2>2 DEF ArchiveInv
    <3>2. ASSUME import[r].step # "free"
           PROVE  import[r].by # t /\ (import[r].conv = c => c \notin archiveCalm')
      BY <1>3, <3>1, <3>2 DEF ImportOk
    <3> QED
      <4>1. ASSUME import[r].step # "free", import[r].by # Nothing
            PROVE  archiveJob'[import[r].by] = archiveJob[import[r].by]
        BY <1>a, <3>2, <4>1 DEF Becomes, ArchiveImport
      <4>2. ASSUME NEW q \in Writers \ {r}, import'[q].step # "free", import[r].step # "free"
            PROVE  /\ import[r].by = Nothing \/ import'[q].by # import[r].by
                   /\ import[r].conv \notin archiveCalm' \/ import'[q].conv # import[r].conv
        BY <1>a, <1>2, <1>3, <3>1, <3>2, <4>2 DEF ImportOk
      <4>3. ASSUME import[r].step # "free", import[r].conv \in archiveCalm'
            PROVE  import[r].capture = captures'[import[r].conv]
        <5>1. import[r].conv # c /\ import[r].conv \in Convs /\ import[r].conv \in archiveCalm
          BY <1>3, <3>2, <4>3 DEF ArchiveInv
        <5> QED
          BY <1>n, <3>1, <4>3, <5>1 DEF ImportOk, ArchiveInv
      <4> QED
        BY <3>1, <4>1, <4>2, <4>3 DEF ImportOk
  <2> QED
    BY <2>1, <2>2
<1>7. ASSUME NEW r \in Writers PROVE DoneSoFar(r)'
  <2>1. CASE r = s
    BY <1>2, <2>1 DEF ArchiveInv, DoneSoFar, Artifacts
  <2>2. CASE r # s
    BY <1>2, <1>3, <2>2 DEF ArchiveInv, DoneSoFar, Chunked, Archive!Whole
  <2> QED
    BY <2>1, <2>2
<1>8. Archive!AddressIsOwn' /\ Archive!CopyFollowsTranscript'
  BY <1>3 DEF ArchiveInv, Archive!AddressIsOwn, Archive!CopyFollowsTranscript, Archive!Whole
<1>9. FilesAreCaptured'
  <2> SUFFICES ASSUME NEW d \in archiveCalm', NEW f \in Archive!Files
               PROVE  archiveHub[d][f] <= captures'[d]
    BY DEF FilesAreCaptured
  <2>1. archiveHub[d][f] <= captures[d] /\ archiveHub[d][f] \in Nat /\ captures[d] \in Nat
    BY <1>3 DEF ArchiveInv, FilesAreCaptured
  <2>2. captures'[d] = captures[d] \/ captures'[d] = captures[d] + 1
    BY <1>3, <1>n DEF ArchiveInv
  <2> QED
    BY <2>1, <2>2
<1> QED
  BY <1>4, <1>5, <1>6, <1>7, <1>8, <1>9 DEF ArchiveInv

\* What the page does without the worker.
LEMMA PageGoesOn ==
    ASSUME ArchiveInv, NEW t \in Chats, NEW k, Becomes(t, k), JobOk(k, still'),
           archiveJob[t].step # "import", still' \in BOOLEAN, still' => still,
           UNCHANGED <<archiveAt, import, archiveHub, about, captures, archiveCalm>>
    PROVE  ArchiveInv'
<1>1. ArchiveTypeOK'
  BY DEF ArchiveInv, ArchiveTypeOK, Becomes
<1>2. \A p \in Chats : JobOk(archiveJob[p], still)'
  BY DEF Becomes, ArchiveInv, ArchiveTypeOK, JobOk
<1>3. \A r \in Writers : ImportOk(r)' /\ DoneSoFar(r)'
  <2> TAKE r \in Writers
  <2>1. ImportOk(r)'
    BY DEF Becomes, ArchiveInv, ArchiveTypeOK, ImportOk, ArchiveImport
  <2>2. DoneSoFar(r)'
    BY DEF ArchiveInv, DoneSoFar, Chunked, Archive!Whole
  <2> QED
    BY <2>1, <2>2
<1>4. Archive!AddressIsOwn' /\ Archive!CopyFollowsTranscript' /\ FilesAreCaptured'
  BY DEF ArchiveInv, Archive!AddressIsOwn, Archive!CopyFollowsTranscript, Archive!Whole,
     FilesAreCaptured
<1> QED
  BY <1>1, <1>2, <1>3, <1>4 DEF ArchiveInv

\* The answer of an import is heard, or nobody is there to hear it.
LEMMA ImportAnswered ==
    ASSUME ArchiveInv, NEW s \in Writers, NEW k, Nothing \notin Chats,
           import[s].step = "answer", import' = [import EXCEPT ![s] = Archive!NoImport],
           \/ import[s].by = Nothing /\ archiveJob' = archiveJob
           \/ /\ import[s].by \in Chats /\ Becomes(import[s].by, k)
              /\ JobOk(k, TRUE) /\ k.step # "import",
           UNCHANGED <<archiveAt, archiveHub, about, captures, archiveCalm, still>>
    PROVE  ArchiveInv'
<1>1. Archive!NoImport \in ArchiveImport /\ Archive!NoImport.step = "free"
  BY EmptyImport
<1>2. import \in [Writers -> ArchiveImport] /\ archiveJob \in [Chats -> ArchiveJob]
  BY DEF ArchiveInv, ArchiveTypeOK
<1>3. ArchiveTypeOK'
  BY <1>1, <1>2 DEF ArchiveInv, ArchiveTypeOK, Becomes
<1>4. \A p \in Chats : JobOk(archiveJob[p], still)'
  BY <1>2 DEF Becomes, ArchiveInv, JobOk
<1>5. ASSUME NEW r \in Writers PROVE ImportOk(r)' /\ DoneSoFar(r)'
  <2>1. CASE r = s
    BY <1>1, <1>2, <2>1 DEF ImportOk, DoneSoFar
  <2>2. CASE r # s
    <3>1. import'[r] = import[r] /\ ImportOk(r) /\ DoneSoFar(r)
      BY <1>2, <2>2 DEF ArchiveInv
    <3>2. ASSUME import[r].step # "free", import[r].by # Nothing
          PROVE  archiveJob'[import[r].by] = archiveJob[import[r].by]
      <4>1. import[r].by # import[s].by
        BY <2>2, <3>2 DEF ArchiveInv, ImportOk
      <4> QED
        BY <1>2, <3>2, <4>1 DEF Becomes, ArchiveImport
    <3>3. ASSUME NEW q \in Writers \ {r}, import'[q].step # "free"
          PROVE  import'[q] = import[q]
      BY <1>1, <1>2, <3>3
    <3>4. ImportOk(r)'
      BY <3>1, <3>2, <3>3 DEF ImportOk
    <3>5. DoneSoFar(r)'
      BY <3>1 DEF DoneSoFar, Chunked, Archive!Whole
    <3> QED
      BY <3>4, <3>5
  <2> QED
    BY <2>1, <2>2
<1>6. Archive!AddressIsOwn' /\ Archive!CopyFollowsTranscript' /\ FilesAreCaptured'
  BY DEF ArchiveInv, Archive!AddressIsOwn, Archive!CopyFollowsTranscript, Archive!Whole,
     FilesAreCaptured
<1> QED
  BY <1>3, <1>4, <1>5, <1>6 DEF ArchiveInv

\* The import of s becomes i, for the same capture.
Continues(s, i) ==
    /\ i \in ArchiveImport /\ import' = [import EXCEPT ![s] = i]
    /\ i.by = import[s].by /\ i.conv = import[s].conv /\ i.url = import[s].url
    /\ i.capture = import[s].capture
    /\ i.step # "free" /\ (i.step \in Artifacts => i.part >= -1 /\ i.part <= Chunks + 1)

\* Every file of the copy of c comes with its transcript.
CopyFollows(c) ==
    \A k \in 0 .. Chunks + 1 : Archive!Whole(c, "transcript", archiveHub[c][<<"conversation", k>>])

\* Nothing is done to the other archives, and the copy of c keeps to its transcript.
KeepsArchives(c) ==
    /\ archiveHub' \in [Convs -> [Archive!Files -> Nat]]
    /\ about' \in [Convs -> Convs \cup {Nothing}]
    /\ \A d \in Convs \ {c} : archiveHub'[d] = archiveHub[d] /\ about'[d] = about[d]
    /\ still => about'[c] \in {Nothing, c}
    /\ c \in archiveCalm =>
         /\ \A f \in Archive!Files : archiveHub'[c][f] <= captures[c]
         /\ CopyFollows(c)'

\* The pages do nothing.
PagesKept == UNCHANGED <<archiveAt, archiveJob, captures, archiveCalm, still>>

\* A call of the hub concerns the conversation of its import.
LEMMA ImportGoesOn ==
    ASSUME ArchiveInv, NEW s \in Writers, NEW i, NEW c \in Convs,
           import[s].step # "free", c = import[s].conv, Continues(s, i), KeepsArchives(c),
           DoneSoFar(s)', PagesKept
    PROVE  ArchiveInv'
<1> USE DEF Continues, KeepsArchives, PagesKept
<1>1. import \in [Writers -> ArchiveImport] /\ archiveJob \in [Chats -> ArchiveJob]
  BY DEF ArchiveInv, ArchiveTypeOK
<1>2. ArchiveTypeOK' /\ \A p \in Chats : JobOk(archiveJob[p], still)'
  BY <1>1 DEF ArchiveInv, ArchiveTypeOK
<1>3. ASSUME NEW r \in Writers PROVE ImportOk(r)' /\ DoneSoFar(r)'
  <2>1. ASSUME NEW q \in Writers
        PROVE  /\ import'[q].step # "free" <=> import[q].step # "free"
               /\ import'[q].by = import[q].by /\ import'[q].conv = import[q].conv
               /\ import'[q].url = import[q].url /\ import'[q].capture = import[q].capture
    BY <1>1
  <2>2. ImportOk(r)
    BY DEF ArchiveInv
  <2>3. import'[r].step \in Artifacts => import'[r].part >= -1 /\ import'[r].part <= Chunks + 1
    <3>1. CASE r = s
      BY <1>1, <3>1
    <3>2. CASE r # s
      BY <1>1, <2>2, <3>2 DEF ImportOk, Artifacts
    <3> QED
      BY <3>1, <3>2
  <2>4. ImportOk(r)'
    BY <2>1, <2>2, <2>3 DEF ImportOk
  <2>5. ASSUME r # s PROVE DoneSoFar(r)'
    <3>1. import'[r] = import[r] /\ DoneSoFar(r) /\ import[r] \in ArchiveImport
      BY <1>1, <2>5 DEF ArchiveInv
    <3>2. import[r].step = "free" \/ import[r].conv \notin archiveCalm \/ import[r].conv # c
      BY <2>2, <2>5 DEF ImportOk
    <3>3. ASSUME import[r].step # "free", import[r].conv \in archiveCalm
          PROVE  archiveHub'[import[r].conv] = archiveHub[import[r].conv]
                 /\ about'[import[r].conv] = about[import[r].conv]
      <4>1. import[r].conv \in Convs \ {c}
        BY <3>2, <3>3 DEF ArchiveInv, ArchiveTypeOK
      <4> QED
        BY <4>1
    <3> QED
      BY <3>1, <3>3 DEF DoneSoFar, Chunked, Archive!Whole
  <2> QED
    BY <2>4, <2>5
<1>4. Archive!AddressIsOwn'
  BY DEF ArchiveInv, Archive!AddressIsOwn
<1>5. Archive!CopyFollowsTranscript'
  <2> SUFFICES ASSUME NEW d \in archiveCalm PROVE CopyFollows(d)'
    BY DEF Archive!CopyFollowsTranscript, CopyFollows
  <2>1. d \in Convs
    BY DEF ArchiveInv, ArchiveTypeOK
  <2>2. CASE d # c
    <3>1. archiveHub'[d] = archiveHub[d] /\ CopyFollows(d)
      BY <2>1, <2>2 DEF ArchiveInv, Archive!CopyFollowsTranscript, CopyFollows
    <3> QED
      BY <3>1 DEF CopyFollows, Archive!Whole
  <2> QED
    BY <2>2
<1>6. FilesAreCaptured'
  <2> SUFFICES ASSUME NEW d \in archiveCalm, NEW f \in Archive!Files
               PROVE  archiveHub'[d][f] <= captures[d]
    BY DEF FilesAreCaptured
  <2> QED
    BY DEF ArchiveInv, ArchiveTypeOK, FilesAreCaptured
<1> QED
  BY <1>2, <1>3, <1>4, <1>5, <1>6 DEF ArchiveInv

\* What the proofs need of the constants.
LEMMA ArchiveConstants ==
    /\ Nothing \notin Convs \cup Chats /\ Retries \in Nat
    /\ Chunks \in Nat \ {0}
BY ClientsAssumption DEF Archive!ArchiveAssumption

\* What an import that is not free looks like.
LEMMA ImportRuns ==
    ASSUME ArchiveInv, NEW s \in Writers, import[s].step # "free"
    PROVE  /\ import[s] \in ArchiveImport /\ import[s].conv \in Convs /\ import[s].url \in Convs
           /\ import[s].capture \in Nat /\ import[s].capture > 0 /\ import[s].part \in Int
           /\ DoneSoFar(s) /\ (still => import[s].url = import[s].conv)
           /\ import[s].conv \in archiveCalm => import[s].capture = captures[import[s].conv]
           /\ import[s].step \in Artifacts => import[s].part >= -1 /\ import[s].part <= Chunks + 1
<1>1. import[s] \in ArchiveImport /\ ImportOk(s) /\ DoneSoFar(s)
  BY DEF ArchiveInv, ArchiveTypeOK
<1>2. import[s].conv \in Convs /\ import[s].url \in Convs
  BY <1>1 DEF ArchiveImport, ImportOk
<1>3. import[s].capture \in Nat /\ import[s].part \in Int
  BY <1>1 DEF ArchiveImport
<1> QED
  BY <1>1, <1>2, <1>3 DEF ImportOk

\* An import that goes on to another call of the hub.
LEMMA ImportTurns ==
    ASSUME NEW s \in Writers, import \in [Writers -> ArchiveImport],
           NEW step \in HubCalls, NEW n \in Int, Archive!Goes(s, step, n),
           step \in Artifacts => n >= -1 /\ n <= Chunks + 1
    PROVE  \E i : Continues(s, i) /\ i.step = step /\ i.part = n
<1> DEFINE i == [import[s] EXCEPT !.step = step, !.part = n]
<1>1. import' = [import EXCEPT ![s] = i]
  BY DEF Archive!Goes
<1>2. /\ i \in ArchiveImport /\ i.step = step /\ i.part = n
      /\ i.by = import[s].by /\ i.conv = import[s].conv /\ i.url = import[s].url
      /\ i.capture = import[s].capture
  <2>1. import[s] \in ArchiveImport
    OBVIOUS
  <2> QED
    BY <2>1 DEF ArchiveImport
<1> HIDE DEF i
<1> QED
  BY <1>1, <1>2 DEF Continues, HubCalls, Artifacts

\* An import that ends has a result.
LEMMA ImportEndsWith ==
    ASSUME NEW s \in Writers, import \in [Writers -> ArchiveImport],
           NEW outcome \in {"ok", "failed", "rate", "scope"},
           import' = [import EXCEPT ![s].step = "answer", ![s].result = outcome]
    PROVE  \E i : Continues(s, i) /\ i.step = "answer" /\ i.result = outcome
<1> DEFINE i == [import[s] EXCEPT !.step = "answer", !.result = outcome]
<1>1. import' = [import EXCEPT ![s] = i]
  OBVIOUS
<1>2. /\ i \in ArchiveImport /\ i.step = "answer" /\ i.result = outcome
      /\ i.by = import[s].by /\ i.conv = import[s].conv /\ i.url = import[s].url
      /\ i.capture = import[s].capture
  <2>1. import[s] \in ArchiveImport
    OBVIOUS
  <2> QED
    BY <2>1 DEF ArchiveImport
<1> HIDE DEF i
<1> QED
  BY <1>1, <1>2 DEF Continues, Artifacts

\* The file that an import writes next.
FileOf(i) == <<i.step, IF i.part < 0 THEN 0 ELSE i.part>>

\* The hub has written that file.
FileIsWritten(i) ==
    /\ FileOf(i) \in Archive!Files /\ about' = about
    /\ archiveHub' = [archiveHub EXCEPT ![i.conv] = [archiveHub[i.conv] EXCEPT ![FileOf(i)] = i.capture]]

\* Which file a write of an artifact has written.
LEMMA FileWritten ==
    ASSUME ArchiveInv, NEW s \in Writers, import[s].step \in Artifacts, Archive!Written(s)
    PROVE  FileIsWritten(import[s])
<1>c. Chunks \in Nat \ {0}
  BY ArchiveConstants
<1>0. /\ import[s].step # "free" /\ import[s].step # "directory"
      /\ archiveHub \in [Convs -> [Archive!Files -> Nat]]
  BY DEF Artifacts, ArchiveInv, ArchiveTypeOK
<1>1. import[s].conv \in Convs /\ import[s].part \in Int /\ import[s].part <= Chunks + 1
  BY <1>0, ImportRuns
<1>2. FileOf(import[s]) \in Archive!Files
  BY <1>1, <1>c DEF Archive!Files, Artifacts, FileOf
<1>3. /\ archiveHub' = [archiveHub EXCEPT ![import[s].conv][FileOf(import[s])] = import[s].capture]
      /\ about' = about
  BY <1>0 DEF Archive!Written, FileOf
<1> QED
  BY <1>0, <1>1, <1>2, <1>3 DEF FileIsWritten

\* An artifact that can be read stays so while its files get no older.
LEMMA WholeStays ==
    ASSUME NEW c, NEW a \in Artifacts, NEW n \in Nat, Archive!Whole(c, a, n),
           \A f \in Archive!Files : /\ archiveHub[c][f] \in Nat /\ archiveHub'[c][f] \in Nat
                                    /\ archiveHub[c][f] <= archiveHub'[c][f]
    PROVE  Archive!Whole(c, a, n)'
<1>1. Chunks \in Nat /\ \A k \in 0 .. Chunks + 1 : <<a, k>> \in Archive!Files
  BY FileNames, ArchiveConstants
<1>2. ASSUME NEW k \in 0 .. Chunks + 1, archiveHub[c][<<a, k>>] >= n
      PROVE  archiveHub'[c][<<a, k>>] >= n
  BY <1>1, <1>2
<1>3. 0 \in 0 .. Chunks + 1 /\ \A k \in 1 .. Chunks + 1 : k \in 0 .. Chunks + 1
  BY <1>1
<1> QED
  BY <1>2, <1>3 DEF Archive!Whole

\* An import that has its conversation for itself writes files that get no older.
LEMMA FilesGetNewer ==
    ASSUME ArchiveInv, NEW s \in Writers, NEW i, i = import[s], i.step \in Artifacts,
           FileIsWritten(i), i.conv \in archiveCalm
    PROVE  /\ archiveHub'[i.conv][FileOf(i)] = i.capture /\ i.capture = captures[i.conv]
           /\ \A f \in Archive!Files :
                /\ archiveHub[i.conv][f] \in Nat /\ archiveHub'[i.conv][f] \in Nat
                /\ archiveHub[i.conv][f] <= archiveHub'[i.conv][f]
                /\ f # FileOf(i) => archiveHub'[i.conv][f] = archiveHub[i.conv][f]
<1>1. i.conv \in Convs /\ i.capture \in Nat /\ i.capture = captures[i.conv]
  BY ImportRuns DEF Artifacts
<1>2. archiveHub \in [Convs -> [Archive!Files -> Nat]]
  BY DEF ArchiveInv, ArchiveTypeOK
<1>3. \A f \in Archive!Files : archiveHub[i.conv][f] <= captures[i.conv]
  BY DEF ArchiveInv, FilesAreCaptured
<1>4. FileOf(i) \in Archive!Files
      /\ archiveHub'[i.conv] = [archiveHub[i.conv] EXCEPT ![FileOf(i)] = i.capture]
  BY <1>1, <1>2 DEF FileIsWritten
<1> QED
  BY <1>1, <1>2, <1>3, <1>4

\* No call of the hub lets a copy get ahead of its transcript, or gives an archive
\* another's address.
LEMMA HubWritten ==
    ASSUME ArchiveInv, NEW s \in Writers, import[s].step \in HubCalls,
           (Archive!Written(s) /\ import[s].step # "delete") \/ UNCHANGED <<archiveHub, about>>,
           NEW c \in Convs, c = import[s].conv
    PROVE  KeepsArchives(c)
<1> USE DEF KeepsArchives
<1>t. /\ archiveHub \in [Convs -> [Archive!Files -> Nat]]
      /\ about \in [Convs -> Convs \cup {Nothing}]
  BY DEF ArchiveInv, ArchiveTypeOK
<1>a. \A d \in Convs : still => about[d] \in {Nothing, d}
  BY DEF ArchiveInv, Archive!AddressIsOwn
<1>u. \A d \in archiveCalm :
         CopyFollows(d) /\ \A f \in Archive!Files : archiveHub[d][f] <= captures[d]
  BY DEF ArchiveInv, FilesAreCaptured, Archive!CopyFollowsTranscript, CopyFollows
<1>r. /\ import[s].step # "free" /\ DoneSoFar(s) /\ import[s].url \in Convs
      /\ import[s].capture \in Nat /\ (still => import[s].url = c)
  BY ImportRuns DEF HubCalls, Artifacts
<1>0. CASE UNCHANGED <<archiveHub, about>>
  <2>1. c \in archiveCalm => CopyFollows(c)'
    BY <1>0, <1>u DEF CopyFollows, Archive!Whole
  <2> QED
    BY <1>0, <1>t, <1>a, <1>u, <2>1
<1>2. CASE import[s].step = "directory" /\ Archive!Written(s)
  <2>1. archiveHub' = archiveHub /\ about' = [about EXCEPT ![c] = import[s].url]
    BY <1>2 DEF Archive!Written, Archive!BundleMetadata
  <2>2. c \in archiveCalm => CopyFollows(c)'
    BY <1>u, <2>1 DEF CopyFollows, Archive!Whole
  <2> QED
    BY <1>t, <1>u, <1>r, <2>1, <2>2
<1>3. CASE import[s].step \in Artifacts /\ Archive!Written(s)
  <2>0. PICK i : i = import[s]
    OBVIOUS
  <2>1. FileIsWritten(i)
    BY <1>3, <2>0, FileWritten
  <2>2. ASSUME c \in archiveCalm
        PROVE  CopyFollows(c)' /\ \A f \in Archive!Files : archiveHub'[c][f] <= captures[c]
    <3>1. /\ archiveHub'[c][FileOf(i)] = i.capture /\ i.capture = captures[c]
          /\ \A f \in Archive!Files :
               /\ archiveHub[c][f] \in Nat /\ archiveHub'[c][f] \in Nat
               /\ archiveHub[c][f] <= archiveHub'[c][f]
               /\ f # FileOf(i) => archiveHub'[c][f] = archiveHub[c][f]
      BY <1>3, <2>0, <2>1, <2>2, FilesGetNewer
    <3>2. \A f \in Archive!Files : archiveHub'[c][f] <= captures[c]
      BY <1>r, <1>u, <2>0, <2>2, <3>1
    <3>3. ASSUME NEW k \in 0 .. Chunks + 1
          PROVE  Archive!Whole(c, "transcript", archiveHub[c][<<"conversation", k>>])'
      <4>1. <<"conversation", k>> \in Archive!Files /\ "transcript" \in Artifacts
        BY FileNames DEF Artifacts
      <4>2. CASE <<"conversation", k>> = FileOf(i)
        <5>1. i.step = "conversation"
          BY <4>2 DEF FileOf
        <5>2. Archive!Whole(c, "transcript", i.capture)
          BY <1>r, <2>0, <2>2, <5>1 DEF DoneSoFar
        <5>3. i.capture \in Nat
          BY <1>r, <2>0
        <5>4. PICK n \in Nat : n = i.capture
          BY <5>3
        <5>5. \A f \in Archive!Files : /\ archiveHub[c][f] \in Nat /\ archiveHub'[c][f] \in Nat
                                       /\ archiveHub[c][f] <= archiveHub'[c][f]
          BY <3>1
        <5>6. Archive!Whole(c, "transcript", n)'
          BY <4>1, <5>2, <5>4, <5>5, WholeStays
        <5>7. archiveHub'[c][<<"conversation", k>>] = n
          BY <3>1, <4>2, <5>4
        <5> QED
          BY <5>6, <5>7 DEF Archive!Whole
      <4>3. CASE <<"conversation", k>> # FileOf(i)
        <5>1. PICK n \in Nat : n = archiveHub[c][<<"conversation", k>>]
          BY <3>1, <4>1
        <5>2. Archive!Whole(c, "transcript", n)
          BY <1>u, <2>2, <5>1 DEF CopyFollows
        <5>3. \A f \in Archive!Files : /\ archiveHub[c][f] \in Nat /\ archiveHub'[c][f] \in Nat
                                       /\ archiveHub[c][f] <= archiveHub'[c][f]
          BY <3>1
        <5>4. Archive!Whole(c, "transcript", n)'
          BY <4>1, <5>2, <5>3, WholeStays
        <5>5. archiveHub'[c][<<"conversation", k>>] = n
          BY <3>1, <4>1, <4>3, <5>1
        <5> QED
          BY <5>4, <5>5 DEF Archive!Whole
      <4> QED
        BY <4>2, <4>3
    <3> QED
      BY <3>2, <3>3 DEF CopyFollows
  <2> QED
    BY <1>t, <1>a, <1>r, <2>0, <2>1, <2>2 DEF FileIsWritten
<1> QED
  BY <1>0, <1>2, <1>3 DEF HubCalls

\* The artifact of an import that writes its text or the last of its chunks can be read.
LEMMA ArtifactIsRead ==
    ASSUME ArchiveInv, NEW s \in Writers, NEW i, i = import[s], i.step \in Artifacts,
           FileIsWritten(i), i.conv \in archiveCalm
    PROVE  /\ about'[i.conv] # Nothing
           /\ i.step = "conversation" => Archive!Whole(i.conv, "transcript", i.capture)'
           /\ i.part >= 1 => Chunked(i.conv, i.step, i.capture, i.part)'
           /\ i.part <= 0 \/ i.part = Chunks + 1 => Archive!Whole(i.conv, i.step, i.capture)'
<1>c. Chunks \in Nat \ {0}
  BY ArchiveConstants
<1>1. /\ i.step # "free" /\ i.conv \in Convs /\ i.capture \in Nat
      /\ i.part \in Int /\ i.part >= -1 /\ i.part <= Chunks + 1 /\ DoneSoFar(s)
  BY ImportRuns DEF Artifacts
<1>2. /\ about[i.conv] # Nothing /\ Chunked(i.conv, i.step, i.capture, i.part - 1)
      /\ i.step = "conversation" => Archive!Whole(i.conv, "transcript", i.capture)
  BY <1>1 DEF DoneSoFar
<1>3. about' = about
  BY DEF FileIsWritten
<1>4. /\ archiveHub'[i.conv][FileOf(i)] = i.capture
      /\ \A f \in Archive!Files : /\ archiveHub[i.conv][f] \in Nat /\ archiveHub'[i.conv][f] \in Nat
                                   /\ archiveHub[i.conv][f] <= archiveHub'[i.conv][f]
  BY FilesGetNewer
<1>6. i.step = "conversation" => Archive!Whole(i.conv, "transcript", i.capture)'
  <2>1. "transcript" \in Artifacts
    BY DEF Artifacts
  <2> QED
    BY <1>1, <1>2, <1>4, <2>1, WholeStays
<1>7. ASSUME i.part >= 1 PROVE Chunked(i.conv, i.step, i.capture, i.part)'
  <2>1. FileOf(i) = <<i.step, i.part>>
    BY <1>1, <1>7 DEF FileOf
  <2>2. ASSUME NEW k \in 1 .. i.part PROVE archiveHub'[i.conv][<<i.step, k>>] >= i.capture
    <3>1. <<i.step, k>> \in Archive!Files
      BY <1>1, <1>c, FileNames
    <3>2. CASE k = i.part
      BY <1>1, <3>2, <2>1, <1>4
    <3>3. CASE k # i.part
      <4>1. k \in 1 .. i.part - 1
        BY <1>1, <3>3
      <4>2. archiveHub[i.conv][<<i.step, k>>] >= i.capture
        BY <4>1, <1>2 DEF Chunked
      <4> QED
        BY <1>1, <3>1, <4>2, <1>4
    <3> QED
      BY <3>2, <3>3
  <2> QED
    BY <2>2 DEF Chunked
<1>8. ASSUME i.part <= 0 PROVE Archive!Whole(i.conv, i.step, i.capture)'
  <2>1. FileOf(i) = <<i.step, 0>>
    BY <1>1, <1>8 DEF FileOf
  <2> QED
    BY <1>1, <2>1, <1>4 DEF Archive!Whole
<1>9. ASSUME i.part = Chunks + 1 PROVE Archive!Whole(i.conv, i.step, i.capture)'
  BY <1>7, <1>9, <1>c DEF Archive!Whole, Chunked
<1> QED
  BY <1>2, <1>3, <1>6, <1>7, <1>8, <1>9, <1>1

\* Whatever the worker does with an import, the invariant stays.
LEMMA WorkerStep ==
    ASSUME ArchiveInv, NEW s \in Writers, Archive!Writes(s)
    PROVE  ArchiveInv'
<1>c. /\ Nothing \notin Convs \cup Chats /\ Chunks \in Nat \ {0}
  BY ArchiveConstants
<1>t. /\ import \in [Writers -> ArchiveImport]
      /\ archiveHub \in [Convs -> [Archive!Files -> Nat]]
      /\ about \in [Convs -> Convs \cup {Nothing}]
  BY DEF ArchiveInv, ArchiveTypeOK
<1>r. ASSUME import[s].step # "free"
      PROVE  /\ import[s] \in ArchiveImport /\ import[s].conv \in Convs /\ import[s].url \in Convs
             /\ import[s].capture \in Nat /\ import[s].capture > 0 /\ import[s].part \in Int
             /\ DoneSoFar(s)
             /\ import[s].step \in Artifacts => import[s].part >= -1 /\ import[s].part <= Chunks + 1
  BY <1>r, ImportRuns
<1>1. CASE Archive!DeleteRoot(s)
  <2>0. import[s].step = "delete" /\ UNCHANGED <<archiveHub, about>> /\ PagesKept
    BY <1>1 DEF Archive!DeleteRoot, Archive!archive, Archive!ghosts, PagesKept
  <2>1. PICK i : Continues(s, i) /\ i.step = "directory"
    BY <1>1, <1>t, ImportTurns DEF Archive!DeleteRoot, HubCalls, Artifacts
  <2>2. PICK c \in Convs : c = import[s].conv
    BY <2>0, <1>r
  <2>5. DoneSoFar(s)'
    BY <1>t, <2>1 DEF Continues, DoneSoFar, Artifacts
  <2> QED
    BY <2>0, <2>1, <2>2, <2>5, HubWritten, ImportGoesOn DEF HubCalls
<1>2. CASE Archive!EnsureDirectory(s)
  <2>0. import[s].step = "directory" /\ Archive!Written(s)
    BY <1>2 DEF Archive!EnsureDirectory
  <2>1. PICK i : Continues(s, i) /\ i.step = "transcript" /\ i.part = -1
    BY <1>2, <1>t, <1>c, ImportTurns DEF Archive!EnsureDirectory, HubCalls, Artifacts
  <2>2. PICK c \in Convs : c = import[s].conv
    BY <2>0, <1>r
  <2>3. archiveHub' = archiveHub /\ about' = [about EXCEPT ![c] = import[s].url]
    BY <2>0, <2>2 DEF Archive!Written, Archive!BundleMetadata
  <2>5. DoneSoFar(s)'
    <3>1. import'[s] = i /\ i.conv = c /\ archiveCalm' = archiveCalm
      BY <1>2, <1>t, <2>1, <2>2 DEF Continues, Archive!EnsureDirectory, Archive!ghosts
    <3>2. about'[c] # Nothing
      BY <1>c, <1>t, <1>r, <2>0, <2>3
    <3> QED
      BY <2>1, <3>1, <3>2 DEF DoneSoFar, Artifacts, Chunked
  <2>6. PagesKept
    BY <1>2 DEF Archive!EnsureDirectory, Archive!ghosts, PagesKept
  <2> QED
    BY <2>0, <2>1, <2>2, <2>5, <2>6, HubWritten, ImportGoesOn DEF HubCalls
<1>9. ASSUME import[s].step \in Artifacts, Archive!Written(s), Archive!ArtifactDone(s), PagesKept,
             import[s].part <= 0 \/ import[s].part = Chunks + 1
      PROVE  ArchiveInv'
  <2>0. PICK j : j = import[s] /\ j.step # "free" /\ j.conv \in Convs
    BY <1>9, <1>r DEF Artifacts
  <2>1. FileIsWritten(j)
    BY <1>9, <2>0, FileWritten
  <2>2. PICK i : /\ Continues(s, i)
                 /\ IF j.step = "transcript" THEN i.step = "conversation" /\ i.part = 0
                    ELSE i.step = "answer" /\ i.result = "ok"
    <3>1. CASE j.step = "transcript"
      <4>1. Archive!Goes(s, "conversation", 0)
        BY <1>9, <2>0, <3>1 DEF Archive!ArtifactDone
      <4> QED
        BY <1>c, <1>t, <3>1, <4>1, ImportTurns DEF HubCalls, Artifacts
    <3>2. CASE j.step # "transcript"
      BY <1>9, <1>t, <2>0, <3>2, ImportEndsWith DEF Archive!ArtifactDone
    <3> QED
      BY <3>1, <3>2
  <2>3. import'[s] = i /\ i.conv = j.conv /\ i.capture = j.capture /\ archiveCalm' = archiveCalm
    BY <1>9, <1>t, <2>0, <2>2 DEF Continues, PagesKept
  <2>4. DoneSoFar(s)'
    <3>1. SUFFICES ASSUME j.conv \in archiveCalm PROVE DoneSoFar(s)'
      BY <2>3 DEF DoneSoFar
    <3>2. /\ about'[j.conv] # Nothing
          /\ j.step = "conversation" => Archive!Whole(j.conv, "transcript", j.capture)'
          /\ Archive!Whole(j.conv, j.step, j.capture)'
      BY <1>9, <2>0, <2>1, <3>1, ArtifactIsRead
    <3>3. CASE j.step = "transcript"
      BY <2>2, <2>3, <3>2, <3>3 DEF DoneSoFar, Artifacts, Chunked
    <3>4. CASE j.step = "conversation"
      BY <2>2, <2>3, <3>2, <3>4 DEF DoneSoFar, Artifacts
    <3> QED
      BY <1>9, <2>0, <3>3, <3>4 DEF Artifacts
  <2> QED
    BY <1>9, <2>0, <2>2, <2>4, HubWritten, ImportGoesOn DEF HubCalls, Artifacts
<1>3. CASE Archive!WriteText(s)
  BY <1>3, <1>9 DEF Archive!WriteText, Archive!ghosts, Artifacts, PagesKept
<1>4. CASE Archive!TextBlocked(s)
  <2>0. PICK j : j = import[s] /\ j.step \in Artifacts /\ j.step # "free" /\ j.part <= 0 /\ j.conv \in Convs
    BY <1>4, <1>r DEF Archive!TextBlocked, Artifacts
  <2>1. PICK i : Continues(s, i) /\ i.step = j.step /\ i.part = j.part + 1
    <3>1. j.part + 1 \in Int /\ j.part + 1 >= -1 /\ j.part + 1 <= Chunks + 1 /\ j.step \in HubCalls
      BY <1>c, <1>r, <2>0 DEF HubCalls
    <3>2. Archive!Goes(s, j.step, j.part + 1)
      BY <1>4, <2>0 DEF Archive!TextBlocked
    <3> QED
      BY <1>t, <3>1, <3>2, ImportTurns
  <2>2. PagesKept /\ UNCHANGED <<archiveHub, about>>
    BY <1>4 DEF Archive!TextBlocked, Archive!archive, Archive!ghosts, PagesKept
  <2>3. DoneSoFar(s)'
    BY <1>t, <1>r, <2>0, <2>1, <2>2 DEF Continues, PagesKept, DoneSoFar, Artifacts, Chunked,
       Archive!Whole
  <2> QED
    BY <2>0, <2>1, <2>2, <2>3, HubWritten, ImportGoesOn DEF HubCalls
<1>5. CASE Archive!WriteChunk(s)
  <2>0. PICK j : /\ j = import[s] /\ j.step \in Artifacts /\ j.step # "free" /\ j.conv \in Convs
                 /\ j.part >= 1 /\ j.part \in Int
    BY <1>5, <1>r DEF Archive!WriteChunk, Artifacts
  <2>1. Archive!Written(s) /\ PagesKept /\ FileIsWritten(j)
    BY <1>5, <2>0, FileWritten DEF Archive!WriteChunk, Archive!ghosts, PagesKept
  <2>2. CASE j.part <= Chunks
    <3>1. PICK i : Continues(s, i) /\ i.step = j.step /\ i.part = j.part + 1
      BY <1>5, <1>c, <1>t, <2>0, <2>2, ImportTurns DEF Archive!WriteChunk, HubCalls
    <3>2. import'[s] = i /\ i.conv = j.conv /\ i.capture = j.capture /\ archiveCalm' = archiveCalm
      BY <1>t, <2>0, <2>1, <3>1 DEF Continues, PagesKept
    <3>3. ASSUME j.conv \in archiveCalm PROVE DoneSoFar(s)'
      <4>1. /\ about'[j.conv] # Nothing
            /\ j.step = "conversation" => Archive!Whole(j.conv, "transcript", j.capture)'
            /\ Chunked(j.conv, j.step, j.capture, j.part)'
        BY <2>0, <2>1, <3>3, ArtifactIsRead
      <4>2. i.part - 1 = j.part
        BY <2>0, <3>1
      <4> QED
        BY <2>0, <3>1, <3>2, <4>1, <4>2 DEF DoneSoFar, Artifacts
    <3>4. DoneSoFar(s)'
      BY <3>2, <3>3 DEF DoneSoFar
    <3> QED
      BY <2>0, <2>1, <3>1, <3>4, HubWritten, ImportGoesOn DEF HubCalls, Artifacts
  <2>3. CASE j.part > Chunks
    BY <1>5, <1>9, <1>c, <1>r, <2>0, <2>1, <2>3 DEF Archive!WriteChunk
  <2> QED
    BY <1>c, <2>0, <2>2, <2>3
<1>6. CASE Archive!HubFails(s)
  <2>0. /\ import[s].step \in HubCalls /\ import[s].step # "free" /\ PagesKept
        /\ (Archive!Written(s) /\ import[s].step # "delete") \/ UNCHANGED <<archiveHub, about>>
    BY <1>6 DEF Archive!HubFails, HubCalls, Artifacts, Archive!archive, Archive!ghosts,
       PagesKept
  <2>1. PICK i : Continues(s, i) /\ i.step = "answer" /\ i.result = "failed"
    BY <1>6, <1>t, ImportEndsWith DEF Archive!HubFails
  <2>2. PICK c \in Convs : c = import[s].conv
    BY <2>0, <1>r
  <2>3. DoneSoFar(s)'
    BY <1>t, <2>1 DEF Continues, DoneSoFar, Artifacts
  <2> QED
    BY <2>0, <2>1, <2>2, <2>3, HubWritten, ImportGoesOn
<1>7. CASE Archive!HubRefuses(s)
  <2>0. /\ import[s].step \in HubCalls /\ import[s].step # "free" /\ PagesKept
        /\ UNCHANGED <<archiveHub, about>>
    BY <1>7 DEF Archive!HubRefuses, HubCalls, Artifacts, Archive!archive, Archive!ghosts,
       PagesKept
  <2>1. PICK i : Continues(s, i) /\ i.step = "answer" /\ i.result \in {"rate", "scope"}
    BY <1>7, <1>t, ImportEndsWith DEF Archive!HubRefuses
  <2>2. PICK c \in Convs : c = import[s].conv
    BY <2>0, <1>r
  <2>3. DoneSoFar(s)'
    BY <1>t, <2>1 DEF Continues, DoneSoFar, Artifacts
  <2> QED
    BY <2>0, <2>1, <2>2, <2>3, HubWritten, ImportGoesOn
<1>8. CASE Archive!Unheard(s)
  BY <1>8, <1>c, ImportAnswered DEF Archive!Unheard, Archive!archive, Archive!ghosts
<1> QED
  BY <1>1, <1>2, <1>3, <1>4, <1>5, <1>6, <1>7, <1>8 DEF Archive!Writes

\* What a page that is about to begin or to go on knows.
LEMMA JobRuns ==
    ASSUME ArchiveInv, NEW t \in Chats
    PROVE  /\ archiveJob[t] \in ArchiveJob /\ JobOk(archiveJob[t], still) /\ archiveAt[t] \in Convs
           /\ archiveJob[t].step # "idle" => archiveJob[t].conv \in Convs
           /\ archiveJob[t].step = "fetch" => archiveJob[t].url \in Convs
<1>1. archiveJob[t] \in ArchiveJob /\ JobOk(archiveJob[t], still) /\ archiveAt[t] \in Convs
  BY DEF ArchiveInv, ArchiveTypeOK
<1>2. archiveJob[t].conv \in Convs \cup {Nothing} /\ archiveJob[t].url \in Convs \cup {Nothing}
  BY <1>1 DEF ArchiveJob
<1> QED
  BY <1>1, <1>2 DEF JobOk

\* What a batch begins with.
LEMMA ListOfConversations ==
    ASSUME NEW r \in Archive!Lists
    PROVE  r[1] \in Convs /\ Tail(r) \in Seq(Convs)
<1>1. ASSUME NEW c \in Convs PROVE <<c>>[1] \in Convs /\ Tail(<<c>>) \in Seq(Convs)
  OBVIOUS
<1>2. ASSUME NEW c \in Convs, NEW d \in Convs
           PROVE <<c, d>>[1] \in Convs /\ Tail(<<c, d>>) \in Seq(Convs)
  OBVIOUS
<1>3. ASSUME r \in Convs \X Convs PROVE r = <<r[1], r[2]>> /\ r[1] \in Convs /\ r[2] \in Convs
  BY <1>3
<1> QED
  BY <1>1, <1>2, <1>3 DEF Archive!Lists

\* A page begins an import, with the address it has then.
LEMMA PageBegins ==
    ASSUME ArchiveInv, NEW t \in Chats,
           \/ Archive!ImportCurrent(t) \/ Archive!ImportChatGPT(t)
           \/ \E r \in Archive!Lists : Archive!ImportBatch(t, r)
    PROVE  ArchiveInv'
<1>c. Nothing \notin Convs \cup Chats
  BY ArchiveConstants
<1>0. /\ archiveJob \in [Chats -> ArchiveJob] /\ archiveJob[t].step = "idle" /\ archiveAt[t] \in Convs
      /\ still \in BOOLEAN
  <2>1. archiveJob[t].kind = "none"
    BY DEF Archive!ImportCurrent, Archive!ImportChatGPT, Archive!ImportBatch, Archive!Begin
  <2> QED
    BY <2>1, JobRuns DEF JobOk, ArchiveInv, ArchiveTypeOK
<1>n. Archive!NoJob = [kind |-> "none", step |-> "idle", conv |-> Nothing, url |-> Nothing,
                       tries |-> 0, todo |-> <<>>, ok |-> {}, said |-> ""]
  BY DEF Archive!NoJob
<1>1. CASE Archive!ImportCurrent(t)
  <2> DEFINE k == [Archive!NoJob EXCEPT !.kind = "current", !.step = "organizations",
                                        !.conv = archiveAt[t]]
  <2>2. archiveJob' = [archiveJob EXCEPT ![t] = k]
    BY <1>1 DEF Archive!ImportCurrent
  <2>3. k \in ArchiveJob /\ k.kind = "current" /\ k.step = "organizations" /\ k.conv = archiveAt[t]
    BY <1>0, <1>n, EmptyJob DEF ArchiveJob
  <2> HIDE DEF k
  <2>4. Becomes(t, k) /\ JobOk(k, still')
    BY <1>0, <1>c, <2>2, <2>3 DEF Becomes, JobOk
  <2> QED
    BY <1>0, <1>1, <2>4, PageGoesOn DEF Archive!ImportCurrent, Archive!archive, Archive!ghosts
<1>2. CASE Archive!ImportChatGPT(t)
  <2> DEFINE k == [Archive!NoJob EXCEPT !.kind = "current", !.step = "import",
                                        !.conv = archiveAt[t]]
  <2>2. archiveJob' = [archiveJob EXCEPT ![t] = k]
    BY <1>2 DEF Archive!ImportChatGPT
  <2>3. k \in ArchiveJob /\ k.kind = "current" /\ k.step = "import" /\ k.conv = archiveAt[t]
    BY <1>0, <1>n, EmptyJob DEF ArchiveJob
  <2> HIDE DEF k
  <2>4. Becomes(t, k) /\ JobOk(k, still)
    BY <1>0, <1>c, <2>2, <2>3 DEF Becomes, JobOk
  <2> QED
    BY <1>0, <1>c, <1>2, <2>3, <2>4, PageSends DEF Archive!ImportChatGPT, Archive!archive
<1>3. ASSUME NEW r \in Archive!Lists, Archive!ImportBatch(t, r) PROVE ArchiveInv'
  <2> DEFINE k == [Archive!NoJob EXCEPT !.kind = "batch", !.step = "organizations",
                                        !.conv = r[1], !.todo = Tail(r)]
  <2>2. archiveJob' = [archiveJob EXCEPT ![t] = k]
    BY <1>3 DEF Archive!ImportBatch
  <2>3. k \in ArchiveJob /\ k.kind = "batch" /\ k.step = "organizations" /\ k.conv = r[1]
    <3> DEFINE c == r[1]
               todo == Tail(r)
    <3>1. c \in Convs /\ todo \in Seq(Convs)
      BY ListOfConversations
    <3> HIDE DEF c, todo
    <3> DEFINE first == [Archive!NoJob EXCEPT !.kind = "batch", !.step = "organizations", !.conv = c,
                                              !.todo = todo]
    <3>2. /\ first \in ArchiveJob
          /\ first.kind = "batch"
          /\ first.step = "organizations"
          /\ first.conv = c
      BY <1>n, <3>1, EmptyJob DEF ArchiveJob
    <3> QED
      BY <3>2 DEF c, todo
  <2> HIDE DEF k
  <2>4. Becomes(t, k) /\ JobOk(k, still')
    BY <1>c, <2>2, <2>3, ListOfConversations DEF Becomes, JobOk
  <2> QED
    BY <1>0, <1>3, <2>4, PageGoesOn DEF Archive!ImportBatch, Archive!archive, Archive!ghosts
<1> QED
  BY <1>1, <1>2, <1>3

\* A page captures a conversation, while the user may go to another.
LEMMA PageCaptures ==
    ASSUME ArchiveInv, NEW t \in Chats, Archive!Captures(t)
    PROVE  ArchiveInv'
<1>c. Nothing \notin Convs \cup Chats
  BY ArchiveConstants
<1>0. /\ archiveJob \in [Chats -> ArchiveJob] /\ archiveJob[t] \in ArchiveJob
      /\ JobOk(archiveJob[t], still) /\ archiveAt[t] \in Convs /\ still \in BOOLEAN
      /\ archiveJob[t].step # "idle" => archiveJob[t].conv \in Convs
      /\ archiveJob[t].step = "fetch" => archiveJob[t].url \in Convs
  BY JobRuns DEF ArchiveInv, ArchiveTypeOK
<1>1. CASE Archive!WaitEnds(t)
  <2> DEFINE k == [archiveJob[t] EXCEPT !.step = "fetch"]
  <2>1. archiveJob' = [archiveJob EXCEPT ![t] = k] /\ archiveJob[t].step = "wait"
    BY <1>1 DEF Archive!WaitEnds
  <2>2. /\ k \in ArchiveJob /\ k.kind = archiveJob[t].kind /\ k.step = "fetch"
        /\ k.conv = archiveJob[t].conv /\ k.url = archiveJob[t].url
    BY <1>0 DEF ArchiveJob
  <2> HIDE DEF k
  <2>3. Becomes(t, k) /\ JobOk(k, still')
    BY <1>0, <1>c, <2>1, <2>2 DEF Becomes, JobOk
  <2> QED
    BY <1>0, <1>1, <2>1, <2>3, PageGoesOn DEF Archive!WaitEnds, Archive!archive, Archive!ghosts
<1>2. CASE Archive!OrganizationsRead(t)
  <2>0. PICK u \in Convs : u = Archive!Address(t, archiveJob[t].conv)
    BY <1>0, <1>2 DEF Archive!Address, Archive!OrganizationsRead
  <2> DEFINE k == [archiveJob[t] EXCEPT !.step = "fetch", !.url = u]
  <2>1. archiveJob' = [archiveJob EXCEPT ![t] = k] /\ archiveJob[t].step = "organizations"
    BY <1>0, <1>2, <2>0 DEF Archive!OrganizationsRead
  <2>2. /\ k \in ArchiveJob /\ k.kind = archiveJob[t].kind /\ k.step = "fetch"
        /\ k.conv = archiveJob[t].conv /\ k.url = u
    BY <1>0 DEF ArchiveJob
  <2> HIDE DEF k
  <2>3. still' = (still /\ (archiveJob[t].kind = "current" => archiveAt[t] = archiveJob[t].conv))
    BY <1>2 DEF Archive!OrganizationsRead
  <2>4. archiveJob[t].kind \in {"current", "batch"}
    BY <1>0, <2>1 DEF JobOk, ArchiveJob
  <2>5. Becomes(t, k) /\ JobOk(k, still')
    BY <1>0, <1>c, <2>0, <2>1, <2>2, <2>3, <2>4 DEF Becomes, JobOk, Archive!Address
  <2> QED
    BY <1>0, <1>2, <2>1, <2>3, <2>5, PageGoesOn DEF Archive!OrganizationsRead, Archive!archive
<1>3. CASE Archive!CaptureFromPage(t)
  <2> DEFINE k == [archiveJob[t] EXCEPT !.step = "import", !.conv = archiveAt[t]]
  <2>1. /\ archiveJob' = [archiveJob EXCEPT ![t] = k]
        /\ archiveJob[t].step \in {"organizations", "fetch"} /\ archiveJob[t].kind = "current"
    BY <1>3 DEF Archive!CaptureFromPage
  <2>2. /\ k \in ArchiveJob /\ k.kind = archiveJob[t].kind /\ k.step = "import" /\ k.conv = archiveAt[t]
    BY <1>0 DEF ArchiveJob
  <2> HIDE DEF k
  <2>3. Becomes(t, k) /\ JobOk(k, still)
    BY <1>0, <1>c, <2>1, <2>2 DEF Becomes, JobOk
  <2> QED
    BY <1>0, <1>c, <1>3, <2>1, <2>2, <2>3, PageSends DEF Archive!CaptureFromPage,
       Archive!archive
<1>4. CASE Archive!NothingToCapture(t) \/ Archive!BatchRefused(t) \/ Archive!ConversationRefused(t)
  <2>1. /\ archiveJob[t].step \in {"organizations", "fetch"}
        /\ UNCHANGED <<archiveAt, import, archiveHub, about, captures, archiveCalm, still>>
    BY <1>4 DEF Archive!NothingToCapture, Archive!BatchRefused, Archive!ConversationRefused,
       Archive!archive, Archive!ghosts
  <2>2. PICK k : Becomes(t, k) /\ JobOk(k, TRUE)
    <3>1. CASE Archive!NothingToCapture(t)
      BY <1>0, <1>c, <3>1, JobFails DEF Archive!NothingToCapture
    <3>2. CASE Archive!BatchRefused(t)
      BY <1>0, <3>2, JobEnds DEF Archive!BatchRefused
    <3>3. CASE Archive!ConversationRefused(t)
      BY <1>0, <1>c, <3>3, JobFailsOrWaits DEF Archive!ConversationRefused
    <3> QED
      BY <1>4, <3>1, <3>2, <3>3
  <2>3. JobOk(k, still')
    BY <2>2 DEF JobOk
  <2> QED
    BY <1>0, <2>1, <2>2, <2>3, PageGoesOn
<1>5. CASE Archive!ConversationRead(t)
  <2> DEFINE k == [archiveJob[t] EXCEPT !.step = "import"]
  <2>1. /\ archiveJob' = [archiveJob EXCEPT ![t] = k] /\ archiveJob[t].step = "fetch"
    BY <1>5 DEF Archive!ConversationRead
  <2>2. /\ k \in ArchiveJob /\ k.kind = archiveJob[t].kind /\ k.step = "import"
        /\ k.conv = archiveJob[t].conv /\ k.url = archiveJob[t].url
    BY <1>0 DEF ArchiveJob
  <2> HIDE DEF k
  <2>3. Becomes(t, k) /\ JobOk(k, still) /\ (still => archiveJob[t].url = archiveJob[t].conv)
    BY <1>0, <1>c, <2>1, <2>2 DEF Becomes, JobOk
  <2> QED
    BY <1>0, <1>c, <1>5, <2>1, <2>2, <2>3, PageSends DEF Archive!ConversationRead,
       Archive!archive
<1>6. ASSUME NEW s \in Writers, Archive!Told(t, s) PROVE ArchiveInv'
  <2>1. /\ import[s].step = "answer" /\ import[s].by = t /\ t # Nothing
        /\ import' = [import EXCEPT ![s] = Archive!NoImport]
        /\ UNCHANGED <<archiveAt, archiveHub, about, captures, archiveCalm, still>>
    BY <1>6, <1>c DEF Archive!Told, Archive!archive, Archive!ghosts
  <2>2. archiveJob[t].step = "import"
    BY <2>1 DEF ArchiveInv, ImportOk
  <2>3. PICK k : Becomes(t, k) /\ JobOk(k, TRUE) /\ k.step # "import"
    BY <1>0, <1>c, <1>6, <2>2, JobImported, JobFailsOrWaits DEF Archive!Told
  <2> QED
    BY <1>c, <2>1, <2>3, ImportAnswered
<1> QED
  BY <1>1, <1>2, <1>3, <1>4, <1>5, <1>6 DEF Archive!Captures

\* Every step keeps the invariant.
LEMMA ArchiveNext == ArchiveInv /\ [Archive!Next]_archiveVars => ArchiveInv'
<1> SUFFICES ASSUME ArchiveInv, [Archive!Next]_archiveVars PROVE ArchiveInv'
  OBVIOUS
<1>c. Nothing \notin Convs \cup Chats
  BY ArchiveConstants
<1>0. archiveJob \in [Chats -> ArchiveJob] /\ import \in [Writers -> ArchiveImport]
  BY DEF ArchiveInv, ArchiveTypeOK
<1>1. ASSUME NEW t \in Chats, Archive!Reload(t) PROVE ArchiveInv'
  <2>1. Becomes(t, Archive!NoJob)
    BY <1>1, EmptyJob DEF Archive!Reload, Becomes
  <2>2. \A r \in Writers :
           /\ import'[r] \in ArchiveImport
           /\ import'[r].step = import[r].step /\ import'[r].conv = import[r].conv
           /\ import'[r].url = import[r].url /\ import'[r].capture = import[r].capture
           /\ import'[r].part = import[r].part /\ import'[r].result = import[r].result
           /\ import'[r].by = IF import[r].by = t THEN Nothing ELSE import[r].by
    BY <1>0, <1>1 DEF Archive!Reload, ArchiveImport
  <2>3. import' \in [Writers -> ArchiveImport]
    BY <1>1, <2>2 DEF Archive!Reload
  <2>4. UNCHANGED <<archiveAt, archiveHub, about, captures, archiveCalm, still>>
    BY <1>1 DEF Archive!Reload, Archive!archive, Archive!ghosts
  <2>5. ArchiveTypeOK'
    BY <2>1, <2>3, <2>4 DEF Becomes, ArchiveInv, ArchiveTypeOK
  <2>6. \A p \in Chats : JobOk(archiveJob[p], still)'
    BY <1>0, <2>1, <2>4, EmptyJob DEF Becomes, ArchiveInv, JobOk
  <2>7. \A r \in Writers : ImportOk(r)' /\ DoneSoFar(r)'
    <3> TAKE r \in Writers
    <3>1. import'[r].by # Nothing => archiveJob'[import'[r].by] = archiveJob[import[r].by]
      BY <1>0, <2>1, <2>2 DEF Becomes, ArchiveImport
    <3>2. ImportOk(r)'
      BY <1>c, <2>2, <2>4, <3>1 DEF ArchiveInv, ImportOk
    <3>3. DoneSoFar(r)'
      <4>1. DoneSoFar(r)
        BY DEF ArchiveInv
      <4>2. PICK i, j : /\ i = import[r] /\ j = import'[r] /\ i.step = j.step /\ i.conv = j.conv
                        /\ i.capture = j.capture /\ i.part = j.part /\ i.result = j.result
        BY <2>2
      <4> QED
        BY <2>4, <4>1, <4>2 DEF DoneSoFar, Chunked, Archive!Whole
    <3> QED
      BY <3>2, <3>3
  <2> QED
    BY <2>4, <2>5, <2>6, <2>7 DEF ArchiveInv, Archive!AddressIsOwn, Archive!CopyFollowsTranscript, Archive!Whole,
     FilesAreCaptured
<1>2. ASSUME NEW t \in Chats, NEW c \in Convs, Archive!Navigate(t, c) PROVE ArchiveInv'
  <2>1. /\ archiveAt' = [archiveAt EXCEPT ![t] = c]
        /\ UNCHANGED <<archiveJob, import, archiveHub, about, captures, archiveCalm, still>>
    BY <1>2 DEF Archive!Navigate, Archive!archive, Archive!ghosts
  <2>2. ArchiveTypeOK'
    BY <2>1 DEF ArchiveInv, ArchiveTypeOK
  <2>3. \A r \in Writers : ImportOk(r)' /\ DoneSoFar(r)'
    <3> TAKE r \in Writers
    <3>2. ImportOk(r)'
      BY <2>1 DEF ArchiveInv, ImportOk
    <3>3. DoneSoFar(r)'
      BY <2>1 DEF ArchiveInv, DoneSoFar, Chunked, Archive!Whole
    <3> QED
      BY <3>2, <3>3
  <2> QED
    BY <2>1, <2>2, <2>3 DEF ArchiveInv, JobOk, Archive!AddressIsOwn, FilesAreCaptured,
       Archive!CopyFollowsTranscript, Archive!Whole
<1>3. CASE UNCHANGED archiveVars
  <2>1. UNCHANGED <<archiveAt, archiveJob, import, archiveHub, about, captures, archiveCalm, still>>
    BY <1>3 DEF archiveVars
  <2>2. ArchiveTypeOK'
    BY <2>1 DEF ArchiveInv, ArchiveTypeOK
  <2>3. \A r \in Writers : ImportOk(r)' /\ DoneSoFar(r)'
    <3> TAKE r \in Writers
    <3>2. ImportOk(r)'
      BY <2>1 DEF ArchiveInv, ImportOk
    <3>3. DoneSoFar(r)'
      BY <2>1 DEF ArchiveInv, DoneSoFar, Chunked, Archive!Whole
    <3> QED
      BY <3>2, <3>3
  <2> QED
    BY <2>1, <2>2, <2>3 DEF ArchiveInv, JobOk, Archive!AddressIsOwn, FilesAreCaptured,
       Archive!CopyFollowsTranscript, Archive!Whole
<1> QED
  BY <1>1, <1>2, <1>3, PageBegins, PageCaptures, WorkerStep DEF Archive!Next

\* It holds for any number of chats, conversations, imports and chunks.
LEMMA ArchiveInvariant == Spec => []ArchiveIInv
<1>1. ArchiveIInv /\ [Next]_vars => ArchiveIInv'
  BY ArchiveStep, ArchiveNext DEF ArchiveIInv
<1> QED
  BY <1>1, InitArchive, PTL DEF Spec

\* What a page newly counts has just been archived.
LEMMA ToldStep ==
    ASSUME ArchiveInv, [Archive!Next]_archiveVars, NEW t \in Chats,
           NEW c \in (archiveJob'[t].ok \ archiveJob[t].ok) \cap archiveCalm
    PROVE  /\ about[c] # Nothing /\ captures[c] > 0
           /\ Archive!Whole(c, "transcript", captures[c])
           /\ Archive!Whole(c, "conversation", captures[c])
<1>c. Nothing \notin Convs \cup Chats
  BY ArchiveConstants
<1>0. archiveJob \in [Chats -> ArchiveJob] /\ archiveJob[t] \in ArchiveJob
  BY DEF ArchiveInv, ArchiveTypeOK
<1>k. ASSUME NEW p \in Chats, NEW k, Becomes(p, k), k.ok \subseteq archiveJob[p].ok PROVE FALSE
  BY <1>0, <1>k DEF Becomes
<1>1. ASSUME NEW p \in Chats, NEW s \in Writers, Archive!Told(p, s)
      PROVE  /\ about[c] # Nothing /\ captures[c] > 0
             /\ Archive!Whole(c, "transcript", captures[c])
             /\ Archive!Whole(c, "conversation", captures[c])
  <2>1. /\ import[s].step = "answer" /\ import[s].by = p /\ p # Nothing
        /\ ImportOk(s) /\ DoneSoFar(s) /\ JobOk(archiveJob[p], still)
        /\ archiveJob[p] \in ArchiveJob
    BY <1>0, <1>1, <1>c DEF Archive!Told, ArchiveInv
  <2>2. /\ archiveJob[p].step = "import" /\ archiveJob[p].conv = import[s].conv
        /\ archiveJob[p].conv \in Convs
    BY <2>1, JobRuns DEF ImportOk
  <2>3. CASE import[s].result # "ok"
    <3>1. \E k : Becomes(p, k) /\ k.ok = archiveJob[p].ok
      BY <1>c, <1>1, <2>1, <2>2, <2>3, JobFailsOrWaits DEF Archive!Told
    <3> QED
      BY <3>1, <1>k
  <2>4. CASE import[s].result = "ok"
    <3>1. PICK k : Becomes(p, k) /\ k.ok = archiveJob[p].ok \cup {import[s].conv}
      BY <1>c, <1>1, <2>1, <2>2, <2>4, JobImported DEF Archive!Told
    <3>2. c = import[s].conv /\ c \in archiveCalm
      BY <1>0, <3>1 DEF Becomes
    <3>3. import[s].capture = captures[c] /\ import[s].capture > 0
      BY <2>1, <3>2 DEF ImportOk
    <3> QED
      BY <2>1, <2>4, <3>2, <3>3 DEF DoneSoFar
  <2> QED
    BY <2>3, <2>4
<1>2. ASSUME NEW p \in Chats,
             \/ Archive!ImportCurrent(p) \/ Archive!ImportChatGPT(p)
             \/ \E r \in Archive!Lists : Archive!ImportBatch(p, r)
      PROVE  FALSE
  BY <1>0, <1>2 DEF Archive!ImportCurrent, Archive!ImportChatGPT, Archive!ImportBatch,
     Archive!NoJob
<1>3. ASSUME NEW p \in Chats,
             \/ Archive!WaitEnds(p) \/ Archive!OrganizationsRead(p) \/ Archive!CaptureFromPage(p)
             \/ Archive!ConversationRead(p) \/ Archive!Reload(p)
      PROVE  FALSE
  <2>0. archiveJob[p] \in ArchiveJob /\ archiveAt[p] \in Convs
    BY DEF ArchiveInv, ArchiveTypeOK
  <2>1. CASE Archive!WaitEnds(p) \/ Archive!ConversationRead(p)
    <3>1. PICK stage \in {"fetch", "import"} : archiveJob' = [archiveJob EXCEPT ![p].step = stage]
      BY <2>1 DEF Archive!WaitEnds, Archive!ConversationRead
    <3> QED
      BY <1>0, <2>0, <3>1 DEF ArchiveJob
  <2>2. CASE Archive!OrganizationsRead(p)
    BY <1>0, <2>0, <2>2 DEF ArchiveJob, Archive!OrganizationsRead
  <2>3. CASE Archive!CaptureFromPage(p)
    BY <1>0, <2>0, <2>3 DEF ArchiveJob, Archive!CaptureFromPage
  <2>4. CASE Archive!Reload(p)
    BY <1>0, <2>0, <2>4 DEF Archive!Reload, Archive!NoJob
  <2> QED
    BY <1>3, <2>1, <2>2, <2>3, <2>4
<1>4. ASSUME NEW p \in Chats,
             Archive!NothingToCapture(p) \/ Archive!BatchRefused(p) \/ Archive!ConversationRefused(p)
      PROVE  FALSE
  <2>0. archiveJob[p] \in ArchiveJob /\ JobOk(archiveJob[p], still)
    BY DEF ArchiveInv, ArchiveTypeOK
  <2>1. CASE Archive!NothingToCapture(p)
    BY <1>c, <1>k, <2>0, <2>1, JobFails DEF Archive!NothingToCapture
  <2>2. CASE Archive!BatchRefused(p)
    BY <1>k, <2>0, <2>2, JobEnds DEF Archive!BatchRefused
  <2>3. CASE Archive!ConversationRefused(p)
    BY <1>c, <1>k, <2>0, <2>3, JobFailsOrWaits DEF Archive!ConversationRefused
  <2> QED
    BY <1>4, <2>1, <2>2, <2>3
<1>5. CASE UNCHANGED archiveJob
  BY <1>5
<1>6. ASSUME NEW s \in Writers, Archive!Writes(s) PROVE UNCHANGED archiveJob
  BY <1>6 DEF Archive!Writes, Archive!DeleteRoot, Archive!EnsureDirectory, Archive!WriteText,
     Archive!TextBlocked, Archive!WriteChunk, Archive!HubFails, Archive!HubRefuses, Archive!Unheard
<1>7. ASSUME NEW p \in Chats, NEW d \in Convs, Archive!Navigate(p, d) PROVE UNCHANGED archiveJob
  BY <1>7 DEF Archive!Navigate
<1> QED
  BY <1>1, <1>2, <1>3, <1>4, <1>5, <1>6, <1>7 DEF Archive!Next, Archive!Captures, archiveVars

\* Every file of the normalized copy of an archive comes with a transcript that can be read
\* and is of the same capture or a later one, as long as nobody imports the conversation
\* twice at a time, whatever earlier imports left and failed half-way
\* (background.js:326-383).
THEOREM CopyHasItsTranscript == Spec => []CopyFollowsTranscript
<1>1. ArchiveIInv => CopyFollowsTranscript
  BY DEF ArchiveIInv, ArchiveInv, CopyFollowsTranscript
<1> QED
  BY <1>1, ArchiveInvariant, PTL

\* An archive has the address of its own conversation, unless a page was left while that
\* was being captured (content.js:960-1037).
THEOREM ArchiveHasItsAddress == Spec => []AddressIsOwn
<1>1. ArchiveIInv => AddressIsOwn
  BY DEF ArchiveIInv, ArchiveInv, AddressIsOwn
<1> QED
  BY <1>1, ArchiveInvariant, PTL

\* A conversation that is counted as imported is in the hub at that time, whole and as it
\* was captured last (content.js, background.js:270-324).
THEOREM ImportedIsArchived == Spec => CountedIsArchived
<1>1. ArchiveIInv /\ [Next]_vars => [part = "archive" => Archive!CountedIsArchivedStep]_archiveVars
  <2> SUFFICES ASSUME ArchiveIInv, [Next]_vars, part = "archive"
               PROVE  Archive!CountedIsArchivedStep
    OBVIOUS
  <2>1. ArchiveInv /\ [Archive!Next]_archiveVars
    BY ArchiveStep DEF ArchiveIInv
  <2> QED
    BY <2>1, ToldStep DEF Archive!CountedIsArchivedStep
<1> QED
  BY <1>1, ArchiveInvariant, PTL DEF Spec, CountedIsArchived

-----------------------------------------------------------------------------
(* The pages of skills and projects (DataSkillsPage.tsx, ProjectsPage.tsx). *)

\* What can be deleted: a bundle, or an entry of one.
Deletable == Bundles \cup Bundle!Entries

\* A change that the page has sent.
BundlesJob ==
    [does : {"nothing", "delete", "archive", "create"}, path : Deletable \cup {Nothing},
     warned : BOOLEAN, served : BOOLEAN, back : Bundles \cup {Nothing}]

\* The type invariant of the bundle pages.
BundlesTypeOK ==
    /\ bundlesHub \in [Bundles -> [Bundle!Names -> {"absent", "edited", "starter", "empty", "full"}]]
    /\ bundlesCalm \in BOOLEAN
    /\ cards \subseteq Bundles /\ card \in Bundles \cup {Nothing}
    /\ entry \in Bundle!Entries \cup {Nothing}
    /\ \A l \in bundlesLoads : l.done /\ l.for = Nothing => l.reply \subseteq Bundles
    /\ bundlesAt \in Bundles \cup {Nothing} /\ bundlesJob \in BundlesJob
    /\ bundlesJob.does = "delete" => bundlesJob.path \in Deletable
    /\ bundlesJob.does = "create" => bundlesJob.path \in Bundles
    /\ inspected = Nothing \/ inspected \in [path : Deletable, done : BOOLEAN, warned : BOOLEAN]
    /\ dialog = Nothing \/ dialog \in [path : Deletable, warned : BOOLEAN]

\* Whoever has begun a deletion is warned by what is in the hub now.
Warned ==
    /\ inspected # Nothing /\ inspected.done /\ Bundle!NotEmpty(inspected.path) => inspected.warned
    /\ dialog # Nothing /\ Bundle!NotEmpty(dialog.path) => dialog.warned
    /\ bundlesJob.does = "delete" /\ ~bundlesJob.served /\ Bundle!NotEmpty(bundlesJob.path)
         => bundlesJob.warned

\* The invariant: until something crosses, whoever may lose something is warned.
BundlesInv == BundlesTypeOK /\ (bundlesCalm => Warned)
\* It, while the bundle pages are looked at.
BundlesIInv == part = "bundles" => BundlesInv

\* A step of the module is one of the bundle pages, while those are looked at.
LEMMA BundlesStep ==
    ASSUME [Next]_vars
    PROVE  part' = part /\ (part = "bundles" => [Bundle!Next]_bundlesVars)
BY DEF Next, vars

\* What the proofs need of the constants.
LEMMA BundlesConstants == Nothing \notin Bundles
BY ClientsAssumption DEF Bundle!BundleAssumption

\* The page begins with a load.
LEMMA InitBundles == Init => BundlesIInv
<1> SUFFICES ASSUME Init, part = "bundles" PROVE BundlesInv
  BY DEF BundlesIInv
<1>1. Bundle!Init
  BY DEF Init
<1>2. /\ bundlesHub = [b \in Bundles |-> [main |-> "edited", dir |-> "full"]]
      /\ cards = {} /\ card = Nothing /\ entry = Nothing /\ bundlesCalm = TRUE
      /\ inspected = Nothing /\ dialog = Nothing /\ bundlesJob = Bundle!NoJob
      /\ bundlesLoads = {Bundle!Asked(bundlesAt)}
  BY <1>1 DEF Bundle!Init
<1>3. [main |-> "edited", dir |-> "full"]
        \in [Bundle!Names -> {"absent", "edited", "starter", "empty", "full"}]
  BY DEF Bundle!Names
<1>4. /\ bundlesJob.does = "nothing"
      /\ bundlesJob \in BundlesJob /\ bundlesAt \in Bundles \cup {Nothing}
  BY <1>1, <1>2 DEF Bundle!Init, Bundle!NoJob, BundlesJob
<1>5. \A l \in bundlesLoads : l.done = FALSE
  BY <1>2 DEF Bundle!Asked
<1>6. BundlesTypeOK
  BY <1>2, <1>3, <1>4, <1>5 DEF BundlesTypeOK
<1> QED
  BY <1>2, <1>4, <1>6 DEF BundlesInv, Warned

\* Where files are only taken away, nothing that was empty gets a content.
LEMMA Emptier ==
    ASSUME \A b \in Bundles, n \in Bundle!Names : bundlesHub'[b][n] \in {bundlesHub[b][n], "absent"},
           NEW p \in Deletable, Bundle!NotEmpty(p)'
    PROVE  Bundle!NotEmpty(p)
<1>1. CASE p \in Bundles
  BY <1>1 DEF Bundle!NotEmpty, Bundle!Contents
<1>2. CASE p \notin Bundles
  <2>1. PICK b \in Bundles, n \in Bundle!Names : p = <<b, n>>
    BY <1>2 DEF Deletable, Bundle!Entries
  <2> QED
    BY <1>2, <2>1 DEF Bundle!NotEmpty, Bundle!Contents
<1> QED
  BY <1>1, <1>2

\* What is under way, of which nothing but the hub may have changed.
LEMMA StillWarned ==
    ASSUME BundlesTypeOK, Warned,
           \A b \in Bundles, n \in Bundle!Names : bundlesHub'[b][n] \in {bundlesHub[b][n], "absent"},
           inspected' \in {inspected, Nothing}, dialog' \in {dialog, Nothing},
           bundlesJob' = bundlesJob \/ bundlesJob'.does # "delete" \/ bundlesJob'.served
    PROVE  Warned'
<1>1. ASSUME NEW i, i = inspected, inspected' = i, i # Nothing, i.done, Bundle!NotEmpty(i.path)'
           PROVE i.warned
  <2>1. i.path \in Deletable
    BY <1>1 DEF BundlesTypeOK
  <2> QED
    BY <1>1, <2>1, Emptier DEF Warned
<1>2. ASSUME NEW d, d = dialog, dialog' = d, d # Nothing, Bundle!NotEmpty(d.path)' PROVE d.warned
  <2>1. d.path \in Deletable
    BY <1>2 DEF BundlesTypeOK
  <2> QED
    BY <1>2, <2>1, Emptier DEF Warned
<1>3. ASSUME NEW j, j = bundlesJob, bundlesJob' = j, j.does = "delete", ~j.served, Bundle!NotEmpty(j.path)'
      PROVE  j.warned
  <2>1. j.path \in Deletable
    BY <1>3 DEF BundlesTypeOK
  <2> QED
    BY <1>3, <2>1, Emptier DEF Warned
<1>a. PICK i, d, j : i = inspected' /\ d = dialog' /\ j = bundlesJob'
  OBVIOUS
<1>4. i # Nothing /\ i.done /\ Bundle!NotEmpty(i.path)' => i.warned
  BY <1>1, <1>a
<1>5. d # Nothing /\ Bundle!NotEmpty(d.path)' => d.warned
  BY <1>2, <1>a
<1>6. j.does = "delete" /\ ~j.served /\ Bundle!NotEmpty(j.path)' => j.warned
  BY <1>3, <1>a
<1> QED
  BY <1>4, <1>5, <1>6, <1>a DEF Warned, Bundle!NotEmpty, Bundle!Contents

\* The job is over, or was never there.
LEMMA EmptyBundlesJob == Bundle!NoJob \in BundlesJob /\ Bundle!NoJob.does = "nothing"
BY DEF Bundle!NoJob, BundlesJob

\* A change that is sent is the only one, and carries the warning of its dialog.
LEMMA Submitted ==
    ASSUME NEW does \in {"delete", "archive", "create"}, NEW p \in Deletable \cup {Nothing},
           NEW w \in BOOLEAN, bundlesAt \in Bundles \cup {Nothing}, Bundle!Submit(does, p, w)
    PROVE  /\ bundlesJob' \in BundlesJob /\ bundlesJob'.does = does /\ bundlesJob'.path = p
           /\ bundlesJob'.warned = w /\ ~bundlesJob'.served
           /\ UNCHANGED <<bundlesHub, cards, card, entry, bundlesLoads, inspected, dialog>>
BY DEF Bundle!Submit, Bundle!NoJob, BundlesJob, Bundle!data, Bundle!page

\* Every step keeps the invariant.
LEMMA BundlesNext == BundlesInv /\ [Bundle!Next]_bundlesVars => BundlesInv'
<1> SUFFICES ASSUME BundlesInv, [Bundle!Next]_bundlesVars PROVE BundlesInv'
  OBVIOUS
<1> USE DEF Bundle!data, Bundle!page
<1>c. Nothing \notin Bundles
  BY BundlesConstants
<1>t. BundlesTypeOK
  BY DEF BundlesInv
<1>w. bundlesCalm' => bundlesCalm /\ Warned
  BY DEF BundlesInv, Bundle!Next, bundlesVars
\* A step that changes nothing that is in the hub or under way.
<1>f. ASSUME UNCHANGED <<bundlesHub, inspected, dialog, bundlesJob>>, BundlesTypeOK' PROVE BundlesInv'
  BY <1>f, <1>t, <1>w, StillWarned DEF BundlesInv
<1>p. ASSUME NEW p \in Deletable, Bundle!Request(p) PROVE BundlesInv'
  <2>1. inspected' = [path |-> p, done |-> FALSE, warned |-> FALSE]
        /\ UNCHANGED <<bundlesHub, bundlesAt, cards, card, entry, bundlesLoads, dialog, bundlesJob>>
    BY <1>p DEF Bundle!Request
  <2>2. BundlesTypeOK'
    BY <1>t, <2>1 DEF BundlesTypeOK, Bundle!Next, bundlesVars
  <2> QED
    BY <1>w, <2>1, <2>2 DEF BundlesInv, Warned, Bundle!NotEmpty, Bundle!Contents
\* The page loads, and the user looks around.
<1>1. ASSUME NEW l \in bundlesLoads,
             Bundle!LoadAnswered(l) \/ Bundle!Loaded(l) \/ Bundle!LoadFails(l)
      PROVE  BundlesInv'
  <2>1. UNCHANGED <<bundlesHub, inspected, dialog, bundlesJob, bundlesAt>>
    BY <1>1 DEF Bundle!LoadAnswered, Bundle!Loaded, Bundle!LoadFails
  <2>2. CASE Bundle!LoadAnswered(l)
    <3> DEFINE m == [l EXCEPT !.done = TRUE,
                              !.reply = IF l.for = Nothing THEN Bundle!Live ELSE Bundle!There(l.for)]
    <3>1. bundlesLoads' = (bundlesLoads \ {l}) \cup {m} /\ UNCHANGED <<cards, card, entry>>
      BY <2>2 DEF Bundle!LoadAnswered
    <3>2. m.done /\ m.for = Nothing => m.reply \subseteq Bundles
      BY DEF Bundle!Live
    <3> HIDE DEF m
    <3>3. BundlesTypeOK'
      BY <1>t, <2>1, <3>1, <3>2 DEF BundlesTypeOK, Bundle!Next, bundlesVars
    <3> QED
      BY <1>f, <2>1, <3>3
  <2>3. CASE Bundle!Loaded(l)
    <3>1. BundlesTypeOK'
      BY <1>t, <2>1, <2>3 DEF Bundle!Loaded, BundlesTypeOK, Bundle!Next, bundlesVars
    <3> QED
      BY <1>f, <2>1, <3>1
  <2>4. CASE Bundle!LoadFails(l)
    <3>1. BundlesTypeOK'
      BY <1>t, <2>1, <2>4 DEF Bundle!LoadFails, BundlesTypeOK, Bundle!Next, bundlesVars
    <3> QED
      BY <1>f, <2>1, <3>1
  <2> QED
    BY <1>1, <2>2, <2>3, <2>4
<1>2. ASSUME NEW a \in Bundles \cup {Nothing}, Bundle!Navigate(a) PROVE BundlesInv'
  <2>1. UNCHANGED <<bundlesHub, inspected, dialog, bundlesJob, cards, card, entry>>
        /\ bundlesAt' = a /\ bundlesLoads' = bundlesLoads \cup {Bundle!Asked(a)}
    BY <1>2 DEF Bundle!Navigate, Bundle!Reload
  <2>2. Bundle!Asked(a).done = FALSE
    BY DEF Bundle!Asked
  <2>3. BundlesTypeOK'
    BY <1>t, <2>1, <2>2 DEF BundlesTypeOK, Bundle!Next, bundlesVars
  <2> QED
    BY <1>f, <2>1, <2>3
<1>3. ASSUME NEW e \in Bundle!Entries \cup {Nothing}, Bundle!SelectEntry(e) PROVE BundlesInv'
  <2>1. BundlesTypeOK'
    BY <1>t, <1>3 DEF Bundle!SelectEntry, BundlesTypeOK, Bundle!Next, bundlesVars
  <2> QED
    BY <1>3, <1>f, <2>1 DEF Bundle!SelectEntry
<1>4. ASSUME NEW b \in Bundles \cup {Nothing}, Bundle!SelectCard(b) PROVE BundlesInv'
  <2>1. BundlesTypeOK'
    BY <1>t, <1>4 DEF Bundle!SelectCard, BundlesTypeOK, Bundle!Next, bundlesVars
  <2> QED
    BY <1>4, <1>f, <2>1 DEF Bundle!SelectCard
\* The dialog of a deletion.
<1>5. ASSUME NEW e \in Bundle!Entries, Bundle!RequestShown(e) PROVE BundlesInv'
  BY <1>5, <1>p DEF Bundle!RequestShown, Deletable
<1>6. CASE Bundle!RequestSelected
  <2>1. entry \in Bundle!Entries \cup {Nothing} /\ cards \subseteq Bundles
    BY <1>t DEF BundlesTypeOK
  <2> QED
    BY <1>6, <1>p, <1>c, <2>1 DEF Bundle!RequestSelected, Deletable
<1>7. CASE Bundle!Inspected
  <2>1. PICK failed \in BOOLEAN :
          inspected' = [inspected EXCEPT !.done = TRUE, !.warned = failed \/ Bundle!NotEmpty(inspected.path)]
    BY <1>7 DEF Bundle!Inspected
  <2>2. /\ inspected \in [path : Deletable, done : BOOLEAN, warned : BOOLEAN]
        /\ UNCHANGED <<bundlesHub, bundlesAt, cards, card, entry, bundlesLoads, dialog, bundlesJob>>
    BY <1>7, <1>t DEF Bundle!Inspected, BundlesTypeOK
  <2>3. PICK w \in BOOLEAN, p \in Deletable :
          /\ p = inspected.path /\ (Bundle!NotEmpty(p) => w)
          /\ inspected' = [inspected EXCEPT !.done = TRUE, !.warned = w]
    <3> DEFINE w == failed \/ Bundle!NotEmpty(inspected.path)
    <3>1. w \in BOOLEAN /\ inspected.path \in Deletable /\ (Bundle!NotEmpty(inspected.path) => w)
      BY <2>2
    <3>2. inspected' = [inspected EXCEPT !.done = TRUE, !.warned = w]
      BY <2>1
    <3> QED
      BY <3>1, <3>2
  <2>4. inspected' \in [path : Deletable, done : BOOLEAN, warned : BOOLEAN]
        /\ inspected'.path = p /\ inspected'.warned = w
    BY <2>2, <2>3
  <2>5. BundlesTypeOK'
    BY <1>t, <2>2, <2>4 DEF BundlesTypeOK, Bundle!Next, bundlesVars
  <2> QED
    BY <1>w, <2>2, <2>3, <2>4, <2>5 DEF BundlesInv, Warned, Bundle!NotEmpty, Bundle!Contents
<1>8. CASE Bundle!DialogOpens
  <2>1. /\ inspected \in [path : Deletable, done : BOOLEAN, warned : BOOLEAN]
        /\ inspected # Nothing /\ inspected.done /\ inspected' = Nothing
        /\ dialog' = [path |-> inspected.path, warned |-> inspected.warned]
        /\ UNCHANGED <<bundlesHub, bundlesAt, cards, card, entry, bundlesLoads, bundlesJob>>
    BY <1>8, <1>t DEF Bundle!DialogOpens, BundlesTypeOK
  <2>2. BundlesTypeOK'
    BY <1>t, <2>1 DEF BundlesTypeOK, Bundle!Next, bundlesVars
  <2> QED
    BY <1>w, <2>1, <2>2 DEF BundlesInv, Warned, Bundle!NotEmpty, Bundle!Contents
<1>9. CASE Bundle!CloseDialog
  <2>1. /\ dialog' = Nothing
        /\ UNCHANGED <<bundlesHub, bundlesAt, cards, card, entry, bundlesLoads, inspected, bundlesJob>>
    BY <1>9 DEF Bundle!CloseDialog
  <2>2. BundlesTypeOK'
    BY <1>t, <2>1 DEF BundlesTypeOK, Bundle!Next, bundlesVars
  <2> QED
    BY <1>t, <1>w, <2>1, <2>2, StillWarned DEF BundlesInv
<1>10. CASE Bundle!ConfirmDelete
  <2>1. PICK d : d = dialog /\ d \in [path : Deletable, warned : BOOLEAN] /\ d # Nothing
    BY <1>10, <1>t DEF Bundle!ConfirmDelete, BundlesTypeOK
  <2>2. /\ bundlesJob' \in BundlesJob /\ bundlesJob'.does = "delete" /\ bundlesJob'.path = d.path
        /\ bundlesJob'.warned = d.warned /\ UNCHANGED bundlesAt
        /\ UNCHANGED <<bundlesHub, cards, card, entry, bundlesLoads, inspected, dialog>>
    <3>1. Bundle!Submit("delete", d.path, d.warned) /\ UNCHANGED bundlesAt
      BY <1>10, <2>1 DEF Bundle!ConfirmDelete, Bundle!Submit
    <3> QED
      BY <1>t, <2>1, <3>1, Submitted DEF BundlesTypeOK
  <2>3. BundlesTypeOK'
    BY <1>t, <2>1, <2>2 DEF BundlesTypeOK, Bundle!Next, bundlesVars
  <2> QED
    BY <1>w, <2>1, <2>2, <2>3 DEF BundlesInv, Warned, Bundle!NotEmpty, Bundle!Contents
<1>11. ASSUME NEW b \in Bundles, Bundle!Archive(b) \/ Bundle!Create(b) PROVE BundlesInv'
  <2>1. PICK does \in {"archive", "create"} : Bundle!Submit(does, b, FALSE)
    BY <1>11 DEF Bundle!Archive, Bundle!Create
  <2>2. /\ bundlesJob' \in BundlesJob /\ bundlesJob'.does = does /\ bundlesJob'.path = b
        /\ UNCHANGED <<bundlesHub, cards, card, entry, bundlesLoads, inspected, dialog>>
    BY <1>t, <2>1, Submitted DEF BundlesTypeOK, Deletable
  <2>3. UNCHANGED bundlesAt
    BY <2>1 DEF Bundle!Submit
  <2>4. BundlesTypeOK'
    BY <1>t, <2>2, <2>3 DEF BundlesTypeOK, Bundle!Next, bundlesVars
  <2> QED
    BY <1>t, <1>w, <2>2, <2>4, StillWarned DEF BundlesInv
\* What the hub does, and others.
<1>h. ASSUME inspected' = Nothing, dialog' = Nothing,
             bundlesJob'.does # "delete" \/ bundlesJob'.served
      PROVE  Warned'
  BY <1>h DEF Warned
<1>12. CASE Bundle!JobServed
  <2>1. PICK j \in BundlesJob :
           /\ j = bundlesJob /\ bundlesJob' = [j EXCEPT !.served = TRUE] /\ j.does # "nothing"
           /\ UNCHANGED <<bundlesAt, cards, card, entry, bundlesLoads, inspected, dialog>>
    BY <1>12, <1>t DEF Bundle!JobServed, BundlesTypeOK
  <2>2. /\ bundlesJob' \in BundlesJob /\ bundlesJob'.served /\ bundlesJob'.does = j.does
        /\ bundlesJob'.path = j.path
    BY <2>1 DEF BundlesJob
  <2>3. CASE j.does = "delete"
    <3>1. bundlesHub' = [b \in Bundles |-> [n \in Bundle!Names |->
                            IF <<b, n>> \in Bundle!Contents(j.path) THEN "absent"
                            ELSE bundlesHub[b][n]]]
      BY <1>12, <2>1, <2>3 DEF Bundle!JobServed
    <3>2. \A b \in Bundles, n \in Bundle!Names : bundlesHub'[b][n] \in {bundlesHub[b][n], "absent"}
      BY <3>1
    <3>3. bundlesHub' \in [Bundles -> [Bundle!Names -> {"absent", "edited", "starter", "empty", "full"}]]
      BY <1>t, <3>1 DEF BundlesTypeOK
    <3>4. BundlesTypeOK'
      BY <1>t, <2>1, <2>2, <3>3 DEF BundlesTypeOK, Bundle!Next, bundlesVars
    <3> QED
      BY <1>t, <1>w, <2>1, <2>2, <3>2, <3>4, StillWarned DEF BundlesInv
  <2>4. CASE j.does = "archive"
    <3>1. bundlesHub' = bundlesHub
      BY <1>12, <2>1, <2>4 DEF Bundle!JobServed
    <3>2. BundlesTypeOK'
      BY <1>t, <2>1, <2>2, <2>4, <3>1 DEF BundlesTypeOK, Bundle!Next, bundlesVars
    <3> QED
      BY <1>t, <1>w, <2>1, <2>2, <3>1, <3>2, StillWarned DEF BundlesInv
  <2>5. CASE j.does = "create"
    <3>0. j.path \in Bundles
      BY <1>t, <2>1, <2>5 DEF BundlesTypeOK
    <3>1. PICK v \in {"starter", bundlesHub[j.path].main} :
             bundlesHub' = [bundlesHub EXCEPT ![j.path].main = v]
      BY <1>12, <2>1, <2>5 DEF Bundle!JobServed
    <3>2. bundlesHub' \in [Bundles -> [Bundle!Names -> {"absent", "edited", "starter", "empty", "full"}]]
      BY <1>t, <3>0, <3>1 DEF BundlesTypeOK, Bundle!Names
    <3>3. BundlesTypeOK'
      BY <1>t, <2>1, <2>2, <2>5, <3>0, <3>2 DEF BundlesTypeOK, Bundle!Next, bundlesVars
    <3>4. CASE bundlesHub' = bundlesHub
      BY <1>t, <1>w, <2>1, <2>2, <3>3, <3>4, StillWarned DEF BundlesInv
    <3>5. CASE bundlesHub' # bundlesHub
      <4>1. bundlesCalm' => inspected = Nothing /\ dialog = Nothing
        BY <2>1, <2>5, <3>5 DEF Bundle!Next, Bundle!Crossing, bundlesVars
      <4> QED
        BY <1>h, <2>1, <2>2, <3>3, <4>1 DEF BundlesInv
    <3> QED
      BY <3>4, <3>5
  <2> QED
    BY <2>1, <2>3, <2>4, <2>5 DEF BundlesJob
<1>13. CASE Bundle!JobEnds
  <2>1. /\ bundlesJob' \in BundlesJob /\ bundlesJob'.does = "nothing" /\ dialog' \in {dialog, Nothing}
        /\ bundlesLoads' \in {bundlesLoads, bundlesLoads \cup {Bundle!Asked(bundlesJob.back)}}
        /\ UNCHANGED <<bundlesHub, bundlesAt, cards, card, entry, inspected>>
    BY <1>13, EmptyBundlesJob DEF Bundle!JobEnds, Bundle!Reload
  <2>2. Bundle!Asked(bundlesJob.back).done = FALSE
    BY DEF Bundle!Asked
  <2>3. BundlesTypeOK'
    BY <1>t, <2>1, <2>2 DEF BundlesTypeOK, Bundle!Next, bundlesVars
  <2> QED
    BY <1>t, <1>w, <2>1, <2>3, StillWarned DEF BundlesInv
<1>14. ASSUME NEW b \in Bundles, NEW n \in Bundle!Names, Bundle!Foreign(b, n) PROVE BundlesInv'
  <2>1. PICK v \in {"edited", "absent", "full", "empty"} :
           v # bundlesHub[b][n] /\ bundlesHub' = [bundlesHub EXCEPT ![b][n] = v]
    BY <1>14 DEF Bundle!Foreign
  <2>2. UNCHANGED <<bundlesAt, cards, card, entry, bundlesLoads, inspected, dialog, bundlesJob>>
    BY <1>14 DEF Bundle!Foreign
  <2>3. /\ bundlesHub' \in [Bundles -> [Bundle!Names -> {"absent", "edited", "starter", "empty", "full"}]]
        /\ bundlesHub' # bundlesHub
    BY <1>t, <2>1 DEF BundlesTypeOK
  <2>4. BundlesTypeOK'
    BY <1>t, <2>2, <2>3 DEF BundlesTypeOK, Bundle!Next, bundlesVars
  <2>5. bundlesCalm' => inspected = Nothing /\ dialog = Nothing /\ bundlesJob = Bundle!NoJob
    BY <2>2, <2>3 DEF Bundle!Next, Bundle!Crossing, bundlesVars
  <2> QED
    BY <1>h, <2>2, <2>4, <2>5, EmptyBundlesJob DEF BundlesInv
<1>15. CASE UNCHANGED bundlesVars
  <2>1. BundlesTypeOK'
    BY <1>t, <1>15 DEF BundlesTypeOK, bundlesVars
  <2> QED
    BY <1>15, <1>f, <2>1 DEF bundlesVars
<1> QED
  BY <1>1, <1>2, <1>3, <1>4, <1>5, <1>6, <1>7, <1>8, <1>9, <1>10, <1>11, <1>12, <1>13, <1>14,
     <1>15
     DEF Bundle!Next, Bundle!Step, Bundle!User, Bundle!Loading, Bundle!Deleting, Bundle!Others

\* It holds for any number of bundles.
LEMMA BundlesInvariant == Spec => []BundlesIInv
<1>1. BundlesIInv /\ [Next]_vars => BundlesIInv'
  BY BundlesStep, BundlesNext DEF BundlesIInv
<1> QED
  BY <1>1, InitBundles, PTL DEF Spec

\* While nothing has crossed, nobody loses what is in a directory without having been
\* warned that it is not empty (useTreeDeleteDialog.ts:36-52).
THEOREM LossIsWarned == Spec => CalmLossIsWarned
<1>1. BundlesIInv => (part = "bundles" => Bundle!CalmLossIsWarnedStep)
  BY DEF BundlesIInv, BundlesInv, Warned, Bundle!CalmLossIsWarnedStep
<1>2. BundlesIInv /\ [Next]_vars => [part = "bundles" => Bundle!CalmLossIsWarnedStep]_bundlesVars
  BY <1>1
<1> QED
  BY <1>2, BundlesInvariant, PTL DEF Spec, CalmLossIsWarned

-----------------------------------------------------------------------------
(* The backup page (GitMirrorPage.tsx).                                    *)

\* The fields of the form, or what a button has taken from them.
Fields == [url : Urls \cup {Nothing}, token : Secrets \cup {Nothing}, mode : Mirror!Modes]

\* What the handlers of the page ask the hub for, and how that ends.
Changes == {"connect", "create", "disconnect", "save", "clear", "sync", "overwrite"}
Requests == Changes \cup {"cancelled", "refused"}

\* A request of the backup page.
MirrorWork ==
    [kind : {"none"} \cup Mirror!HandlerLoads \cup Requests,
     with : Fields \cup {Nothing} \cup {"idle", "queued", "conflict"},
     reply : Mirror!Settings \cup {Nothing}]

\* The poller of the sync.
Poller ==
    [left : Nat, at : {"off", "waits", "answered"}, reply : Mirror!Settings \cup {Nothing}]

\* The type invariant of the backup page.
MirrorTypeOK ==
    /\ served \in Mirror!Settings /\ mirror \in Mirror!Settings \cup {Nothing}
    /\ form \in Fields /\ busy \in BOOLEAN /\ mirrorCalm \in BOOLEAN
    /\ work \in MirrorWork /\ mirrorLoads \in [Mirror!Mounts -> MirrorWork]
    /\ test # Mirror!Idle => test.with.url \in Urls \cup {Nothing}
    /\ poll \in Poller
    /\ work.kind = "none" => work = Mirror!Idle
    /\ work.kind \in Requests => work.with \in Fields
    /\ poll.at = "answered" => poll.reply # Nothing

\* Two settings of the mirror, but for the sync that may be under way.
Same(s, t) == s.mode = t.mode /\ s.url = t.url /\ s.token = t.token /\ s.app = t.app

\* What the page has, and what it is about to get, is what the hub has.
Agrees ==
    /\ work.reply # Nothing => Same(work.reply, served)
    /\ poll.at = "answered" => Same(poll.reply, served)
    /\ \A l \in Mirror!Mounts :
         mirrorLoads[l].reply # Nothing => Same(mirrorLoads[l].reply, served)
    /\ mirror # Nothing /\ ~Mirror!Loading /\ work.reply = Nothing => Same(mirror, served)

\* The invariant of the backup page.
MirrorInv == MirrorTypeOK /\ (mirrorCalm => Agrees)
\* It, while the backup page is looked at.
MirrorIInv == part = "mirror" => MirrorInv

\* A step of the module is one of the backup page, while that is looked at.
LEMMA MirrorStep ==
    ASSUME [Next]_vars
    PROVE  part' = part /\ (part = "mirror" => [Mirror!Next]_mirrorVars)
BY DEF Next, vars

\* What the proofs need of the constants.
LEMMA MirrorConstants ==
    /\ Nothing \notin Mirror!Settings /\ MaxPolls \in Nat
    /\ (CHOOSE u \in Urls : TRUE) \in Urls
BY ClientsAssumption DEF Mirror!PageAssumption

\* The module's comparison of settings is that of all fields but one.
LEMMA SameSettings ==
    ASSUME NEW s \in Mirror!Settings, NEW t \in Mirror!Settings
    PROVE  Mirror!Same(s, t) <=> Same(s, t)
BY DEF Mirror!Same, Same, Mirror!Settings

\* What a page that waits for nothing has.
LEMMA IdleWork ==
    /\ Mirror!Idle \in MirrorWork /\ ~(Mirror!Idle.kind \in Mirror!HandlerLoads)
    /\ Mirror!Idle.kind = "none" /\ Mirror!Idle.with = Nothing /\ Mirror!Idle.reply = Nothing
BY DEF Mirror!Idle, MirrorWork, Mirror!HandlerLoads

\* A poller that is off.
LEMMA StillPoller == Mirror!Still \in Poller /\ Mirror!Still.at = "off"
BY DEF Mirror!Still, Poller

\* What a load begins with.
LEMMA NewLoads ==
    /\ Mirror!NewLoad \in MirrorWork /\ Mirror!NewLoad.kind = "load"
    /\ Mirror!NewLoad.reply = Nothing
BY DEF Mirror!NewLoad, Mirror!Idle, MirrorWork, Mirror!HandlerLoads

\* What the form of a page begins with.
LEMMA EmptyForm == Mirror!NewForm \in Fields
BY DEF Mirror!NewForm, Fields, Mirror!Modes

\* The page begins with a load.
LEMMA InitMirror == Init => MirrorIInv
<1> SUFFICES ASSUME Init, part = "mirror" PROVE MirrorInv
  BY DEF MirrorIInv
<1>1. Mirror!Init
  BY DEF Init
<1>2. work = Mirror!Idle /\ form \in Fields
  BY <1>1, EmptyForm DEF Mirror!Init
<1>3. poll \in Poller /\ poll.at = "off"
  BY <1>1, StillPoller DEF Mirror!Init
<1>4. /\ mirrorLoads \in [Mirror!Mounts -> MirrorWork]
      /\ \A l \in Mirror!Mounts : mirrorLoads[l].reply = Nothing
  BY <1>1, IdleWork, NewLoads DEF Mirror!Init
<1>5. MirrorTypeOK
  BY <1>1, <1>2, <1>3, <1>4, IdleWork DEF Mirror!Init, MirrorTypeOK, Requests, Changes
<1> QED
  BY <1>1, <1>2, <1>3, <1>4, <1>5, IdleWork DEF Mirror!Init, MirrorInv, Agrees

\* What a request does to the settings of the hub.
LEMMA Serves ==
    ASSUME MirrorTypeOK, NEW k, NEW w, k \in Requests => w \in Fields
    PROVE  /\ Mirror!After(k, w) \in Mirror!Settings
           /\ k \notin Requests => Mirror!After(k, w) = served
<1>1. served \in Mirror!Settings
  BY DEF MirrorTypeOK
<1>2. k \in {"save", "clear"} => w.url \in Urls \cup {Nothing} /\ w.token \in Secrets \cup {Nothing}
  BY DEF Fields, Requests, Changes
<1>3. CASE k \notin Requests \/ k = "cancelled"
  BY <1>1, <1>3 DEF Mirror!After, Requests, Changes
<1>4. CASE k \in {"connect", "disconnect", "refused", "sync", "overwrite"}
  BY <1>1, <1>4 DEF Mirror!After, Mirror!Settings, Requests, Changes
<1>5. CASE k = "create"
  <2>1. Mirror!After(k, w) = [served EXCEPT !.mode = "github_app_user", !.url = CHOOSE u \in Urls : TRUE]
    BY <1>5 DEF Mirror!After
  <2> QED
    BY <1>1, <1>5, <2>1, MirrorConstants DEF Mirror!Settings, Mirror!Modes, Requests, Changes
<1>6. CASE k = "save"
  <2>1. PICK u \in Urls \cup {Nothing}, token \in Secrets \cup {Nothing} :
           Mirror!After(k, w) = [served EXCEPT !.mode = "github_token", !.url = u, !.token = token]
    <3> DEFINE token == IF w.token = Nothing THEN served.token ELSE w.token
    <3>1. Mirror!After(k, w) = [served EXCEPT !.mode = "github_token", !.url = w.url, !.token = token]
      BY <1>1, <1>6 DEF Mirror!After, Mirror!Settings
    <3>2. token \in Secrets \cup {Nothing}
      BY <1>1, <1>2, <1>6 DEF Mirror!Settings
    <3> QED
      BY <1>2, <1>6, <3>1, <3>2
  <2> QED
    BY <1>1, <1>6, <2>1 DEF Mirror!Settings, Mirror!Modes, Requests, Changes
<1>7. CASE k = "clear"
  <2>1. PICK u \in Urls \cup {Nothing} :
           Mirror!After(k, w) = [served EXCEPT !.mode = "github_token", !.token = Nothing, !.url = u]
    BY <1>2, <1>7 DEF Mirror!After
  <2> QED
    BY <1>1, <1>7, <2>1 DEF Mirror!Settings, Mirror!Modes, Requests, Changes
<1> QED
  BY <1>3, <1>4, <1>5, <1>6, <1>7 DEF Requests, Changes

\* Every step keeps the invariant.
LEMMA MirrorNext == MirrorInv /\ [Mirror!Next]_mirrorVars => MirrorInv'
<1> SUFFICES ASSUME MirrorInv, [Mirror!Next]_mirrorVars PROVE MirrorInv'
  OBVIOUS
<1> USE DEF Mirror!page, Mirror!requests
<1>c. /\ Nothing \notin Mirror!Settings /\ MaxPolls \in Nat
  BY MirrorConstants
<1>t. MirrorTypeOK
  BY DEF MirrorInv
<1>b. mirrorCalm' \in BOOLEAN
  BY <1>t DEF MirrorTypeOK, Mirror!Next, mirrorVars
<1>w. mirrorCalm' => mirrorCalm /\ Agrees
  BY DEF MirrorInv, Mirror!Next, mirrorVars
<1>x. ~UNCHANGED mirrorVars /\ mirrorCalm' => ~Mirror!Crossing
  BY DEF Mirror!Next
\* The form is filled in.
<1>1. ASSUME NEW f \in Fields, form' = f, UNCHANGED <<served, mirror, busy, work, mirrorLoads, test, poll>>
      PROVE  MirrorInv'
  <2>1. MirrorTypeOK'
    BY <1>t, <1>b, <1>1 DEF MirrorTypeOK
  <2> QED
    BY <1>w, <1>1, <2>1 DEF MirrorInv, Agrees, Mirror!Loading
<1>2. ASSUME NEW k \in Secrets \cup {Nothing}, Mirror!TypeToken(k) PROVE MirrorInv'
  <2>1. [form EXCEPT !.token = k] \in Fields
    BY <1>t DEF MirrorTypeOK, Fields
  <2> QED
    BY <1>1, <1>2, <2>1 DEF Mirror!TypeToken
<1>3. ASSUME NEW u \in Urls \cup {Nothing}, Mirror!TypeUrl(u) PROVE MirrorInv'
  <2>1. [form EXCEPT !.url = u] \in Fields
    BY <1>t DEF MirrorTypeOK, Fields
  <2> QED
    BY <1>1, <1>3, <2>1 DEF Mirror!TypeUrl
<1>4. ASSUME NEW m \in Mirror!Modes, Mirror!ChangeMode(m) PROVE MirrorInv'
  <2>1. [form EXCEPT !.mode = m] \in Fields
    BY <1>t DEF MirrorTypeOK, Fields
  <2> QED
    BY <1>1, <1>4, <2>1 DEF Mirror!ChangeMode
\* A button is pressed.
<1>5. ASSUME NEW k \in Changes, Mirror!Press(k), Mirror!Usable
      PROVE  MirrorInv'
  <2> DEFINE w == [url |-> form.url, token |-> form.token, mode |-> form.mode]
  <2>1. w \in Fields
    BY <1>t DEF MirrorTypeOK, Fields
  <2>2. work = Mirror!Idle /\ work' = [Mirror!Idle EXCEPT !.kind = k, !.with = w]
        /\ UNCHANGED <<served, mirror, form, busy, mirrorLoads, test, poll>>
    BY <1>5 DEF Mirror!Press
  <2> HIDE DEF w
  <2>3. work' \in MirrorWork /\ work'.kind = k /\ work'.with = w /\ work'.reply = Nothing
    BY <2>1, <2>2, <1>5 DEF MirrorWork, Mirror!Idle, Requests
  <2>4. MirrorTypeOK'
    BY <1>t, <1>b, <1>5, <2>1, <2>2, <2>3 DEF MirrorTypeOK, Changes
  <2> QED
    BY <1>w, <2>2, <2>3, <2>4, IdleWork DEF MirrorInv, Agrees, Mirror!Loading
<1>6. CASE Mirror!TestToken
  <2>1. UNCHANGED <<served, mirror, form, busy, work, mirrorLoads, poll>> /\ test'.with.url = form.url
    BY <1>6 DEF Mirror!TestToken, Mirror!Idle
  <2>2. MirrorTypeOK'
    BY <1>t, <1>b, <2>1 DEF MirrorTypeOK, Fields
  <2> QED
    BY <1>w, <2>1, <2>2 DEF MirrorInv, Agrees, Mirror!Loading
<1>7. CASE Mirror!User
  BY <1>7, <1>2, <1>3, <1>4, <1>5, <1>6 DEF Mirror!User, Mirror!ConnectGitHubApp,
     Mirror!CreateDefaultBackupRepo, Mirror!DisconnectGitHubApp, Mirror!SaveDestination,
     Mirror!SaveToken, Mirror!ClearToken, Mirror!Sync, Changes
\* The hub.
<1>8. CASE Mirror!Serve
  <2>1. PICK k, w : /\ k \in Mirror!EndsOf(work.kind) /\ w = work.with
                    /\ served' = Mirror!After(k, w)
                    /\ work' = [work EXCEPT !.kind = k, !.reply = served']
    BY <1>8 DEF Mirror!Serve
  <2>2. /\ work.reply = Nothing /\ work # Mirror!Idle
        /\ UNCHANGED <<mirror, form, busy, mirrorLoads, test, poll>>
    BY <1>8 DEF Mirror!Serve
  <2>3. work.kind \in Mirror!HandlerLoads \cup Requests
    BY <1>t, <2>2 DEF MirrorTypeOK, MirrorWork
  <2>4. /\ k \in Mirror!HandlerLoads \cup Requests
        /\ k \in Requests <=> work.kind \in Requests
        /\ k \in Mirror!HandlerLoads <=> work.kind \in Mirror!HandlerLoads
    BY <2>1, <2>3 DEF Mirror!EndsOf, Requests, Changes, Mirror!HandlerLoads
  <2>5. k \in Requests => w \in Fields
    BY <1>t, <2>1, <2>4 DEF MirrorTypeOK
  <2>6. served' \in Mirror!Settings /\ (k \notin Requests => served' = served)
    BY <1>t, <2>1, <2>5, Serves
  <2>7. /\ work' \in MirrorWork /\ work'.kind = k /\ work'.with = w
        /\ work'.reply = served' /\ work'.reply # Nothing
    BY <1>c, <1>t, <2>1, <2>4, <2>6 DEF MirrorTypeOK, MirrorWork
  <2>8. MirrorTypeOK'
    BY <1>t, <1>b, <2>2, <2>4, <2>5, <2>6, <2>7 DEF MirrorTypeOK, Requests, Changes, Mirror!HandlerLoads
  <2>9. served \in Mirror!Settings /\ ~UNCHANGED mirrorVars
    BY <1>t, <2>2, <2>7 DEF MirrorTypeOK, mirrorVars
  <2>10. /\ mirrorCalm' /\ poll.at = "answered" => Same(served', served)
         /\ \A l \in Mirror!Mounts :
               mirrorCalm' /\ mirrorLoads[l].reply # Nothing => Same(served', served)
    BY <1>x, <2>6, <2>9, SameSettings DEF Mirror!Crossing
  <2> QED
    BY <1>w, <2>2, <2>7, <2>8, <2>10 DEF MirrorInv, Agrees, Same, Mirror!Loading
<1>19. ASSUME NEW l \in Mirror!Mounts, Mirror!ServeLoad(l) PROVE MirrorInv'
  <2>1. /\ mirrorLoads' = [mirrorLoads EXCEPT ![l].reply = served]
        /\ UNCHANGED <<served, mirror, form, busy, work, test, poll>>
    BY <1>19 DEF Mirror!ServeLoad
  <2>2. /\ mirrorLoads' \in [Mirror!Mounts -> MirrorWork]
        /\ \A m \in Mirror!Mounts : mirrorLoads'[m].reply \in {served, mirrorLoads[m].reply}
    BY <1>t, <2>1 DEF MirrorTypeOK, MirrorWork
  <2>3. MirrorTypeOK'
    BY <1>t, <1>b, <2>1, <2>2 DEF MirrorTypeOK
  <2> QED
    BY <1>w, <2>1, <2>2, <2>3 DEF MirrorInv, Agrees, Same, Mirror!Loading
<1>9. CASE Mirror!SyncRuns
  <2>1. PICK s \in {"idle", "conflict"} : served' = [served EXCEPT !.sync = s]
    BY <1>9 DEF Mirror!SyncRuns
  <2>2. UNCHANGED <<mirror, form, busy, work, mirrorLoads, test, poll>>
    BY <1>9 DEF Mirror!SyncRuns
  <2>3. served' \in Mirror!Settings /\ Same(served', served)
    BY <1>t, <2>1 DEF MirrorTypeOK, Mirror!Settings, Same
  <2>4. MirrorTypeOK'
    BY <1>t, <1>b, <2>2, <2>3 DEF MirrorTypeOK
  <2> QED
    BY <1>w, <2>2, <2>3, <2>4 DEF MirrorInv, Agrees, Same, Mirror!Loading
\* The page handles the answers.
<1>s. ASSUME Mirror!AfterSync PROVE poll' \in Poller /\ (poll' = poll \/ poll'.at = "waits")
  BY <1>c, <1>t, <1>s DEF Mirror!AfterSync, Mirror!Still, MirrorTypeOK, Poller
<1>m. ASSUME NEW mode \in Mirror!Modes PROVE Mirror!ModeAfter(mode) \in Mirror!Modes
  BY DEF Mirror!ModeAfter, Mirror!Modes
<1>f. ASSUME NEW s \in Mirror!Settings
      PROVE  /\ Mirror!Filled(s) \in Fields
             /\ [Mirror!Filled(s) EXCEPT !.mode = Mirror!ModeAfter(@)] \in Fields
  BY <1>m DEF Mirror!Filled, Mirror!Settings, Fields
<1>10. CASE Mirror!Load
  <2>1. /\ work.reply # Nothing /\ mirror' = work.reply /\ work' = Mirror!Idle /\ busy' = FALSE
        /\ form' = [Mirror!Filled(work.reply) EXCEPT !.mode = Mirror!ModeAfter(@)]
        /\ UNCHANGED <<served, mirrorLoads, test>>
        /\ poll' \in Poller /\ (poll' = poll \/ poll'.at = "waits")
    BY <1>10, <1>s DEF Mirror!Load
  <2>2. work.reply \in Mirror!Settings
    BY <1>t, <2>1 DEF MirrorTypeOK, MirrorWork
  <2>3. form' \in Fields
    BY <1>f, <2>1, <2>2
  <2>4. MirrorTypeOK'
    BY <1>t, <1>b, <2>1, <2>2, <2>3, IdleWork DEF MirrorTypeOK, Requests, Changes
  <2> QED
    BY <1>w, <2>1, <2>4, IdleWork DEF MirrorInv, Agrees, Mirror!Loading
<1>20. ASSUME NEW l \in Mirror!Mounts, Mirror!MountedLoad(l) PROVE MirrorInv'
  <2>1. /\ mirrorLoads[l].reply # Nothing /\ mirror' = mirrorLoads[l].reply /\ busy' = FALSE
        /\ form' = Mirror!Filled(mirrorLoads[l].reply)
        /\ mirrorLoads' = [mirrorLoads EXCEPT ![l] = Mirror!Idle]
        /\ UNCHANGED <<served, work, test, poll>>
    BY <1>20 DEF Mirror!MountedLoad
  <2>2. mirrorLoads[l].reply \in Mirror!Settings
    BY <1>t, <2>1 DEF MirrorTypeOK, MirrorWork
  <2>3. form' \in Fields
    BY <1>f, <2>1, <2>2
  <2>4. MirrorTypeOK'
    BY <1>t, <1>b, <2>1, <2>2, <2>3, IdleWork DEF MirrorTypeOK, Requests, Changes
  <2>5. \A m \in Mirror!Mounts : mirrorLoads'[m].reply \in {Nothing, mirrorLoads[m].reply}
    BY <1>t, <2>1, IdleWork DEF MirrorTypeOK, Requests, Changes
  <2> QED
    BY <1>w, <2>1, <2>4, <2>5 DEF MirrorInv, Agrees, Mirror!Loading
<1>21. ASSUME NEW l \in Mirror!Mounts, Mirror!MountedLoadFails(l) PROVE MirrorInv'
  <2>1. /\ mirrorLoads' = [mirrorLoads EXCEPT ![l] = Mirror!Idle] /\ busy' = FALSE
        /\ UNCHANGED <<served, mirror, form, work, test, poll>>
    BY <1>21 DEF Mirror!MountedLoadFails
  <2>2. MirrorTypeOK'
    BY <1>t, <1>b, <2>1, IdleWork DEF MirrorTypeOK, Requests, Changes
  <2>3. \A m \in Mirror!Mounts : mirrorLoads'[m].reply \in {Nothing, mirrorLoads[m].reply}
    BY <1>t, <2>1, IdleWork DEF MirrorTypeOK, Requests, Changes
  <2> QED
    BY <1>w, <2>1, <2>2, <2>3 DEF MirrorInv, Agrees, Mirror!Loading
<1>11. CASE Mirror!Changed
  <2>1. /\ work.reply # Nothing /\ mirror' = work.reply /\ work' = Mirror!Idle
        /\ work.kind \in {"create", "save", "clear"}
        /\ UNCHANGED <<served, busy, mirrorLoads, test, poll>>
        /\ form' = [mode |-> IF work.kind = "create" THEN work.reply.mode ELSE form.mode,
                    url |-> IF work.kind = "clear" THEN form.url ELSE work.reply.url,
                    token |-> IF work.kind = "create" THEN form.token ELSE Nothing]
    BY <1>11 DEF Mirror!Changed
  <2>2. work.reply \in Mirror!Settings
    BY <1>t, <2>1 DEF MirrorTypeOK, MirrorWork
  <2>3. form' \in Fields
    BY <1>t, <2>1, <2>2 DEF Mirror!Settings, Fields, MirrorTypeOK
  <2>4. MirrorTypeOK'
    BY <1>t, <1>b, <2>1, <2>2, <2>3, IdleWork DEF MirrorTypeOK, Requests, Changes
  <2> QED
    BY <1>w, <2>1, <2>4, IdleWork DEF MirrorInv, Agrees, Mirror!Loading
<1>12. CASE Mirror!LoadsAgain
  <2>1. /\ work' = CASE work.kind = "disconnect" -> Mirror!NewLoad
                     [] work.kind = "refused" -> [Mirror!Idle EXCEPT !.kind = "loadAfterRefusal"]
                     [] OTHER -> [Mirror!Idle EXCEPT !.kind = "loadAfterSync",
                                                    !.with = work.reply.sync]
        /\ busy' = TRUE /\ work.reply # Nothing
        /\ UNCHANGED <<served, mirror, form, mirrorLoads, test, poll>>
    BY <1>12 DEF Mirror!LoadsAgain
  <2>2. PICK sync \in {"idle", "queued", "conflict"} : sync = work.reply.sync
    BY <1>t, <2>1 DEF MirrorTypeOK, MirrorWork, Mirror!Settings
  <2>3. /\ work' \in MirrorWork /\ work'.kind \in Mirror!HandlerLoads /\ work'.reply = Nothing
    <3>1. CASE work.kind = "disconnect"
      BY <2>1, <3>1, NewLoads DEF Mirror!HandlerLoads
    <3>2. CASE work.kind = "refused"
      BY <2>1, <3>2 DEF Mirror!Idle, MirrorWork, Mirror!HandlerLoads
    <3>3. CASE work.kind \notin {"disconnect", "refused"}
      <4>1. work' = [Mirror!Idle EXCEPT !.kind = "loadAfterSync", !.with = sync]
        BY <2>1, <2>2, <3>3
      <4> QED
        BY <4>1 DEF Mirror!Idle, MirrorWork, Mirror!HandlerLoads
    <3> QED
      BY <3>1, <3>2, <3>3
  <2>4. MirrorTypeOK'
    BY <1>t, <1>b, <2>1, <2>3 DEF MirrorTypeOK, Mirror!HandlerLoads, Requests, Changes
  <2> QED
    BY <1>w, <2>1, <2>3, <2>4 DEF MirrorInv, Agrees, Mirror!Loading
<1>22. CASE Mirror!BackFromGitHub
  <2>1. /\ mirror' = Nothing /\ busy' = TRUE /\ form' = Mirror!NewForm
        /\ work' = Mirror!Idle /\ test' = Mirror!Idle /\ poll' = Mirror!Still
        /\ mirrorLoads' = [l \in Mirror!Mounts |-> Mirror!NewLoad] /\ served' = served
    BY <1>22 DEF Mirror!BackFromGitHub
  <2>2. /\ mirrorLoads' \in [Mirror!Mounts -> MirrorWork]
        /\ \A l \in Mirror!Mounts : mirrorLoads'[l].reply = Nothing
    BY <2>1, NewLoads
  <2>3. MirrorTypeOK'
    BY <1>t, <1>b, <2>1, <2>2, IdleWork, StillPoller, EmptyForm
       DEF MirrorTypeOK, Requests, Changes
  <2> QED
    BY <2>1, <2>2, <2>3, IdleWork, StillPoller DEF MirrorInv, Agrees
<1>13. CASE Mirror!Fails
  <2>1. /\ work # Mirror!Idle /\ work' = Mirror!Idle /\ busy' = FALSE
        /\ form' = [form EXCEPT !.mode = Mirror!ModeAfter(@)]
        /\ UNCHANGED <<served, mirror, mirrorLoads, test>>
        /\ poll' \in Poller /\ (poll' = poll \/ poll'.at = "waits")
    BY <1>13, <1>s DEF Mirror!Fails
  <2>2. form' \in Fields
    BY <1>m, <1>t, <2>1 DEF MirrorTypeOK, Fields
  <2>3. MirrorTypeOK'
    BY <1>t, <1>b, <2>1, <2>2, IdleWork DEF MirrorTypeOK, Requests, Changes
  <2>4. ASSUME mirrorCalm', mirror # Nothing PROVE Same(mirror, served)
    <3>1. /\ mirror \in Mirror!Settings /\ served \in Mirror!Settings /\ ~UNCHANGED mirrorVars
          /\ work.reply \in Mirror!Settings \cup {Nothing}
      BY <1>t, <2>1, <2>4 DEF MirrorTypeOK, MirrorWork, mirrorVars
    <3>2. CASE Mirror!Loading
      BY <1>x, <2>1, <2>4, <3>1, <3>2, SameSettings DEF Mirror!Crossing
    <3>3. CASE ~Mirror!Loading /\ work.reply # Nothing
      <4>1. Same(mirror, work.reply)
        BY <1>x, <2>1, <2>4, <3>1, <3>3, SameSettings DEF Mirror!Crossing
      <4>2. Same(work.reply, served)
        BY <1>w, <2>4, <3>3 DEF Agrees
      <4> QED
        BY <4>1, <4>2 DEF Same
    <3>4. CASE ~Mirror!Loading /\ work.reply = Nothing
      BY <1>w, <2>4, <3>4 DEF Agrees
    <3> QED
      BY <3>2, <3>3, <3>4
  <2> QED
    BY <1>w, <2>1, <2>3, <2>4, IdleWork DEF MirrorInv, Agrees
<1>14. CASE Mirror!Tested
  <2>1. /\ test # Mirror!Idle /\ test' = Mirror!Idle /\ UNCHANGED <<served, mirror, busy, work, mirrorLoads, poll>>
        /\ form' = form \/ form' = [form EXCEPT !.url = test.with.url]
    BY <1>14 DEF Mirror!Tested
  <2>2. form' \in Fields
    <3>1. test.with.url \in Urls \cup {Nothing} /\ form \in Fields
      BY <1>t, <2>1 DEF MirrorTypeOK
    <3> QED
      BY <2>1, <3>1 DEF Fields
  <2>3. MirrorTypeOK'
    BY <1>t, <1>b, <2>1, <2>2 DEF MirrorTypeOK
  <2> QED
    BY <1>w, <2>1, <2>3 DEF MirrorInv, Agrees, Mirror!Loading
<1>15. CASE Mirror!Cools \/ UNCHANGED mirrorVars
  <2>1. UNCHANGED <<served, mirror, form, busy, work, mirrorLoads, test, poll>>
    BY <1>15 DEF Mirror!Cools, mirrorVars
  <2>2. form \in Fields
    BY <1>t DEF MirrorTypeOK
  <2> QED
    BY <1>1, <2>1, <2>2
\* The poller.
<1>16. CASE Mirror!PollAnswered
  <2>1. /\ poll' = [poll EXCEPT !.left = @ - 1, !.at = "answered", !.reply = served]
        /\ poll.left > 0 /\ UNCHANGED <<served, mirror, form, busy, work, mirrorLoads, test>>
    BY <1>16 DEF Mirror!PollAnswered
  <2>2. poll' \in Poller /\ poll'.at = "answered" /\ poll'.reply = served
    <3>1. PICK n \in Nat : n = poll.left - 1
      BY <1>t, <2>1 DEF MirrorTypeOK, Poller
    <3>2. poll' = [poll EXCEPT !.left = n, !.at = "answered", !.reply = served]
      BY <2>1, <3>1
    <3> QED
      BY <1>t, <3>2 DEF MirrorTypeOK, Poller
  <2>3. MirrorTypeOK'
    BY <1>c, <1>t, <1>b, <2>1, <2>2 DEF MirrorTypeOK
  <2> QED
    BY <1>w, <2>1, <2>2, <2>3 DEF MirrorInv, Agrees, Same, Mirror!Loading
<1>17. CASE Mirror!PollFails
  <2>1. /\ poll.at = "waits" /\ poll' = Mirror!Still
        /\ UNCHANGED <<served, mirror, form, busy, work, mirrorLoads, test>>
    BY <1>17 DEF Mirror!PollFails
  <2>2. MirrorTypeOK'
    BY <1>t, <1>b, <2>1, StillPoller DEF MirrorTypeOK
  <2> QED
    BY <1>w, <2>1, <2>2, StillPoller DEF MirrorInv, Agrees, Mirror!Loading
<1>18. CASE Mirror!PollShown
  <2>1. /\ poll.at = "answered" /\ mirror' = poll.reply
        /\ poll' \in {[poll EXCEPT !.at = "waits", !.reply = Nothing], Mirror!Still}
        /\ UNCHANGED <<served, form, busy, work, mirrorLoads, test>>
    BY <1>18 DEF Mirror!PollShown
  <2>2. poll' \in Poller /\ poll'.at # "answered"
    BY <1>t, <2>1, StillPoller DEF MirrorTypeOK, Poller
  <2>3. poll.reply \in Mirror!Settings
    BY <1>t, <2>1 DEF MirrorTypeOK, Poller
  <2>4. MirrorTypeOK'
    BY <1>t, <1>b, <2>1, <2>2, <2>3 DEF MirrorTypeOK
  <2> QED
    BY <1>w, <2>1, <2>2, <2>4 DEF MirrorInv, Agrees, Mirror!Loading
<1> QED
  BY <1>7, <1>8, <1>9, <1>10, <1>11, <1>12, <1>13, <1>14, <1>15, <1>16, <1>17, <1>18, <1>19,
     <1>20, <1>21, <1>22 DEF Mirror!Next, Mirror!Step, Mirror!Browser, Mirror!Hub

\* It holds for any repositories, tokens and number of polls.
LEMMA MirrorInvariant == Spec => []MirrorIInv
<1>1. MirrorIInv /\ [Next]_vars => MirrorIInv'
  BY MirrorStep, MirrorNext DEF MirrorIInv
<1> QED
  BY <1>1, InitMirror, PTL DEF Spec

\* While nothing has crossed, a page whose buttons can be pressed shows the credentials and
\* the destination that the hub has, whatever loads and polls have brought, on the way back
\* from GitHub too (GitMirrorPage.tsx:112-374).
THEOREM PageAgrees == Spec => []CalmPageAgrees
<1>1. MirrorIInv => CalmPageAgrees
  <2> SUFFICES ASSUME MirrorInv, mirrorCalm, mirror # Nothing, work = Mirror!Idle
               PROVE  Mirror!Same(mirror, served)
    BY DEF MirrorIInv, CalmPageAgrees, Mirror!CalmPageAgrees, Mirror!Usable
  <2>1. Same(mirror, served) /\ mirror \in Mirror!Settings /\ served \in Mirror!Settings
    BY IdleWork DEF MirrorInv, MirrorTypeOK, Agrees, Mirror!Loading
  <2> QED
    BY <2>1, SameSettings
<1> QED
  BY <1>1, MirrorInvariant, PTL

-----------------------------------------------------------------------------
(* Tokens and connections (DeveloperAccessPage.tsx, ConnectionsPage.tsx).  *)

\* What the page has been told, or will be when all that is under way has ended: the
\* answer of a load is of now, and so is the list when no load is under way, unless a
\* change has been served, after which the page loads again or shows an error.
Shown ==
    \/ error
    \/ \E j \in accessJobs : j.served
    \/ /\ \A l \in accessLoads : l.done => \A i \in Access!Mine : l.reply[i] = access[i]
       /\ accessLoads = {} => \A i \in Access!Mine : list[i] = access[i]

\* The invariant of the pages of tokens and connections.
AccessInv ==
    /\ accessCalm \in BOOLEAN
    /\ accessCalm => \A l, m \in accessLoads : l = m
    /\ \A l \in accessLoads : l \in [after : {l.after}, done : {l.done}, reply : {l.reply}]
    /\ \A j \in accessJobs : j \in [does : {j.does}, item : {j.item}, served : {j.served}]
    /\ accessCalm => Shown

\* It, while those pages are looked at.
AccessIInv == part = "access" => AccessInv

\* A step of the module is one of these pages, while those are looked at.
LEMMA AccessStep ==
    ASSUME [Next]_vars
    PROVE  part' = part /\ (part = "access" => [Access!Next]_accessVars)
BY DEF Next, vars

\* The page begins with a load.
LEMMA InitAccess == Init => AccessIInv
<1> SUFFICES ASSUME Init, part = "access" PROVE AccessInv
  BY DEF AccessIInv
<1>1. accessLoads = {Access!Load(<<>>)} /\ accessJobs = {} /\ accessCalm = TRUE
  BY DEF Init, Access!Init
<1>2. Access!Load(<<>>) = [after |-> <<>>, done |-> FALSE, reply |-> [i \in {} |-> "none"]]
  BY DEF Access!Load
<1> QED
  BY <1>1, <1>2 DEF AccessInv, Shown

\* Every step keeps the invariant.
LEMMA AccessNext == AccessInv /\ [Access!Next]_accessVars => AccessInv'
<1> SUFFICES ASSUME AccessInv, [Access!Next]_accessVars PROVE AccessInv'
  OBVIOUS
<1>b. accessCalm' \in BOOLEAN /\ page' = page
  BY DEF AccessInv, Access!Next, accessVars
<1>w. accessCalm' => accessCalm /\ Shown
  BY DEF AccessInv, Access!Next, accessVars
<1>x. ~UNCHANGED accessVars /\ accessCalm' => ~Access!Strays
  BY DEF Access!Next
<1>m. Access!Mine' = Access!Mine /\ Access!Mine \subseteq Access!Items
  BY <1>b DEF Access!Mine, Access!Listed, Access!Items
<1>e. accessCalm' => (error => error')
  BY <1>x DEF Access!Strays, accessVars
<1>k. accessCalm' => \A l, m \in accessLoads' : l = m
  BY <1>w, <1>x DEF AccessInv, Access!Strays, accessVars
<1>1. ASSUME NEW l \in accessLoads, Access!LoadServed(l) PROVE AccessInv'
  <2> DEFINE m == [l EXCEPT !.done = TRUE, !.reply = [i \in Access!Mine |-> access[i]]]
  <2>1. accessLoads' = (accessLoads \ {l}) \cup {m} /\ UNCHANGED <<access, list, accessJobs, error>>
    BY <1>1 DEF Access!LoadServed
  <2>2. l \in [after : {l.after}, done : {l.done}, reply : {l.reply}]
    BY DEF AccessInv
  <2>3. m \in [after : {m.after}, done : {m.done}, reply : {m.reply}]
        /\ m.reply = [i \in Access!Mine |-> access[i]]
    BY <2>2
  <2>4. \A i \in Access!Mine : m.reply[i] = access[i]
    BY <2>3
  <2> HIDE DEF m
  <2> QED
    BY <1>b, <1>k, <1>w, <1>m, <2>1, <2>3, <2>4 DEF AccessInv, Shown
<1>2. ASSUME NEW l \in accessLoads, NEW refused \in SUBSET Access!Listed, Access!Loaded(l, refused)
      PROVE  AccessInv'
  <2>1. /\ accessLoads' = accessLoads \ {l} /\ l.done /\ accessLoading' = FALSE
        /\ list' = [i \in Access!Items |-> IF i \in Access!Mine \ UNION refused THEN l.reply[i]
                                               ELSE list[i]]
        /\ error' = (error \/ refused \cap {Tokens, Connections} # {})
        /\ UNCHANGED <<access, accessJobs>>
    BY <1>2 DEF Access!Loaded
  <2>3. ASSUME accessCalm', ~error', \A k \in accessLoads : k.done => \A i \in Access!Mine : k.reply[i] = access[i]
        PROVE  \A i \in Access!Mine : list'[i] = access[i]
    <3>1. refused \subseteq {Grants}
      BY <2>1, <2>3 DEF Access!Listed
    <3>2. \A g \in Grants \cap Access!Mine : list'[g] = l.reply[g]
      BY <1>x, <2>1, <2>3 DEF Access!Strays, accessVars
    <3> QED
      BY <1>m, <2>1, <2>3, <3>1, <3>2
  <2> QED
    BY <1>b, <1>k, <1>w, <1>m, <1>e, <2>1, <2>3 DEF AccessInv, Shown
<1>3. ASSUME NEW i \in Access!Items, Access!Create(i) \/ Access!Revoke(i) \/ Access!Rename(i)
      PROVE  AccessInv'
  <2>1. PICK does : accessJobs' = accessJobs \cup {Access!Job(does, i)}
    BY <1>3 DEF Access!Create, Access!Revoke, Access!Rename
  <2>2. Access!Job(does, i) = [does |-> does, item |-> i, served |-> FALSE]
    BY DEF Access!Job
  <2>3. UNCHANGED <<access, list, accessLoads>>
    BY <1>3 DEF Access!Create, Access!Revoke, Access!Rename
  <2> QED
    BY <1>b, <1>k, <1>w, <1>m, <1>e, <2>1, <2>2, <2>3 DEF AccessInv, Shown
<1>4. ASSUME NEW i \in Access!Items, Access!Foreign(i) PROVE AccessInv'
  <2>1. UNCHANGED <<list, accessLoads, accessJobs, error>>
    BY <1>4 DEF Access!Foreign
  <2>2. accessCalm' => access' = access
    BY <1>x, <2>1 DEF Access!Strays, accessVars
  <2> QED
    BY <1>b, <1>k, <1>w, <1>m, <2>1, <2>2 DEF AccessInv, Shown
<1>5. ASSUME NEW j \in accessJobs, Access!JobServed(j) PROVE AccessInv'
  <2> DEFINE k == [j EXCEPT !.served = TRUE]
  <2>1. accessJobs' = (accessJobs \ {j}) \cup {k} /\ UNCHANGED <<list, accessLoads, error>>
    BY <1>5 DEF Access!JobServed
  <2>2. k \in [does : {k.does}, item : {k.item}, served : {k.served}] /\ k.served
    BY DEF AccessInv
  <2> HIDE DEF k
  <2> QED
    BY <1>b, <1>k, <2>1, <2>2 DEF AccessInv, Shown
<1>6. ASSUME NEW j \in accessJobs, Access!JobDone(j) PROVE AccessInv'
  <2>1. PICK a : accessLoads' = accessLoads \cup {Access!Load(a)}
    BY <1>6 DEF Access!JobDone, Access!Begin
  <2>2. accessJobs' = accessJobs \ {j} /\ UNCHANGED <<access, list>>
    BY <1>6 DEF Access!JobDone
  <2>3. PICK n : n = Access!Load(a)
    OBVIOUS
  <2>4. n.done = FALSE /\ n \in [after : {n.after}, done : {n.done}, reply : {n.reply}]
    BY <2>3 DEF Access!Load
  <2>5. accessCalm' => accessLoads' = {n}
    BY <1>k, <2>1, <2>3
  <2> QED
    BY <1>b, <1>k, <1>e, <2>1, <2>2, <2>3, <2>4, <2>5 DEF AccessInv, Shown
<1>7. ASSUME NEW j \in accessJobs, Access!JobFails(j) PROVE AccessInv'
  <2>1. accessJobs' = accessJobs \ {j} /\ error' = TRUE /\ UNCHANGED accessLoads
    BY <1>7 DEF Access!JobFails
  <2> QED
    BY <1>b, <1>k, <2>1 DEF AccessInv, Shown
<1>8. CASE UNCHANGED accessVars
  BY <1>8, <1>b, <1>k, <1>w, <1>m DEF accessVars, AccessInv, Shown
<1> QED
  BY <1>1, <1>2, <1>3, <1>4, <1>5, <1>6, <1>7, <1>8 DEF Access!Next, Access!Step

\* It holds for any number of tokens and connections.
LEMMA AccessInvariant == Spec => []AccessIInv
<1>1. AccessIInv /\ [Next]_vars => AccessIInv'
  BY AccessStep, AccessNext DEF AccessIInv
<1> QED
  BY <1>1, InitAccess, PTL DEF Spec

\* When nothing is under way and nothing has strayed, the page shows who has access, or an
\* error (DeveloperAccessPage.tsx, ConnectionsPage.tsx).
THEOREM ListIsAccess == Spec => []CalmListIsAccess
<1>1. AccessIInv => CalmListIsAccess
  <2> SUFFICES ASSUME AccessInv, accessCalm, accessLoads = {}, accessJobs = {}
               PROVE  error \/ \A i \in Access!Mine : list[i] = access[i]
    BY DEF AccessIInv, CalmListIsAccess, Access!CalmListIsAccess
  <2> QED
    BY DEF AccessInv, Shown
<1> QED
  BY <1>1, AccessInvariant, PTL

-----------------------------------------------------------------------------
(* The types of all of them.                                               *)

\* What the variables of the clients hold.
ClientsTypeOK ==
    /\ part = "panel" => out \subseteq Convs /\ chosen \subseteq Convs /\ connected \in BOOLEAN
    /\ part = "settings" => Settings!SettingsTypeOK
    /\ part = "imports" => ImportsTypeOK
    /\ part = "archive" => ArchiveTypeOK
    /\ part = "bundles" => BundlesTypeOK
    /\ part = "mirror" => MirrorTypeOK

\* The invariant of the panel holds for any number of conversations.
LEMMA PanelInvariant == Spec => []PanelInv
<1>1. PanelInv /\ [Next]_vars => PanelInv'
  <2>1. PanelInv /\ [Next]_vars /\ part # "panel" => PanelInv'
    BY PanelStep DEF PanelInv
  <2> QED
    BY <2>1, NextPanel
<1> QED
  BY <1>1, InitPanel, PTL DEF Spec

\* They hold nothing else, for every value of the constants: the types of the records
\* that the pages and the extension keep.
THEOREM ClientsTypeCorrect == Spec => []ClientsTypeOK
<1>1. SettingsIInv /\ [Next]_vars => SettingsIInv'
  BY SettingsStep, NextSettings DEF SettingsIInv
<1>2. Spec => []SettingsIInv
  BY <1>1, InitSettings, PTL DEF Spec
<1>3. /\ PanelInv /\ SettingsIInv /\ ImportsIInv /\ ArchiveIInv /\ BundlesIInv /\ MirrorIInv
      => ClientsTypeOK
  BY DEF PanelInv, SettingsIInv, ImportsIInv, ArchiveIInv, ArchiveInv, BundlesIInv, BundlesInv,
         MirrorIInv, MirrorInv, ClientsTypeOK
<1> QED
  BY <1>2, <1>3, PanelInvariant, ImportsInvariant, ArchiveInvariant, BundlesInvariant,
     MirrorInvariant, PTL

=============================================================================
