---------------------------- MODULE SettingsPage ----------------------------
(***************************************************************************)
(* The local configuration of SystemSettingsPage.tsx: one config.json and   *)
(* two views of it, a form of the fields that the page knows and the text   *)
(* of the file.  Each view has a state of its own (settingsDraft and        *)
(* localConfigRaw) and is brought up to date from the other when the user   *)
(* changes the view; the file is replaced as a whole by what is saved.      *)
(*                                                                         *)
(* Left out: the blanks around what is typed, which the page cuts off; a    *)
(* `local' that is no object counts as one without fields, as in the page.  *)
(***************************************************************************)
EXTENDS Naturals

CONSTANTS
    Values,    \* strings, names of profiles, objects
    NoEntries, \* the object {}, one of them
    Version,   \* the version of a config, one of them
    Nothing,   \* a field that is absent or blank
    Odd,       \* a field of another type than the form reads
    Garbled,   \* an object in the form that does not parse
    Untyped,   \* a field that nobody typed
    Broken,    \* a text that does not parse
    Empty,     \* a text that is empty
    Samples,   \* bound of the model: what is typed or written as a whole
    MaxTyped   \* bound of the model: how often

VARIABLES
    file,      \* config.json
    raw,       \* localConfigRaw
    draft,     \* settingsDraft
    view,      \* configViewMode
    reading,   \* localConfigBusy
    save,      \* the save under way: what it sends, and the answer
    typed,     \* what is typed and what others write, counted
    meant,     \* no part of the code: what the user wants in each field
    alone,     \* no part of the code: see Interferes
    calm       \* no part of the code: see Slips

vars == <<file, raw, draft, view, reading, save, typed, meant, alone, calm>>

-----------------------------------------------------------------------------
\* A target as it is written: "local", the name of a profile, bare or with its prefix.
Named == {"bare", "profile"}
Targets == [is : {"absent", "odd", "local"}, name : {Nothing}] \cup [is : Named, name : Values]
Profiles == {t \in Targets : t.is \in {"absent", "odd", "bare"}}
Target(is) == [is |-> is, name |-> Nothing]
Bare(name) == [is |-> "bare", name |-> name]
Profile(name) == [is |-> "profile", name |-> name]

\* The fields of config.json, one for each way in which the form treats them:
\* current_target and current_profile, a string (the fields of local), an object
\* (profiles, local.connections), and one that the form does not show and keeps.
Fields == {"target", "profile", "string", "object", "kept"}
Configs ==
    [target : Targets, profile : Profiles, string : Values \cup {Nothing, Odd},
     object : Values \cup {Nothing, Odd}, kept : Values \cup {Nothing}]
Texts == Configs \cup {Broken, Empty}

\* What is typed in the form.
FormTargets == {t \in Targets : t.is # "odd"}
FormStrings == Values \cup {Nothing}
FormObjects == Values \cup {Garbled}
Drafts == [target : FormTargets, string : FormStrings, object : FormObjects]
Wishes ==
    [target : Targets \cup {Untyped}, profile : Profiles \cup {Untyped},
     string : Values \cup {Nothing, Odd, Untyped},
     object : Values \cup {Nothing, Odd, Garbled, Untyped},
     kept : Values \cup {Nothing, Untyped}]

SettingsAssumption ==
    /\ {NoEntries, Version} \subseteq Values /\ Samples \subseteq Configs
    /\ {Nothing, Odd, Garbled, Untyped} \cap Values = {}
    /\ Odd # Nothing /\ Garbled \notin {Nothing, Odd} /\ Untyped \notin {Nothing, Odd, Garbled}
    /\ Untyped \notin Targets /\ Broken # Empty /\ {Broken, Empty} \cap Configs = {}
    /\ MaxTyped \in Nat

\* parseLocalConfigObject: an empty text stands for the default.
Default ==
    [target |-> Target("local"), profile |-> Target("absent"), string |-> Nothing,
     object |-> Nothing, kept |-> Version]
Parses(text) == text # Broken
Parse(text) == IF text \in {Broken, Empty} THEN Default ELSE text

\* normalizeTargetInput
Normal(t) ==
    IF t.is = "absent" THEN Target("local") ELSE IF t.is = "bare" THEN Profile(t.name) ELSE t
ProfileIn(t) == IF t.is = "profile" THEN Bare(t.name) ELSE Target("absent")

\* draftFromRaw: readString takes what is not a string for a blank, readPrettyObject what
\* is not an object for {}.
ReadTarget(t) == IF t.is = "odd" THEN Target("absent") ELSE t
DraftOf(text) ==
    LET c == Parse(text)
        t == IF ReadTarget(c.target).is # "absent" THEN c.target ELSE ReadTarget(c.profile)
    IN [target |-> Normal(t),
        string |-> IF c.string = Odd THEN Nothing ELSE c.string,
        object |-> IF c.object \in {Nothing, Odd} THEN NoEntries ELSE c.object]

\* buildConfigFromDraft
Builds(base, form) == Parses(base) /\ form.object # Garbled

\* Mutant: the config is built from the fields of the form alone.
BuiltAfresh(base, form) ==
    [Default EXCEPT !.target = Normal(form.target), !.profile = ProfileIn(Normal(form.target)),
                    !.string = form.string, !.object = form.object]

Built(base, form) ==
    [Parse(base) EXCEPT !.target = Normal(form.target), !.profile = ProfileIn(Normal(form.target)),
                        !.string = form.string, !.object = form.object]

NoWish == [f \in Fields |-> Untyped]
NoSave == [stage |-> "none", text |-> Empty, wish |-> NoWish]

Init ==
    /\ file \in Samples /\ raw = Empty /\ draft = DraftOf(Empty)
    /\ view = "settings" /\ reading = TRUE /\ save = NoSave
    /\ typed = 0 /\ meant = NoWish /\ alone = TRUE /\ calm = TRUE

-----------------------------------------------------------------------------
\* syncLocalConfig
Show(text) == raw' = text /\ draft' = DraftOf(text) /\ meant' = NoWish

Loads ==
    /\ reading /\ reading' = FALSE
    /\ Show(file)
    /\ UNCHANGED <<file, view, save, typed>>

\* The form stands there, with the fields of an empty text.
LoadFails ==
    /\ reading /\ reading' = FALSE
    /\ UNCHANGED <<file, raw, draft, view, save, typed, meant>>

Typing == ~reading /\ typed < MaxTyped /\ typed' = typed + 1

\* updateSettingsDraft; a secret can be typed once it is visible.
TypeField ==
    /\ view = "settings" /\ Typing
    /\ \/ \E t \in FormTargets :
             /\ t # draft.target /\ draft' = [draft EXCEPT !.target = t]
             /\ meant' = [meant EXCEPT !.target = t, !.profile = Target("absent")]
       \/ \E x \in FormStrings :
             /\ x # draft.string /\ draft' = [draft EXCEPT !.string = x]
             /\ meant' = [meant EXCEPT !.string = x]
       \/ \E x \in FormObjects :
             /\ x # draft.object /\ draft' = [draft EXCEPT !.object = x]
             /\ meant' = [meant EXCEPT !.object = x]
    /\ UNCHANGED <<file, raw, view, reading, save>>

\* Who types the text sees all of it.
TypeText(text) ==
    /\ view = "raw" /\ Typing /\ text # raw
    /\ raw' = text
    /\ meant' = IF Parses(text) THEN Parse(text) ELSE meant
    /\ UNCHANGED <<file, draft, view, reading, save>>

SwitchToRaw ==
    /\ ~reading /\ Builds(raw, draft)
    /\ raw' = Built(raw, draft) /\ view' = "raw"
    /\ UNCHANGED <<file, draft, reading, save, typed, meant>>

SwitchToSettings ==
    /\ ~reading /\ Parses(raw)
    /\ draft' = DraftOf(raw) /\ view' = "settings"
    /\ UNCHANGED <<file, raw, reading, save, typed, meant>>

-----------------------------------------------------------------------------
Valid == IF view = "raw" THEN raw \notin {Broken, Empty} ELSE Builds(raw, draft)

Save ==
    /\ ~reading /\ save = NoSave /\ Valid
    /\ save' = [stage |-> "sent", text |-> IF view = "raw" THEN raw ELSE Built(raw, draft),
                wish |-> meant]
    /\ UNCHANGED <<file, raw, draft, view, reading, typed, meant>>

\* handleLocalConfigUpdate: the file is replaced, whatever it holds by now.
SaveServed ==
    /\ save.stage = "sent"
    /\ file' = save.text /\ save' = [save EXCEPT !.stage = "served"]
    /\ UNCHANGED <<raw, draft, view, reading, typed, meant>>

Saved ==
    /\ save.stage = "served" /\ save' = NoSave
    /\ Show(save.text)
    /\ UNCHANGED <<file, view, reading, typed>>

SaveFails ==
    /\ save # NoSave /\ save' = NoSave
    /\ UNCHANGED <<file, raw, draft, view, reading, typed, meant>>

\* The command line and an editor write config.json too.
Foreign ==
    /\ typed < MaxTyped /\ typed' = typed + 1
    /\ \E text \in Samples \cup {Broken} : text # file /\ file' = text
    /\ UNCHANGED <<raw, draft, view, reading, save, meant>>

-----------------------------------------------------------------------------
\* Others: who writes the file after the page has read it, and who types while a save
\* is under way.
Interferes ==
    \/ file' # file /\ save' = save /\ ~reading
    \/ typed' # typed /\ save # NoSave

\* What the page does not protect from by itself: a config that could not be loaded, and
\* a press on the button of the view that is shown, which brings back what the other
\* view holds.
Slips ==
    \/ LoadFails
    \/ view = "raw" /\ SwitchToRaw
    \/ view = "settings" /\ SwitchToSettings

Step ==
    \/ Loads \/ LoadFails
    \/ TypeField
    \/ \E text \in Samples \cup {Broken, Empty} : TypeText(text)
    \/ SwitchToRaw \/ SwitchToSettings
    \/ Save \/ SaveServed \/ Saved \/ SaveFails
    \/ Foreign

Next ==
    /\ Step
    /\ alone' = (alone /\ ~Interferes)
    /\ calm' = (calm /\ ~Slips)

Spec == Init /\ [][Next]_vars

-----------------------------------------------------------------------------
\* The variables keep their types.
SettingsTypeOK ==
    /\ file \in Configs \cup {Broken} /\ raw \in Texts /\ draft \in Drafts
    /\ view \in {"settings", "raw"} /\ {reading, alone, calm} \subseteq BOOLEAN
    /\ save \in [stage : {"none", "sent", "served"}, text : Configs \cup {Empty}, wish : Wishes]
    /\ IF save.stage = "none" THEN save = NoSave ELSE save.text \in Configs
    /\ typed \in 0..MaxTyped /\ meant \in Wishes

Wanted(wish) == [f \in Fields |-> IF wish[f] = Untyped THEN file[f] ELSE wish[f]]

\* What a config says: the target it selects (normalizeCLIConfig, where a bare name is
\* taken for a profile, as the form's note says, SystemSettingsPage.tsx:509), and the
\* rest, of which what is absent, {} or of the wrong type says the same.
Says(c) ==
    [selects |-> IF c.target.is \in Named THEN Profile(c.target.name)
                 ELSE IF c.target.is # "local" /\ c.profile.is \in Named
                 THEN Profile(c.profile.name) ELSE Target("local"),
     string |-> IF c.string = Odd THEN Nothing ELSE c.string,
     object |-> IF c.object \in {Nothing, Odd} THEN NoEntries ELSE c.object,
     kept |-> c.kept]

\* Whichever view a field was typed in last and whichever one is saved, config.json says
\* what was typed, and says what it said in the fields that nobody typed, those that the
\* form does not show among them; unless others interfere or the page slips.
CalmSaveIsWantedStep == calm /\ alone /\ SaveServed => Says(file') = Says(Wanted(save.wish))
CalmSaveIsWanted == [][CalmSaveIsWantedStep]_vars

\* "System settings saved" (SystemSettingsPage.tsx:377): unless others interfere, config.json
\* says what was typed, and else what it said before; not so when the page slips.
SaveIsWanted ==
    [][alone /\ SaveServed => Says(file') = Says(Wanted(save.wish))]_vars

\* The fields that nobody typed are as they were; not so for what is of the wrong type,
\* which the form drops, and for a bare target that it prefixes: LoadConfig takes such a
\* target for the local one (targets.go:14-28) before the save, and for the profile after.
SaveKeepsUntyped ==
    [][calm /\ alone /\ SaveServed =>
         \A f \in Fields : save.wish[f] = Untyped => file'[f] = file[f]]_vars
=============================================================================
