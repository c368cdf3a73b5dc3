--------------------------- MODULE FileEditorPage ---------------------------
(***************************************************************************)
(* The file editor of the web dashboard (DataFileEditorPage.tsx) over the   *)
(* versioned files of the hub.                                             *)
(*                                                                         *)
(* The page stays mounted when its address changes, and only the success of *)
(* a load asks whether it is still wanted: node, the buffer and the answers *)
(* of saves may belong to a file that is no longer the page's.  Saves are   *)
(* also started from the keyboard, which waits for nothing.                *)
(***************************************************************************)
EXTENDS Naturals

CONSTANTS
    Paths, Texts,
    Slots,      \* bound of the model: saves under way at once
    Nothing,
    MaxVersion, \* bound of the model: versions of a file
    MaxActs     \* bound of the model: saves, renames and jumps

EditorAssumption ==
    /\ Nothing \notin Paths \cup Texts
    /\ MaxVersion \in Nat /\ MaxActs \in Nat

VARIABLES
    hub,     \* the files: version 0 is a file that never was, Nothing a deleted one
    path,    \* the address of the page
    node,    \* the file it holds
    content, \* its buffer
    loading,
    load,    \* the load of the address
    stale,   \* an earlier load is still under way
    saves,   \* the saves under way
    rename,  \* the rename under way
    shown,   \* no part of the code: the files the page has held
    acts,
    calm     \* no part of the code: see Crossing

page == <<path, node, content, loading>>
requests == <<load, stale, saves, rename>>
vars == <<hub, page, requests, shown, acts, calm>>

NoLoad == [at |-> "off", reply |-> Nothing]
NoSave == [at |-> "off", path |-> Nothing, text |-> Nothing, was |-> Nothing, reply |-> Nothing]
NoRename == [at |-> "off", from |-> Nothing, to |-> Nothing, was |-> Nothing, text |-> Nothing]

\* What GET and PUT answer of a path.
FileNode(files, p) == [path |-> p, ver |-> files[p].ver, text |-> files[p].text]

Init ==
    /\ hub \in [Paths -> {[ver |-> 0, text |-> Nothing]} \cup
                         [ver : {1}, text : Texts]]
    /\ path \in Paths /\ node = Nothing /\ content = Nothing
    /\ loading = TRUE /\ load = [NoLoad EXCEPT !.at = "asked"] /\ stale = FALSE
    /\ saves = [s \in Slots |-> NoSave] /\ rename = NoRename
    /\ shown = {} /\ acts = 0 /\ calm = TRUE

-----------------------------------------------------------------------------
(* The hub.  WriteEntry compares the version and the checksum, which covers *)
(* the path, only with a row that exists; a deleted file keeps its row.     *)

\* Mutant: only the version is compared.
AcceptsVersion(w) == hub[w.path].ver \in {0, w.was.ver}

Accepts(w) == hub[w.path].ver # 0 => FileNode(hub, w.path) = w.was

Written(p, t) ==
    /\ hub[p].ver < MaxVersion
    /\ hub' = [hub EXCEPT ![p] = [ver |-> @.ver + 1, text |-> t]]

\* Another tab, an agent or a sync writes or deletes the file.
Foreign(p, t) ==
    /\ hub[p].text # t /\ Written(p, t)
    /\ UNCHANGED <<page, requests, shown, acts>>

-----------------------------------------------------------------------------
(* The load effect of the address. *)

LoadAnswered ==
    /\ load.at = "asked"
    /\ load' = [at |-> "answered", reply |-> FileNode(hub, path)]
    /\ UNCHANGED <<hub, page, stale, saves, rename, shown, acts>>

Loaded ==
    /\ load.at = "answered" /\ load.reply.text # Nothing
    /\ node' = load.reply /\ content' = load.reply.text
    /\ shown' = shown \cup {load.reply}
    /\ load' = NoLoad /\ loading' = FALSE
    /\ UNCHANGED <<hub, path, stale, saves, rename, acts>>

\* The file does not exist or the call fails: the page goes on with what it held.
LoadFails ==
    /\ load.at # "off"
    /\ load' = NoLoad /\ loading' = FALSE
    /\ UNCHANGED <<hub, path, node, content, stale, saves, rename, shown, acts>>

\* An earlier load ends: its file is dropped, its setLoading(false) is not.
StaleLoadEnds ==
    /\ stale /\ stale' = FALSE /\ loading' = FALSE
    /\ UNCHANGED <<hub, path, node, content, load, saves, rename, shown, acts>>

GoTo(p) ==
    /\ ~stale  \* bound of the model
    /\ path' = p
    /\ IF p = path THEN UNCHANGED <<load, loading, stale>>
       ELSE /\ stale' = (load.at # "off")
            /\ load' = [NoLoad EXCEPT !.at = "asked"] /\ loading' = TRUE

Act == acts < MaxActs /\ acts' = acts + 1

\* The history of the browser leads from one file to another.
Jump(p) ==
    /\ p # path /\ Act /\ GoTo(p)
    /\ UNCHANGED <<hub, node, content, saves, rename, shown>>

-----------------------------------------------------------------------------
(* handleSave *)

Type(t) ==
    /\ node # Nothing /\ ~loading /\ t # content
    /\ content' = t
    /\ UNCHANGED <<hub, path, node, loading, requests, shown, acts>>

\* By Cmd/Ctrl + S at any time; the button alone waits for an earlier save (saving).
Save(s) ==
    /\ node # Nothing /\ saves[s].at = "off" /\ Act
    /\ saves' = [saves EXCEPT ![s] = [NoSave EXCEPT !.at = "asked", !.path = path,
                                                    !.text = content, !.was = node]]
    /\ UNCHANGED <<hub, path, node, content, loading, load, stale, rename, shown>>

Answer(s, reply) == saves' = [saves EXCEPT ![s].at = "answered", ![s].reply = reply]

SaveServed(s) ==
    /\ saves[s].at = "asked" /\ Accepts(saves[s])
    /\ Written(saves[s].path, saves[s].text)
    /\ Answer(s, FileNode(hub', saves[s].path))
    /\ UNCHANGED <<page, load, stale, rename, shown, acts>>

SaveConflicts(s) ==
    /\ saves[s].at = "asked" /\ ~Accepts(saves[s])
    /\ Answer(s, Nothing)
    /\ UNCHANGED <<hub, page, load, stale, rename, shown, acts>>

\* Mutant: what was typed meanwhile is taken for saved.
SaveEndsClean(s) ==
    /\ saves[s].at = "answered" /\ saves[s].reply # Nothing
    /\ node' = [saves[s].reply EXCEPT !.text = content]
    /\ shown' = shown \cup {saves[s].reply}
    /\ saves' = [saves EXCEPT ![s] = NoSave]
    /\ UNCHANGED <<hub, path, content, loading, load, stale, rename, acts>>

\* The node becomes what was saved; what was typed meanwhile stays unsaved.
SaveEnds(s) ==
    /\ saves[s].at = "answered" /\ saves[s].reply # Nothing
    /\ node' = saves[s].reply /\ shown' = shown \cup {saves[s].reply}
    /\ saves' = [saves EXCEPT ![s] = NoSave]
    /\ UNCHANGED <<hub, path, content, loading, load, stale, rename, acts>>

\* A conflict, or a call that fails before it is served or after.
SaveFails(s) ==
    /\ saves[s].at # "off"
    /\ saves' = [saves EXCEPT ![s] = NoSave]
    /\ UNCHANGED <<hub, path, node, content, loading, load, stale, rename, shown, acts>>

-----------------------------------------------------------------------------
(* handleRename: the buffer is written under the new name, whatever is there,*)
(* then the old name is deleted, then the page goes to the new one.         *)

Rename(p) ==
    /\ node # Nothing /\ ~loading /\ p # path /\ rename.at = "off" /\ Act
    /\ rename' = [at |-> "first", from |-> path, to |-> p, was |-> hub[path].text,
                  text |-> content]
    /\ UNCHANGED <<hub, path, node, content, loading, load, stale, saves, shown>>

\* Mutant: the old name is deleted first.
RenamesDeletingFirst ==
    /\ UNCHANGED <<page, load, stale, saves, shown, acts>>
    /\ \/ /\ rename.at = "first" /\ rename' = [rename EXCEPT !.at = "second"]
          /\ hub[rename.from].text # Nothing /\ Written(rename.from, Nothing)
       \/ /\ rename.at = "second" /\ rename' = [rename EXCEPT !.at = "done"]
          /\ Written(rename.to, rename.text)

Renames ==
    /\ UNCHANGED <<page, load, stale, saves, shown, acts>>
    /\ \/ /\ rename.at = "first" /\ rename' = [rename EXCEPT !.at = "second"]
          /\ Written(rename.to, rename.text)
       \/ /\ rename.at = "second" /\ rename' = [rename EXCEPT !.at = "done"]
          /\ hub[rename.from].text # Nothing /\ Written(rename.from, Nothing)

RenameEnds ==
    /\ rename.at = "done" /\ rename' = NoRename
    /\ GoTo(rename.to)
    /\ UNCHANGED <<hub, node, content, saves, shown, acts>>

\* The write or the deletion fails, before it is served or after.
RenameFails ==
    /\ rename.at # "off" /\ rename' = NoRename
    /\ UNCHANGED <<hub, path, node, content, loading, load, stale, saves, shown, acts>>

-----------------------------------------------------------------------------
Others == \E p \in Paths, t \in Texts \cup {Nothing} : Foreign(p, t)

Saving == \E s \in Slots : SaveServed(s) \/ SaveConflicts(s) \/ SaveEnds(s)

Lost == (\E s \in Slots : SaveFails(s)) \/ LoadFails \/ RenameFails

User ==
    \/ \E t \in Texts : Type(t)
    \/ \E s \in Slots : Save(s)
    \/ \E p \in Paths : Rename(p) \/ Jump(p)

\* What takes page and hub apart: another writer, a save that is not alone (a second
\* one, a rename or another address beside it), and a call that fails.
Crossing ==
    \/ \E p \in Paths : hub'[p] # hub[p] /\ saves' = saves /\ rename' = rename
    \/ \E s \in Slots : /\ saves'[s].at # "off"
                        /\ \/ path' # path \/ rename'.at # "off" \/ loading'
                           \/ \E r \in Slots \ {s} : saves'[r].at # "off"
    \/ \E s \in Slots : saves[s].at # "off" /\ saves'[s].at = "off" /\ node' = node
    \/ rename.at # "off" /\ path' # path /\ rename'.at # "off"
    \/ rename.at = "done" /\ rename'.at = "off" /\ path' # rename.to
    \/ load.at # "off" /\ load'.at # "answered" /\ node' = node

Step ==
    \/ LoadAnswered \/ Loaded \/ StaleLoadEnds \/ Renames \/ RenameEnds
    \/ Saving \/ User \/ Lost \/ Others

Next == Step /\ calm' = (calm /\ ~Crossing)

Spec == Init /\ [][Next]_vars

-----------------------------------------------------------------------------
\* A save replaces only a version of the file that the page has held: whatever the
\* page mixes up when its address changes, another writer's text is not
\* overwritten unseen (handleSave, WriteEntry).
SavesReplaceWhatWasShownStep ==
    \A s \in Slots :
       saves[s].at = "asked" /\ saves'[s].reply # Nothing
          => hub[saves[s].path].ver = 0 \/ FileNode(hub, saves[s].path) \in shown
SavesReplaceWhatWasShown == [][SavesReplaceWhatWasShownStep]_vars

\* While nothing has crossed, a page that says "Saved" shows what the hub has.
CalmSavedIsStored ==
    calm /\ node # Nothing /\ ~loading /\ content = node.text /\ rename.at = "off"
       => FileNode(hub, path) = node \/ \E s \in Slots : saves[s].at # "off"

\* A rename may stop anywhere, and still the file is there under its old name or
\* its new one, unless somebody else has written meanwhile (handleRename).
CalmRenameKeepsFile ==
    calm /\ rename.at # "off"
       => hub[rename.from].text = rename.was \/ hub[rename.to].text = rename.text
=============================================================================
