------------------------ MODULE ConversationArchive ------------------------
(***************************************************************************)
(* How the browser extension archives conversations: the chat page's       *)
(* content script captures them, one or a batch (extension/content.js),    *)
(* and the worker writes each to the hub's tree (extension/background.js)  *)
(* as a directory with a transcript and a normalized copy, either of them  *)
(* in base64 chunks when Cloudflare blocks the text.                       *)
(*                                                                         *)
(* A conversation is known by its id, which is also its address; a capture *)
(* by its number, which stands for the imported_at that goes into all its  *)
(* files.  The user may go to another conversation or reload the page at   *)
(* any time; the worker goes on with what a page that is gone has asked    *)
(* for.                                                                    *)
(***************************************************************************)
EXTENDS Integers, Sequences, FiniteSets, Functions

CONSTANTS
    Tabs,      \* chat pages
    Convs,     \* conversations
    Slots,     \* imports the worker may be running at a time
    Retries,   \* retries of a rate-limited import (retryDelays, 3 in the code)
    Chunks,    \* chunks of an artifact that is written in base64
    None,      \* no conversation, no page
    MaxCaptures, \* bound of the model: captures of all conversations
    MaxJobs    \* bound of the model: imports the user starts

ArchiveAssumption ==
    /\ None \notin Convs \cup Tabs
    /\ Retries \in Nat /\ Chunks \in Nat \ {0}
    /\ MaxCaptures \in Nat /\ MaxJobs \in Nat

VARIABLES
    host,     \* the site each page is of
    at,       \* the conversation each page shows
    job,      \* the import each page is busy with, and what the last one said
    import,   \* the imports in the worker
    hub,      \* the archive of each conversation: the capture each file is of, or 0
    about,    \* and the address in its directory's metadata
    captures, \* captures of each conversation so far
    jobs,     \* imports started so far
    calm,     \* no part of the code: conversations never imported twice at a time,
    still     \* and: no page has left the conversation it was asked to import

archive == <<hub, about>>
ghosts  == <<calm, still>>
vars    == <<host, at, job, import, archive, captures, jobs, ghosts>>

\* File 0 is the artifact as text, the next ones its chunks, the last their list.
Files == {"transcript", "conversation"} \X (0 .. Chunks + 1)

NoJob    == [kind |-> "none", step |-> "idle", conv |-> None, url |-> None,
             tries |-> 0, todo |-> <<>>, ok |-> {}, said |-> ""]
NoImport == [step |-> "free", by |-> None, conv |-> None, url |-> None,
             capture |-> 0, part |-> 0, result |-> ""]

Init ==
    /\ host \in [Tabs -> {"claude.ai", "chatgpt.com"}] /\ at \in [Tabs -> Convs]
    /\ job = [t \in Tabs |-> NoJob]
    /\ import = [s \in Slots |-> NoImport]
    /\ hub = [c \in Convs |-> [f \in Files |-> 0]] /\ about = [c \in Convs |-> None]
    /\ captures = [c \in Convs |-> 0]
    /\ jobs = 0 /\ calm = Convs /\ still = TRUE

-----------------------------------------------------------------------------
(* The page captures. *)

Importing(c) == {s \in Slots : import[s].step # "free" /\ import[s].conv = c}

\* sendMessage('importCurrentConversation', payload).
Send(t, c, u) ==
    /\ SumFunction(captures) < MaxCaptures
    /\ captures' = [captures EXCEPT ![c] = @ + 1]
    /\ \E s \in Slots :
        /\ import[s].step = "free"
        /\ import' = [import EXCEPT ![s] = [step |-> "delete", by |-> t, conv |-> c, url |-> u,
                                            capture |-> captures[c] + 1, part |-> 0,
                                            result |-> ""]]
    /\ calm' = IF Importing(c) = {} THEN calm ELSE calm \ {c}

Begin(t, kind) ==
    /\ job[t].kind = "none" /\ jobs < MaxJobs
    /\ jobs' = jobs + 1

\* importCurrentConversation on claude.ai begins with buildClaudeConversationImportPayload.
ImportCurrent(t) ==
    /\ host[t] = "claude.ai" /\ Begin(t, "current")
    /\ job' = [job EXCEPT ![t] = [NoJob EXCEPT !.kind = "current", !.step = "organizations",
                                               !.conv = at[t]]]
    /\ UNCHANGED <<host, at, import, archive, captures, ghosts>>

\* buildChatGPTConversationImportPayload reads the page at once.
ImportChatGPT(t) ==
    /\ host[t] = "chatgpt.com" /\ Begin(t, "current")
    /\ job' = [job EXCEPT ![t] = [NoJob EXCEPT !.kind = "current", !.step = "import",
                                               !.conv = at[t]]]
    /\ Send(t, at[t], at[t])
    /\ UNCHANGED <<host, at, archive, still>>

\* importClaudeConversationBatch with the chosen conversations.
ImportBatch(t, refs) ==
    /\ host[t] = "claude.ai" /\ Begin(t, "batch")
    /\ job' = [job EXCEPT ![t] = [NoJob EXCEPT !.kind = "batch", !.step = "organizations",
                                               !.conv = refs[1], !.todo = Tail(refs)]]
    /\ UNCHANGED <<host, at, import, archive, captures, ghosts>>

\* The end of a job, with the message that stands in the panel.
Ends(t, j, said) == job' = [job EXCEPT ![t] = [NoJob EXCEPT !.ok = j.ok, !.said = said]]

\* Mutant: every capture takes its address from the page.
PageAddress(t, c) == at[t]

\* A batched conversation brings the address of its link; that of the current
\* one is read from the page, which may have moved since its id was read.
Address(t, c) == IF job[t].kind = "batch" THEN c ELSE at[t]

\* The next conversation of a batch, or the summary; if none was imported, the
\* job fails as a whole.
NextOf(t, j) ==
    IF j.todo # <<>>
    THEN job' = [job EXCEPT ![t] = [j EXCEPT !.step = "fetch", !.conv = Head(j.todo),
                                             !.url = Address(t, Head(j.todo)),
                                             !.tries = 0, !.todo = Tail(j.todo)]]
    ELSE Ends(t, j, IF j.ok = {} THEN "failed" ELSE "imported")

Imported(t) ==
    LET j == [job[t] EXCEPT !.ok = @ \cup {job[t].conv}]
    IN  IF j.kind = "batch" THEN NextOf(t, j) ELSE Ends(t, j, "imported")

\* Mutant: a conversation that failed is counted with the others.
FailedIsCounted(t, error) ==
    LET j == [job[t] EXCEPT !.ok = @ \cup {job[t].conv}]
    IN  IF j.kind = "batch" THEN NextOf(t, j) ELSE Ends(t, j, error)

\* The catch of a batch goes on with the next; that of a single import reports.
Failed(t, error) ==
    IF job[t].kind = "batch" THEN NextOf(t, job[t])
    ELSE Ends(t, job[t], IF error = "scope" THEN "scope" ELSE "failed")

\* Mutant: retries are not counted.
RetriesForEver(t, error) ==
    IF job[t].kind = "batch" /\ error = "rate"
    THEN job' = [job EXCEPT ![t].step = "wait"]
    ELSE Failed(t, error)

\* importSingleClaudeConversationWithRetry: only a rate limit is retried.
FailsOrWaits(t, error) ==
    IF job[t].kind = "batch" /\ error = "rate" /\ job[t].tries < Retries
    THEN job' = [job EXCEPT ![t].step = "wait", ![t].tries = @ + 1]
    ELSE Failed(t, error)

WaitEnds(t) ==
    /\ job[t].step = "wait"
    /\ job' = [job EXCEPT ![t].step = "fetch"]
    /\ UNCHANGED <<host, at, import, archive, captures, jobs, ghosts>>

OrganizationsRead(t) ==
    /\ job[t].step = "organizations"
    /\ job' = [job EXCEPT ![t].step = "fetch", ![t].url = Address(t, job[t].conv)]
    /\ still' = (still /\ (job[t].kind = "current" => at[t] = job[t].conv))
    /\ UNCHANGED <<host, at, import, archive, captures, jobs, calm>>

\* Claude's API does not answer: the page's own messages are taken instead, of
\* whatever conversation the page shows by now.
CaptureFromPage(t) ==
    /\ job[t].kind = "current" /\ job[t].step \in {"organizations", "fetch"}
    /\ job' = [job EXCEPT ![t].step = "import", ![t].conv = at[t]]
    /\ Send(t, at[t], at[t])
    /\ UNCHANGED <<host, at, archive, jobs, still>>

\* Nor does the page hold any message: "当前页面没有可导入内容".
NothingToCapture(t) ==
    /\ job[t].kind = "current" /\ job[t].step \in {"organizations", "fetch"}
    /\ Failed(t, "failed")
    /\ UNCHANGED <<host, at, import, archive, captures, jobs, ghosts>>

\* Without organizations no conversation of a batch is tried.
BatchRefused(t) ==
    /\ job[t].kind = "batch" /\ job[t].step = "organizations"
    /\ Ends(t, job[t], "failed")
    /\ UNCHANGED <<host, at, import, archive, captures, jobs, ghosts>>

\* fetchClaudeConversation in the organization that has it, and its current branch.
ConversationRead(t) ==
    /\ job[t].step = "fetch"
    /\ job' = [job EXCEPT ![t].step = "import"]
    /\ Send(t, job[t].conv, job[t].url)
    /\ UNCHANGED <<host, at, archive, jobs, still>>

ConversationRefused(t) ==
    /\ job[t].kind = "batch" /\ job[t].step = "fetch"
    /\ \E error \in {"rate", "failed"} : FailsOrWaits(t, error)
    /\ UNCHANGED <<host, at, import, archive, captures, jobs, ghosts>>

\* The worker's answer.
Told(t, s) ==
    /\ import[s].step = "answer" /\ import[s].by = t
    /\ import' = [import EXCEPT ![s] = NoImport]
    /\ IF import[s].result = "ok" THEN Imported(t) ELSE FailsOrWaits(t, import[s].result)
    /\ UNCHANGED <<host, at, archive, captures, jobs, ghosts>>

-----------------------------------------------------------------------------
(* The worker writes.  Each call of the hub is one step. *)

Goes(s, step, part) == import' = [import EXCEPT ![s].step = step, ![s].part = part]

\* The artifact is written: the next one, or the answer.
ArtifactDone(s) ==
    IF import[s].step = "transcript" THEN Goes(s, "conversation", 0)
    ELSE import' = [import EXCEPT ![s].step = "answer", ![s].result = "ok"]

\* Of the directory's metadata, conversation_source_url.
BundleMetadata(s) == import[s].url

\* What the call of this step does to the tree: both artifacts are made of the
\* one conversation that the worker was given.
Written(s) ==
    LET c == import[s].conv IN
    IF import[s].step = "directory"
    THEN /\ about' = [about EXCEPT ![c] = BundleMetadata(s)]
         /\ hub' = hub
    ELSE /\ hub' = [hub EXCEPT ![c][<<import[s].step,
                        IF import[s].part < 0 THEN 0 ELSE import[s].part>>] = import[s].capture]
         /\ about' = about

\* deletePath: the hub has no DELETE below /agent/tree and answers 405, which
\* deleteConversationArchiveRoot passes over.  What earlier imports left stays.
DeleteRoot(s) ==
    /\ import[s].step = "delete"
    /\ Goes(s, "directory", 0)
    /\ UNCHANGED <<host, at, job, archive, captures, jobs, ghosts>>

\* The transcript is first written in full, which is part -1.
EnsureDirectory(s) ==
    /\ import[s].step = "directory"
    /\ Written(s)
    /\ Goes(s, "transcript", -1)
    /\ UNCHANGED <<host, at, job, captures, jobs, ghosts>>

WriteText(s) ==
    /\ import[s].step \in {"transcript", "conversation"} /\ import[s].part <= 0
    /\ Written(s)
    /\ ArtifactDone(s)
    /\ UNCHANGED <<host, at, job, captures, jobs, ghosts>>

\* isCloudflareBlock: the compact transcript, or the chunks.
TextBlocked(s) ==
    /\ import[s].step \in {"transcript", "conversation"} /\ import[s].part <= 0
    /\ Goes(s, import[s].step, import[s].part + 1)
    /\ UNCHANGED <<host, at, job, archive, captures, jobs, ghosts>>

\* writeBase64ChunkedFile: the chunks, then the file that lists them.
WriteChunk(s) ==
    /\ import[s].step \in {"transcript", "conversation"} /\ import[s].part >= 1
    /\ Written(s)
    /\ IF import[s].part <= Chunks THEN Goes(s, import[s].step, import[s].part + 1)
       ELSE ArtifactDone(s)
    /\ UNCHANGED <<host, at, job, captures, jobs, ghosts>>

\* Mutant: a transcript that cannot be written is left out, as a root that
\* cannot be deleted is.
TranscriptLeftOut(s) ==
    /\ import[s].step = "transcript"
    /\ Goes(s, "conversation", 0)
    /\ UNCHANGED <<host, at, job, archive, captures, jobs, ghosts>>

\* An error of the hub, or the end of the worker, which Chrome may stop at any
\* time, ends the import where it is; a write whose answer is lost may be done.
HubFails(s) ==
    /\ import[s].step \in {"delete", "directory", "transcript", "conversation"}
    /\ import' = [import EXCEPT ![s].step = "answer", ![s].result = "failed"]
    /\ UNCHANGED archive \/ (import[s].step # "delete" /\ Written(s))
    /\ UNCHANGED <<host, at, job, captures, jobs, ghosts>>

\* The rate limit, which is before the routes; and a token without the scope
\* write:tree, which the first PUT finds.  Nothing is written.
HubRefuses(s) ==
    /\ \/ /\ import[s].step \in {"delete", "directory", "transcript", "conversation"}
          /\ import' = [import EXCEPT ![s].step = "answer", ![s].result = "rate"]
       \/ /\ import[s].step = "directory"
          /\ import' = [import EXCEPT ![s].step = "answer", ![s].result = "scope"]
    /\ UNCHANGED <<host, at, job, archive, captures, jobs, ghosts>>

\* The answer for a page that is gone.
Unheard(s) ==
    /\ import[s].step = "answer" /\ import[s].by = None
    /\ import' = [import EXCEPT ![s] = NoImport]
    /\ UNCHANGED <<host, at, job, archive, captures, jobs, ghosts>>

-----------------------------------------------------------------------------
(* The user. *)

Navigate(t, c) ==
    /\ at[t] # c
    /\ at' = [at EXCEPT ![t] = c]
    /\ UNCHANGED <<host, job, import, archive, captures, jobs, ghosts>>

Reload(t) ==
    /\ job[t].kind # "none"
    /\ job' = [job EXCEPT ![t] = NoJob]
    /\ import' = [s \in Slots |-> IF import[s].by = t THEN [import[s] EXCEPT !.by = None]
                                  ELSE import[s]]
    /\ UNCHANGED <<host, at, archive, captures, jobs, ghosts>>

Captures(t) ==
    \/ WaitEnds(t) \/ OrganizationsRead(t) \/ CaptureFromPage(t) \/ NothingToCapture(t)
    \/ BatchRefused(t) \/ ConversationRead(t) \/ ConversationRefused(t)
    \/ \E s \in Slots : Told(t, s)

Writes(s) ==
    \/ DeleteRoot(s) \/ EnsureDirectory(s) \/ WriteText(s) \/ TextBlocked(s)
    \/ WriteChunk(s) \/ HubFails(s) \/ HubRefuses(s) \/ Unheard(s)

Lists == {<<c>> : c \in Convs} \cup {r \in Convs \X Convs : r[1] # r[2]}

Next ==
    \/ \E t \in Tabs :
          \/ ImportCurrent(t) \/ ImportChatGPT(t) \/ \E refs \in Lists : ImportBatch(t, refs)
          \/ Captures(t) \/ Reload(t) \/ \E c \in Convs : Navigate(t, c)
    \/ \E s \in Slots : Writes(s)

Spec == Init /\ [][Next]_vars

\* Claude and the hub answer every request, with an error if they must, and
\* timers fire.
FairSpec == Spec /\ \A t \in Tabs : WF_vars(Captures(t))
                 /\ \A s \in Slots : WF_vars(Writes(s))

-----------------------------------------------------------------------------
\* The variables keep their types.
TypeOK ==
    /\ host \in [Tabs -> {"claude.ai", "chatgpt.com"}]
    /\ at \in [Tabs -> Convs]
    /\ \A t \in Tabs :
        /\ job[t].kind \in {"none", "current", "batch"}
        /\ job[t].step \in {"idle", "organizations", "fetch", "import", "wait"}
        /\ job[t].conv \in Convs \cup {None} /\ job[t].tries \in 0 .. Retries
        /\ job[t].ok \subseteq Convs
    /\ \A s \in Slots : /\ import[s].part \in -1 .. Chunks + 1
                        /\ import[s].by \in Tabs \cup {None}
    /\ hub \in [Convs -> [Files -> Nat]] /\ about \in [Convs -> Convs \cup {None}]
    /\ captures \in [Convs -> Nat]
    /\ jobs \in 0 .. MaxJobs /\ calm \subseteq Convs /\ still \in BOOLEAN

\* An artifact that can be read, its text or all chunks and their list, of the
\* n-th capture or a later one.
Whole(c, a, n) ==
    hub[c][<<a, 0>>] >= n \/ \A k \in 1 .. Chunks + 1 : hub[c][<<a, k>>] >= n

\* The normalized copy never gets ahead of the transcript: every file of it comes
\* with a transcript that can be read and is of the same capture or a later one,
\* whatever earlier imports left and failed half-way, as long as nobody imports
\* the conversation twice at a time.
CopyFollowsTranscript ==
    \A c \in calm : \A k \in 0 .. Chunks + 1 :
       Whole(c, "transcript", hub[c][<<"conversation", k>>])

\* A conversation that is counted as imported is in the hub at that time, whole
\* and as it was captured last.
CountedIsArchivedStep ==
    \A t \in Tabs : \A c \in (job'[t].ok \ job[t].ok) \cap calm :
       /\ about[c] # None /\ captures[c] > 0
       /\ Whole(c, "transcript", captures[c]) /\ Whole(c, "conversation", captures[c])
CountedIsArchived == [][CountedIsArchivedStep]_vars

\* The metadata of an archive has the address of the conversation that is in it,
\* unless a page has been left while its own conversation was being captured.
AddressIsOwn == still => \A c \in Convs : about[c] \in {None, c}

\* Every import ends, however often the hub limits the rate.
ImportEnds == \A t \in Tabs : job[t].kind # "none" ~> job[t].kind = "none"

\* A token that may not write the tree is explained to the user
\* (normalizeImportError, background.js:934: "当前 neuDrive Token 缺少 write:tree").
ScopeIsExplained == \A t \in Tabs : job[t].said # "scope"

\* What deleteConversationArchiveRoot (background.js:563) is there for: an archive
\* holds the files of one capture only.  It does not, since nothing is deleted.
OneCapture ==
    \A c \in calm : \A f, g \in Files : hub[c][f] # 0 /\ hub[c][g] # 0 => hub[c][f] = hub[c][g]
=============================================================================
