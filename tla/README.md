# neuDrive in TLA+

neuDrive keeps the files, memory, skills and projects of a user's AI tools in one
hub: a virtual file tree in PostgreSQL, with a change feed, resumable archive
uploads (Bundle Sync), a Git backup and an inbox on top of it; a web app and a
browser extension are its clients. This directory holds TLA+ modules for the parts
of both sides where several requests, background jobs, tabs and failures meet, TLC
configurations that check them on small instances, and TLAPS proofs for every
instance. `PROJECT.json` maps each definition to the lines
it models, and lists the runs, findings, hazards and theorems.

## 1. Inventory

| Part | State | Operations | Talks to | What is hard | What makes it correct |
|---|---|---|---|---|---|
| Virtual file tree (`filetree_service.go`, `filetree_blob.go`, `filetree_quota.go`) | rows of `file_tree` with a version and a tombstone mark, `file_blobs`, the log `entry_versions` | WriteEntry, WriteBinaryEntry, EnsureDirectory(WithMetadata), Delete, Read, List, Search | every service writes through it | concurrent READ COMMITTED transactions, an absent row cannot be locked, several transactions in one call, lock order | versions and log agree, optimistic lock, parents exist, quota, calls return |
| Snapshot and change feed (same file) | the cursor, a BIGSERIAL | Snapshot, Changes | SDKs, mirrors of the tree | cursors are drawn before they are visible, two queries without a transaction | a replica converges and never goes back |
| Bundle Sync sessions (`sync_service.go`) | `sync_sessions`, `sync_session_parts`, `sync_jobs` | StartSession, UploadPart, GetSession, AbortSession, CommitSession, CleanExpiredSessions | bundle import, scheduler, CLI | read, decide, write later; retries of slow calls; expiry | jobs close, no false success, no mixed archive, bytes are reclaimed |
| Bundle import and preview (`bundle_service.go`, `bundle_support.go`, `import_service.go`) | none of its own | ImportBundle (merge, mirror), PreviewBundle | file tree, memory | many transactions, no rollback; a fingerprint that is checked before the import | import twice is import once; mirror leaves what the bundle has |
| Skills archive import (`import_skills_bulk.go`) | none | one large transaction over the tree | file tree | its own copy of the write statements | as the file tree |
| CLI sync client (`internal/synccli`) | a session file beside the bundle | push, resume, pull, history | Bundle Sync | crash and resume, expired sessions | resume uploads exactly the missing parts |
| Git mirror (`internal/localgitsync`) | one row of `local_git_mirrors`, a Git work tree, the remote branch | MarkMirrorQueued, RunQueuedGitMirrorSyncs, SyncActiveMirror, settings | file tree, Git, GitHub, scheduler | full-row writes of stale rows, worker crashes, foreign commits | requests are served, foreign commits are not overwritten unasked |
| Scheduler (`internal/jobs/scheduler.go`) | tickers | five clean-up jobs and the mirror queue | the services | runs beside requests | every job runs again |
| Projects and logs (`project_service.go`) | project rows, two files per project, `project_logs` | Create, UpdateContext, AppendLog, Archive | file tree | read, append, write without a version | no log line is lost |
| Inbox (`inbox_service.go`) | `inbox_messages` and a file per message in a status folder | Send, Archive, ArchiveExpiredMessages (MarkRead has no caller) | file tree, scheduler | delete, write, update as three steps | a message is in exactly one folder |
| Memory (`memory_service.go`) | profiles, scratch entries, conflicts | UpsertProfile, WriteScratch, expiry, conflicts | file tree, scheduler | stale conflicts | resolving keeps one of the two texts |
| SQLite store (`internal/storage/sqlite`) | the same tables, local mode | the same operations | one writer at a time | little: transactions do not interleave | the same promises |
| Accounts (`auth_service.go`) | `sessions` | RefreshToken, Logout | the web app | find, delete and insert are three statements | one refresh token is redeemed once |
| Local platform scans (`internal/api/local_platform_dashboard.go`) | a status file, a preview file, the table of running jobs | scan, read, import | the import page | a read looks at one after the other while a scan ends | a scan has one verdict |
| Extension: connection (`background.js`, `neudrive-client.js`, `popup.js`) | two items of `chrome.storage.local`, a client and a cache in memory | configure, disconnect, login, status | hub, login page | handlers interleave at awaits; Chrome stops the worker anywhere | memory agrees with storage, one login at a time, a failed one is undone |
| Extension: panel (`content.js`) | the views of the panel, the list and selection of a batch, a timer | open, select, scan, import | archives | a list that is rebuilt every second under the user's hands | what is taken out stays out |
| Extension: archives (`content.js`, `background.js`) | the import of each page, the imports in the worker | import one, import a batch | file tree | many files per archive, written over those of earlier imports; rate limits, retries, navigation | a copy never without its transcript, what is counted is there |
| Web: login (`api.ts`, `App.tsx`) | two items of `localStorage` that the tabs share | request, refresh, start, sign out | accounts | tabs redeem one refresh token; a sign-out meets a refresh | nobody loses a session, a sign-out ends the one it names |
| Web: routing (`App.tsx`, `PlanGatePage.tsx`, `LoginPage.tsx`) | location, two items of storage | sign in, choose a plan, redirects, feedback | login | redirects that feed each other | redirects end |
| Web: pages (editor, skills and projects, system settings, local import, backup, tokens and connections) | what a page holds of the hub | load, type, save, rename, delete, poll | services | answers that arrive after the address, the fields or the list have changed | a page shows, saves and deletes what it says |
| Export, vault, scoped tokens, OAuth provider, connections, roles, collaborations, webhooks, dashboard, MCP adapter, HTTP API, CLI, platform migration, guides and lists of the web app, SDKs | rows of their own, or none | single-statement updates, reads, protocol endpoints, static pages | the services | nothing TLC would add to a test | not modelled |

`PROJECT.json` lists each with its sources, its status and the reason.

## 2. Modules

| Module | Models |
|---|---|
| `FileTree` | writes, directory ensures and deletes as concurrent transactions |
| `ChangeFeed` | a client of Snapshot and Changes beside the writers of `FileTree` |
| `SyncSession` | one archive upload: session, parts and job |
| `GitMirror` | the row, queue and worker of the hosted Git backup |
| `VersionedTree` | what the tree promises: the abstract specification that `FileTree` implements |
| `ExtensionAuth` | the extension's connection: messages, storage, the official login |
| `ConversationArchive` | captures and archives of conversations, one or a batch |
| `ImportPanel` | the extension's panel on a page of claude.ai |
| `WebSession` | the tokens of the web app, in several tabs, and the hub's sessions |
| `AppRouting` | routes and redirects |
| `FileEditorPage`, `BundlePages`, `SettingsPage`, `LocalImportPage`, `GitMirrorPage`, `AccessPages` | pages of the web app, each with the part of the hub it works on |
| `Inbox` | the inbox: a row and a file per message |
| `ProjectLog` | the log of a project: a file and a table |
| `Services` | `ExtensionAuth`, `AppRouting`, `WebSession`, `FileEditorPage`, `Inbox` and `ProjectLog`, side by side: `part` chooses one |
| `Clients` | the other modules of the clients, in the same way |
| `FileTree_proofs`, `VersionedTree_proofs`, `ChangeFeed_proofs`, `SyncSession_proofs`, `GitMirror_proofs`, `Login_proofs`, `Services_proofs`, `Clients_proofs` | theorems |
| `MC*` | the constants TLC uses |

### FileTree

State: `tree` is `file_tree` (a row is its version, whether it is a tombstone, the
size of its content and whether that is a blob; version 0 is "no row"), `log` is
`entry_versions`, `cursor` the last value drawn from its BIGSERIAL. A request `r`
of `Req` is a server goroutine: `pc[r]` is the statement it is at, `op[r]` its
call, `todo[r]` the directories it still has to ensure, `doomed[r]` the rows its
Delete still has to tombstone. Its transaction is `at`/`seen` (the path, and the row
lockEntry read), `held` (row locks, and the unique key of an uncommitted insert),
`excl` (its user's row FOR UPDATE), `draft` and `dlog` (its uncommitted rows and
log records).

Actions: `StartWrite/StartEnsure/StartDelete` are the calls.
`EnsureLock, EnsureKeep, EnsureRevive, EnsureInsert, EnsureLostRace` are one
transaction of EnsureDirectoryWithMetadata, `WriteLock, WriteConflict, QuotaPass,
QuotaRefuse, WriteUpdate, WriteInsert, WriteLostRace` that of WriteEntry and
WriteBinaryEntry, `DeleteList, DeleteNotFound, DeleteLock, DeleteStage` the Delete.
`CommitParent` and `CommitLast` publish a transaction; `Cancel` is the caller's
context ending or the server dying; `DeadlockVictim` is PostgreSQL ending one of
several transactions that wait for each other.

The steps are cut where PostgreSQL lets another transaction in. An INSERT or
UPDATE and the `entry_versions` INSERT behind it are one step (`Stage`): between
them the row is locked and nobody sees either. Three facts about PostgreSQL carry
the model: FOR UPDATE locks only rows that exist; an INSERT waits for an
uncommitted insert of the same key; every insert of a row that refers to the user
takes FOR KEY SHARE on the user's row, which the quota check's FOR UPDATE excludes.
Metadata, checksums, content types and trust levels are left out. A directory's
metadata can change without a version and without a log record
(`EnsureKeep` stands for it); that is what the code does for live directories.

### VersionedTree

`rows` and `history`, and two actions: `Write` moves one path by one version, `Remove` moves a
set of paths at once. There are no transactions, no parents, no locks and no failures. `FileTree` defines
`Promise == INSTANCE VersionedTree WITH rows <- ..., history <- ...`, which forgets sizes and
cursors, and `KeepsPromise == Promise!Spec`: a commit of a writer is one
`Write`, the commit of a Delete one `Remove` of all it has tombstoned, every other step a stutter.
A reader sees the old tree or the new one and never half a call's rows, except that the
parents of a write appear before it, each as a `Write` of its own.

### ChangeFeed

Extends `FileTree` with one client: `SnapshotList` and `SnapshotCursor` are the two
queries of Snapshot, `FollowFromZero` the HTTP default cursor 0, `Poll` a call of
Changes whose records the client applies in order. `quiet` is an observer: it stays
true while no open transaction had drawn a cursor the client went past, and no
commit fell between the two queries of its Snapshot.

### SyncSession

State: `status`, `parts` and `job` are the three tables, `late` whether the clock has
passed `expires_at`, `hub` what a preview fingerprints. `sweep` is a run of
CleanExpiredSessions between its SELECT and its UPDATE. A handler's position is
`pc[r]`; `seen[r]` and `got[r]` are what it read and uses later. A transaction that
writes the session row is one step, since the row is locked to its end; what is
interleaved is the distance between reading the session and that step. `op[r].late`
only marks the calls that came after the time was over.

What is not in the model, or no property: concurrent commits both import (the import of one archive
twice is the same upsert); the hub can change between the preview check and the
import (`CommitPreview` and `CommitImport` are two steps, no property forbids it);
answers are left out, such as GetSession's "expired" for an aborted session
whose time is over.

### GitMirror

State: `row` is the row of `local_git_mirrors` with the columns that decide
something. Of the time stamps only two comparisons matter: `row.later` says that
the last request came after every claim, `row.started` that there was a claim at all.
`hub` counts the writes of the file tree; `tree` is the `hub` the work tree copies,
0 while it is incomplete, `commits` the branch as the sequence of what each commit
copies, `remote` the branch on GitHub (the index of our commit it is at, and the
commits others have put on top), `came` the commits others have pushed at all. A
process is a caller (`Clients`) or a queue worker (`Pods`): `pc`, `op`, its copy
`mine` of the row, `src` the hub it serves or copies, `saw` the remote branch it
fetched, `failed`.

Actions: `CallWrite, CallSync, CallForce, CallSave, CallDirect` are a write of the tree
followed by a request, Sync now, Sync now after the overwrite dialog, saving the
settings, and an MCP tool that synchronises at once. `AskRead, MarkWrite, SaveWrite` are
MarkMirrorQueued and UpdateMirrorSettings, `Claim` ClaimQueuedLocalGitMirror, `Load,
ClearRoot, CopyTree, CopyFails, Commit, FinalizeFails, FetchPasses, FetchBlocks,
FetchFails, PushSucceeds, PushFails, StoreDirect, StoreQueued` one SyncActiveMirror,
`SettleRead, SettleWrite` the end of runQueuedMirror, `Crash` the death of a process,
`ForeignPush` somebody else.

Every read and every write of the row is a step of its own, because nothing but the
claim's UPDATE has a condition. Four variables observe and are no part of the code:
`fresh` (who holds a copy that is still what is stored), `calm` (no write of the row has
undone another, no process has died), `wanted` (the hub of the last accepted request)
and `confirmed` (the user has confirmed an overwrite).

Left out: auto commit and auto push are on, as the hosted mode sets them; one remote
and branch; the back-off before a retry (a retry may come at any time); the rewrite
of the row when a GitHub token is refreshed; failing writes of the row. A copy of
the tree counts as holding what was written before the copy began.

### Inbox and ProjectLog

Two services that keep something twice, in a row and in a file of the tree, and write the one after the
other. A call of the file tree is one step here: by `KeepsPromise` a reader sees all of it or nothing.

`Inbox`: a mover `h` is a request or the scheduler's job `Sweeper`; `pc[h]` is its next statement, `msg[h]` its message, `seen[h]` the status
it has read. `Send, PostFile, InsertRow` are Send, `Archive, Lookup, DeleteOld, WriteNew, UpdateRow` moveStatus with
`DeleteFails` (whose error the code drops) and `BreakOff`, `SweepBegins, SweepNext, SweepEnds` ArchiveExpiredMessages. Send ends in "incoming" and every
move in "archived", since nothing calls MarkRead.

`ProjectLog`: `got[h]` is what a writer takes for the content of the log when it writes it back. `Create` writes an empty log after its
transaction, when others may already see the project, and `ReadFails` takes any error for an empty log. `logCalm` says that every write
replaced what its writer had read.

### The clients

One rule cuts all of them into steps: JavaScript runs to its next `await` without interruption, so a step is
what a handler does from one await to the next, and a request is two steps (the hub serves it, the page
handles the answer) wherever something can come between. `useEffect` clean-ups that call an answer off, and
those that are missing, are modelled where they stand. Requests may fail wherever the code has a `catch`.

`ExtensionAuth`: `pc[h]`, `op[h]`, `cred[h]`, `used[h]` are the handler of a message. Storage calls are a queue,
answered in the order they were made. `Stop` is Chrome ending the worker, which empties its memory;
`Orphaned` answers storage calls of a worker that is gone. Tokens the hub has created are numbers.

`WebSession`: a tab's requests are `Slots`; `rf` is the call of `/auth/refresh` that a request has started.
RefreshToken is two steps, between which the old session is deleted and the new one is not there. `local` chooses the
mode, in which the app takes its owner token from the hub.

`AppRouting`: a path stands for its route; `Redirect` is the first redirect that applies, in the order of `App`'s code; the user
acts on a location that rests.

`ConversationArchive`: a conversation is known by its id, a capture by its number (`captures` counts them), which stands for the `imported_at`
that all files of the import bear; `hub` says of which capture each file is. The worker
writes directory, transcript and conversation in order; a text that Cloudflare refuses is written in chunks and a list of them, any
of which may fail. A rate limit makes the page wait and ask again. `DeleteRoot` leaves the archive as it is: the call that should delete the old root has no route
in the hub (`internal/api/router.go:403-409` has GET and PUT below `/agent/tree`), which answers 405, and the worker takes that for "there was none". So every import writes over
what earlier ones have left.

`ImportPanel`: `refs` and `chosen` are the list and its boxes, `Tick` the timer's rebuild of both.

The pages: `FileEditorPage` has several saves at a time and a rename of two requests, over versioned files that
others write; `BundlePages` is both bundle pages with the inspection before a deletion; `AccessPages` the lists of who has access.

`SettingsPage` has the two views of `config.json`. A config has one field for each way in which the form treats fields: `target` and `profile`
(`current_target`, `current_profile`, with a name bare or prefixed), `string` (the strings of `local`), `object` (`profiles`, `local.connections`) and
`kept` (all that the form does not show). `DraftOf` is `draftFromRaw`: a string of another type is blank, what is no object is `{}`, an absent target is "local".
`Built` is `buildConfigFromDraft`: the target gets its prefix, the profile follows it or goes, absent objects become `{}`. Since the form rewrites fields that
nobody typed, `CalmSaveIsWanted` compares what configs say (`Says`, the target they select and what they hold), not how they are written.

`LocalImportPage` is the page together with the daemon's scans. A request to scan is cut at the read, the claim of the job table (`Joins`, `Claims`) and
the status (`Begins`, `BeginsNot`), whose writes may fail, as may those of a verdict. The page changes its platform by a tab (`SelectPlatform`, which clears the outcome of an
import) and by going back or forward (`FollowLocation`, which does not).

`GitMirrorPage` is the form, its tests and its poller. `loads` are the loads that mounting the page begins: one when it is opened, two on the way back from
GitHub (`BackFromGitHub`), and the first to answer makes the page usable. A load that a handler waits for is in `work`. `EndsOf` has the ends of a request other than
success: GitHub sends the user back with an error, or the app lacks permissions, for which the hub disconnects it and the page loads again.

Observers, which are no part of the code, are named as such where they are declared. `calm` is in each of these modules the
absence of one thing that the code does not guard against and that is defined beside it (`Overlap`, `Disturbed`, `Crossing`,
`Strays`, `Slips`): a property that needs `calm` says exactly what the page can be relied on for, and the definition
says what it cannot. So these properties do not catch the overlap itself going wrong, they show that nothing else does: two tabs that refresh beside each other
(`CalmSessionLasts`), two appends that overlap (`CalmLogIsWhole`), a change that is served while an older answer is on its way to the page (`CalmPageAgrees`), two loads of which the earlier answers last
(`CalmListIsAccess`), a write between inspection and deletion (`CalmLossIsWarned`), a scan that ends between the two halves of a read
(`CalmVerdictStays`). Nor does `ParentsExist` show that an ensure is not lost, `RequestServed` what a crash or half a tree does, or `HistoryComplete` that a file
is not left behind by its directory. `shown`, `out`, `meant`, `asked` remember what the user has seen or done.

## 3. Runs

| Run | Instance | Distinct states | Shows |
|---|---|---|---|
| `file_tree` | two requests, a directory with two files, a text and a blob content, quota 3, 4 calls | 358,973 | history, cursors, optimistic lock, parents and quota hold under cancellation and deadlock; the tree implements `VersionedTree`; every call returns |
| `file_tree_quota` | the same | violation | live files exceed the quota (`QuotaRespected`) |
| `file_tree_ensure` | the same, 2 calls | violation | one of two concurrent ensures fails (`EnsureIdempotent`) |
| `change_feed` | two writers, no quota, one content, 3 calls, one client | 123,307 | the client never goes back, and agrees with the tree when no transaction was open beside its reads |
| `change_feed_order` | the same, 2 calls | violation | a late commit is never delivered (`ReplayConverges`) |
| `change_feed_snapshot` | one writer, 2 calls | violation | a commit between the two queries of Snapshot is lost (`SnapshotThenChanges`) |
| `sync_session` | two calls at a time, 4 in all; 2 parts, right and wrong bytes; one write by others; fair | 1,663,526 | jobs close, nothing looks done that was not imported, parts are stable; an upload whose time is over is closed and its bytes go |
| `sync_committed` | 3 calls | violation | a slow call takes a session out of "committed" (`CommittedStays`) |
| `git_mirror` | two callers, one worker, one commit of others, one retry, crashes, 2 calls | 779,543 | no unseen commit is dropped; undisturbed requests are served, confirmations used up, retries end |
| `git_mirror_served` | one caller, one worker, no crash, 2 calls | violation | a request is forgotten, or the row stays "running" (`RequestServed`) |
| `services` | login: two messages, 4 in all, 2 tokens; web: two tabs with two requests each, 2 pairs of tokens, 2 requests of pages; routes: every kind of hub; editor: two paths, two texts, two saves at a time, 3 versions; inbox: one message, two callers, the hourly job, 4 calls; log: two writers, 3 entries | 804,721 | credentials, sessions and locations agree; logins, starts and redirects end; saves and renames lose nothing; messages and log entries are where their rows say |
| `clients` | per part: one chat page and one writer, 2 conversations, 2 captures, one retry, one chunk; two bundles; two platforms; two values per setting, five configs; one repository, one token, 2 polls | 1,436,498 | what a page shows, counts, saves and deletes is what it says |

Why the bounds are enough for the questions asked: every race found or excluded here is
between two processes, so two run at a time; the number of calls lets one request
finish, and start again on what it left, while the other is still inside. A directory
with two files is the smallest tree with a shared parent, several rows in one Delete
and two rows that compete for one quota; quota 3 fits one text (size 2) and one blob
(size 1) but not two texts. Two parts make "some but not all". One retry makes both
outcomes of a failure happen. The bounds are the constants `MaxRequests`, `MaxCalls`,
`MaxWrites`, `Retries` and the finite sets in the `MC*` modules; none of them is in
a theorem's hypotheses beyond being a number or a set.

`services` and `clients` look at several modules that share nothing: `part` is drawn in the initial
state, and the variables of the others are `Off`, or stay as they begin, for good; so the states of a run are the sum of the states of
its parts, not their product. In `clients` the chat page is alone with one writer: two pages that import the
same conversation, or one that is reloaded while the worker writes, are outside `calm` anyway, and a batch of two
conversations is enough for a failure between them; two captures (`MaxCaptures`) are one that is written over what another has left. What the user types as
text and others write into `config.json` is drawn from `Samples`: a plain config, and one for each way in which a field can depart from it. The location
that the browser goes back to may name any platform at any time, since the history can be older than the page. Two tabs are what a shared refresh token needs.

The type invariants of all components but `AppRouting`, and `CursorOrder` of `FileTree`, are proved and not run again.

`CHECK_DEADLOCK FALSE` stands in every configuration because the system may really stop:
when all calls have been made and answered nobody has to do anything more. That
calls do not hang is checked as `EveryCallReturns`.

### Fairness

Weak fairness only, and never of a caller, a cancellation, a crash or a push of others.

- `FileTree`, `WF(Progress(r))`: a goroutine whose statement does not wait for a lock goes
  on. PostgreSQL's deadlock detector is part of it (`DeadlockVictim`).
- `SyncSession`, `WF(Progress(r))` as above, and `WF(Sweep)`: the scheduler's ticker
  (`internal/jobs/scheduler.go`) starts the clean-up each hour for as long as the server lives.
- `GitMirror`, `WF(Serve(c))` and `WF(RunQueued(p))`: handlers run to their end and the
  worker ticks every 15 seconds. `RetriesEnd` holds with crashes because after one the
  property asks nothing (`calm` is false): see the last finding.
- `ExtensionAuth`, `WF(Answering)` and `WF(Handling(h))`: storage answers and handlers go on; Chrome
  need not stop the worker and nobody has to send a message.
- `WebSession`, `WF(Starting(t))` and `WF(Answering(t, s))`: a request is answered or breaks. In the run this is asked of one tab
  only, `FairTab`; tabs are interchangeable, so `StartEnds` shows that the start of a tab ends whatever another tab does.
- `AppRouting`, `WF(Redirect)`: the browser commits redirects. Users may always stop.
- `ConversationArchive`, `WF(Captures(t))` and `WF(Writes(s))`: requests are answered, with an error if they
  must be, and timers fire.

## 4. What the code does not hold

Each of these is the counterexample of a "violation" run; the properties beside them state
what holds instead.

1. **Quota and deleted texts** (`filetree_quota.go:106`). The old size of a path is taken off the
   projected use even when the row is a tombstone, which the total does not contain. Re-creating a
   deleted text is charged too little and live files exceed the quota.
   `OverQuotaOnlyByRevival` shows that this is the only way.
2. **Concurrent ensures** (`filetree_service.go:633`). Two requests that ensure the same missing
   directory both insert; the loser's INSERT does nothing and its history record refers to an
   id that does not exist. The loser's call fails on a foreign key: of two first writes into a
   new directory one may fail. The directory is there afterwards, so a retry succeeds.
3. **Cursor order** (`filetree_service.go:711`). A cursor is drawn before COMMIT. A client that polled
   a higher cursor never sees the lower one that commits later. `QuietReplicaAgrees` shows
   that a client is right as long as this does not happen, `ReplicaNeverGoesBack` that it is at
   worst behind, never out of order.
4. **Snapshot** (`filetree_service.go:697`). Entries and cursor come from two queries: a commit in between
   is in neither, even with one writer.
5. **Committed sessions** (`sync_service.go:1086`, also AbortSession and CleanExpiredSessions). The status is
   written without a condition on what it is by then, so a call that read the session before
   the commit sets it back to uploading, aborted or expired. The import itself is not undone, and
   the bytes are still reclaimed in the end (`AbandonedIsReclaimed`).
6. **Mirror requests** (`localgitsync/queue.go:50`, `settings.go:200`, `service.go:193`). The row is read and later
   written back whole. A request written over a finished run restores "running" with no worker
   behind it, and only queued rows are claimed: the backup stands still. A run that writes back
   its copy undoes a request that came meanwhile. With `MayCrash` a third way appears: a worker that
   dies, or whose git command is cut off at shutdown, leaves "running" behind. `CalmRequestServed`
   shows that without such writes and deaths requests are served. The same stale writes can
   bring a used confirmation back (`CalmConfirmationSpent` needs `calm`), while the lease on the
   fetched head still protects commits nobody has fetched (`UnseenCommitsSurvive`, always).

### What texts and comments say and the code does not hold

These are statements of the clients' own texts, of comments or of the design that the modules state and TLC refutes when they are
checked under the same configurations. They are definitions of their modules and not runs; the
properties of the runs are what holds in their place.

| Statement | Where | What happens |
|---|---|---|
| `ConfigureIsValidated` | `background.js:56`, "Validate by fetching profile" | while one `configure` waits, another message or a disconnect changes the client: the profile that is fetched, and reported as valid, is that of another credential. `CalmClientAgrees` |
| `ScopeIsExplained` | `background.js:934` | `handleImport` returns the promise of an archive without `await` (270-324), so its rejection passes the `catch` that would explain a missing scope |
| `DecideLaterLeaves` | `PlanGatePage.tsx:126` | "Decide later" goes to the home page, and the effect at `App.tsx:251-257` goes back to the plans as long as the sign-up intent is stored. `Settles` |
| `LaunchesAreAsked` | `LoginPage.tsx:66` | the pending feedback launch stays in `sessionStorage` and opens the form again (`App.tsx:344-356`) |
| `OneCapture` | `background.js:563`, `deleteConversationArchiveRoot`: the old root goes before the new files come | `neudrive-client.js:191-196` sends DELETE, for which `router.go:403-409` has no route; the 405 is passed over (`background.js:567-573`). A second import that fails behind its transcript leaves the copy of the first beside it, and chunks of a longer one stay for good. `CopyFollowsTranscript`, `CountedIsArchived` |
| `ResultIsOfPlatform` | `ClaudeMigrationPage.tsx:251-257`, a change of the platform clears the result of an import | going back or forward changes the platform by the effect at 188-191, which does not: the page of one platform shows the import of another. So does an import that answers after a change of the tab. `CalmPageIsOfPlatform` says it of the status and the preview |
| `SaveKeepsUntyped` | `SystemSettingsPage.tsx:172-207`, a config is built over the one that was read | the form drops strings and objects of another type, and gives a bare target its prefix: `LoadConfig` takes such a target for the local one before the save (`runtimecfg/targets.go:14-28`) and for the profile after it. `CalmSaveIsWanted` |
| `SaveIsWanted` | `SystemSettingsPage.tsx:377`, "System settings saved" | after a load that failed the page shows an empty form, and saving replaces `config.json` by it; pressing the button of the view that is already shown rebuilds that view and drops what was typed. `CalmSaveIsWanted` |
| `DialogIsOfPage` | `ProjectsPage.tsx:478` | the inspection before a deletion answers after the address has changed: the dialog opens over another bundle. `CalmLossIsWarned` |
| `LogIsAppendOnly` | `docs/design.md:366`, `001_initial_schema.sql:106`, "append-only" | two appends that overlap write back the same old content with one line each: the file loses an entry that the table has. A Read that fails for any reason writes the whole log anew. `CalmLogIsWhole` |
| `CalmPageAgrees` without `calm` | `GitMirrorPage.tsx:383`, "Backup destination saved" | on the way back from GitHub two loads run (139-141, 143-159): the first makes the page usable, the user saves, and the second brings the settings of before the save |
| `PromiseIsKept` | `GitMirrorPage.tsx:486`, "this page will update when it finishes" | the poller gives up after 12 polls, or at the first that fails |

## 5. Proofs

The theorems hold for every value of the constants that meets the assumptions of the
component's module: `PathsAssumption` and `BoundsAssumption` (a path is a file or a
directory, what is above it are directories, and above each of those the directories before it; contents have a size), `SessionAssumption` (the archive has
the parts, numbers are numbers), `MirrorAssumption` (a process is a caller or a worker), `InboxAssumption` (the job is no request), `LogAssumption`.
`ServicesAssumption` and `ClientsAssumption` put together those of the modules that they compose: bounds are numbers, "nothing" is
not one of the things, a good credential is one that can be typed, a message is not called "boot". TLC evaluates all of them in the runs.

| Theorem | Module | Says |
|---|---|---|
| `TypeCorrect` | `FileTree_proofs`, `SyncSession_proofs`, `GitMirror_proofs` | the type invariant |
| `HistoryCorrect`, `CursorsCorrect`, `OneWinner` | `FileTree_proofs` | `HistoryComplete`, `CursorOrder`, `OptimisticWinner` |
| `TreeKeepsPromise` | `VersionedTree_proofs` | `KeepsPromise`: `FileTree` implements `VersionedTree` |
| `ParentsCorrect` | `FileTree_proofs` | `ParentsExist`, for trees of any depth |
| `FeedTypeCorrect`, `NeverGoesBack`, `QuietAgrees` | `ChangeFeed_proofs` | the client's type invariant, `ReplicaNeverGoesBack`, `QuietReplicaAgrees` |
| `JobsClose`, `SuccessMeansImport`, `LateCallsDoNothing`, `PartsAreStable` | `SyncSession_proofs` | `JobClosedWithSession`, `SucceededWasImported`, `LateCallsAreRefused`, `PartsKeepTheirBytes` |
| `UnseenSurvive`, `ConfirmationSpent`, `RequestsServed` | `GitMirror_proofs` | `UnseenCommitsSurvive`, `CalmConfirmationSpent`, and under `OneWorker` `CalmRequestServed` |
| `ClientAgrees`, `FailedLoginLeavesNothing` | `Login_proofs` | `CalmClientAgrees`, `FailedLoginIsUndone` |
| `SessionLasts`, `SignOutsLast` | `Services_proofs` | `CalmSessionLasts`, `LogoutRevokes` |
| `SavedIsStored`, `RenameKeepsFile`, `SavesReplaceTheShown` | `Services_proofs` | `CalmSavedIsStored`, `CalmRenameKeepsFile`, `SavesReplaceWhatWasShown` |
| `MessagesAreFiled`, `LogIsWhole`, `FiledAndWhole` | `Services_proofs` | `Filed` of the inbox, `CalmLogIsWhole` of the log, and both in the composition |
| `TakenOutIsNotImported` | `Clients_proofs` | `TakenOutStaysOut` |
| `CopyHasItsTranscript`, `ArchiveHasItsAddress`, `ImportedIsArchived` | `Clients_proofs` | `CopyFollowsTranscript`, `AddressIsOwn`, `CountedIsArchived` |
| `SavedIsWanted` | `Clients_proofs` | `CalmSaveIsWanted` |
| `PageIsOfPlatform`, `SucceededIsShown`, `VerdictStays` | `Clients_proofs` | `CalmPageIsOfPlatform`, `SucceededScanIsShown`, `CalmVerdictStays` |
| `LossIsWarned` | `Clients_proofs` | `CalmLossIsWarned` |
| `PageAgrees` | `Clients_proofs` | `CalmPageAgrees` |
| `ListIsAccess` | `Clients_proofs` | `CalmListIsAccess` |
| `LoginTypeCorrect`, `ServicesTypeCorrect`, `InboxTypeCorrect`, `LogTypeCorrect`, `ClientsTypeCorrect` | `Login_proofs`, `Services_proofs`, `Clients_proofs` | the type invariants |
| `InvariantHolds` | `FileTree_proofs`, `SyncSession_proofs`, `GitMirror_proofs` | the inductive invariant `IInv` each of them rests on |

**FileTree.** That the log matches the rows is not inductive: a commit publishes
drafts, and one has to know that they are the next version of what the tree has *now*. `IInv`
adds what the locks give. `Locks`: no row is locked twice and nothing is uncommitted between
transactions. `Current`: the row a handler read is locked and unchanged. `Doomed`: what a Delete
has left to do is still there. `Drafts` and `Recorded`: an uncommitted row is locked, is the
next version, and has exactly one record, whose cursor is above those of the path's history
(this is where the cursor being drawn *under* the row lock is used). `CursorsDrawn`: no
cursor is from the future. `BasesMet`: a record that carries an expected version is the next one
after it. `Calls`: where a request stands agrees with its call. `Stage` and `Publish`, which all
writers share, have lemmas of their own; each action then only says how it uses them.

**Parents.** A write plans the directories it has to ensure before its transactions begin, by a recursion over
the depth of the path. That the plan is in order (what is above a directory is in the tree or before it in the plan) is shown for
every depth by the least counterexample among the numbers (`LeastNatural`, from the well-founded order of `Nat`).
`Ahead` then carries it through the steps of all requests: rows are tombstoned and never removed, so what a plan found in
the tree stays there, and when a directory is published it is the first of the plan, with all above it published before.

**ChangeFeed.** `Grounded`: what the client holds of a path is a record it has read. With the cursors of a path in the order
of its versions (`CursorsCorrect`), a record behind the client's cursor cannot be older than what it holds. `Undisturbed`: as long as the
client is quiet no open transaction has a cursor below its own, and everything up to its cursor is in the replica. The
two together give agreement once nothing is left to fetch, because by `HistoryCorrect` the last record of a path is its row.

**VersionedTree.** The refinement rests on `IInv` and on one more invariant, `Shape`: the rows a transaction has drafted
are those its statement says, one live row or nothing but tombstones, with exactly their records. `Start`, `Lock` and the like change neither
rows nor history of the promise; a commit hands over the draft, and `CommitIsOneStep` shows that it is a
`Write` or a `Remove`, since by `Drafts` every draft is the next version of the row it replaces and a tombstone is only
drafted of a row that exists.

**SyncSession.** The invariant is the safety properties with `Facts`: a commit past the import
has imported; calls that came too late, and a clean-up that saw the time as over, exist only
once it is over. That uploads check `expires_at` on entry, and that the clean-up's choice
can only be stale in the harmless direction, is what keeps parts stable.

**GitMirror.** `ForceConfirmed`: the permission to overwrite, in the row, in any copy of it, or in a call on
its way there, goes back to a confirmation. Copies are written back in any order, so the
statement has to cover all of them. The lease then gives the second half of `UnseenCommitsSurvive`. The two `calm` properties rest on
what a copy of the row may still be (`CalmIInv`) and on what a run has reached of the last request (`ServedIInv`). `RequestsServed` has
the hypothesis `OneWorker`, one queue worker and at least one retry, which is what is deployed (`deploy/k8s/app.yaml` has
`replicas: 1`, `hostedRetryBackoff` three entries). With two workers and `Retries = 1` it fails: both have runs that failed and
wait to be settled, an MCP tool synchronises in between and clears the error, a new write asks for a backup, and the two settlements
count that request's attempts to the end. The row is then in "error" with no error to show.

**Inbox.** What makes overlapping moves harmless is that all lead to one folder. `Placed` says where a message is while some of them are inside;
it needs `Looked` (rows do not go back, so who has read "archived" is right for ever) and `Sending` (nobody moves a message whose row is not
there).

**ProjectLog.** `Written`: between its write and its INSERT an entry is in the file, because a write under `calm` only adds.

**The compositions.** The theorems of the last three modules are about `ServicesSpec` and the `Spec` of `Clients`, the
specifications that TLC runs. A step of either is a step of the part that is looked at, or leaves it alone (`LoginStep`,
`WebStep`, `PanelStep` and so on); each part then has an invariant of its own, of the form `part = "web" => ...`. Since
the parts share nothing, that says the same as a theorem about the module alone.

**Login.** `CalmClientAgrees` compares the worker's memory with storage when no storage call waits, and storage calls are answered one by
one while handlers run on, so the invariant has to say what every call in the queue will do. `Handler` says at which await a
handler can be for its message; `StorageCalls`, that each handler waits for one call at most and each call that has a handler is
the one its handler waits for; `Started`, that what a stopped worker has asked for comes before the call with which its successor
starts; `Minted`, that a token which was created for a login is in no other login and no other message's call. These four hold
whatever runs beside what, and with `Minted` they give `FailedLoginIsUndone`, which needs no calm. `Agreeing` says
the rest under `loginCalm`: once the worker has started, its memory is what the last pending `set` writes, or, if none is pending, what is stored.

**Web session.** `Redeemable` says of every request where its refresh token is (in `sessions`, deleted by the one call that is
about to store its successor, or replaced), `Undisturbed` spells out what the observer `calm` forbids so that one can reason
about it, `Calls` and `Modes` hold always: a tab has one call of `/auth/refresh` at a time, and what a rotation brings is new.
The sign-out's half, `SignOuts`, turned out to need neither: numbers of sessions are not used twice and `leaving` is the token that was sent. So
`LogoutRevokes` is proved, and now checked, without the `calm` that an earlier version of it had.

**File editor.** `Known` (what a save expects has been on the page) is enough for `SavesReplaceWhatWasShown` with
any number of saves and writers. The two `calm` properties need `EditorCalm`: one load, save or rename at a time, and what it has got
or will get is what the hub has.

**Archives.** That the copy follows its transcript is not inductive before one knows how far the writer is. `ImportOk` ties a writer to the page
that waits for it (two writers never serve one page, nor one calm conversation); `DoneSoFar` says which files are behind it, each of the
capture that it writes, so that the copy is only begun over a transcript that can be read and an answer "ok" means that both can. `FilesAreCaptured` bounds
what earlier imports have left by the captures so far, of which the one under way is the last: that is why writing over old files, none of which is deleted, is safe in this order and
would not be in the other. `JobOk` does the same for the pages.

**Local import.** `ScanOk` and `CallOk` bound what a status, a preview or a request may say by `scans`, the last scan that was begun:
reads carry what they saw past any number of restarts and later scans. `Covered` is the part that matters: "succeeded" with
a number implies a preview at least as new.

**Pages.** `SettingsCalm`: what the shown view stands for says what the user means, and a save carries that. It rests on two lemmas about the conversions alone:
`BuiltSays` (what is built from a form says what the form says, and what the text below it says in the rest) and `ShownAgainSays` (reading a config into
the form and building it again changes how it is written and not what it says). `Warned` follows
a warning from the inspection over the dialog to the deletion. `Agrees` and `Shown` say, for the backup page and for the lists,
what the answers under way will bring, because a page agrees with the hub only after the last of them; of the two loads of the backup page each that has been served holds what
the hub has, as long as nothing crosses.
`PanelInv` is short: what is taken out and what is chosen are disjoint and both are listed.

### What the proofs changed in the models

Some of what could not be proved, or did not follow the code on a second reading, was wrong in the model, or stronger than needed.

- `ConversationArchive`: an earlier version emptied the old root, which the hub refuses to do. The property that an archive is of one capture fell with it; what
  the order of the writes gives is `CopyFollowsTranscript`.
- `GitMirrorPage`, `LocalImportPage`, `SettingsPage`: the second load on the way back from GitHub, the effect of the location and the conversions of the form were missing. With them a
  result can be of another platform, a save can be undone on the page, and a config is not kept letter by letter: the properties say what is left.
- `BundlePages`: `CalmLossIsWarned` was false for a longer run (TLC finds it with `MaxActs = 4`): a creation on the page itself
  can fill the entry that is being inspected. `Crossing` now names it, beside the writes of others. The page has no guard against either.
- `LocalImportPage`: a scan was numbered by the status file, which a late write can set back, so two scans could have one number. In the
  code each has a `uuid`; `scans` now counts them, and a preview and a verdict are written for the scan that was begun last, the only one that runs.
- `WebSession`: `LogoutRevokes` without `calm`, as said above.
- `SettingsPage` types what a save carries, `GitMirrorPage` has the type `Settings` of what the hub stores, and some assumptions say what was
  meant: "nothing" is not an element of what it stands beside, a message is not called "boot" or "nobody", there is some repository.
- `AccessPages` says "two loads" with a quantifier instead of a cardinality, `ConversationArchive` updates one file by its pair.

### Only model-checked

- `OverQuotaOnlyByRevival`: its sum over the live files would need an induction over finite sets at every step, and the library's
  induction theorems take an operator as a parameter.
- Everything about fairness (`EveryCallReturns`, `AbandonedIsReclaimed`, `RetriesEnd`, `LoginFlagReleased`, `Settles`, `StartEnds`,
  `ImportEnds`), which the prover cannot state. `AppRouting` has no safety property, so nothing of it is proved.
- The six statements of section 4 that the runs refute.

Every other invariant and action property of a passing run is a theorem.

## 6. Not modelled

- Bundle import: one step of `SyncSession`, which succeeds, or fails after any part of it. Its
  many transactions are those of `FileTree`. Merge and mirror are planned.
- The skills archive import, which has its own copy of the write statements in one transaction.
- A Delete of several rows beside a write that holds one of them and wants the user's row for the
  quota: modelled as a deadlock that PostgreSQL ends, not as a defect.
- EnsureDirectoryWithMetadata merges the metadata of a live directory without a version: it is
  invisible to the change feed by design of the code, and metadata is left out.
- The SQLite store: one connection (`store.go:43`), so its transactions do not interleave.
- Two synchronisations copying into one work tree at the same time (an MCP tool beside a worker): a copy
  may be incomplete when the other commits. `CopyTree` and `ClearRoot` have this; that the branch
  may hold half a tree for a while is not stated as a property.
- A client that gave up on a slow commit and commits again: both calls import the same archive, which is the same upsert
  twice (`sync_service.go:620`). And the hub can change between the check of the preview fingerprint and the
  import (`:660`), which `SyncSession` shows as two steps and no property forbids.
- Projects beyond their log: UpdateContext, Archive and the summaries write a text and a row, and the last writer wins by design. Memory conflicts
  (`memory_service.go:476`) are resolved by whoever comes last.
- The CLI's push and resume, which reads a session file that a crash may leave behind.
- In the clients: what turns are scraped from a page and how they are formatted, texts and layout, the guides and
  lists that read once and show, the OAuth consent page, uploads of exports, and pages that no route leads to.
- Exports, vault, scoped tokens, OAuth provider, connections, webhooks, SDKs and the command line: single statements,
  reads and protocol formats. `PROJECT.json` gives the reason for each.

## 7. Plan

What would be worth adding, in this order:

1. `SyncClient`: the CLI's push and resume (`internal/synccli`) composed with `SyncSession`. Property: a finished push is a
   committed archive; resume uploads exactly what is missing.
2. `BundleImport`: merge and mirror over the tree, with the preview and its fingerprint. Property: importing twice is
   importing once, what a preview promises holds if nothing was written since.
3. Memory conflicts, detected against a profile that changes before they are resolved.
4. Proofs: a measure for `Redirect` of `AppRouting` that each redirect lowers, as an action property, which gives the safety half of
   `Settles` for every kind of hub; the step lemmas of `AbandonedIsReclaimed` and `EveryCallReturns` (what a helpful action
   does, and that no other undoes it); `OverQuotaOnlyByRevival` with lemmas about sums over sets of files.
