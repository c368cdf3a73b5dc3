----------------------------- MODULE FileTree -----------------------------
(***************************************************************************)
(* The virtual file tree of one user in the PostgreSQL deployment:         *)
(* internal/services/filetree_service.go, filetree_blob.go and             *)
(* filetree_quota.go over the tables file_tree and entry_versions          *)
(* (migrations/012_foundation_v1_entries.sql).                             *)
(*                                                                         *)
(* Requests run concurrently.  Each one is a series of READ COMMITTED      *)
(* transactions, split here at the statements where another transaction    *)
(* can come in between: the SELECT ... FOR UPDATE of a row, the quota      *)
(* check, the INSERT or UPDATE together with its entry_versions row (which *)
(* draws the BIGSERIAL cursor), and the COMMIT.                            *)
(***************************************************************************)
EXTENDS Integers, Sequences, FiniteSets, FiniteSetsExt

CONSTANTS
    Req,          \* server goroutines that run one request at a time
    Files, Dirs,  \* storage paths of files, and of directories (trailing "/")
    Parents,      \* Parents[p]: the directories above p, outermost first
    Rank,         \* Rank[p]: place of p in the sort of Delete, deepest first
    Contents,     \* contents a write may carry: a size, and text or blob
    Quota,        \* userStorageQuotaBytes; 0 switches the quota off
    MaxRequests   \* bound of the model: requests started in a behaviour

Paths == Files \cup Dirs

ASSUME PathsAssumption ==
    /\ Files \cap Dirs = {}
    /\ Parents \in [Paths -> Seq(Dirs)]
    /\ Rank \in [Paths -> Nat]
    /\ \A p \in Paths : \A i \in 1 .. Len(Parents[p]) :
          Parents[Parents[p][i]] = SubSeq(Parents[p], 1, i - 1)
ASSUME BoundsAssumption ==
    /\ Contents \subseteq [size : Nat, blob : BOOLEAN]
    /\ Quota \in Nat /\ MaxRequests \in Nat

VARIABLES
    tree,      \* committed file_tree rows
    log,       \* committed entry_versions rows
    cursor,    \* last value drawn from the BIGSERIAL of entry_versions
    pc, op,    \* each request: its position in the handlers, and its call
    todo,      \* the directories it still has to ensure
    doomed,    \* the entries its Delete still has to tombstone
    at, seen,  \* the path its transaction is at, the row lockEntry read there
    held,      \* row locks (and unique-key locks of inserts) it holds
    excl,      \* TRUE when it holds its user's row FOR UPDATE
    draft,     \* its uncommitted file_tree rows
    dlog,      \* its uncommitted entry_versions rows
    issued     \* calls started so far

txvars == <<at, seen, held, excl, draft, dlog>>
store  == <<tree, log>>
vars   == <<tree, log, cursor, pc, op, todo, doomed, txvars, issued>>

-----------------------------------------------------------------------------
(* Rows.  Version 0 stands for "no row": the first INSERT writes version 1. *)

Row    == [ver : Nat, dead : BOOLEAN, size : Nat, blob : BOOLEAN]
Absent == [ver |-> 0, dead |-> TRUE, size |-> 0, blob |-> FALSE]

Exists(row) == row.ver > 0
Live(row)   == Exists(row) /\ ~row.dead

\* One entry_versions row.  base is no column: it is the expected version the
\* call carried (0 when it carried none), kept to state properties.
Change == [cursor : Nat, path : Paths, ver : Nat,
           kind : {"create", "update", "delete"}, base : Nat]

\* What totalStorageUsageTx sums: live files only, directories count nothing.
Usage(t) == MapThenSumSet(LAMBDA f : IF Live(t[f]) THEN t[f].size ELSE 0, Files)

\* Mutant: only the path itself is written, its parents are left out.
NoParents(p) == << >>

\* EnsureDirectory of a path ensures every parent of the path first, each in a
\* transaction of its own, and so does the EnsureDirectory of each parent:
\* the transactions for parents a, b, c are a a b, a a b, c.
EnsureParents(p) ==
    LET plan[k \in 0 .. Len(Parents[p])] ==
            IF k = 0 THEN << >>
            ELSE plan[k - 1] \o plan[k - 1] \o <<Parents[p][k]>>
    IN  plan[Len(Parents[p])]

EnsurePlan(d) == Append(EnsureParents(d), d)

Above(p) == {Parents[p][i] : i \in DOMAIN Parents[p]}

\* The rows Delete(p) touches: the live entries at p and below it.
LiveUnder(p) == {q \in Paths : Live(tree[q]) /\ (q = p \/ p \in Above(q))}

-----------------------------------------------------------------------------
(* Locks of PostgreSQL.  A row is locked FOR UPDATE by lockEntry; an         *)
(* uncommitted INSERT holds its unique key in the same way.  The user's row  *)
(* is locked FOR UPDATE by the quota check, and FOR KEY SHARE (which only    *)
(* FOR UPDATE excludes) by the foreign key of every inserted row.            *)

RowHolders(r, p)  == {q \in Req \ {r} : p \in held[q]}
UserSharers(r)    == {q \in Req \ {r} : dlog[q] # {}}
UserExclusive(r)  == {q \in Req \ {r} : excl[q]}

\* Mutant: the quota check without its lock.
UserNotLocked(r) == TRUE

CanLockRow(r, p)  == RowHolders(r, p) = {}
CanLockUser(r)    == UserSharers(r) \cup UserExclusive(r) = {}
CanReferUser(r)   == UserExclusive(r) = {}

IsNextDoomed(r, p) == p \in doomed[r] /\ \A q \in doomed[r] : Rank[p] <= Rank[q]

\* The path whose row request r locks next.
NextPath(r) ==
    CASE pc[r] = "delete"    -> CHOOSE p \in doomed[r] : IsNextDoomed(r, p)
      [] todo[r] # << >>     -> Head(todo[r])
      [] OTHER               -> op[r].path

\* What request r has to wait for where it stands.
WaitsFor(r) ==
    LET p == at[r]
        absent == ~Exists(seen[r])
    IN  CASE pc[r] \in {"ready", "delete"} -> IF Exists(tree[NextPath(r)])
                                              THEN RowHolders(r, NextPath(r)) ELSE {}
          [] pc[r] \in {"ensure", "write"} /\ absent /\ ~Exists(tree[p])
                                           -> RowHolders(r, p) \cup UserExclusive(r)
          [] pc[r] = "ensure" /\ (absent \/ seen[r].dead)
                                           -> UserExclusive(r)
          [] pc[r] = "write" /\ ~absent    -> UserExclusive(r)
          [] pc[r] = "tombstone"           -> UserExclusive(r)
          [] pc[r] = "quota"               -> UserSharers(r) \cup UserExclusive(r)
          [] OTHER -> {}

\* r is one of a set of transactions each of which waits for another of them.
Deadlocked(r) ==
    \E S \in SUBSET Req : r \in S /\ \A q \in S : WaitsFor(q) \cap S # {}

-----------------------------------------------------------------------------
NoOp == [kind |-> "none"]
Op   == [kind : {"write"}, path : Files, content : Contents, expect : Nat]
        \cup [kind : {"ensure"}, path : Dirs]
        \cup [kind : {"delete"}, path : Paths]
        \cup {NoOp}

NoPath  == "none"
NoDraft == [p \in Paths |-> Absent]

Init ==
    /\ tree = [p \in Paths |-> Absent]
    /\ log = {}
    /\ cursor = 0
    /\ pc = [r \in Req |-> "idle"]
    /\ op = [r \in Req |-> NoOp]
    /\ todo = [r \in Req |-> << >>]
    /\ doomed = [r \in Req |-> {}]
    /\ at = [r \in Req |-> NoPath]
    /\ seen = [r \in Req |-> Absent]
    /\ held = [r \in Req |-> {}]
    /\ excl = [r \in Req |-> FALSE]
    /\ draft = [r \in Req |-> NoDraft]
    /\ dlog = [r \in Req |-> {}]
    /\ issued = 0

Goto(r, where) == pc' = [pc EXCEPT ![r] = where]

\* Both COMMIT and ROLLBACK free every lock of the transaction.
Release(r) ==
    /\ at' = [at EXCEPT ![r] = NoPath]
    /\ seen' = [seen EXCEPT ![r] = Absent]
    /\ held' = [held EXCEPT ![r] = {}]
    /\ excl' = [excl EXCEPT ![r] = FALSE]
    /\ draft' = [draft EXCEPT ![r] = NoDraft]
    /\ dlog' = [dlog EXCEPT ![r] = {}]

\* The call returns: its deferred Rollback ends an open transaction.
Return(r) ==
    /\ Goto(r, "idle")
    /\ op' = [op EXCEPT ![r] = NoOp]
    /\ todo' = [todo EXCEPT ![r] = << >>]
    /\ doomed' = [doomed EXCEPT ![r] = {}]
    /\ Release(r)

\* Mutant: an early return without the deferred Rollback keeps the locks.
FailKeepingLocks(r) ==
    /\ Goto(r, "idle")
    /\ op' = [op EXCEPT ![r] = NoOp]
    /\ todo' = [todo EXCEPT ![r] = << >>]
    /\ doomed' = [doomed EXCEPT ![r] = {}]
    /\ UNCHANGED <<store, txvars, issued>>

Fail(r) == Return(r) /\ UNCHANGED <<store, issued>>

\* The statements every handler ends with: the row at the path becomes row, and
\* insertEntryVersion records it, drawing the next cursor.
Stage(r, row, kind, base) ==
    /\ CanReferUser(r)
    /\ cursor' = cursor + 1
    /\ draft' = [draft EXCEPT ![r] = [@ EXCEPT ![at[r]] = row]]
    /\ dlog' = [dlog EXCEPT ![r] = @ \cup
                  {[cursor |-> cursor + 1, path |-> at[r], ver |-> row.ver,
                    kind |-> kind, base |-> base]}]

-----------------------------------------------------------------------------
(* A client calls the service. *)

Start(r, call, plan, where) ==
    /\ pc[r] = "idle"
    /\ issued < MaxRequests
    /\ issued' = issued + 1
    /\ op' = [op EXCEPT ![r] = call]
    /\ todo' = [todo EXCEPT ![r] = plan]
    /\ Goto(r, where)
    /\ UNCHANGED <<store, cursor, doomed, txvars>>

\* WriteEntry (text) and WriteBinaryEntry (blob), with or without the version
\* the client last read as ExpectedVersion.
StartWrite(r, f) ==
    \E c \in Contents, expect \in {0, tree[f].ver} :
        Start(r, [kind |-> "write", path |-> f, content |-> c, expect |-> expect],
              EnsureParents(f), "ready")

StartEnsure(r, d) == Start(r, [kind |-> "ensure", path |-> d], EnsurePlan(d), "ready")

StartDelete(r, p) == Start(r, [kind |-> "delete", path |-> p], << >>, "list")

-----------------------------------------------------------------------------
(* lockEntry: SELECT ... FOR UPDATE.  It finds tombstones too, waits for the *)
(* holder of an existing row, and locks nothing when there is no row.        *)

LockEntry(r, p) ==
    /\ Exists(tree[p]) => CanLockRow(r, p)
    /\ at' = [at EXCEPT ![r] = p]
    /\ seen' = [seen EXCEPT ![r] = tree[p]]
    /\ held' = [held EXCEPT ![r] = IF Exists(tree[p]) THEN @ \cup {p} ELSE @]

\* The transaction of EnsureDirectoryWithMetadata begins.
EnsureLock(r, d) ==
    /\ pc[r] = "ready" /\ todo[r] # << >> /\ Head(todo[r]) = d
    /\ LockEntry(r, d)
    /\ Goto(r, "ensure")
    /\ UNCHANGED <<store, cursor, op, todo, doomed, excl, draft, dlog, issued>>

\* Mutant: every EnsureDirectory counts as a version, but records none.
EnsureBump(r) ==
    /\ pc[r] = "ensure"
    /\ Live(seen[r])
    /\ draft' = [draft EXCEPT ![r] = [@ EXCEPT ![at[r]] = [tree[at[r]] EXCEPT !.ver = @ + 1]]]
    /\ Goto(r, "commit")
    /\ UNCHANGED <<store, cursor, op, todo, doomed, at, seen, held, excl, dlog, issued>>

\* A live directory is left as it is: no new version and no change record.
EnsureKeep(r) ==
    /\ pc[r] = "ensure"
    /\ Live(seen[r])
    /\ draft' = [draft EXCEPT ![r] = [@ EXCEPT ![at[r]] = [tree[at[r]] EXCEPT !.size = 0, !.blob = FALSE]]]
    /\ Goto(r, "commit")
    /\ UNCHANGED <<store, cursor, op, todo, doomed, at, seen, held, excl, dlog, issued>>

\* A tombstone is revived as the next version.
EnsureRevive(r) ==
    /\ pc[r] = "ensure"
    /\ Exists(seen[r]) /\ seen[r].dead
    /\ Stage(r, [ver |-> tree[at[r]].ver + 1, dead |-> FALSE, size |-> 0, blob |-> FALSE],
             "update", 0)
    /\ Goto(r, "commit")
    /\ UNCHANGED <<store, op, todo, doomed, at, seen, held, excl, issued>>

\* INSERT ... ON CONFLICT DO NOTHING waits for a concurrent insert of the path.
EnsureInsert(r) ==
    /\ pc[r] = "ensure"
    /\ ~Exists(seen[r]) /\ ~Exists(tree[at[r]])
    /\ CanLockRow(r, at[r])
    /\ Stage(r, [ver |-> 1, dead |-> FALSE, size |-> 0, blob |-> FALSE], "create", 0)
    /\ held' = [held EXCEPT ![r] = @ \cup {at[r]}]
    /\ Goto(r, "commit")
    /\ UNCHANGED <<store, op, todo, doomed, at, seen, excl, issued>>

\* When the path is there by now the INSERT does nothing, and the change record,
\* which names the id of the row that was not inserted, violates its foreign
\* key on file_tree(id): the call fails.  The cursor it drew is lost.
EnsureLostRace(r) ==
    /\ pc[r] = "ensure"
    /\ ~Exists(seen[r]) /\ Exists(tree[at[r]])
    /\ CanReferUser(r)
    /\ cursor' = cursor + 1
    /\ Fail(r)

-----------------------------------------------------------------------------
(* The transaction of WriteEntry and WriteBinaryEntry. *)

\* Mutant: the expected version is not compared.
AnyVersion(row, expect) == TRUE

\* The expected version is compared only with a row that exists.
Expected(row, expect) == Exists(row) /\ expect > 0 => row.ver = expect

WriteLock(r, f) ==
    /\ pc[r] = "ready" /\ todo[r] = << >> /\ op[r].path = f
    /\ Expected(tree[f], op[r].expect)
    /\ LockEntry(r, f)
    /\ Goto(r, IF Quota > 0 THEN "quota" ELSE "write")
    /\ UNCHANGED <<store, cursor, op, todo, doomed, excl, draft, dlog, issued>>

\* ErrOptimisticLockConflict
WriteConflict(r, f) ==
    /\ pc[r] = "ready" /\ todo[r] = << >> /\ op[r].path = f
    /\ ~Expected(tree[f], op[r].expect)
    /\ CanLockRow(r, f)
    /\ Fail(r)
    /\ UNCHANGED cursor

\* entryStorageUsageTx reads the row whether it is live or a tombstone.
Projected(r) == Usage(tree) - seen[r].size + op[r].content.size

\* enforceStorageQuotaTx: lock the user's row, add up, compare.
QuotaPass(r) ==
    /\ pc[r] = "quota"
    /\ CanLockUser(r)
    /\ Projected(r) <= Quota
    /\ excl' = [excl EXCEPT ![r] = TRUE]
    /\ Goto(r, "write")
    /\ UNCHANGED <<store, cursor, op, todo, doomed, at, seen, held, draft, dlog, issued>>

QuotaRefuse(r) ==
    /\ pc[r] = "quota"
    /\ CanLockUser(r)
    /\ Projected(r) > Quota
    /\ Fail(r)
    /\ UNCHANGED cursor

\* Mutant: writing over a tombstone starts again at version 1.
WrittenAfresh(r, ver) == [ver |-> IF seen[r].dead THEN 1 ELSE ver, dead |-> FALSE,
                          size |-> op[r].content.size, blob |-> op[r].content.blob]

Written(r, ver) == [ver |-> ver, dead |-> FALSE, size |-> op[r].content.size,
                    blob |-> op[r].content.blob]

WriteUpdate(r) ==
    /\ pc[r] = "write"
    /\ Exists(seen[r])
    /\ Stage(r, Written(r, tree[at[r]].ver + 1), "update", op[r].expect)
    /\ Goto(r, "commit")
    /\ UNCHANGED <<store, op, todo, doomed, at, seen, held, excl, issued>>

WriteInsert(r) ==
    /\ pc[r] = "write"
    /\ ~Exists(seen[r]) /\ ~Exists(tree[at[r]])
    /\ CanLockRow(r, at[r])
    /\ Stage(r, Written(r, 1), "create", op[r].expect)
    /\ held' = [held EXCEPT ![r] = @ \cup {at[r]}]
    /\ Goto(r, "commit")
    /\ UNCHANGED <<store, op, todo, doomed, at, seen, excl, issued>>

\* A plain INSERT of a path that has appeared since: unique violation.
WriteLostRace(r) ==
    /\ pc[r] = "write"
    /\ ~Exists(seen[r]) /\ Exists(tree[at[r]])
    /\ Fail(r)
    /\ UNCHANGED cursor

-----------------------------------------------------------------------------
(* Delete: a Snapshot outside the transaction names the entries, then one    *)
(* transaction locks and tombstones each of them, deepest first, without     *)
(* looking again whether it is still live.                                   *)

DeleteList(r) ==
    /\ pc[r] = "list"
    /\ LiveUnder(op[r].path) # {}
    /\ doomed' = [doomed EXCEPT ![r] = LiveUnder(op[r].path)]
    /\ Goto(r, "delete")
    /\ UNCHANGED <<store, cursor, op, todo, txvars, issued>>

DeleteNotFound(r) ==
    /\ pc[r] = "list"
    /\ LiveUnder(op[r].path) = {}
    /\ Fail(r)
    /\ UNCHANGED cursor

DeleteLock(r, p) ==
    /\ pc[r] = "delete" /\ IsNextDoomed(r, p)
    /\ LockEntry(r, p)
    /\ Goto(r, "tombstone")
    /\ UNCHANGED <<store, cursor, op, todo, doomed, excl, draft, dlog, issued>>

\* The text stays in the tombstone; deleteBlobTx drops a blob.
Tombstone(r) ==
    [ver |-> seen[r].ver + 1, dead |-> TRUE,
     size |-> IF seen[r].blob THEN 0 ELSE seen[r].size, blob |-> FALSE]

DeleteStage(r) ==
    /\ pc[r] = "tombstone"
    /\ Stage(r, Tombstone(r), "delete", 0)
    /\ doomed' = [doomed EXCEPT ![r] = @ \ {at[r]}]
    /\ Goto(r, IF doomed[r] = {at[r]} THEN "commit" ELSE "delete")
    /\ UNCHANGED <<store, op, todo, at, seen, held, excl, issued>>

-----------------------------------------------------------------------------
\* Mutant: the records are not part of the transaction, and are lost.
PublishRowsOnly(r) ==
    /\ tree' = [p \in Paths |-> IF Exists(draft[r][p]) THEN draft[r][p] ELSE tree[p]]
    /\ UNCHANGED <<log, cursor, issued>>

Publish(r) ==
    /\ tree' = [p \in Paths |-> IF Exists(draft[r][p]) THEN draft[r][p] ELSE tree[p]]
    /\ log' = log \cup dlog[r]
    /\ UNCHANGED <<cursor, issued>>

\* The last transaction of the call is open: that of the file, of the whole
\* Delete, or of the directory itself in EnsureDirectory.
LastTransaction(r) == todo[r] = << >> \/ (op[r].kind = "ensure" /\ Len(todo[r]) = 1)

CommitLast(r) ==
    /\ pc[r] = "commit"
    /\ LastTransaction(r)
    /\ Publish(r)
    /\ Return(r)

\* COMMIT of a parent directory; the next path follows in a new transaction.
CommitParent(r) ==
    /\ pc[r] = "commit"
    /\ ~LastTransaction(r)
    /\ Publish(r)
    /\ Release(r)
    /\ todo' = [todo EXCEPT ![r] = Tail(@)]
    /\ Goto(r, "ready")
    /\ UNCHANGED <<op, doomed>>

\* The caller's context is cancelled or the server dies: open work rolls back.
Cancel(r) ==
    /\ pc[r] # "idle"
    /\ Fail(r)
    /\ UNCHANGED cursor

\* PostgreSQL ends one transaction of a deadlock.
DeadlockVictim(r) ==
    /\ Deadlocked(r)
    /\ Fail(r)
    /\ UNCHANGED cursor

-----------------------------------------------------------------------------
Ensure(r) ==
    \/ \E d \in Dirs : EnsureLock(r, d)
    \/ EnsureKeep(r)
    \/ EnsureRevive(r)
    \/ EnsureInsert(r)
    \/ EnsureLostRace(r)

Write(r) ==
    \/ \E f \in Files : WriteLock(r, f) \/ WriteConflict(r, f)
    \/ QuotaPass(r)
    \/ QuotaRefuse(r)
    \/ WriteUpdate(r)
    \/ WriteInsert(r)
    \/ WriteLostRace(r)

Delete(r) ==
    \/ DeleteList(r)
    \/ DeleteNotFound(r)
    \/ \E p \in Paths : DeleteLock(r, p)
    \/ DeleteStage(r)

Call(r) ==
    \/ \E f \in Files : StartWrite(r, f)
    \/ \E d \in Dirs : StartEnsure(r, d)
    \/ \E p \in Paths : StartDelete(r, p)

Progress(r) == Ensure(r) \/ Write(r) \/ Delete(r) \/ CommitLast(r) \/ CommitParent(r)
               \/ DeadlockVictim(r)

Next == \E r \in Req : Call(r) \/ Progress(r) \/ Cancel(r)

Spec == Init /\ [][Next]_vars

\* A request that is not blocked goes on: the goroutine runs, a statement
\* returns, and PostgreSQL ends deadlocks.  Nobody has to call the service.
FairSpec == Spec /\ \A r \in Req : WF_vars(Progress(r))

-----------------------------------------------------------------------------
(* Properties. *)

Positions == {"idle", "ready", "ensure", "quota", "write", "list", "delete",
              "tombstone", "commit"}

\* Every variable keeps its type: rows and change records have the columns the
\* tables have, requests stand at one of the statements of the handlers.
TypeOK ==
    /\ tree \in [Paths -> Row]
    /\ log \subseteq Change
    /\ cursor \in Nat
    /\ pc \in [Req -> Positions]
    /\ op \in [Req -> Op]
    /\ doomed \in [Req -> SUBSET Paths]
    /\ at \in [Req -> Paths \cup {NoPath}]
    /\ seen \in [Req -> Row]
    /\ held \in [Req -> SUBSET Paths]
    /\ excl \in [Req -> BOOLEAN]
    /\ draft \in [Req -> [Paths -> Row]]
    /\ dlog \in [Req -> SUBSET Change]
    /\ issued \in Nat
    /\ DOMAIN todo = Req

Records(p) == {c \in log : c.path = p}

\* The change log is the history of every path: one record for each version
\* from 1 up to the version the row has now, none missing, none twice; the last
\* one is a delete exactly when the row is a tombstone.  (WriteEntry,
\* EnsureDirectory and Delete each move a row and its history in one
\* transaction under the row's lock.)
HistoryComplete ==
    \A p \in Paths :
        /\ \A c \in Records(p) : c.ver \in 1 .. tree[p].ver
        /\ \A v \in 1 .. tree[p].ver : \E c \in Records(p) : c.ver = v
        /\ \A c, e \in Records(p) : c.ver = e.ver => c = e
        /\ \A c \in Records(p) :
              c.ver = tree[p].ver => (c.kind = "delete" <=> tree[p].dead)

\* Two versions of one path have cursors in the order of the versions, so that
\* a reader of Changes, which sorts by cursor, never sees a path go back.
CursorOrder ==
    \A c, e \in log : c.path = e.path /\ c.ver < e.ver => c.cursor < e.cursor

\* Of all the writes that expect one version of a path at most one succeeds,
\* and it writes the next version (the optimistic lock of WriteEntry).
OptimisticWinner ==
    \A c, e \in log :
        c.base > 0 => /\ c.ver = c.base + 1
                      /\ c.path = e.path /\ c.base = e.base => c = e

\* WriteEntry and WriteBinaryEntry leave no row without rows for all the
\* directories above it, whatever fails or runs in between.
ParentsExist ==
    \A p \in Paths : Exists(tree[p]) => \A d \in Above(p) : Exists(tree[d])

\* With a quota, a commit that raises the use of live files leaves it above the
\* quota only if it revives a tombstone that still holds text, whose size the
\* quota check takes off as if it were in use.
OverQuotaOnlyByRevival ==
    [][ Quota > 0 /\ Usage(tree') > Quota /\ Usage(tree') > Usage(tree)
          => \E f \in Files : /\ tree'[f] # tree[f]
                              /\ Exists(tree[f]) /\ tree[f].dead /\ tree[f].size > 0 ]_vars

\* Every call returns: no request waits for a lock for ever.
EveryCallReturns == \A r \in Req : pc[r] # "idle" ~> pc[r] = "idle"

\* The committed rows and records keep the promise of VersionedTree: whatever
\* requests interleave, wait, deadlock or are cancelled, each of their
\* transactions is one write or one delete, or changes no version.
Promise == INSTANCE VersionedTree WITH
    rows    <- [p \in Paths |-> [ver |-> tree[p].ver, dead |-> tree[p].dead]],
    history <- {[path |-> c.path, ver |-> c.ver, dead |-> c.kind = "delete", base |-> c.base]
                  : c \in log}

KeepsPromise == Promise!Spec

-----------------------------------------------------------------------------
(* The inductive invariant: what the locks give the handlers. *)

BeforeStage == {"idle", "ready", "list", "ensure", "quota", "write"}

\* No row is locked twice; a request between transactions holds nothing and,
\* until it stages its row, has nothing uncommitted.
Locks ==
    /\ \A r, q \in Req : r # q => held[r] \cap held[q] = {}
    /\ \A r \in Req : pc[r] \in {"idle", "ready", "list"} => held[r] = {}
    /\ \A r \in Req : pc[r] \in BeforeStage => draft[r] = NoDraft /\ dlog[r] = {}

\* The row a handler read is locked and still what it read.
Current ==
    \A r \in Req : pc[r] \in {"ensure", "quota", "write", "tombstone"} =>
        /\ at[r] \in Paths
        /\ Exists(seen[r]) => at[r] \in held[r] /\ seen[r] = tree[at[r]]
        /\ pc[r] = "tombstone" => at[r] \in doomed[r] /\ Exists(seen[r])

\* What a Delete has still to do is there, and it has not done it.
Doomed ==
    \A r \in Req :
        /\ \A p \in doomed[r] : Exists(tree[p]) /\ ~Exists(draft[r][p])
        /\ pc[r] \notin {"delete", "tombstone"} => doomed[r] = {}

\* An uncommitted row is locked; it is the next version and has its record, or
\* it is a live directory that keeps its version and has none.
Drafts ==
    \A r \in Req, p \in Paths : Exists(draft[r][p]) =>
        /\ p \in held[r]
        /\ \/ /\ draft[r][p].ver = tree[p].ver + 1
              /\ \E c \in dlog[r] : c.path = p /\ (c.kind = "delete" <=> draft[r][p].dead)
           \/ /\ draft[r][p].ver = tree[p].ver
              /\ draft[r][p].dead = tree[p].dead
              /\ \A c \in dlog[r] : c.path # p

\* An uncommitted record goes with an uncommitted row, it is the only one of
\* its path and its cursor is above those of the path's history.
Recorded ==
    \A r \in Req : \A c \in dlog[r] :
        /\ Exists(draft[r][c.path]) /\ draft[r][c.path].ver = c.ver
        /\ c.cursor <= cursor
        /\ \A e \in dlog[r] : e.path = c.path => e = c
        /\ \A e \in log : e.path = c.path => e.cursor < c.cursor

CursorsDrawn == \A c \in log : c.cursor <= cursor

\* A record that carries an expected version is the next version after it.
BasesMet ==
    /\ \A c \in log : c.base > 0 => c.ver = c.base + 1
    /\ \A r \in Req : \A c \in dlog[r] : c.base > 0 => c.ver = c.base + 1
    /\ \A r \in Req : op[r].kind = "write" /\ op[r].expect > 0 => Exists(tree[op[r].path])
    /\ \A r \in Req : pc[r] \in {"quota", "write"} /\ op[r].expect > 0
                         => seen[r].ver = op[r].expect

\* Where a request stands agrees with the call it serves.
Calls ==
    \A r \in Req :
        /\ pc[r] \in {"ready", "ensure"} => op[r].kind \in {"write", "ensure"}
        /\ pc[r] \in {"quota", "write"} => op[r].kind = "write"
        /\ pc[r] \in {"list", "delete", "tombstone"} => todo[r] = << >>
        /\ pc[r] = "commit" /\ todo[r] # << >> => op[r].kind \in {"write", "ensure"}

\* The invariant the proofs of FileTree_proofs carry from step to step.
IInv == /\ TypeOK /\ Locks /\ Current /\ Doomed /\ Drafts /\ Recorded
        /\ HistoryComplete /\ CursorOrder /\ CursorsDrawn /\ BasesMet /\ Calls

-----------------------------------------------------------------------------
(* What the code does not hold. *)

\* The storage in use stays within the quota.
QuotaRespected == Quota > 0 => Usage(tree) <= Quota

\* EnsureDirectory of a path that another request is creating succeeds.
EnsureIdempotent == [][\A r \in Req : ~EnsureLostRace(r)]_vars
=============================================================================
