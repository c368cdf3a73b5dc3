----------------------------- MODULE ProjectLog -----------------------------
(***************************************************************************)
(* The log of a project (project_service.go): a file of the tree with one   *)
(* line per entry, and a row of project_logs per entry beside it.           *)
(*                                                                         *)
(* AppendLog reads the file, writes it back with one more line and inserts  *)
(* the row.  Each is a transaction of its own, and the write names no       *)
(* version that it expects to replace.  Whether there is no file or an      *)
(* empty one makes no difference to AppendLog and is not told apart.        *)
(* The names say Log where they would meet those of Inbox in MCServices.    *)
(***************************************************************************)
EXTENDS Naturals, Sequences

CONSTANTS
    Writers,     \* requests and tool calls
    MaxAppends   \* bound of the model: entries

ASSUME LogAssumption == MaxAppends \in Nat

VARIABLES
    made,     \* the row of projects is there
    file,     \* log.jsonl, the entries of its lines
    table,    \* project_logs, in the order of the INSERTs
    logPc,    \* what a writer does next
    got,      \* what it takes for the content of the file
    entry,    \* the entry it appends
    appends,  \* entries so far
    logCalm   \* no part of the code: see Replaces

logStored == <<made, file, table>>
logVars == <<logStored, logPc, got, entry, appends, logCalm>>

LogInit ==
    /\ made = FALSE /\ file = <<>> /\ table = <<>>
    /\ logPc = [h \in Writers |-> "idle"]
    /\ got = [h \in Writers |-> <<>>] /\ entry = [h \in Writers |-> 0]
    /\ appends = 0 /\ logCalm = TRUE

LogGoto(h, where) == logPc' = [logPc EXCEPT ![h] = where]

\* logCalm: no write has replaced a content of the file other than the one its
\* writer had read.
Replaces(h, content) ==
    /\ file' = content
    /\ logCalm' = (logCalm /\ file = got[h])

-----------------------------------------------------------------------------
\* Create, whose transaction refuses a second project of the name.  Others see
\* the project before it has its files.
Create(h) ==
    /\ logPc[h] = "idle" /\ ~made
    /\ made' = TRUE
    /\ got' = [got EXCEPT ![h] = <<>>]
    /\ LogGoto(h, "found")
    /\ UNCHANGED <<file, table, entry, appends, logCalm>>

\* Create writes an empty log.
FoundLog(h) ==
    /\ logPc[h] = "found"
    /\ Replaces(h, <<>>)
    /\ LogGoto(h, "idle")
    /\ UNCHANGED <<made, table, got, entry, appends>>

\* AppendLog, up to its Read.
AppendLog(h) ==
    /\ logPc[h] = "idle" /\ made /\ appends < MaxAppends
    /\ appends' = appends + 1
    /\ entry' = [entry EXCEPT ![h] = appends + 1]
    /\ LogGoto(h, "read")
    /\ UNCHANGED <<logStored, got, logCalm>>

ReadLog(h) ==
    /\ logPc[h] = "read"
    /\ got' = [got EXCEPT ![h] = file]
    /\ LogGoto(h, "write")
    /\ UNCHANGED <<logStored, entry, appends, logCalm>>

\* Any error of Read is taken for an empty file.
ReadFails(h) ==
    /\ logPc[h] = "read"
    /\ got' = [got EXCEPT ![h] = <<>>]
    /\ LogGoto(h, "write")
    /\ UNCHANGED <<logStored, entry, appends, logCalm>>

\* Mutant: the test for an empty file is the wrong way round.
JoinedToNothing(current, e) == IF current = <<>> THEN current \o <<e>> ELSE <<e>>

Joined(current, e) == Append(current, e)

WriteLog(h) ==
    /\ logPc[h] = "write"
    /\ Replaces(h, Joined(got[h], entry[h]))
    /\ LogGoto(h, "insert")
    /\ UNCHANGED <<made, table, got, entry, appends>>

InsertLogRow(h) ==
    /\ logPc[h] = "insert"
    /\ table' = Append(table, entry[h])
    /\ LogGoto(h, "idle")
    /\ UNCHANGED <<made, file, got, entry, appends, logCalm>>

\* A statement fails, the caller goes away or the server dies: what was done
\* stays done.
AppendBreaksOff(h) ==
    /\ logPc[h] # "idle"
    /\ LogGoto(h, "idle")
    /\ UNCHANGED <<logStored, got, entry, appends, logCalm>>

\* Somebody deletes the log, or the project's directory, through the tree.
DeleteLog ==
    /\ file # <<>>
    /\ file' = <<>> /\ logCalm' = FALSE
    /\ UNCHANGED <<made, table, logPc, got, entry, appends>>

Appends(h) ==
    AppendLog(h) \/ ReadLog(h) \/ ReadFails(h) \/ WriteLog(h) \/ InsertLogRow(h)

LogNext ==
    \/ \E h \in Writers : Create(h) \/ FoundLog(h) \/ Appends(h) \/ AppendBreaksOff(h)
    \/ DeleteLog

LogSpec == LogInit /\ [][LogNext]_logVars

-----------------------------------------------------------------------------
Entries(s) == {s[i] : i \in 1 .. Len(s)}

LogTypeOK ==
    /\ made \in BOOLEAN /\ logCalm \in BOOLEAN /\ appends \in Nat
    /\ file \in Seq(Nat) /\ table \in Seq(Nat)
    /\ logPc \in [Writers -> {"idle", "found", "read", "write", "insert"}]
    /\ got \in [Writers -> Seq(Nat)] /\ entry \in [Writers -> Nat]

\* What the design says of the log (docs/design.md:366, "append-only"): a write
\* leaves the lines that are there in front.  That somebody empties the file is
\* not what it speaks of.  It does not hold: see CalmLogIsWhole.
LogIsAppendOnly ==
    [][file' # <<>> =>
          \A i \in 1 .. Len(file) : i <= Len(file') /\ file'[i] = file[i]]_file

\* Every entry of the table is in the file, from which GetLogs shows them, as long
\* as every write has replaced what its writer had read: no two appends
\* overlapped, no Read failed, and Create had written before the first append.
CalmLogIsWhole == logCalm => Entries(table) \subseteq Entries(file)
=============================================================================
