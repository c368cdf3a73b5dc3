------------------------------- MODULE Inbox -------------------------------
(***************************************************************************)
(* The inbox (inbox_service.go): a row of inbox_messages per message, and a *)
(* file of the tree in the folder of its status.                            *)
(*                                                                         *)
(* moveStatus reads the row, deletes the file in the folder the row names,  *)
(* writes it into the next folder and updates the row.  Each is a           *)
(* transaction of its own, and nothing but the caller ties them together.   *)
(* Requests archive messages, and once an hour the scheduler archives those *)
(* whose time is over.  MarkRead has no caller: no message is "read".       *)
(***************************************************************************)
EXTENDS Naturals

CONSTANTS
    Msgs,      \* the messages that may be sent
    Handlers,  \* requests
    Sweeper,   \* the scheduler's job
    None,      \* no row
    MaxCalls   \* bound of the model: calls of requests

Movers == Handlers \cup {Sweeper}

Folders == {"incoming", "archived"}

ASSUME InboxAssumption ==
    Sweeper \notin Handlers /\ None \notin Folders /\ MaxCalls \in Nat

VARIABLES
    files,   \* the folders of the tree in which a message is
    rows,    \* the status of its row
    late,    \* the messages whose expires_at has passed
    sent,    \* the ids that Send has drawn
    pc, msg, \* what a mover does next, and with which message
    seen,    \* the status that lookupMessage read
    due,     \* what ArchiveExpiredMessages has left of its list
    calls,   \* calls so far
    lost,    \* no part of the code: a move broke off after its delete and
             \* nobody has written the message since
    calm     \* no part of the code: no step of a move of the message has failed

stored == <<files, rows>>
work == <<pc, msg, seen, due>>
observers == <<lost, calm>>
vars == <<stored, late, sent, work, calls, observers>>

Init ==
    /\ files = [m \in Msgs |-> {}] /\ rows = [m \in Msgs |-> None]
    /\ late = {} /\ sent = {} /\ calls = 0
    /\ pc = [h \in Movers |-> "idle"] /\ msg \in [Movers -> Msgs]
    /\ seen = [h \in Movers |-> "incoming"] /\ due = {}
    /\ lost = {} /\ calm = Msgs

Goto(h, where) == pc' = [pc EXCEPT ![h] = where]

\* The end of a call: the job goes on with its list.
Ends(h) == Goto(h, IF h = Sweeper THEN "sweep" ELSE "idle")

Begins(h, m, where) ==
    /\ pc[h] = "idle" /\ calls < MaxCalls
    /\ calls' = calls + 1
    /\ msg' = [msg EXCEPT ![h] = m]
    /\ Goto(h, where)
    /\ UNCHANGED <<stored, late, seen, due, observers>>

-----------------------------------------------------------------------------
(* Send, which draws a new id.                                              *)

Send(h, m) ==
    /\ m \notin sent /\ sent' = sent \cup {m}
    /\ Begins(h, m, "post")

PostFile(h) ==
    /\ pc[h] = "post"
    /\ files' = [files EXCEPT ![msg[h]] = @ \cup {"incoming"}]
    /\ Goto(h, "insert")
    /\ UNCHANGED <<rows, late, sent, msg, seen, due, calls, observers>>

InsertRow(h) ==
    /\ pc[h] = "insert"
    /\ rows' = [rows EXCEPT ![msg[h]] = "incoming"]
    /\ Ends(h)
    /\ UNCHANGED <<files, late, sent, msg, seen, due, calls, observers>>

-----------------------------------------------------------------------------
(* moveStatus to "archived".                                                *)

\* A caller has the id from a listing, of the tree or of the rows.
Archive(h, m) ==
    /\ files[m] # {} \/ rows[m] # None
    /\ UNCHANGED sent
    /\ Begins(h, m, "lookup")

Lookup(h) ==
    /\ pc[h] = "lookup" /\ rows[msg[h]] # None
    /\ seen' = [seen EXCEPT ![h] = rows[msg[h]]]
    /\ Goto(h, "delete")
    /\ UNCHANGED <<stored, late, sent, msg, due, calls, observers>>

LookupFails(h) ==
    /\ pc[h] = "lookup" /\ rows[msg[h]] = None
    /\ Ends(h)
    /\ UNCHANGED <<stored, late, sent, msg, seen, due, calls, observers>>

\* Mutant: the old path is built after the status has been changed.
LeavesNext(h) == "archived"

\* oldPath.
Leaves(h) == seen[h]

DeleteOld(h) ==
    /\ pc[h] = "delete"
    /\ files' = [files EXCEPT ![msg[h]] = @ \ {Leaves(h)}]
    /\ Goto(h, "write")
    /\ UNCHANGED <<rows, late, sent, msg, seen, due, calls, observers>>

\* The error of the Delete is dropped.
DeleteFails(h) ==
    /\ pc[h] = "delete"
    /\ calm' = calm \ {msg[h]}
    /\ Goto(h, "write")
    /\ UNCHANGED <<stored, late, sent, msg, seen, due, calls, lost>>

\* writeCanonicalMessage.
WriteNew(h) ==
    /\ pc[h] = "write"
    /\ files' = [files EXCEPT ![msg[h]] = @ \cup {"archived"}]
    /\ lost' = lost \ {msg[h]}
    /\ Goto(h, "update")
    /\ UNCHANGED <<rows, late, sent, msg, seen, due, calls, calm>>

UpdateRow(h) ==
    /\ pc[h] = "update"
    /\ rows' = [rows EXCEPT ![msg[h]] = "archived"]
    /\ Ends(h)
    /\ UNCHANGED <<files, late, sent, msg, seen, due, calls, observers>>

\* A statement fails, the caller goes away or the server dies.
BreakOff(h) ==
    /\ pc[h] \notin {"idle", "sweep"}
    /\ lost' = IF pc[h] = "write" THEN lost \cup {msg[h]} ELSE lost
    /\ calm' = IF pc[h] \in {"write", "update"} THEN calm \ {msg[h]} ELSE calm
    /\ Ends(h)
    /\ UNCHANGED <<stored, late, sent, msg, seen, due, calls>>

-----------------------------------------------------------------------------
(* ArchiveExpiredMessages.                                                  *)

Expire(m) ==
    /\ m \in sent \ late /\ late' = late \cup {m}
    /\ UNCHANGED <<stored, sent, work, calls, observers>>

SweepBegins ==
    /\ pc[Sweeper] = "idle"
    /\ due' = {m \in late : rows[m] \notin {None, "archived"}}
    /\ Goto(Sweeper, "sweep")
    /\ UNCHANGED <<stored, late, sent, msg, seen, calls, observers>>

SweepNext(m) ==
    /\ pc[Sweeper] = "sweep" /\ m \in due
    /\ due' = due \ {m}
    /\ msg' = [msg EXCEPT ![Sweeper] = m]
    /\ Goto(Sweeper, "lookup")
    /\ UNCHANGED <<stored, late, sent, seen, calls, observers>>

\* At the end of the list, or earlier, when the list breaks off.
SweepEnds ==
    /\ pc[Sweeper] = "sweep"
    /\ due' = {}
    /\ Goto(Sweeper, "idle")
    /\ UNCHANGED <<stored, late, sent, msg, seen, calls, observers>>

Moves(h) ==
    \/ Lookup(h) \/ LookupFails(h) \/ DeleteOld(h) \/ DeleteFails(h)
    \/ WriteNew(h) \/ UpdateRow(h)

Next ==
    \/ \E h \in Handlers : \/ \E m \in Msgs : Send(h, m) \/ Archive(h, m)
                           \/ PostFile(h) \/ InsertRow(h)
    \/ \E h \in Movers : Moves(h) \/ BreakOff(h)
    \/ \E m \in Msgs : Expire(m) \/ SweepNext(m)
    \/ SweepBegins \/ SweepEnds

Spec == Init /\ [][Next]_vars

-----------------------------------------------------------------------------
TypeOK ==
    /\ files \in [Msgs -> SUBSET Folders] /\ rows \in [Msgs -> Folders \cup {None}]
    /\ late \subseteq Msgs /\ sent \subseteq Msgs /\ calls \in Nat
    /\ pc \in [Movers -> {"idle", "post", "insert", "lookup", "delete", "write",
                          "update", "sweep"}]
    /\ msg \in [Movers -> Msgs] /\ seen \in [Movers -> Folders]
    /\ due \subseteq Msgs /\ lost \subseteq Msgs /\ calm \subseteq Msgs

\* Nobody is between the delete and the update of m.
Still(m) == \A h \in Movers : msg[h] = m => pc[h] \notin {"write", "update"}

\* However many callers and the hourly job archive a message at a time: between
\* moves it is in exactly one folder, the one its row names, unless a statement of
\* one of them failed; and even then it is in the tree, unless a move broke off
\* right after its delete and nobody has archived the message again.
Filed ==
    \A m \in Msgs : rows[m] # None /\ Still(m) =>
        /\ files[m] # {} \/ m \in lost
        /\ m \in calm => files[m] = {rows[m]}
=============================================================================
