---------------------------- MODULE Connections ----------------------------
(***************************************************************************)
(* The tab of saved MySQL connections and the form for a new one.  A       *)
(* connection can be tested before it is saved and afterwards; the outcome *)
(* of a test arrives when the form, or the list, may have moved on.        *)
(***************************************************************************)
EXTENDS Screen

CONSTANTS
  Entries,         \* what can be entered in the form
  MaxConnections   \* bound: connections that are saved

\* The form and its flag; the row of the list that shows that it is tested.
\* The list shows the state of a connection as the server has it.
ConnectionDefault ==
  [kind |-> "connection", open |-> FALSE, entry |-> None, tested |-> FALSE,
   testing |-> 0]

ConnectionShown == form.kind = "connection" /\ form.open

ConnectionPending(ask) == \E i \in 1..Len(calls) : calls[i].ask = ask

ConnectionOpen ==
  /\ form.kind = "connection" /\ ~form.open
  /\ form' = [form EXCEPT !.open = TRUE]
  /\ UNCHANGED <<calls, server>>

\* The outcome of an earlier test stays.
ConnectionEdit(entry) ==
  /\ ConnectionShown
  /\ form' = [form EXCEPT !.entry = entry]
  /\ UNCHANGED <<calls, server>>

ConnectionClose ==
  /\ ConnectionShown
  /\ form' = [form EXCEPT !.open = FALSE, !.entry = None, !.tested = FALSE]
  /\ UNCHANGED <<calls, server>>

\* handleTest: the fields are required.
ConnectionTest ==
  /\ ConnectionShown /\ form.entry # None /\ ~ConnectionPending("test")
  /\ Start([ask |-> "test", entry |-> form.entry])
  /\ UNCHANGED <<form, server>>

\* The test has succeeded, whatever the form holds by now.
ConnectionTested(i) ==
  /\ form.kind = "connection" /\ Waiting(i, "done") /\ calls[i].ask = "test"
  /\ form' = [form EXCEPT !.tested = TRUE]
  /\ Return(i)
  /\ UNCHANGED server

\* handleSave: the button is disabled before a test has succeeded.
ConnectionSave ==
  /\ ConnectionShown /\ form.entry # None /\ form.tested
  /\ ~ConnectionPending("save") /\ Len(server) < MaxConnections
  /\ Start([ask |-> "save", entry |-> form.entry])
  /\ UNCHANGED <<form, server>>

ConnectionSaved(i) ==
  /\ form.kind = "connection" /\ Waiting(i, "done") /\ calls[i].ask = "save"
  /\ form' = [form EXCEPT !.open = FALSE, !.entry = None, !.tested = FALSE]
  /\ Return(i)
  /\ UNCHANGED server

-----------------------------------------------------------------------------
(* The list. *)

\* handleTest of the tab: the buttons of the other rows stay enabled.
RowTest(c) ==
  /\ form.kind = "connection" /\ ~form.open
  /\ c \in 1..Len(server) /\ server[c].state # "deleted" /\ form.testing # c
  /\ Start([ask |-> "row", connection |-> c])
  /\ form' = [form EXCEPT !.testing = c]
  /\ UNCHANGED server

\* Mutant of RowTested: the row is freed when its own test succeeds only.
RowTestedOwn(i) ==
  /\ form.kind = "connection" /\ \E state \in {"done", "failed"} : Waiting(i, state)
  /\ calls[i].ask = "row"
  /\ form' = [form EXCEPT !.testing =
       IF @ = calls[i].connection /\ calls[i].state = "done" THEN 0 ELSE @]
  /\ Return(i)
  /\ UNCHANGED server

\* The answer frees the row that is shown as tested, its own or another.
RowTested(i) ==
  /\ form.kind = "connection" /\ \E state \in {"done", "failed"} : Waiting(i, state)
  /\ calls[i].ask = "row"
  /\ form' = [form EXCEPT !.testing = 0]
  /\ Return(i)
  /\ UNCHANGED server

\* handleDelete, after the question.
RowDelete(c) ==
  /\ form.kind = "connection" /\ ~form.open
  /\ c \in 1..Len(server) /\ server[c].state # "deleted"
  /\ Start([ask |-> "delete", connection |-> c])
  /\ UNCHANGED <<form, server>>

-----------------------------------------------------------------------------
\* A test of a saved connection leaves its outcome with the connection, unless that
\* has been deleted meanwhile.
TestOf(c) ==
  IF server[c].state = "deleted" THEN UNCHANGED server
  ELSE \E state \in {"connected", "failed"} : server' = [server EXCEPT ![c].state = state]

\* delete_connection, unless a live dataset of it is in use.
DeletionOf(c) ==
  server[c].state # "deleted" /\ server' = [server EXCEPT ![c].state = "deleted"]

ConnectionServe(i) ==
  /\ form.kind = "connection" /\ Waiting(i, "sent")
  /\ CASE calls[i].ask = "save" ->
            server' = Append(server, [entry |-> calls[i].entry, state |-> "untested"])
       [] calls[i].ask = "row" -> TestOf(calls[i].connection)
       [] calls[i].ask = "delete" -> DeletionOf(calls[i].connection)
       [] OTHER -> UNCHANGED server
  /\ Answer(i, "done")
  /\ UNCHANGED form

\* The answer to a deletion, and errors: a message is shown.
ConnectionEnds(i) ==
  /\ form.kind = "connection"
  /\ \/ Waiting(i, "failed") /\ calls[i].ask # "row"
     \/ Waiting(i, "done") /\ calls[i].ask = "delete"
  /\ Return(i)
  /\ UNCHANGED <<form, server>>

ConnectionInit == form = ConnectionDefault /\ calls = <<>> /\ server = <<>>

ConnectionNext ==
  \/ ConnectionOpen \/ ConnectionClose \/ ConnectionTest \/ ConnectionSave
  \/ \E entry \in Entries : ConnectionEdit(entry)
  \/ \E c \in 1..MaxConnections : RowTest(c) \/ RowDelete(c)
  \/ \E i \in 1..MaxCalls :
       \/ ConnectionTested(i) \/ ConnectionSaved(i) \/ RowTested(i)
       \/ ConnectionServe(i) \/ ConnectionEnds(i)

-----------------------------------------------------------------------------
(* Properties. *)

\* No row is shown as being tested for ever, although one flag serves all rows
\* and their tests overlap, fail, or concern a connection deleted meanwhile.
RowTestingEnds ==
  []<>(form.kind = "connection" => form.testing = 0)
=============================================================================
