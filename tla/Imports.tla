------------------------------ MODULE Imports ------------------------------
(***************************************************************************)
(* The three wizards that make datasets: upload of a file, snapshot of a   *)
(* MySQL table, registration of a live MySQL table.  The first two start a *)
(* task on the server and poll it until it has ended.                      *)
(*                                                                         *)
(* The wizards stay mounted while they are closed: what they wait for      *)
(* still arrives, and a timer that was set still fires.                    *)
(***************************************************************************)
EXTENDS Screen

CONSTANTS
  Connections,   \* saved MySQL connections
  Sources,       \* files, or names of tables (each connection has them all)
  Workbooks,     \* those of the files that have sheets
  MaxImports     \* bound: datasets that are asked for

\* source is the file that was uploaded or the name of the table; columns is the
\* file or the table, <<connection, table>>, whose columns are chosen; timer is the
\* table whose columns a timer is about to choose, one at a time; task is the task
\* that is polled and seen its last known status; told is toastShownRef.  sheet is
\* that of a workbook whose columns are listed, the first, or another; header says
\* whether the file's first row names the columns.
ImportDefault ==
  [kind |-> "import", wizard |-> "none", open |-> FALSE, step |-> 0,
   connection |-> None, source |-> None, columns |-> None, timer |-> None,
   task |-> None, seen |-> None, told |-> None, sheet |-> None, header |-> TRUE]

ImportShown(wizard, step) ==
  form.kind = "import" /\ form.wizard = wizard /\ form.open /\ form.step = step

\* The button of a request loads while that request is pending.
ImportPending(ask) == \E i \in 1..Len(calls) : calls[i].ask = ask

ImportMayStart == Len(server) + Len(calls) < MaxImports   \* a bound

\* The menu of the tab: one wizard is open at a time.
ImportOpen(wizard) ==
  /\ form.kind = "import" /\ ~form.open /\ form.wizard = wizard
  /\ form' = [form EXCEPT !.open = TRUE]
  /\ UNCHANGED <<calls, server>>

-----------------------------------------------------------------------------
(* Upload of a file. *)

\* handleUpload; a file that is too large is refused at once.
FileUpload(file) ==
  /\ ImportShown("file", 0) /\ ~ImportPending("upload")
  /\ Start([ask |-> "upload", source |-> file])
  /\ UNCHANGED <<form, server>>

\* A file without sheets leaves the sheet that was chosen for an earlier one.
SheetOf(file, sheet) == IF file \in Workbooks THEN "listed" ELSE sheet

\* Mutant of FileUploaded: the columns are chosen the first time only.
FileUploadedAgain(i) ==
  /\ form.kind = "import" /\ Waiting(i, "done") /\ calls[i].ask = "upload"
  /\ form' = [form EXCEPT !.source = calls[i].source, !.step = 1, !.header = TRUE,
                !.sheet = SheetOf(calls[i].source, @),
                !.columns = IF @ = None THEN calls[i].source ELSE @]
  /\ Return(i)
  /\ UNCHANGED server

\* The preview has arrived, wherever the wizard has got to meanwhile.
FileUploaded(i) ==
  /\ form.kind = "import" /\ Waiting(i, "done") /\ calls[i].ask = "upload"
  /\ form' = [form EXCEPT !.source = calls[i].source, !.step = 1, !.header = TRUE,
                !.sheet = SheetOf(calls[i].source, @), !.columns = calls[i].source]
  /\ Return(i)
  /\ UNCHANGED server

\* Back: the columns stay.
FileBack ==
  /\ ImportShown("file", 1) /\ form.source # None
  /\ form' = [form EXCEPT !.step = 0, !.source = None]
  /\ UNCHANGED <<calls, server>>

FileChooseColumns ==
  /\ ImportShown("file", 1) /\ form.source # None
  /\ \E columns \in {form.source, None} : form' = [form EXCEPT !.columns = columns]
  /\ UNCHANGED <<calls, server>>

\* The columns that are listed, and those that are chosen, stay.
FileChooseSheet ==
  /\ ImportShown("file", 1) /\ form.source \in Workbooks
  /\ \E sheet \in {"listed", "other"} : form' = [form EXCEPT !.sheet = sheet]
  /\ UNCHANGED <<calls, server>>

FileChooseHeader ==
  /\ ImportShown("file", 1) /\ form.source # None
  /\ form' = [form EXCEPT !.header = ~@]
  /\ UNCHANGED <<calls, server>>

\* The file is going to be read as it was for the list of its columns.
ReadAsListed == form.header /\ (form.source \in Workbooks => form.sheet = "listed")

\* handleConfirm
FileConfirm ==
  /\ ImportShown("file", 1) /\ form.source # None /\ form.columns # None
  /\ ~ImportPending("file") /\ ImportMayStart
  /\ Start([ask |-> "file", connection |-> None, source |-> form.source,
            columns |-> form.columns, listed |-> ReadAsListed])
  /\ UNCHANGED <<form, server>>

FileStarted(i) ==
  /\ form.kind = "import" /\ Waiting(i, "done") /\ calls[i].ask = "file"
  /\ form' = [form EXCEPT !.task = calls[i].task, !.seen = None, !.step = 2]
  /\ Return(i)
  /\ UNCHANGED server

\* handleClose, by the cross of the dialog or the button of the last step.
FileClose ==
  /\ form.kind = "import" /\ form.wizard = "file" /\ form.open
  /\ form' = [ImportDefault EXCEPT !.wizard = "file"]
  /\ UNCHANGED <<calls, server>>

\* Mutant of FilePoll: a task that runs is not polled again.
FilePollOnce ==
  /\ form.kind = "import" /\ form.wizard = "file" /\ form.task # None
  /\ form.seen \in {None, "pending"}
  /\ server[form.task].status # "forgotten"
  /\ form' = [form EXCEPT !.seen = server[form.task].status]
  /\ UNCHANGED <<calls, server>>

\* The task is polled until it has ended (also while the wizard is closed) and
\* its end is told, once for each outcome until the wizard is closed.
FilePoll ==
  /\ form.kind = "import" /\ form.wizard = "file" /\ form.task # None
  /\ form.seen \in {None, "pending", "running"}
  /\ server[form.task].status # "forgotten"
  /\ LET status == server[form.task].status IN
     form' = [form EXCEPT !.seen = status,
                !.told = IF status \in {"completed", "failed"} THEN status ELSE @]
  /\ UNCHANGED <<calls, server>>

-----------------------------------------------------------------------------
(* Snapshot of a MySQL table. *)

\* handleSelectConnection: the table and the columns stay.
MySQLSelectConnection(c) ==
  /\ ImportShown("mysql", 0)
  /\ form' = [form EXCEPT !.connection = c]
  /\ UNCHANGED <<calls, server>>

MySQLGoToTables ==
  /\ ImportShown("mysql", 0) /\ form.connection # None
  /\ form' = [form EXCEPT !.step = 1]
  /\ UNCHANGED <<calls, server>>

\* handleSelectTableRow: the columns stay.
MySQLSelectTable(table) ==
  /\ ImportShown("mysql", 1)
  /\ form' = [form EXCEPT !.source = table]
  /\ UNCHANGED <<calls, server>>

MySQLGoToColumns ==
  /\ ImportShown("mysql", 1) /\ form.source # None
  /\ form' = [form EXCEPT !.step = 2]
  /\ UNCHANGED <<calls, server>>

MySQLBack ==
  /\ \E step \in {1, 2} : ImportShown("mysql", step)
  /\ form' = [form EXCEPT !.step = @ - 1]
  /\ UNCHANGED <<calls, server>>

\* A render with the columns of the table and none chosen sets a timer.
MySQLSetTimer ==
  /\ form.kind = "import" /\ form.wizard = "mysql"
  /\ form.connection # None /\ form.source # None /\ form.columns = None
  /\ form.timer = None
  /\ form' = [form EXCEPT !.timer = <<form.connection, form.source>>]
  /\ UNCHANGED <<calls, server>>

\* handleColumnsLoaded: it tests the columns of the render that set the timer.
MySQLTimer ==
  /\ form.kind = "import" /\ form.wizard = "mysql" /\ form.timer # None
  /\ form' = [form EXCEPT !.timer = None, !.columns = form.timer]
  /\ UNCHANGED <<calls, server>>

\* handleColumnToggle and the links that select all and none.
MySQLChooseColumns ==
  /\ ImportShown("mysql", 2)
  /\ \E columns \in {<<form.connection, form.source>>, None} :
       form' = [form EXCEPT !.columns = columns]
  /\ UNCHANGED <<calls, server>>

\* handleStartImport; no columns stand for all.
MySQLStart ==
  /\ ImportShown("mysql", 2) /\ form.connection # None /\ form.source # None
  /\ ~ImportPending("mysql") /\ ImportMayStart
  /\ Start([ask |-> "mysql", connection |-> form.connection,
            source |-> form.source, columns |-> form.columns])
  /\ UNCHANGED <<form, server>>

MySQLStarted(i) ==
  /\ form.kind = "import" /\ Waiting(i, "done") /\ calls[i].ask = "mysql"
  /\ form' = [form EXCEPT !.task = calls[i].task, !.seen = None, !.step = 3]
  /\ Return(i)
  /\ UNCHANGED server

MySQLClose ==
  /\ form.kind = "import" /\ form.wizard = "mysql" /\ form.open
  /\ form' = [ImportDefault EXCEPT !.wizard = "mysql", !.timer = form.timer]
  /\ UNCHANGED <<calls, server>>

MySQLPoll ==
  /\ form.kind = "import" /\ form.wizard = "mysql" /\ form.task # None
  /\ form.seen \in {None, "pending", "running"}
  /\ server[form.task].status # "forgotten"
  /\ LET status == server[form.task].status IN
     form' = [form EXCEPT !.seen = status,
                !.told = IF status \in {"completed", "failed"} THEN status ELSE @]
  /\ UNCHANGED <<calls, server>>

-----------------------------------------------------------------------------
(* Registration of a live MySQL table. *)

LiveSelectConnection(c) ==
  /\ ImportShown("live", 0)
  /\ form' = [form EXCEPT !.connection = c]
  /\ UNCHANGED <<calls, server>>

\* handleGoToTables: the table and the columns are chosen anew.
LiveGoToTables ==
  /\ ImportShown("live", 0) /\ form.connection # None
  /\ form' = [form EXCEPT !.step = 1, !.source = None, !.columns = None]
  /\ UNCHANGED <<calls, server>>

LiveSelectTable(table) ==
  /\ ImportShown("live", 1)
  /\ form' = [form EXCEPT !.source = table, !.columns = None]
  /\ UNCHANGED <<calls, server>>

LiveBack ==
  /\ ImportShown("live", 1)
  /\ form' = [form EXCEPT !.step = 0]
  /\ UNCHANGED <<calls, server>>

LiveSetTimer ==
  /\ form.kind = "import" /\ form.wizard = "live"
  /\ form.connection # None /\ form.source # None /\ form.columns = None
  /\ form.timer = None
  /\ form' = [form EXCEPT !.timer = <<form.connection, form.source>>]
  /\ UNCHANGED <<calls, server>>

LiveTimer ==
  /\ form.kind = "import" /\ form.wizard = "live" /\ form.timer # None
  /\ form' = [form EXCEPT !.timer = None, !.columns = form.timer]
  /\ UNCHANGED <<calls, server>>

LiveChooseColumns ==
  /\ ImportShown("live", 1) /\ form.source # None
  /\ \E columns \in {<<form.connection, form.source>>, None} :
       form' = [form EXCEPT !.columns = columns]
  /\ UNCHANGED <<calls, server>>

\* handleRegister
LiveRegister ==
  /\ ImportShown("live", 1)
  /\ form.connection # None /\ form.source # None /\ form.columns # None
  /\ ~ImportPending("live") /\ ImportMayStart
  /\ Start([ask |-> "live", connection |-> form.connection,
            source |-> form.source, columns |-> form.columns])
  /\ UNCHANGED <<form, server>>

LiveRegistered(i) ==
  /\ form.kind = "import" /\ Waiting(i, "done") /\ calls[i].ask = "live"
  /\ form' = [form EXCEPT !.step = 2]
  /\ Return(i)
  /\ UNCHANGED server

LiveClose ==
  /\ form.kind = "import" /\ form.wizard = "live" /\ form.open
  /\ form' = [ImportDefault EXCEPT !.wizard = "live", !.timer = form.timer]
  /\ UNCHANGED <<calls, server>>

-----------------------------------------------------------------------------
(* The server, and what is common. *)

\* An upload leaves a preview, a registration a dataset, the others a task.
ImportServe(i) ==
  /\ form.kind = "import" /\ Waiting(i, "sent")
  /\ IF calls[i].ask = "upload"
     THEN Answer(i, "done") /\ UNCHANGED server
     ELSE /\ server' = Append(server,
               [columns |-> calls[i].columns,
                table |-> <<calls[i].connection, calls[i].source>>,
                listed |-> (calls[i].ask = "file" => calls[i].listed),
                status |-> IF calls[i].ask = "live" THEN "registered" ELSE "pending"])
          /\ calls' = [calls EXCEPT ![i] = With([@ EXCEPT !.state = "done"], "task", Len(server'))]
  /\ UNCHANGED form

\* Columns that are chosen but not found, because the file is not read as it was
\* listed or because they are another table's, have other names than those that are:
\* the file is imported without columns, the table is not.
Imported(d) == d.table[1] = None \/ d.columns \in {None, d.table}

\* The task runs and ends, beside everything else.
ImportRuns(t) ==
  /\ form.kind = "import" /\ t \in 1..Len(server)
  /\ \E status \in CASE server[t].status = "pending" -> {"running"}
                     [] server[t].status = "running" ->
                          {"failed"} \cup IF Imported(server[t]) THEN {"completed"} ELSE {}
                     [] OTHER -> {} :
       server' = [server EXCEPT ![t].status = status,
                    ![t].columns = IF status = "completed" /\ ~server[t].listed
                                   THEN None ELSE @]
  /\ UNCHANGED <<form, calls>>

\* Tasks are kept in memory, whether they have ended or not: a restart of the server
\* forgets them, the start of a task those before the last that are an hour old.
ImportForgotten(last) ==
  /\ form.kind = "import" /\ last \in 1..Len(server)
  /\ server[last].status \notin {"registered", "forgotten"}
  /\ server' = [t \in 1..Len(server) |->
                  IF t > last \/ server[t].status = "registered" THEN server[t]
                  ELSE [server[t] EXCEPT !.status = "forgotten"]]
  /\ UNCHANGED <<form, calls>>

\* An error is shown, the wizard stays where it is.
ImportFailed(i) ==
  /\ form.kind = "import" /\ Waiting(i, "failed")
  /\ Return(i)
  /\ UNCHANGED <<form, server>>

-----------------------------------------------------------------------------
ImportInit ==
  /\ \E wizard \in {"file", "mysql", "live"} :
       form = [ImportDefault EXCEPT !.wizard = wizard]
  /\ calls = <<>> /\ server = <<>>

ImportNext ==
  \/ \E wizard \in {"file", "mysql", "live"} : ImportOpen(wizard)
  \/ \E file \in Sources : FileUpload(file)
  \/ FileBack \/ FileChooseColumns \/ FileChooseSheet \/ FileChooseHeader
  \/ FileConfirm \/ FileClose \/ FilePoll
  \/ \E c \in Connections : MySQLSelectConnection(c)
  \/ \E table \in Sources : MySQLSelectTable(table)
  \/ MySQLGoToTables \/ MySQLGoToColumns \/ MySQLBack \/ MySQLSetTimer
  \/ MySQLTimer \/ MySQLChooseColumns \/ MySQLStart \/ MySQLClose \/ MySQLPoll
  \/ \E c \in Connections : LiveSelectConnection(c)
  \/ \E table \in Sources : LiveSelectTable(table)
  \/ LiveGoToTables \/ LiveBack \/ LiveSetTimer
  \/ LiveTimer \/ LiveChooseColumns \/ LiveRegister \/ LiveClose
  \/ \E i \in 1..MaxCalls :
       \/ FileUploaded(i) \/ FileStarted(i) \/ MySQLStarted(i) \/ LiveRegistered(i)
       \/ ImportServe(i) \/ ImportFailed(i)
  \/ \E t \in 1..MaxImports : ImportRuns(t) \/ ImportForgotten(t)

ImportSpec ==
  ImportInit /\ [][ImportNext \/ \E i \in 1..MaxCalls : Refuse(i) \/ LoseAnswer(i)]_vars

-----------------------------------------------------------------------------
(* Properties. *)

\* What is imported from a file are columns of that file, if any, also when several
\* have been uploaded and the user has gone back and forth while answers were
\* on their way.
ImportFileFits ==
  (form.kind = "import" /\ form.wizard = "file") =>
    \A t \in 1..Len(server) : server[t].columns \in {None, server[t].table[2]}

\* The wizard does not go on for ever without knowing that its task has ended,
\* unless the task is forgotten.
ImportEndIsSeen ==
  []<>(form.kind = "import" =>
         \A t \in 1..Len(server) :
           (form.task = t /\ server[t].status \in {"completed", "failed"}) =>
             form.seen = server[t].status)
=============================================================================
