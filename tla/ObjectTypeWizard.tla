-------------------------- MODULE ObjectTypeWizard --------------------------
(***************************************************************************)
(* The wizard that creates an object type: five steps to enter a dataset,  *)
(* metadata, properties and keys, then one request for the object type and *)
(* one or more for each property.  The dialog can be closed at any time;   *)
(* closing it creates the object type if it has a name.                    *)
(***************************************************************************)
EXTENDS Screen

CONSTANTS
  Keys,             \* the keys that a property can be: primary, title
  MaxRows,          \* bound: properties in the form
  MaxObjects        \* bound: object types that may be created

\* DEFAULT_STATE of the store; mapped, creating and said are the state of the
\* components: autoMappedRef, isCreating and the last message.
WizardDefault ==
  [kind |-> "object type", open |-> FALSE, step |-> 0, dataset |-> FALSE,
   entered |-> {}, rows |-> <<>>, mapped |-> FALSE, creating |-> FALSE,
   said |-> "nothing"]

WizardShown == form.kind = "object type" /\ form.open

\* Bound: the user edits the form while another handler can be started.
WizardAt(step) == WizardShown /\ form.step = step /\ Len(calls) < MaxCalls

\* close and reset: the store is as it was in the beginning.  The component
\* stays mounted, its steps do not.
WizardReset(f) == [WizardDefault EXCEPT !.creating = f.creating, !.said = f.said]

-----------------------------------------------------------------------------
(* The form. *)

WizardOpen ==
  /\ form.kind = "object type" /\ ~form.open
  /\ form' = [form EXCEPT !.open = TRUE, !.said = "nothing"]
  /\ UNCHANGED <<calls, server>>

\* handleNext: properties whose names would be no API names are kept back.
WizardNextStep ==
  /\ WizardAt(form.step) /\ form.step < 4
  /\ form.step = 2 => \A k \in 1..Len(form.rows) : form.rows[k].valid
  /\ form' = [form EXCEPT !.step = @ + 1, !.mapped = FALSE]
  /\ UNCHANGED <<calls, server>>

WizardBack ==
  /\ WizardAt(form.step) /\ form.step > 0
  /\ form' = [form EXCEPT !.step = @ - 1, !.mapped = FALSE]
  /\ UNCHANGED <<calls, server>>

\* A row of the table of datasets is clicked, one that is not in use.
WizardSelectDataset ==
  /\ WizardAt(0) /\ ~form.dataset
  /\ form' = [form EXCEPT !.dataset = TRUE]
  /\ UNCHANGED <<calls, server>>

\* The display name is entered or cleared; description and icon have defaults.
WizardEnterMetadata ==
  /\ WizardAt(1)
  /\ \E entered \in {form.entered \cup {"name"}, form.entered \ {"name"}} :
       form' = [form EXCEPT !.entered = entered]
  /\ UNCHANGED <<calls, server>>

\* An intended action is ticked or unticked.
WizardChooseActions ==
  /\ WizardAt(3)
  /\ form' = [form EXCEPT !.entered =
       IF "actions" \in @ THEN @ \ {"actions"} ELSE @ \cup {"actions"}]
  /\ UNCHANGED <<calls, server>>

\* The columns of the dataset have been loaded: they become properties, once
\* as long as the step is shown.
WizardMapColumns ==
  /\ WizardAt(2) /\ form.dataset /\ form.rows = <<>> /\ ~form.mapped
  /\ form' = [form EXCEPT
       !.rows = <<[valid |-> TRUE, keys |-> {}]>>,
       !.mapped = TRUE]
  /\ UNCHANGED <<calls, server>>

\* A property without a column is added.
WizardAddRow(valid) ==
  /\ WizardAt(2) /\ Len(form.rows) < MaxRows
  /\ form' = [form EXCEPT !.rows =
       Append(@, [valid |-> valid, keys |-> {}])]
  /\ UNCHANGED <<calls, server>>

WizardRemoveRow(k) ==
  /\ WizardAt(2) /\ k \in 1..Len(form.rows)
  /\ form' = [form EXCEPT !.rows = RemoveAt(@, k)]
  /\ UNCHANGED <<calls, server>>

WizardRenameRow(k, valid) ==
  /\ WizardAt(2) /\ k \in 1..Len(form.rows)
  /\ form' = [form EXCEPT !.rows[k].valid = valid]
  /\ UNCHANGED <<calls, server>>

\* handlePrimaryKeyChange, handleTitleKeyChange; no property is the key when
\* the choice is cleared, k = 0.
WizardWithKey(rows, key, k) ==
  [j \in 1..Len(rows) |->
     [rows[j] EXCEPT !.keys = IF j = k THEN @ \cup {key} ELSE @ \ {key}]]

WizardChooseKey(key, k) ==
  /\ WizardAt(2) /\ k \in 0..Len(form.rows)
  /\ form' = [form EXCEPT !.rows = WizardWithKey(@, key, k)]
  /\ UNCHANGED <<calls, server>>

-----------------------------------------------------------------------------
(* The handlers. *)

\* createPropertiesForObjectType: what is asked for the k-th property.
WizardRowRequests(rows, k) ==
  <<<<"property", k>>>>
    \o (IF "primary" \in rows[k].keys THEN <<<<"primary", k>>>> ELSE <<>>)
    \o (IF "title" \in rows[k].keys THEN <<<<"title", k>>>> ELSE <<>>)

\* executeCreate: all that is asked, in order.
WizardRequests(rows) ==
  <<<<"object", 0>>>> \o FlattenSeq([k \in 1..Len(rows) |-> WizardRowRequests(rows, k)])

\* The handler works with what the form holds when it is started.
WizardCall(button) ==
  [ask |-> "create", button |-> button, asks |-> WizardRequests(form.rows),
   at |-> 1, rid |-> 0]

WizardMayCreate == Len(server) + Len(calls) < MaxObjects   \* a bound

\* handleCreate: the button is disabled while isCreating is set.
WizardCreate ==
  /\ WizardAt(4) /\ "name" \in form.entered /\ ~form.creating
  /\ WizardMayCreate
  /\ Start(WizardCall("create"))
  /\ form' = [form EXCEPT !.creating = TRUE]
  /\ UNCHANGED server

\* handleClose with a display name: the same request; nothing disables it.
WizardCloseCreating ==
  /\ WizardShown /\ "name" \in form.entered
  /\ WizardMayCreate
  /\ Start(WizardCall("close"))
  /\ form' = [form EXCEPT !.creating = TRUE]
  /\ UNCHANGED server

\* handleClose without one.
WizardClose ==
  /\ WizardShown /\ "name" \notin form.entered
  /\ form' = WizardReset(form)
  /\ UNCHANGED <<calls, server>>

WizardCalled(i, state) == form.kind = "object type" /\ Waiting(i, state)

\* The server carries out the request that the handler is waiting for.
WizardServe(i) ==
  /\ WizardCalled(i, "sent")
  /\ LET c == calls[i] IN
     IF c.at = 1
     THEN /\ server' = Append(server, <<c.asks[1]>>)
          /\ calls' = [calls EXCEPT ![i].state = "done", ![i].rid = Len(server')]
     ELSE /\ server' = [server EXCEPT ![c.rid] = Append(@, c.asks[c.at])]
          /\ Answer(i, "done")
  /\ UNCHANGED form

WizardNextRequest(i) ==
  /\ WizardCalled(i, "done") /\ calls[i].at < Len(calls[i].asks)
  /\ SendNext(i, [calls[i] EXCEPT !.at = @ + 1])
  /\ UNCHANGED <<form, server>>

\* Everything has been created.
WizardEndWhole(i) ==
  /\ WizardCalled(i, "done") /\ calls[i].at = Len(calls[i].asks)
  /\ form' = [WizardReset(form) EXCEPT !.creating = FALSE,
                !.said = IF calls[i].button = "create" THEN "success" ELSE @]
  /\ Return(i)
  /\ UNCHANGED server

\* Mutant of WizardEndPartial: the failure of a property is no error.
WizardEndPartialSilently(i) ==
  /\ WizardCalled(i, "failed") /\ calls[i].at > 1
  /\ form' = [WizardReset(form) EXCEPT !.creating = FALSE,
                !.said = IF calls[i].button = "create" THEN "success" ELSE @]
  /\ Return(i)
  /\ UNCHANGED server

\* Mutant of WizardEndPartial: the other properties are still created.
WizardEndPartialGoingOn(i) ==
  /\ WizardCalled(i, "failed") /\ calls[i].at > 1
  /\ IF calls[i].at < Len(calls[i].asks)
     THEN SendNext(i, [calls[i] EXCEPT !.at = @ + 1]) /\ UNCHANGED form
     ELSE /\ form' = [WizardReset(form) EXCEPT !.creating = FALSE, !.said = "partial"]
          /\ Return(i)
  /\ UNCHANGED server

\* A property could not be created, or not made a key: the rest is left out.
WizardEndPartial(i) ==
  /\ WizardCalled(i, "failed") /\ calls[i].at > 1
  /\ form' = [WizardReset(form) EXCEPT !.creating = FALSE, !.said = "partial"]
  /\ Return(i)
  /\ UNCHANGED server

\* Mutant of WizardFail: the flag is reset after success only.
WizardFailStuck(i) ==
  /\ WizardCalled(i, "failed") /\ calls[i].at = 1
  /\ form' = IF calls[i].button = "close"
             THEN WizardReset(form)
             ELSE [form EXCEPT !.said = "error"]
  /\ Return(i)
  /\ UNCHANGED server

\* The object type could not be created: handleClose closes all the same,
\* handleCreate shows the error and keeps the dialog.
WizardFail(i) ==
  /\ WizardCalled(i, "failed") /\ calls[i].at = 1
  /\ form' = IF calls[i].button = "close"
             THEN [WizardReset(form) EXCEPT !.creating = FALSE]
             ELSE [form EXCEPT !.creating = FALSE, !.said = "error"]
  /\ Return(i)
  /\ UNCHANGED server

-----------------------------------------------------------------------------
WizardInit == form = WizardDefault /\ calls = <<>> /\ server = <<>>

WizardReturn(i) == WizardEndWhole(i) \/ WizardEndPartial(i) \/ WizardFail(i)

WizardNext ==
  \/ WizardOpen \/ WizardNextStep \/ WizardBack
  \/ WizardSelectDataset
  \/ WizardEnterMetadata \/ WizardChooseActions \/ WizardMapColumns
  \/ \E valid \in BOOLEAN : WizardAddRow(valid)
  \/ \E k \in 1..MaxRows : WizardRemoveRow(k)
  \/ \E k \in 1..MaxRows, valid \in BOOLEAN : WizardRenameRow(k, valid)
  \/ \E key \in Keys, k \in 0..MaxRows : WizardChooseKey(key, k)
  \/ WizardCreate \/ WizardCloseCreating \/ WizardClose
  \/ \E i \in 1..MaxCalls :
       \/ WizardServe(i) \/ WizardNextRequest(i)
       \/ WizardEndWhole(i) \/ WizardEndPartial(i) \/ WizardFail(i)

WizardSpec ==
  WizardInit /\ [][WizardNext \/ \E i \in 1..MaxCalls : Refuse(i) \/ LoseAnswer(i)]_vars

-----------------------------------------------------------------------------
(* Properties. *)

\* Wherever a creation stops, what the server holds is the beginning of a
\* form: no property without those before it, and no key without its property.
WizardLeavesABeginning ==
  form.kind = "object type" =>
    \A r \in 1..Len(server), n \in 1..MaxRows * 3 + 1 :
      n <= Len(server[r]) =>
        LET made == server[r]
            Before(m) == {made[j] : j \in 1..m - 1}
        IN  CASE made[n][1] = "object"   -> n = 1
              [] made[n][1] = "property" ->
                   \A k \in 1..made[n][2] - 1 : <<"property", k>> \in Before(n)
              [] OTHER -> made[n - 1][2] = made[n][2]

\* When a handler returns it announces success only if everything has been
\* created, and what it knows to be half done is reported, whichever button was used.
WizardTellsWhatItMade ==
  [][\A i \in 1..Len(calls) :
       (form.kind = "object type" /\ calls' = RemoveAt(calls, i)) =>
         LET c == calls[i]
             whole == c.rid # 0 /\ server[c.rid] = c.asks
         IN /\ form'.said = "success" /\ form.said # "success" => whole
            /\ c.at > 1 /\ ~whole => form'.said = "partial"]_vars

\* The button does not stay disabled.
WizardCreatingEnds ==
  []<>(form.kind = "object type" => ~form.creating)
=============================================================================
