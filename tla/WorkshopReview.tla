--------------------------- MODULE WorkshopReview ---------------------------
(***************************************************************************)
(* The review of a blueprint in the workshop: its items are accepted,      *)
(* edited or rejected one at a time or together, then the blueprint is     *)
(* applied, and items that failed can be tried again or skipped.  What is  *)
(* shown is the blueprint as it was last loaded; each change that succeeds *)
(* has it loaded again.  Other users decide, apply and discard meanwhile.  *)
(* Blueprint has the server's side in detail.                              *)
(***************************************************************************)
EXTENDS Screen

CONSTANTS
  Items   \* the blueprint's items

\* loaded: the blueprint that is shown.  fetching: it is being loaded again, fetched
\* being the answer on its way.  The dialog of an application has its stage, whether
\* a conflict blocks it, the result by item, and the failed items that the user
\* has skipped.  The selection, the filter and the tab are left out: the selection
\* keeps rows that are decided later and rows that a filter hides, so that it may
\* be any set of rows.
ReviewDefault(blueprint) ==
  [kind |-> "review", loaded |-> blueprint, fetching |-> FALSE, fetched |-> None,
   dialog |-> "closed", blocked |-> FALSE, result |-> <<>>, skipped |-> {}]

Reviewing == form.kind = "review" /\ form.loaded.status = "pending_review"

\* The table and the toolbar can be used.
TableUsable == Reviewing /\ form.dialog = "closed"

ReviewPending(asks) == \E i \in 1..Len(calls) : calls[i].ask \in asks /\ calls[i].shown

ReviewStart(call) == Start(With(call, "shown", TRUE))

\* invalidateBlueprintCache: an older answer is not waited for.
Reloading == [form EXCEPT !.fetching = TRUE, !.fetched = None]

Undecided(blueprint) == {i \in Items : blueprint.decision[i] = None}
ToCreate(blueprint) == {i \in Items : blueprint.decision[i] = "accepted"}

-----------------------------------------------------------------------------
(* Decisions. *)

\* handleAccept.  A row is locked when its decision has been loaded, not when it
\* has been sent.
ReviewAccept(i) ==
  /\ TableUsable /\ i \in Undecided(form.loaded)
  /\ ReviewStart([ask |-> "decide", items |-> {i}, verdict |-> "accepted"])
  /\ UNCHANGED <<form, server>>

\* The confirmation of a row's question for the reason, which may have been asked
\* before a decision on the row was loaded.
ReviewReject(i) ==
  /\ TableUsable
  /\ ReviewStart([ask |-> "decide", items |-> {i}, verdict |-> "rejected"])
  /\ UNCHANGED <<form, server>>

\* handleSubmit of a row's form, which may have been opened before a decision on
\* the row was loaded.  An edited item is applied as an accepted one.
ReviewEditSubmit(i) ==
  /\ TableUsable
  /\ ~\E k \in 1..Len(calls) : calls[k].ask = "edit" /\ calls[k].items = {i}
  /\ ReviewStart([ask |-> "edit", items |-> {i}, verdict |-> "accepted"])
  /\ UNCHANGED <<form, server>>

\* The items that are not decided, those that the filter hides as well.
ReviewAcceptAll ==
  /\ TableUsable /\ Undecided(form.loaded) # {} /\ ~ReviewPending({"batch"})
  /\ ReviewStart([ask |-> "batch", items |-> Undecided(form.loaded), verdict |-> "accepted"])
  /\ UNCHANGED <<form, server>>

ReviewRejectSelected(selected) ==
  /\ TableUsable /\ selected # {} /\ ~ReviewPending({"batch"})
  /\ ReviewStart([ask |-> "batch", items |-> selected, verdict |-> "rejected"])
  /\ UNCHANGED <<form, server>>

\* A decision has been made: the blueprint is loaded again.
ReviewDecided(i) ==
  /\ form.kind = "review" /\ Waiting(i, "done")
  /\ calls[i].ask \in {"decide", "edit", "batch"}
  /\ form' = Reloading
  /\ Return(i)
  /\ UNCHANGED server

\* handleDiscard, after the question.
ReviewDiscard ==
  /\ TableUsable
  /\ ReviewStart([ask |-> "discard"])
  /\ UNCHANGED <<form, server>>

\* The page turns to the other tab; on this one it shows the blueprint as before.
ReviewDiscarded(i) ==
  /\ form.kind = "review" /\ Waiting(i, "done") /\ calls[i].ask = "discard"
  /\ Return(i)
  /\ UNCHANGED <<form, server>>

-----------------------------------------------------------------------------
(* Application. *)

\* The dialog is gone with the result it showed, and what its handlers still wait
\* for is not shown any more.
DialogGone(f) ==
  [f EXCEPT !.dialog = "closed", !.blocked = FALSE, !.result = <<>>, !.skipped = {}]
CallsOfDialogGone ==
  [i \in 1..Len(calls) |->
     IF calls[i].ask \in {"precheck", "apply", "retry"}
     THEN [calls[i] EXCEPT !.shown = FALSE] ELSE calls[i]]

ApplyOpen ==
  /\ TableUsable /\ ToCreate(form.loaded) # {}
  /\ ReviewStart([ask |-> "precheck"])
  /\ form' = [form EXCEPT !.dialog = "precheck"]
  /\ UNCHANGED server

\* runApply, at once when there is no conflict.
ApplyChecked(i) ==
  /\ form.kind = "review" /\ Waiting(i, "done") /\ calls[i].ask = "precheck"
  /\ IF ~calls[i].shown THEN Return(i) /\ UNCHANGED form
     ELSE IF calls[i].conflict = "none"
     THEN /\ SendNext(i, [ask |-> "apply", shown |-> TRUE, state |-> "sent"])
          /\ form' = [form EXCEPT !.dialog = "applying"]
     ELSE /\ Return(i)
          /\ form' = [form EXCEPT !.dialog = "conflicts",
                                  !.blocked = calls[i].conflict = "dependency"]
  /\ UNCHANGED server

ApplyAnyway ==
  /\ form.kind = "review" /\ form.dialog = "conflicts" /\ ~form.blocked
  /\ ReviewStart([ask |-> "apply"])
  /\ form' = [form EXCEPT !.dialog = "applying"]
  /\ UNCHANGED server

\* The result is shown, and the blueprint is loaded again.
Applied(i) ==
  /\ form.kind = "review" /\ Waiting(i, "done") /\ calls[i].ask = "apply"
  /\ form' = IF calls[i].shown
             THEN [Reloading EXCEPT !.dialog = "result", !.result = calls[i].result]
             ELSE Reloading
  /\ Return(i)
  /\ UNCHANGED server

FailedShown == {i \in DOMAIN form.result : form.result[i] = "failed"} \ form.skipped

ApplyRetry(i) ==
  /\ form.kind = "review" /\ form.dialog = "result" /\ i \in FailedShown
  /\ ~ReviewPending({"retry"})
  /\ ReviewStart([ask |-> "retry", items |-> {i}, result |-> form.result])
  /\ UNCHANGED <<form, server>>

\* Mutant of ApplyRetried: an answer is taken for a success, as elsewhere.
ApplyRetriedAlways(i) ==
  /\ form.kind = "review" /\ Waiting(i, "done") /\ calls[i].ask = "retry"
  /\ form' = IF calls[i].shown
             THEN [Reloading EXCEPT !.result =
                     [calls[i].result EXCEPT ![CHOOSE k \in calls[i].items : TRUE] = "success"]]
             ELSE Reloading
  /\ Return(i)
  /\ UNCHANGED server

\* handleRetry: the answer tells whether the item has been created.  It is put
\* into the result as it was when the item was tried again.
ApplyRetried(i) ==
  /\ form.kind = "review" /\ Waiting(i, "done") /\ calls[i].ask = "retry"
  /\ form' = IF calls[i].shown /\ calls[i].created
             THEN [Reloading EXCEPT !.result =
                     [calls[i].result EXCEPT ![CHOOSE k \in calls[i].items : TRUE] = "success"]]
             ELSE Reloading
  /\ Return(i)
  /\ UNCHANGED server

ApplySkip(i) ==
  /\ form.kind = "review" /\ form.dialog = "result" /\ i \in FailedShown
  /\ form' = [form EXCEPT !.skipped = @ \cup {i}]
  /\ UNCHANGED <<calls, server>>

\* By its buttons when there is a result or a conflict, by the escape key always.
ApplyClose ==
  /\ form.kind = "review" /\ form.dialog # "closed"
  /\ form' = DialogGone(form)
  /\ calls' = CallsOfDialogGone
  /\ UNCHANGED server

\* An error is announced; the dialog stays at the stage it was at.
ReviewFailed(i) ==
  /\ form.kind = "review" /\ Waiting(i, "failed")
  /\ Return(i)
  /\ UNCHANGED <<form, server>>

-----------------------------------------------------------------------------
(* Loading. *)

ReviewFetch ==
  /\ form.kind = "review" /\ form.fetching /\ form.fetched = None
  /\ form' = [form EXCEPT !.fetched = server]
  /\ UNCHANGED <<calls, server>>

\* An error leaves what was loaded before.
ReviewFetchFails ==
  /\ form.kind = "review" /\ form.fetching
  /\ form' = [form EXCEPT !.fetching = FALSE, !.fetched = None]
  /\ UNCHANGED <<calls, server>>

\* The dialog belongs to the toolbar, which a blueprint under review has only:
\* an applied one shows a summary instead, a discarded one nothing.
ReviewLoaded ==
  /\ form.kind = "review" /\ form.fetched # None
  /\ LET loaded == [form EXCEPT !.loaded = form.fetched, !.fetching = FALSE,
                                    !.fetched = None]
     IN  IF form.fetched.status = "pending_review"
         THEN form' = loaded /\ UNCHANGED calls
         ELSE /\ form' = DialogGone(loaded)
              /\ calls' = CallsOfDialogGone
  /\ UNCHANGED server

-----------------------------------------------------------------------------
(* The server. *)

\* What an application makes of the items: an item is skipped when one that it
\* needs has failed.
Outcomes ==
  {result \in [ToCreate(server) -> {"success", "failed", "skipped"}] :
     (\E i \in DOMAIN result : result[i] = "skipped")
       => \E i \in DOMAIN result : result[i] = "failed"}

Created(result) == {i \in DOMAIN result : result[i] = "success"}

\* A decided item is passed over by a decision on several, and refused singly.
ReviewServe(i) ==
  /\ form.kind = "review" /\ Waiting(i, "sent")
  /\ server.status = IF calls[i].ask = "retry" THEN "applied" ELSE "pending_review"
  /\ CASE calls[i].ask \in {"decide", "edit", "batch"} ->
            /\ calls[i].ask = "batch" \/ calls[i].items \subseteq Undecided(server)
            /\ server' = [server EXCEPT !.decision =
                 [k \in Items |-> IF k \in calls[i].items \cap Undecided(server)
                                  THEN calls[i].verdict ELSE @[k]]]
            /\ Answer(i, "done")
       [] calls[i].ask = "discard" ->
            server' = [server EXCEPT !.status = "discarded"] /\ Answer(i, "done")
       [] calls[i].ask = "precheck" ->
            /\ \E conflict \in {"none", "name", "dependency"} :
                 calls' = [calls EXCEPT ![i] =
                   With([@ EXCEPT !.state = "done"], "conflict", conflict)]
            /\ UNCHANGED server
       [] calls[i].ask = "apply" ->
            /\ ToCreate(server) # {}
            /\ \E result \in Outcomes :
                 /\ calls' = [calls EXCEPT ![i] =
                      With([@ EXCEPT !.state = "done"], "result", result)]
                 /\ server' = [server EXCEPT
                      !.status = IF Created(result) # {} THEN "applied" ELSE @,
                      !.created = @ \cup Created(result)]
       [] calls[i].ask = "retry" ->
            /\ calls[i].items \subseteq ToCreate(server) \ server.created
            /\ \E created \in BOOLEAN :
                 /\ calls' = [calls EXCEPT ![i] =
                      With([@ EXCEPT !.state = "done"], "created", created)]
                 /\ server' = [server EXCEPT !.created =
                      IF created THEN @ \cup calls[i].items ELSE @]
  /\ UNCHANGED form

\* Another user decides, applies or discards.
ReviewElsewhere ==
  /\ form.kind = "review" /\ server.status = "pending_review"
  /\ \/ \E k \in Undecided(server), verdict \in {"accepted", "rejected"} :
          server' = [server EXCEPT !.decision[k] = verdict]
     \/ server' = [server EXCEPT !.status = "discarded"]
     \/ \E result \in Outcomes :
          /\ Created(result) # {}
          /\ server' = [server EXCEPT !.status = "applied", !.created = Created(result)]
  /\ UNCHANGED <<form, calls>>

ReviewInit ==
  /\ server = [status |-> "pending_review", decision |-> [i \in Items |-> None], created |-> {}]
  /\ form = ReviewDefault(server)
  /\ calls = <<>>

ReviewNext ==
  \/ ReviewAcceptAll \/ ReviewDiscard
  \/ ApplyOpen \/ ApplyAnyway \/ ApplyClose
  \/ ReviewFetch \/ ReviewFetchFails \/ ReviewLoaded \/ ReviewElsewhere
  \/ \E selected \in SUBSET Items : ReviewRejectSelected(selected)
  \/ \E i \in Items :
       \/ ReviewAccept(i) \/ ReviewReject(i) \/ ReviewEditSubmit(i)
       \/ ApplyRetry(i) \/ ApplySkip(i)
  \/ \E i \in 1..MaxCalls :
       \/ ReviewDecided(i) \/ ReviewDiscarded(i) \/ ApplyChecked(i) \/ Applied(i)
       \/ ApplyRetried(i) \/ ReviewFailed(i) \/ ReviewServe(i)

ReviewSpec ==
  ReviewInit /\ [][ReviewNext \/ \E i \in 1..MaxCalls : Refuse(i) \/ LoseAnswer(i)]_vars

-----------------------------------------------------------------------------
(* Properties. *)

\* What the dialog calls created has been created, although answers come late,
\* into a dialog that has been closed and opened again, and an item that is tried
\* again may fail again in an answer that is no error.
ResultIsTrue ==
  form.kind = "review" /\ form.dialog = "result" =>
    Created(form.result) \subseteq server.created

(* A promise that the code does not keep *)

\* The result of an application is shown until the user closes the dialog, as
\* long as it has items that can be tried again or skipped.
ResultStays ==
  [][form.kind = "review" /\ form.dialog = "result" /\ FailedShown # {}
       => form'.dialog = "result" \/ ApplyClose]_vars
=============================================================================
