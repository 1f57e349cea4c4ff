------------------------------- MODULE Screen -------------------------------
(***************************************************************************)
(* What the dialogs of the web client have in common.  A dialog shows a    *)
(* form; its event handlers are asynchronous functions that send requests, *)
(* wait for each answer and go on.  While a handler waits the user goes on *)
(* using the form, and may start other handlers, or close the dialog and   *)
(* open it again.                                                          *)
(*                                                                         *)
(* A module per dialog EXTENDS this one.  MCDialogs puts them together:    *)
(* each behaviour shows one dialog.                                        *)
(***************************************************************************)
EXTENDS Naturals, FiniteSets, Sequences, SequencesExt

CONSTANTS
  MaxCalls,   \* bound: handlers under way at a time
  None        \* null and undefined

ASSUME MaxCallsAssumption == MaxCalls \in Nat \ {0}

VARIABLES
  form,    \* the dialog's state: its stores and the state of its components
  calls,   \* the handlers under way, in the order in which they were started
  server   \* what the server holds as the result of the dialog's requests

vars == <<form, calls, server>>

\* A record with one more field, or with another value of it.
With(record, field, value) ==
  [x \in DOMAIN record \cup {field} |-> IF x = field THEN value ELSE record[x]]

\* Each handler waits for one answer at a time: its request has been sent, or
\* carried out, or it has failed.
Start(call) ==
  /\ Len(calls) < MaxCalls
  /\ calls' = Append(calls, With(call, "state", "sent"))

\* The answer to the i-th handler's request is on its way.
Answer(i, state) == calls' = [calls EXCEPT ![i].state = state]

\* The i-th handler sends its next request, call being its new state.
SendNext(i, call) == calls' = [calls EXCEPT ![i] = [call EXCEPT !.state = "sent"]]

\* The i-th handler returns.
Return(i) == calls' = RemoveAt(calls, i)

Waiting(i, state) == i \in 1..Len(calls) /\ calls[i].state = state

\* The server refuses a request, or the request is lost on its way.
Refuse(i) ==
  /\ Waiting(i, "sent")
  /\ Answer(i, "failed")
  /\ UNCHANGED <<form, server>>

\* The request has been carried out, but the answer is lost: the handler sees
\* an error.
LoseAnswer(i) ==
  /\ Waiting(i, "done")
  /\ Answer(i, "failed")
  /\ UNCHANGED <<form, server>>
=============================================================================
