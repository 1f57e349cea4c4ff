------------------------------ MODULE MCDialogs ------------------------------
(***************************************************************************)
(* The dialogs of the web client that must come to an end, for TLC: each   *)
(* behaviour of Spec shows one.                                            *)
(***************************************************************************)
EXTENDS ObjectTypeWizard, Imports, Connections, AgentChat

\* The server answers, and a handler that has its answer goes on.
Answers(i) ==
  Refuse(i) \/ WizardServe(i) \/ ImportServe(i) \/ ConnectionServe(i) \/ ChatServe(i)
GoesOn(i) ==
  \/ FileUploaded(i) \/ FileStarted(i) \/ MySQLStarted(i) \/ LiveRegistered(i) \/ ImportFailed(i)
  \/ WizardNextRequest(i) \/ WizardReturn(i)
  \/ ChatEnds(i)
  \/ ConnectionTested(i) \/ ConnectionSaved(i) \/ RowTested(i) \/ ConnectionEnds(i)

\* A bound: the sheet and the header are chosen before the first import, while no
\* request is under way.
ImportBounded ==
  /\ ImportNext
  /\ server # <<>> \/ calls # <<>> =>
       \/ form'.open # form.open \/ calls' # calls
       \/ form'.sheet = form.sheet /\ form'.header = form.header

Init == WizardInit \/ ImportInit \/ ConnectionInit \/ ChatInit
Next ==
  \/ WizardNext \/ ImportBounded \/ ConnectionNext \/ ChatNext
  \/ \E i \in 1..MaxCalls : Refuse(i) \/ LoseAnswer(i)

Spec == Init /\ [][Next]_vars

FairSpec ==
  /\ Spec
  /\ \A i \in 1..MaxCalls : WF_vars(Answers(i)) /\ WF_vars(GoesOn(i))
  /\ WF_vars(FilePoll \/ MySQLPoll)
==============================================================================
