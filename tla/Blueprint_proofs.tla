-------------------------- MODULE Blueprint_proofs --------------------------
(***************************************************************************)
(* That the requests of Blueprint, however they interleave, keep its       *)
(* safety invariants: for every number of clients and every set of items.  *)
(***************************************************************************)
EXTENDS Blueprint, TLAPS

USE DEF Idle, Begin, Take

\* What each step leaves as it is, request by request.
LEMMA StepCases ==
  ASSUME Next
  PROVE  \/ AddItems
         \/ \E t \in Clients :
              \/ BeginUpdateStatus(t) \/ BeginDecide(t) \/ BeginApply(t) \/ BeginRetry(t)
              \/ CommitUpdateStatus(t) \/ DecideNext(t) \/ CommitDecide(t)
              \/ ApplyNext(t) \/ CommitApply(t) \/ LockItem(t) \/ CommitRetry(t)
              \/ Fail(t)
BY DEF Next, Advance, Abort, BreakDeadlock

\* The request that ends leaves the others as they are.
LEMMA EndType ==
  ASSUME TypeOK, NEW t \in Clients, End(t)
  PROVE  /\ bpLock' \in Clients \cup {NoClient}
         /\ itemLock' \in [Items -> Clients \cup {NoClient}]
         /\ pc' \in [Clients -> Places]
         /\ choice' \in [Clients -> Statuses \cup Verdicts \cup {"none"}]
         /\ todo' \in [Clients -> SUBSET items]
         /\ written' \in [Clients -> SUBSET items]
BY DEF TypeOK, End, Places

LEMMA CreateType ==
  ASSUME TypeOK, NEW rows \in SUBSET items, Create(rows)
  PROVE  linked' \subseteq items /\ made' \in [Items -> Nat]
BY DEF TypeOK, Create

LEMMA TypeStep ==
  ASSUME IInv, [Next]_vars
  PROVE  TypeOK'
<1>0. TypeOK
  BY DEF IInv
<1>1. CASE UNCHANGED vars
  BY <1>0, <1>1 DEF vars, TypeOK, Statuses, Verdicts
<1>2. CASE AddItems
  BY <1>0, <1>2 DEF AddItems, TypeOK
<1>3. ASSUME NEW t \in Clients, BeginUpdateStatus(t) PROVE TypeOK'
  BY <1>0, <1>3 DEF BeginUpdateStatus, Transitions, TypeOK, Places, Statuses
<1>4. ASSUME NEW t \in Clients, BeginDecide(t) PROVE TypeOK'
  BY <1>0, <1>4 DEF BeginDecide, TypeOK, Places
<1>5. ASSUME NEW t \in Clients, BeginApply(t) PROVE TypeOK'
  BY <1>0, <1>5 DEF BeginApply, Actionable, TypeOK, Places
<1>6. ASSUME NEW t \in Clients, BeginRetry(t) PROVE TypeOK'
  BY <1>0, <1>6 DEF BeginRetry, TypeOK, Places
<1>7. ASSUME NEW t \in Clients, CommitUpdateStatus(t) PROVE TypeOK'
  <2>1. choice[t] \in Statuses
    BY <1>7 DEF IInv, RequestsRely, WritesArePossible, CommitUpdateStatus, Statuses
  <2> QED
    BY <1>0, <1>7, <2>1, EndType DEF CommitUpdateStatus, TypeOK
<1>8. ASSUME NEW t \in Clients, DecideNext(t) PROVE TypeOK'
  BY <1>0, <1>8 DEF DecideNext, TypeOK
<1>9. ASSUME NEW t \in Clients, CommitDecide(t) PROVE TypeOK'
  <2>1. choice[t] \in Verdicts
    BY <1>9 DEF IInv, RequestsRely, WritesArePossible, CommitDecide
  <2> QED
    BY <1>0, <1>9, <2>1, EndType DEF CommitDecide, TypeOK
<1>10. ASSUME NEW t \in Clients, ApplyNext(t) PROVE TypeOK'
  BY <1>0, <1>10 DEF ApplyNext, Phase, TypeOK
<1>11. ASSUME NEW t \in Clients, CommitApply(t) PROVE TypeOK'
  BY <1>0, <1>11, EndType, CreateType DEF CommitApply, TypeOK, Statuses
<1>12. ASSUME NEW t \in Clients, LockItem(t) PROVE TypeOK'
  BY <1>0, <1>12, EndType DEF LockItem, Fail, tableVars, TypeOK, Places
<1>13. ASSUME NEW t \in Clients, CommitRetry(t) PROVE TypeOK'
  <2>1. linked' \subseteq items /\ made' \in [Items -> Nat]
    BY <1>0, <1>13, CreateType DEF CommitRetry, TypeOK
  <2> QED
    BY <1>0, <1>13, <2>1, EndType DEF CommitRetry, TypeOK
<1>14. ASSUME NEW t \in Clients, Fail(t) PROVE TypeOK'
  BY <1>0, <1>14, EndType DEF Fail, tableVars, TypeOK
<1> QED
  BY <1>1, <1>2, <1>3, <1>4, <1>5, <1>6, <1>7, <1>8, <1>9, <1>10, <1>11, <1>12, <1>13,
     <1>14, StepCases

\* A request that ends takes nothing from those that go on.
LEMMA EndKeepsLocks ==
  ASSUME TypeOK, LocksAreHeld, NEW t \in Clients, End(t)
  PROVE  LocksAreHeld'
BY NobodyAssumption DEF TypeOK, LocksAreHeld, End

LEMMA LocksStep ==
  ASSUME IInv, [Next]_vars
  PROVE  LocksAreHeld'
<1>0. TypeOK /\ LocksAreHeld /\ WritesArePossible
  BY DEF IInv, RequestsRely
<1>1. CASE UNCHANGED vars
  BY <1>0, <1>1 DEF vars, LocksAreHeld
<1>2. CASE AddItems
  BY <1>0, <1>2 DEF AddItems, LocksAreHeld
<1>3. ASSUME NEW t \in Clients,
             BeginUpdateStatus(t) \/ BeginDecide(t) \/ BeginApply(t) \/ BeginRetry(t)
      PROVE  LocksAreHeld'
  BY <1>0, <1>3, NobodyAssumption
     DEF BeginUpdateStatus, BeginDecide, BeginApply, BeginRetry, TypeOK, LocksAreHeld
<1>4. ASSUME NEW t \in Clients, DecideNext(t) PROVE LocksAreHeld'
  BY <1>0, <1>4, NobodyAssumption DEF DecideNext, TypeOK, LocksAreHeld
<1>5. ASSUME NEW t \in Clients, ApplyNext(t) PROVE LocksAreHeld'
  BY <1>0, <1>5, NobodyAssumption DEF ApplyNext, Phase, TypeOK, LocksAreHeld
<1>6. ASSUME NEW t \in Clients, LockItem(t), ~Fail(t) PROVE LocksAreHeld'
  <2>1. PICK i \in todo[t] : itemLock[i] = NoClient /\ itemLock' = [itemLock EXCEPT ![i] = t]
    BY <1>6 DEF LockItem
  <2>2. todo[t] = {i}
    BY <1>0, <1>6, <2>1 DEF LockItem, WritesArePossible
  <2> QED
    BY <1>0, <1>6, <2>1, <2>2, NobodyAssumption DEF LockItem, TypeOK, LocksAreHeld
<1>7. ASSUME NEW t \in Clients, End(t) PROVE LocksAreHeld'
  BY <1>0, <1>7, EndKeepsLocks
<1> QED
  BY <1>1, <1>2, <1>3, <1>4, <1>5, <1>6, <1>7, StepCases
     DEF CommitUpdateStatus, CommitDecide, CommitApply, CommitRetry, Fail

\* A blueprint that is no draft does not become one again.
LEMMA NoDraftAgain ==
  ASSUME IInv, [Next]_vars, status # "draft"
  PROVE  status' # "draft"
<1>1. ASSUME NEW t \in Clients, CommitUpdateStatus(t) PROVE status' # "draft"
  BY <1>1 DEF CommitUpdateStatus, IInv, RequestsRely, WritesArePossible
<1>2. ASSUME NEW t \in Clients, CommitApply(t) PROVE status' # "draft"
  BY <1>2 DEF CommitApply
<1>3. ASSUME NEW t \in Clients,
             \/ BeginUpdateStatus(t) \/ BeginDecide(t) \/ BeginApply(t) \/ BeginRetry(t)
             \/ DecideNext(t) \/ CommitDecide(t) \/ ApplyNext(t) \/ LockItem(t)
             \/ CommitRetry(t) \/ Fail(t)
      PROVE  status' = status
  BY <1>3 DEF BeginUpdateStatus, BeginDecide, BeginApply, BeginRetry, DecideNext,
              CommitDecide, ApplyNext, LockItem, CommitRetry, Fail, tableVars
<1> QED
  BY <1>1, <1>2, <1>3, StepCases DEF AddItems, vars

LEMMA HeldStep ==
  ASSUME IInv, [Next]_vars
  PROVE  HeldRowsAreStill'
<1>0. TypeOK /\ LocksAreHeld /\ HeldRowsAreStill
  BY DEF IInv, RequestsRely
<1>1. CASE UNCHANGED vars
  BY <1>0, <1>1 DEF vars, HeldRowsAreStill, Actionable
<1>2. CASE AddItems
  BY <1>0, <1>2 DEF AddItems, HeldRowsAreStill, Actionable
<1>3. ASSUME NEW t \in Clients,
             BeginUpdateStatus(t) \/ BeginDecide(t) \/ BeginApply(t) \/ BeginRetry(t)
      PROVE  HeldRowsAreStill'
  BY <1>0, <1>3
     DEF BeginUpdateStatus, BeginDecide, BeginApply, BeginRetry, TypeOK,
         HeldRowsAreStill, Actionable
<1>4. ASSUME NEW t \in Clients, DecideNext(t) \/ ApplyNext(t) PROVE HeldRowsAreStill'
  BY <1>0, <1>4 DEF DecideNext, ApplyNext, TypeOK, HeldRowsAreStill, Actionable
<1>5. ASSUME NEW t \in Clients, Fail(t) PROVE HeldRowsAreStill'
  BY <1>0, <1>5 DEF Fail, End, tableVars, TypeOK, HeldRowsAreStill, Actionable
<1>6. ASSUME NEW t \in Clients, LockItem(t), ~Fail(t) PROVE HeldRowsAreStill'
  <2>1. todo[t] \subseteq Actionable \ linked
    BY <1>0, <1>6 DEF LockItem, IInv, RequestsRely, WritesArePossible
  <2> QED
    BY <1>0, <1>6, <2>1 DEF LockItem, TypeOK, HeldRowsAreStill, Actionable
<1>7. ASSUME NEW t \in Clients, CommitUpdateStatus(t) PROVE HeldRowsAreStill'
  BY <1>0, <1>7, NobodyAssumption
     DEF CommitUpdateStatus, End, TypeOK, LocksAreHeld, HeldRowsAreStill, Actionable
<1>8. ASSUME NEW t \in Clients, CommitDecide(t) PROVE HeldRowsAreStill'
  BY <1>0, <1>8
     DEF CommitDecide, End, TypeOK, LocksAreHeld, HeldRowsAreStill, Actionable
<1>9. ASSUME NEW t \in Clients, CommitApply(t) PROVE HeldRowsAreStill'
  BY <1>0, <1>9
     DEF CommitApply, Create, End, TypeOK, LocksAreHeld, HeldRowsAreStill, Actionable
<1>10. ASSUME NEW t \in Clients, CommitRetry(t) PROVE HeldRowsAreStill'
  BY <1>0, <1>10
     DEF CommitRetry, Create, End, TypeOK, LocksAreHeld, HeldRowsAreStill, Actionable
<1> QED
  BY <1>1, <1>2, <1>3, <1>4, <1>5, <1>6, <1>7, <1>8, <1>9, <1>10, StepCases

LEMMA WritesStep ==
  ASSUME IInv, [Next]_vars
  PROVE  WritesArePossible'
<1>0. TypeOK /\ WritesArePossible
  BY DEF IInv, RequestsRely
<1>1. CASE UNCHANGED vars
  BY <1>0, <1>1 DEF vars, WritesArePossible
<1>2. CASE AddItems
  BY <1>0, <1>2 DEF AddItems, WritesArePossible
<1>3. ASSUME NEW t \in Clients, BeginUpdateStatus(t) PROVE WritesArePossible'
  BY <1>0, <1>3 DEF BeginUpdateStatus, Transitions, TypeOK, WritesArePossible
<1>4. ASSUME NEW t \in Clients, BeginDecide(t) PROVE WritesArePossible'
  BY <1>0, <1>4 DEF BeginDecide, TypeOK, WritesArePossible
<1>5. ASSUME NEW t \in Clients, BeginApply(t) PROVE WritesArePossible'
  BY <1>0, <1>5 DEF BeginApply, TypeOK, WritesArePossible
<1>6. ASSUME NEW t \in Clients, BeginRetry(t) PROVE WritesArePossible'
  BY <1>0, <1>6 DEF BeginRetry, TypeOK, WritesArePossible
<1>7. ASSUME NEW t \in Clients, DecideNext(t) PROVE WritesArePossible'
  BY <1>0, <1>7 DEF DecideNext, TypeOK, WritesArePossible
<1>8. ASSUME NEW t \in Clients, ApplyNext(t) PROVE WritesArePossible'
  BY <1>0, <1>8 DEF ApplyNext, TypeOK, WritesArePossible
<1>9. ASSUME NEW t \in Clients, LockItem(t), ~Fail(t) PROVE WritesArePossible'
  BY <1>0, <1>9 DEF LockItem, TypeOK, WritesArePossible
<1>10. ASSUME NEW t \in Clients, End(t), UNCHANGED items PROVE WritesArePossible'
  BY <1>0, <1>10, NoDraftAgain DEF End, TypeOK, WritesArePossible
<1> QED
  BY <1>1, <1>2, <1>3, <1>4, <1>5, <1>6, <1>7, <1>8, <1>9, <1>10, StepCases
     DEF CommitUpdateStatus, CommitDecide, CommitApply, CommitRetry, Fail, tableVars

LEMMA ParentsStep ==
  ASSUME IInv, [Next]_vars
  PROVE  ParentsCreatedFirst'
<1>0. TypeOK /\ ParentsCreatedFirst /\ WritesArePossible
  BY DEF IInv, RequestsRely
<1>1. ASSUME UNCHANGED linked PROVE ParentsCreatedFirst'
  BY <1>0, <1>1 DEF ParentsCreatedFirst
<1>2. ASSUME NEW t \in Clients, CommitApply(t) PROVE ParentsCreatedFirst'
  <2>1. written[t] \subseteq ObjectTypeItems
    BY <1>0, <1>2, KindsAssumption DEF CommitApply, WritesArePossible
  <2>2. \A i \in written[t] : Parents[i] = {}
    BY <2>1, ParentsAssumption
  <2> QED
    BY <1>0, <1>2, <2>2 DEF CommitApply, Create, ParentsCreatedFirst
<1>3. ASSUME NEW t \in Clients, CommitRetry(t) PROVE ParentsCreatedFirst'
  BY <1>0, <1>3 DEF CommitRetry, Create, Resolved, ParentsCreatedFirst
<1>4. ASSUME NEW t \in Clients,
             \/ BeginUpdateStatus(t) \/ BeginDecide(t) \/ BeginApply(t) \/ BeginRetry(t)
             \/ CommitUpdateStatus(t) \/ DecideNext(t) \/ CommitDecide(t)
             \/ ApplyNext(t) \/ LockItem(t) \/ Fail(t)
      PROVE  UNCHANGED linked
  BY <1>4 DEF BeginUpdateStatus, BeginDecide, BeginApply, BeginRetry, CommitUpdateStatus,
              DecideNext, CommitDecide, ApplyNext, LockItem, Fail, tableVars
<1> QED
  BY <1>1, <1>2, <1>3, <1>4, StepCases DEF AddItems, vars

LEMMA DraftStep ==
  ASSUME IInv, [Next]_vars
  PROVE  DraftIsUntouched'
<1>0. TypeOK /\ HeldRowsAreStill /\ WritesArePossible
  BY DEF IInv, RequestsRely
<1>1. SUFFICES ASSUME status = "draft" PROVE DraftIsUntouched'
  BY NoDraftAgain DEF DraftIsUntouched
<1>2. Decided = {} /\ linked = {}
  BY <1>1 DEF IInv, DraftIsUntouched
<1>3. ASSUME UNCHANGED <<decision, linked>> PROVE DraftIsUntouched'
  BY <1>2, <1>3 DEF DraftIsUntouched, Decided
<1>4. ASSUME NEW t \in Clients, CommitDecide(t) \/ CommitApply(t) \/ CommitRetry(t)
      PROVE  FALSE
  BY <1>0, <1>1, <1>4
     DEF CommitDecide, CommitApply, CommitRetry, HeldRowsAreStill, WritesArePossible
<1>5. ASSUME NEW t \in Clients,
             \/ BeginUpdateStatus(t) \/ BeginDecide(t) \/ BeginApply(t) \/ BeginRetry(t)
             \/ CommitUpdateStatus(t) \/ DecideNext(t) \/ ApplyNext(t) \/ LockItem(t)
             \/ Fail(t)
      PROVE  UNCHANGED <<decision, linked>>
  BY <1>5 DEF BeginUpdateStatus, BeginDecide, BeginApply, BeginRetry, CommitUpdateStatus,
              DecideNext, ApplyNext, LockItem, Fail, tableVars
<1> QED
  BY <1>3, <1>4, <1>5, StepCases DEF AddItems, vars

LEMMA Initially ==
  ASSUME Init
  PROVE  IInv
BY DEF Init, IInv, TypeOK, RequestsRely, LocksAreHeld, HeldRowsAreStill,
       WritesArePossible, ParentsCreatedFirst, DraftIsUntouched, Decided, Statuses, Places

\* Every state satisfies the inductive invariant.
THEOREM Invariance == Spec => []IInv
<1>1. IInv /\ [Next]_vars => IInv'
  BY TypeStep, LocksStep, HeldStep, WritesStep, ParentsStep, DraftStep
     DEF IInv, RequestsRely
<1> QED
  BY <1>1, Initially, PTL DEF Spec

\* Every variable keeps its type.
THEOREM TypeCorrect == Spec => []TypeOK
BY Invariance, PTL DEF IInv

\* Whatever requests interleave, an application and a retry may rely on what
\* they hold, and no write has been overtaken into a draft.
THEOREM RequestsMayRely == Spec => []RequestsRely
BY Invariance, PTL DEF IInv

\* Whatever was created, what it refers to was created too.
THEOREM ParentsFirst == Spec => []ParentsCreatedFirst
BY Invariance, PTL DEF IInv

\* A draft blueprint has nothing decided and nothing created.
THEOREM DraftUntouched == Spec => []DraftIsUntouched
BY Invariance, PTL DEF IInv

\* A blueprint becomes applied only out of review and with something created.
THEOREM AppliedFromReview == Spec => AppliedOutOfReview
<1> DEFINE OutOfReview == status' = "applied" /\ status # "applied"
                            => status = "pending_review" /\ linked' # {}
<1>1. ASSUME IInv, [Next]_vars PROVE [OutOfReview]_vars
  <2>1. ASSUME NEW t \in Clients, CommitUpdateStatus(t) PROVE status' # "applied"
    BY <1>1, <2>1 DEF CommitUpdateStatus, IInv, RequestsRely, WritesArePossible
  <2>2. ASSUME NEW t \in Clients, CommitApply(t) PROVE OutOfReview
    BY <1>1, <2>2 DEF CommitApply, Create, IInv, RequestsRely, HeldRowsAreStill
  <2>3. ASSUME NEW t \in Clients,
               \/ BeginUpdateStatus(t) \/ BeginDecide(t) \/ BeginApply(t) \/ BeginRetry(t)
               \/ DecideNext(t) \/ CommitDecide(t) \/ ApplyNext(t) \/ LockItem(t)
               \/ CommitRetry(t) \/ Fail(t)
        PROVE  status' = status
    BY <2>3 DEF BeginUpdateStatus, BeginDecide, BeginApply, BeginRetry, DecideNext,
                CommitDecide, ApplyNext, LockItem, CommitRetry, Fail, tableVars
  <2> QED
    BY <1>1, <2>1, <2>2, <2>3, StepCases DEF AddItems
<1>2. (IInv /\ [Next]_vars) => [OutOfReview]_vars
  BY <1>1
<1> QED
  BY <1>2, Invariance, PTL DEF Spec, AppliedOutOfReview

\* No retry creates a second entity for an item that has one.
THEOREM RetriedOnce == Spec => RetryCreatesOnce
<1> DEFINE Once == \A t \in Clients :
                     CommitRetry(t) => \A i \in linked : made'[i] = made[i]
<1>1. ASSUME IInv PROVE Once
  <2>1. SUFFICES ASSUME NEW t \in Clients, CommitRetry(t), NEW i \in linked
                 PROVE  made'[i] = made[i]
    OBVIOUS
  <2>2. i \in Items /\ i \notin todo[t]
    BY <1>1, <2>1 DEF IInv, TypeOK, RequestsRely, HeldRowsAreStill, CommitRetry
  <2> QED
    BY <2>1, <2>2 DEF CommitRetry, Create
<1>2. (IInv /\ [Next]_vars) => [Once]_vars
  BY <1>1
<1> QED
  BY <1>2, Invariance, PTL DEF Spec, RetryCreatesOnce
=============================================================================
