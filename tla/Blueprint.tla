----------------------------- MODULE Blueprint -----------------------------
(***************************************************************************)
(* One blueprint: the list of suggestions that the agent makes for an      *)
(* ontology, the review in which each is accepted or rejected, the         *)
(* application that creates what was accepted, and the retrying of what    *)
(* could not be created.                                                   *)
(*                                                                         *)
(* Each request is one transaction, as in WorkingState.  Only application  *)
(* reads the blueprint FOR UPDATE, and only a retry its item; a change of  *)
(* status and a decision check an unlocked read and write later.  The      *)
(* ontology is left out: an entity is created, or the request for it is    *)
(* refused.                                                                *)
(***************************************************************************)
EXTENDS Naturals, FiniteSets

CONSTANTS
  Clients,          \* those who may have one request in progress each
  NoClient,         \* nobody
  ObjectTypeItems,  \* suggestions of an object type,
  PropertyItems,    \* of a property
  LinkTypeItems,    \* and of a link type
  Parents,          \* item -> the items whose placeholders it names
  Fit               \* object types that the ontology accepts as suggested

Items == ObjectTypeItems \cup PropertyItems \cup LinkTypeItems

ASSUME NobodyAssumption == NoClient \notin Clients
ASSUME KindsAssumption ==
  /\ ObjectTypeItems \cap (PropertyItems \cup LinkTypeItems) = {}
  /\ PropertyItems \cap LinkTypeItems = {}
  /\ Fit \subseteq ObjectTypeItems
ASSUME ParentsAssumption ==
  /\ Parents \in [Items -> SUBSET ObjectTypeItems]
  /\ \A i \in ObjectTypeItems : Parents[i] = {}

VARIABLES
  status,     \* blueprints.status
  items,      \* the rows of blueprint_items
  decision,   \* item -> user_decision; "accepted" stands for "edited" as well
  linked,     \* items with a created_entity_rid
  made,       \* item -> number of entities created for it
  bpLock,     \* the request that has selected the blueprint FOR UPDATE
  itemLock,   \* item -> the request that has written or locked its row
  pc, choice, todo, written   \* each request's own state

tableVars == <<status, items, decision, linked, made>>
vars == <<status, items, decision, linked, made, bpLock, itemLock,
          pc, choice, todo, written>>

Statuses == {"draft", "pending_review", "applied", "discarded"}
Verdicts == {"accepted", "rejected"}

\* Mutant of Transitions: a review may be called off.
TransitionsBack(s) ==
  CASE s = "draft" -> {"pending_review"}
    [] s = "pending_review" -> {"discarded", "draft"}
    [] OTHER -> {}

\* _VALID_TRANSITIONS
Transitions(s) ==
  CASE s = "draft" -> {"pending_review"}
    [] s = "pending_review" -> {"discarded"}
    [] OTHER -> {}

Decided    == {i \in Items : decision[i] # "none"}
Actionable == {i \in items : decision[i] = "accepted"}

-----------------------------------------------------------------------------
(* Beginning and ending a request *)

Idle(t) == pc[t] = "idle"

Begin(t, where, what, rows) ==
  /\ Idle(t)
  /\ pc' = [pc EXCEPT ![t] = where]
  /\ choice' = [choice EXCEPT ![t] = what]
  /\ todo' = [todo EXCEPT ![t] = rows]
  /\ UNCHANGED <<status, items, decision, linked, made, itemLock, written>>

\* Mutant of End: the rows of the items stay locked.
EndHoldingItems(t) ==
  /\ pc' = [pc EXCEPT ![t] = "idle"]
  /\ choice' = [choice EXCEPT ![t] = "none"]
  /\ todo' = [todo EXCEPT ![t] = {}]
  /\ written' = [written EXCEPT ![t] = {}]
  /\ bpLock' = IF bpLock = t THEN NoClient ELSE bpLock
  /\ UNCHANGED itemLock

\* The session is closed: its locks are released.
End(t) ==
  /\ pc' = [pc EXCEPT ![t] = "idle"]
  /\ choice' = [choice EXCEPT ![t] = "none"]
  /\ todo' = [todo EXCEPT ![t] = {}]
  /\ written' = [written EXCEPT ![t] = {}]
  /\ bpLock' = IF bpLock = t THEN NoClient ELSE bpLock
  /\ itemLock' = [i \in Items |-> IF itemLock[i] = t THEN NoClient ELSE itemLock[i]]

\* An error: the transaction is rolled back.
Fail(t) == End(t) /\ UNCHANGED tableVars

Abort(t) == ~Idle(t) /\ Fail(t)

\* The request writes or locks the row of an item, which waits for the one
\* that has it.
Take(t, i) ==
  /\ itemLock[i] = NoClient
  /\ itemLock' = [itemLock EXCEPT ![i] = t]

\* Entities are created for these items, and the items linked to them.
Create(rows) ==
  /\ linked' = linked \cup rows
  /\ made' = [i \in Items |-> IF i \in rows THEN made[i] + 1 ELSE made[i]]

-----------------------------------------------------------------------------
(* The agent's suggestions and the status *)

\* POST of items, at any status: the foreign key waits for an application.
AddItems ==
  /\ bpLock = NoClient
  /\ \E rows \in SUBSET (Items \ items) \ {{}} : items' = items \cup rows
  /\ UNCHANGED <<status, decision, linked, made, bpLock, itemLock,
                 pc, choice, todo, written>>

\* PATCH of the blueprint: the transition is checked against an unlocked read ...
BeginUpdateStatus(t) ==
  \E to \in Transitions(status) :
    Begin(t, "status", to, {}) /\ UNCHANGED bpLock

\* ... and written over whatever the status is by then.
CommitUpdateStatus(t) ==
  /\ pc[t] = "status"
  /\ bpLock = NoClient
  /\ status' = choice[t]
  /\ End(t)
  /\ UNCHANGED <<items, decision, linked, made>>

-----------------------------------------------------------------------------
(* The review *)

\* Mutant of BeginDecide: an item need not be of the blueprint.
BeginDecideAnything(t) ==
  /\ status = "pending_review"
  /\ \E rows \in SUBSET (Items \ Decided) \ {{}}, verdict \in Verdicts :
       Begin(t, "decide", verdict, rows) /\ UNCHANGED bpLock

\* A decision on one item, or on all the undecided ones of a selection: what
\* is undecided is an unlocked read.
BeginDecide(t) ==
  /\ status = "pending_review"
  /\ \E rows \in SUBSET (items \ Decided) \ {{}}, verdict \in Verdicts :
       Begin(t, "decide", verdict, rows) /\ UNCHANGED bpLock

\* One UPDATE, in whatever order the rows came.
DecideNext(t) ==
  /\ pc[t] = "decide"
  /\ \E i \in todo[t] :
       /\ Take(t, i)
       /\ todo' = [todo EXCEPT ![t] = @ \ {i}]
       /\ written' = [written EXCEPT ![t] = @ \cup {i}]
  /\ UNCHANGED <<status, items, decision, linked, made, bpLock, pc, choice>>

CommitDecide(t) ==
  /\ pc[t] = "decide"
  /\ todo[t] = {}
  /\ decision' = [i \in Items |-> IF i \in written[t] THEN choice[t] ELSE decision[i]]
  /\ End(t)
  /\ UNCHANGED <<status, items, linked, made>>

-----------------------------------------------------------------------------
(* Application *)

\* Mutants of BeginApply: the blueprint is read without its lock; a blueprint
\* with nothing accepted is applied.
BeginApplyUnlocked(t) ==
  /\ status = "pending_review"
  /\ Actionable # {}
  /\ Begin(t, "apply", "none", Actionable)
  /\ UNCHANGED bpLock

\* The blueprint is selected FOR UPDATE, then its items are read.
BeginApply(t) ==
  /\ bpLock = NoClient
  /\ status = "pending_review"
  /\ Actionable # {}
  /\ Begin(t, "apply", "none", Actionable)
  /\ bpLock' = t

\* Object types come first, then properties, then link types.
Phase(rows) ==
  IF rows \cap ObjectTypeItems # {} THEN rows \cap ObjectTypeItems
  ELSE IF rows \cap PropertyItems # {} THEN rows \cap PropertyItems
  ELSE rows

\* One turn of the loops of apply.  An object type that does not fit fails.
\* Properties and link types fail or are skipped: the requests that apply
\* builds for them have not all their required fields.
ApplyNext(t) ==
  /\ pc[t] = "apply"
  /\ \E i \in Phase(todo[t]) :
       /\ todo' = [todo EXCEPT ![t] = @ \ {i}]
       /\ \/ /\ i \in Fit
             /\ Take(t, i)
             /\ written' = [written EXCEPT ![t] = @ \cup {i}]
          \/ /\ i \notin Fit
             /\ UNCHANGED <<itemLock, written>>
  /\ UNCHANGED <<status, items, decision, linked, made, bpLock, pc, choice>>

\* Mutant of CommitApply: the blueprint is applied whatever came of its items.
CommitApplyAnyway(t) ==
  /\ pc[t] = "apply"
  /\ todo[t] = {}
  /\ Create(written[t])
  /\ status' = "applied"
  /\ End(t)
  /\ UNCHANGED <<items, decision>>

\* The blueprint is applied if anything was created.
CommitApply(t) ==
  /\ pc[t] = "apply"
  /\ todo[t] = {}
  /\ Create(written[t])
  /\ status' = IF written[t] # {} THEN "applied" ELSE status
  /\ End(t)
  /\ UNCHANGED <<items, decision>>

-----------------------------------------------------------------------------
(* Retrying *)

BeginRetry(t) ==
  /\ status = "applied"
  /\ \E i \in items : Begin(t, "lockitem", "none", {i})
  /\ UNCHANGED bpLock

\* Mutant of LockItem: it does not look whether the item was created meanwhile.
LockLinkedItem(t) ==
  /\ pc[t] = "lockitem"
  /\ \E i \in todo[t] :
       /\ itemLock[i] = NoClient
       /\ \/ /\ i \in Actionable
             /\ Take(t, i)
             /\ pc' = [pc EXCEPT ![t] = "retry"]
             /\ UNCHANGED <<status, items, decision, linked, made, bpLock,
                            choice, todo, written>>
          \/ /\ i \notin Actionable
             /\ Fail(t)

\* The item is selected FOR UPDATE: only an accepted one that has no entity
\* yet may be retried.
LockItem(t) ==
  /\ pc[t] = "lockitem"
  /\ \E i \in todo[t] :
       /\ itemLock[i] = NoClient
       /\ \/ /\ i \in Actionable \ linked
             /\ Take(t, i)
             /\ pc' = [pc EXCEPT ![t] = "retry"]
             /\ UNCHANGED <<status, items, decision, linked, made, bpLock,
                            choice, todo, written>>
          \/ /\ i \notin Actionable \ linked
             /\ Fail(t)

\* Mutant of Resolved: accepted items count as created.
ResolvedByAcceptance(i) == Parents[i] \subseteq Actionable

\* Every placeholder that the item names stands for something created.
Resolved(i) == Parents[i] \subseteq linked

\* What the user has edited decides whether the ontology accepts the entity;
\* a property's request has not all its required fields.
CommitRetry(t) ==
  /\ pc[t] = "retry"
  /\ \E i \in todo[t] :
       \/ /\ i \notin PropertyItems
          /\ Resolved(i)
          /\ Create({i})
       \/ UNCHANGED <<linked, made>>
  /\ End(t)
  /\ UNCHANGED <<status, items, decision>>

-----------------------------------------------------------------------------
Init ==
  /\ status = "draft"
  /\ items = {}
  /\ decision = [i \in Items |-> "none"]
  /\ linked = {}
  /\ made = [i \in Items |-> 0]
  /\ bpLock = NoClient
  /\ itemLock = [i \in Items |-> NoClient]
  /\ pc = [t \in Clients |-> "idle"]
  /\ choice = [t \in Clients |-> "none"]
  /\ todo = [t \in Clients |-> {}]
  /\ written = [t \in Clients |-> {}]

\* A step of a request that has begun.
Advance(t) ==
  \/ CommitUpdateStatus(t)
  \/ DecideNext(t) \/ CommitDecide(t)
  \/ ApplyNext(t) \/ CommitApply(t)
  \/ LockItem(t) \/ CommitRetry(t)

\* The request waits for what u holds.
WaitsFor(t, u) ==
  \/ pc[t] = "status" /\ bpLock = u
  \/ /\ pc[t] \in {"decide", "lockitem"}
     /\ todo[t] # {}
     /\ \A i \in todo[t] : itemLock[i] # NoClient
     /\ \E i \in todo[t] : itemLock[i] = u
  \/ /\ pc[t] = "apply"
     /\ todo[t] # {}
     /\ \A i \in Phase(todo[t]) : i \in Fit /\ itemLock[i] # NoClient
     /\ \E i \in Phase(todo[t]) : itemLock[i] = u

\* Requests each of which waits for another of them: the database fails one.
BreakDeadlock(t) ==
  /\ \E S \in SUBSET Clients :
       /\ t \in S
       /\ \A u \in S : (\E v \in S : WaitsFor(u, v)) /\ (\E v \in S : WaitsFor(v, u))
  /\ Fail(t)

Next ==
  \/ AddItems
  \/ \E t \in Clients :
       \/ BeginUpdateStatus(t) \/ BeginDecide(t) \/ BeginApply(t) \/ BeginRetry(t)
       \/ Advance(t)
       \/ BreakDeadlock(t)
       \/ Abort(t)

Spec == Init /\ [][Next]_vars

\* The server keeps running what it has begun, the database hands a row to
\* those who wait for it in turn and looks for deadlocks.
FairSpec ==
  Spec /\ \A t \in Clients : SF_vars(Advance(t)) /\ WF_vars(BreakDeadlock(t))
-----------------------------------------------------------------------------
(* Properties *)

Places == {"idle", "status", "decide", "apply", "lockitem", "retry"}

\* Every variable has its type.
TypeOK ==
  /\ status \in Statuses
  /\ items \subseteq Items
  /\ decision \in [Items -> Verdicts \cup {"none"}]
  /\ linked \subseteq items
  /\ made \in [Items -> Nat]
  /\ bpLock \in Clients \cup {NoClient}
  /\ itemLock \in [Items -> Clients \cup {NoClient}]
  /\ pc \in [Clients -> Places]
  /\ choice \in [Clients -> Statuses \cup Verdicts \cup {"none"}]
  /\ todo \in [Clients -> SUBSET items]
  /\ written \in [Clients -> SUBSET items]

\* The rows that a request has locked or written are its own.
LocksAreHeld ==
  \A t \in Clients :
    /\ pc[t] = "apply" => bpLock = t
    /\ pc[t] = "retry" => \A i \in todo[t] : itemLock[i] = t
    /\ \A i \in written[t] : itemLock[i] = t

\* What it has read of a row it holds stays true until it ends: the blueprint
\* under application is still in review, the item under retry still accepted
\* and without an entity.
HeldRowsAreStill ==
  \A t \in Clients :
    /\ pc[t] = "apply" => status = "pending_review"
    /\ pc[t] = "retry" => todo[t] \subseteq Actionable \ linked

\* What a request will write without having locked what it has read.
WritesArePossible ==
  \A t \in Clients :
    /\ pc[t] = "status" => choice[t] \in {"pending_review", "discarded"}
    /\ pc[t] = "decide" => choice[t] \in Verdicts
    /\ pc[t] \in {"decide", "lockitem", "retry"} => status # "draft"
    /\ pc[t] = "apply" => written[t] \subseteq Fit
    /\ pc[t] \in {"idle", "lockitem", "retry"} => written[t] = {}
    /\ pc[t] \in {"lockitem", "retry"} => \E i \in items : todo[t] = {i}

\* Whatever requests interleave, each may rely on what it holds and has read.
RequestsRely == LocksAreHeld /\ HeldRowsAreStill /\ WritesArePossible

\* A blueprint becomes applied only out of review, and only with something
\* created (INV-10), whatever else changes its status meanwhile.
AppliedOutOfReview ==
  [][status' = "applied" /\ status # "applied"
       => status = "pending_review" /\ linked' # {}]_vars

\* Retries of one item, and a retry after an application, never create a
\* second entity for it.
RetryCreatesOnce ==
  [][\A t \in Clients :
       CommitRetry(t) => \A i \in linked : made'[i] = made[i]]_vars

\* Nothing is created before what it refers to (INV-15), though application
\* and retries create in many transactions.
ParentsCreatedFirst == \A i \in linked : Parents[i] \subseteq linked

\* A blueprint that the agent is still drafting has no decided and no created
\* item: no late decision, status change or retry reaches back.
DraftIsUntouched ==
  status = "draft" => Decided = {} /\ linked = {}

IInv == TypeOK /\ RequestsRely /\ ParentsCreatedFirst /\ DraftIsUntouched

\* Every request ends, although decisions on several items lock their rows in
\* different orders.
RequestsEnd == \A t \in Clients : ~Idle(t) ~> Idle(t)

(* Promises that the code does not keep *)

\* Application creates every accepted item that has nothing wrong with it: its
\* object types, then the properties and link types of those.
AcceptedAreCreated ==
  [][\A t \in Clients :
       CommitApply(t) /\ status' = "applied" =>
         \A i \in Actionable \ (ObjectTypeItems \ Fit) :
           Parents[i] \subseteq linked' => i \in linked']_vars
=============================================================================
