--------------------------- MODULE OntologyDraft ---------------------------
(***************************************************************************)
(* What change management promises its one user, without the changes, the  *)
(* collapsing, the transactions or the history: an ontology that is        *)
(* published and the same ontology as the draft shows it.  Editing changes *)
(* only what is shown; discarding shows what is published again; a publish *)
(* publishes what is shown, but for the fields that are written and never  *)
(* read again, and for pointers to what is not there any more.             *)
(***************************************************************************)
EXTENDS Naturals

CONSTANTS
  Resources,      \* identifiers of object types, properties and link types
  Contents,       \* what a resource may hold
  Absent,         \* no resource
  None,           \* null
  RefsOf,         \* resource -> the object types it cannot be without
  PointersOf,     \* resource -> its fields that may name another resource
  LostOf          \* resource -> its fields that a publish loses

VARIABLES table, shown, version

vars == <<table, shown, version>>

\* The shown resources whose references are shown too: an object type's
\* properties go when it goes.
Closed(view) ==
  [r \in Resources |->
     IF \A o \in RefsOf[r] : view[o] # Absent THEN view[r] ELSE Absent]

\* What the tables keep of a view.
Kept(view) ==
  LET closed  == Closed(view)
      present == {r \in Resources : closed[r] # Absent}
  IN  [r \in Resources |->
         IF r \notin present THEN Absent
         ELSE [f \in DOMAIN closed[r] |->
                 IF \/ f \in LostOf[r]
                    \/ f \in PointersOf[r] /\ closed[r][f] \notin present
                   THEN None ELSE closed[r][f]]]

Init ==
  /\ table \in [Resources -> Contents \cup {Absent}]
  /\ shown = table
  /\ version \in Nat

\* A resource is created or updated.
Put ==
  /\ \E r \in Resources, content \in Contents : shown' = [shown EXCEPT ![r] = content]
  /\ UNCHANGED <<table, version>>

\* Resources are deleted.
Remove ==
  /\ \E gone \in SUBSET Resources :
       shown' = [r \in Resources |-> IF r \in gone THEN Absent ELSE shown[r]]
  /\ UNCHANGED <<table, version>>

\* Edits are taken back, all of them or those of some resources.
Discard ==
  /\ \E back \in SUBSET Resources :
       shown' = [r \in Resources |-> IF r \in back THEN table[r] ELSE shown[r]]
  /\ UNCHANGED <<table, version>>

Publish ==
  /\ table' = Kept(shown)
  /\ shown' = table'
  /\ version' = version + 1

Next == Put \/ Remove \/ Discard \/ Publish

Spec == Init /\ [][Next]_vars
=============================================================================
