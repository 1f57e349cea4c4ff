--------------------------- MODULE MCWorkingState ---------------------------
(* Instances of WorkingState for TLC. *)
EXTENDS WorkingState, TLC

CONSTANTS o1, o2, p1, l1

OwnerOfAll == [p \in Properties |-> o1]
EndsOfAll  == [l \in LinkTypes |-> {o1}]

\* Two object types are published, and a link type of the first that names the second.
SeedLinked ==
  [r \in {o1, o2, l1} |-> [f \in Fields |-> IF r = l1 /\ f \in Pointers THEN o2 ELSE None]]

\* Only an object type is.
SeedOne == [r \in {o1} |-> [f \in Fields |-> None]]

\* Nothing is.
SeedNone == << >>

\* Clients and rows of working_states are interchangeable.
Interchangeable == Permutations(Clients) \cup Permutations(DraftIds)
=============================================================================
