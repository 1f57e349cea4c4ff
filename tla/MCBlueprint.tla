----------------------------- MODULE MCBlueprint -----------------------------
(* Instances of Blueprint for TLC. *)
EXTENDS Blueprint

\* Properties and link types hang on every suggested object type.
ParentsAll == [i \in Items |-> IF i \in ObjectTypeItems THEN {} ELSE ObjectTypeItems]
=============================================================================
