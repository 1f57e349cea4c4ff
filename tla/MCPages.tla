------------------------------- MODULE MCPages -------------------------------
(***************************************************************************)
(* The pages of the web client and the wizard for link types, for TLC:     *)
(* each behaviour of Spec shows one.                                       *)
(***************************************************************************)
EXTENDS LinkTypeWizard, PropertyPages, DetailPages, WorkshopReview, SaveFlow, Search, TLC

\* Two object types; the first is linked to each, the second twice to the first.
SideLinksAll ==
  {[id |-> n, from |-> o, to |-> p] : n \in {1}, o \in LinkEnds, p \in LinkEnds}
    \cup {[id |-> 2, from |-> "o2", to |-> "o1"]}

\* Pages.cfg names the properties, the resources and the items by the same model
\* values, which nothing but their identity tells apart.
Symmetry == Permutations(Items)

\* A bound: one resource is published, which can be updated and deleted, and another
\* can be created.
SaveInitBounded == SaveInit /\ Cardinality(server.published) = 1

Init ==
  \/ LinkInit \/ PageInit \/ DrawerInit \/ DetailInit \/ SourceInit
  \/ ReviewInit \/ SaveInitBounded \/ SearchInit

\* The behaviours of the property page end where keys may be parted: KeysAgree asks
\* nothing of them from there.
PageBounded == OnPage /\ ~server.torn /\ PageNext

\* A bound: one object type, and no link type, becomes active.
DetailBounded ==
  /\ DetailNext
  /\ Cardinality(server'.active) <= IF form.page = "object" THEN 1 ELSE 0

Next ==
  \/ LinkNext \/ PageBounded \/ DrawerNext \/ DetailBounded \/ SourceNext
  \/ ReviewNext \/ SaveNext \/ SearchNext
  \/ \E i \in 1..MaxCalls : Refuse(i) \/ LoseAnswer(i)

Spec == Init /\ [][Next]_vars
=============================================================================
