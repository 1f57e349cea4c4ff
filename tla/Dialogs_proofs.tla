---------------------------- MODULE Dialogs_proofs ----------------------------
(***************************************************************************)
(* Proofs about the dialogs of the web client: the wizard for link types,  *)
(* the imports and the agent's chat.  Each is a component of its own, with an*)
(* inductive invariant of its own; what they share is in Screen_proofs.    *)
(***************************************************************************)
EXTENDS LinkTypeWizard, Imports, AgentChat, Screen_proofs

-----------------------------------------------------------------------------
(***************************************************************************)
(* The wizard for link types: what can be submitted fits the last choices,   *)
(* whatever the object types, datasets and side links are.                 *)
(***************************************************************************)

OrNone(S) == S \cup {None}

\* The forms that the wizard shows.
LinkForms ==
  [kind : {"link type"}, open : BOOLEAN, prefilled : BOOLEAN, step : 0..2,
   cardinality : OrNone(Cardinalities), backed : BOOLEAN,
   a : OrNone(LinkEnds), b : OrNone(LinkEnds), fk : OrNone(LinkEnds),
   dataset : OrNone(JoinDatasets),
   columnA : OrNone(JoinDatasets), columnB : OrNone(JoinDatasets),
   backing : OrNone(LinkEnds), linkA : OrNone(SideLinks), linkB : OrNone(SideLinks),
   valid : BOOLEAN]

\* Nothing is left of a choice that was taken back, at any step.
LinkKeyFits(f) == f.fk \in {None, ForeignKeyEnd(f)}

LinkTableFits(f) ==
  /\ f.columnA \in {None, f.dataset} /\ f.columnB \in {None, f.dataset}
  /\ ~JoinTable(f) => f.dataset = None

LinkSidesFit(f) ==
  /\ f.linkA # None => f.linkA \in EligibleLinks(f.a, f.backing)
  /\ f.linkB # None => f.linkB \in EligibleLinks(f.b, f.backing)

\* The last step is reached with the step before it done.
LastStepFits(f) ==
  f.step = 2 =>
    /\ f.a # None /\ f.b # None
    /\ JoinTable(f) => f.dataset # None
    /\ f.backed => f.backing # None /\ f.linkA # None /\ f.linkB # None

LinkFits(f) == LinkKeyFits(f) /\ LinkTableFits(f) /\ LinkSidesFit(f) /\ LastStepFits(f)

LinkIInv == form \in LinkForms /\ LinkFits(form)

-----------------------------------------------------------------------------
(* The parts of the invariant, for a form g that has the fields of a form f. *)

\* Every field may be empty.
LEMMA NoneAllowed == \A X : None \in OrNone(X)
BY DEF OrNone

\* The foreign key fits while the end that has it stays.
LEMMA KeyStays ==
  ASSUME NEW f, NEW g, LinkKeyFits(f), g.fk = f.fk,
         g.cardinality = f.cardinality, ForeignKeyEnd(g) = ForeignKeyEnd(f)
  PROVE  LinkKeyFits(g)
BY DEF LinkKeyFits

\* The end stays while the relationship and the object types do.
LEMMA EndStays ==
  ASSUME NEW f, NEW g, g.cardinality = f.cardinality,
         ForeignKeySide(f.cardinality) = "A" => g.a = f.a,
         ForeignKeySide(f.cardinality) = "B" => g.b = f.b
  PROVE  ForeignKeyEnd(g) = ForeignKeyEnd(f)
<1>1. ForeignKeySide(g.cardinality) = ForeignKeySide(f.cardinality)
  OBVIOUS
<1> QED
  BY <1>1 DEF ForeignKeyEnd

\* The join table fits while its fields and the choice of it stay.
LEMMA TableStays ==
  ASSUME NEW f, NEW g, LinkTableFits(f), g.cardinality = f.cardinality, g.backed = f.backed,
         g.dataset = f.dataset, g.columnA = f.columnA, g.columnB = f.columnB
  PROVE  LinkTableFits(g)
BY DEF LinkTableFits, JoinTable

\* The side links fit while what they connect stays.
LEMMA SidesStay ==
  ASSUME NEW f, NEW g, LinkSidesFit(f), g.a = f.a, g.b = f.b, g.backing = f.backing,
         g.linkA = f.linkA, g.linkB = f.linkB
  PROVE  LinkSidesFit(g)
BY DEF LinkSidesFit

\* Nothing is asked of a form that is not at the last step.
LEMMA LinkNotLast ==
  ASSUME NEW g, g.step # 2
  PROVE  LastStepFits(g)
BY DEF LastStepFits

-----------------------------------------------------------------------------
(* One lemma per action, or group of them. *)

\* An empty form is one that the wizard shows, and fits.
LEMMA EmptyFormFits == LinkDefault \in LinkForms /\ LinkFits(LinkDefault)
<1>1. LinkDefault \in LinkForms
  BY NoneAllowed DEF LinkDefault, LinkForms
<1>2. LinkFits(LinkDefault)
  BY DEF LinkDefault, LinkFits, LinkKeyFits, LinkTableFits, LinkSidesFit, LastStepFits
<1> QED BY <1>1, <1>2

\* An opened form fits, whether or not the wizard was opened for an object type.
LEMMA OpenedFormFits ==
  ASSUME NEW o \in LinkEnds \cup {None}, LinkOpen(o)
  PROVE  LinkIInv'
<1>1. o \in OrNone(LinkEnds)
  BY DEF OrNone
<1>2. form' \in LinkForms
  BY <1>1, EmptyFormFits DEF LinkOpen, LinkForms
<1>3. /\ form'.fk = None /\ form'.dataset = None /\ form'.columnA = None
      /\ form'.columnB = None /\ form'.linkA = None /\ form'.linkB = None /\ form'.step = 0
  BY DEF LinkOpen, LinkDefault
<1>4. LinkFits(form)'
  BY <1>3 DEF LinkFits, LinkKeyFits, LinkTableFits, LinkSidesFit, LastStepFits
<1> QED BY <1>2, <1>4 DEF LinkIInv

\* The choice of the relationship clears the fields of the others.
LEMMA CardinalityFits ==
  ASSUME LinkIInv, NEW c \in Cardinalities, LinkSelectCardinality(c)
  PROVE  LinkIInv'
<1>1. c \in OrNone(Cardinalities)
  BY DEF OrNone
<1>2. CASE c = "many-to-many"
  <2>1. form' = [form EXCEPT !.cardinality = c, !.fk = None]
    BY <1>2 DEF LinkSelectCardinality
  <2>2. form' \in LinkForms
    BY <1>1, <2>1, NoneAllowed DEF LinkIInv, LinkForms
  <2>3. LinkKeyFits(form)' /\ LinkSidesFit(form)'
    BY <2>1 DEF LinkIInv, LinkForms, LinkFits, LinkKeyFits, LinkSidesFit
  <2>4. LinkTableFits(form)'
    BY <1>2, <2>1 DEF LinkIInv, LinkForms, LinkFits, LinkTableFits, JoinTable
  <2>5. LastStepFits(form)'
    <3>1. form'.step # 2
      <4>1. form.step = 0
        BY DEF LinkSelectCardinality
      <4>2. form'.step = form.step
        BY <2>1 DEF LinkIInv, LinkForms
      <4> QED BY <4>1, <4>2
    <3> QED BY <3>1, LinkNotLast
  <2> QED BY <2>2, <2>3, <2>4, <2>5 DEF LinkIInv, LinkFits
<1>3. CASE c # "many-to-many"
  <2>1. form' = [form EXCEPT !.cardinality = c, !.fk = None, !.backed = FALSE,
                   !.backing = None, !.linkA = None, !.linkB = None,
                   !.dataset = None, !.columnA = None, !.columnB = None]
    BY <1>3 DEF LinkSelectCardinality
  <2>2. form' \in LinkForms
    BY <1>1, <2>1, NoneAllowed DEF LinkIInv, LinkForms
  <2>3. LinkKeyFits(form)' /\ LinkTableFits(form)' /\ LinkSidesFit(form)'
    BY <2>1 DEF LinkIInv, LinkForms, LinkKeyFits, LinkTableFits, LinkSidesFit
  <2>4. LastStepFits(form)'
    <3>1. form'.step # 2
      <4>1. form.step = 0
        BY DEF LinkSelectCardinality
      <4>2. form'.step = form.step
        BY <2>1 DEF LinkIInv, LinkForms
      <4> QED BY <4>1, <4>2
    <3> QED BY <3>1, LinkNotLast
  <2> QED BY <2>2, <2>3, <2>4 DEF LinkIInv, LinkFits
<1> QED BY <1>2, <1>3

\* So does the choice between a join table and a backing object.
LEMMA BackedFits ==
  ASSUME LinkIInv, NEW backed \in BOOLEAN, LinkSelectBacked(backed)
  PROVE  LinkIInv'
<1>1. CASE backed
  <2>1. form' = [form EXCEPT !.backed = TRUE, !.dataset = None,
                             !.columnA = None, !.columnB = None]
    BY <1>1 DEF LinkSelectBacked
  <2>2. form' \in LinkForms
    BY <2>1, NoneAllowed DEF LinkIInv, LinkForms
  <2>3. form'.fk = form.fk /\ form'.cardinality = form.cardinality
        /\ form'.a = form.a /\ form'.b = form.b
    BY <2>1 DEF LinkIInv, LinkForms
  <2>4. LinkKeyFits(form)'
    BY <2>3, EndStays, KeyStays DEF LinkIInv, LinkFits
  <2>5. LinkTableFits(form)' /\ LinkSidesFit(form)'
    BY <2>1 DEF LinkIInv, LinkForms, LinkFits, LinkTableFits, LinkSidesFit
  <2>6. LastStepFits(form)'
    <3>1. form'.step # 2
      <4>1. form.step = 0
        BY DEF LinkSelectBacked
      <4>2. form'.step = form.step
        BY <2>1 DEF LinkIInv, LinkForms
      <4> QED BY <4>1, <4>2
    <3> QED BY <3>1, LinkNotLast
  <2> QED BY <2>2, <2>4, <2>5, <2>6 DEF LinkIInv, LinkFits
<1>2. CASE ~backed
  <2>1. form' = [form EXCEPT !.backed = FALSE, !.backing = None,
                             !.linkA = None, !.linkB = None]
    BY <1>2 DEF LinkSelectBacked
  <2>2. form' \in LinkForms
    BY <2>1, NoneAllowed DEF LinkIInv, LinkForms
  <2>3. form'.fk = form.fk /\ form'.cardinality = form.cardinality
        /\ form'.a = form.a /\ form'.b = form.b
    BY <2>1 DEF LinkIInv, LinkForms
  <2>4. LinkKeyFits(form)'
    BY <2>3, EndStays, KeyStays DEF LinkIInv, LinkFits
  <2>5. LinkTableFits(form)' /\ LinkSidesFit(form)'
    BY <2>1 DEF LinkIInv, LinkForms, LinkFits, LinkTableFits, LinkSidesFit, JoinTable
  <2>6. LastStepFits(form)'
    <3>1. form'.step # 2
      <4>1. form.step = 0
        BY DEF LinkSelectBacked
      <4>2. form'.step = form.step
        BY <2>1 DEF LinkIInv, LinkForms
      <4> QED BY <4>1, <4>2
    <3> QED BY <3>1, LinkNotLast
  <2> QED BY <2>2, <2>4, <2>5, <2>6 DEF LinkIInv, LinkFits
<1> QED BY <1>1, <1>2

\* Another object type at an end takes its foreign key and its side link along.
LEMMA EndAFits ==
  ASSUME LinkIInv, NEW o \in LinkEnds, LinkSelectA(o)
  PROVE  LinkIInv'
<1>1. o \in OrNone(LinkEnds) /\ form \in LinkForms /\ form.fk \in OrNone(LinkEnds)
  BY DEF OrNone, LinkIInv, LinkForms
<1>2. PICK k \in OrNone(LinkEnds) :
        /\ form' = [form EXCEPT !.a = o, !.linkA = None, !.fk = k]
        /\ k = IF ForeignKeySide(form.cardinality) = "A" THEN None ELSE form.fk
  <2>1. CASE ForeignKeySide(form.cardinality) = "A"
    BY <2>1, NoneAllowed DEF LinkSelectA
  <2>2. CASE ForeignKeySide(form.cardinality) # "A"
    BY <2>2, <1>1 DEF LinkSelectA
  <2> QED BY <2>1, <2>2
<1>3. form' \in LinkForms
  BY <1>1, <1>2, NoneAllowed DEF LinkForms
<1>4. /\ form'.a = o /\ form'.linkA = None /\ form'.fk = k /\ form'.step = form.step
      /\ form'.b = form.b /\ form'.linkB = form.linkB /\ form'.backing = form.backing
      /\ form'.cardinality = form.cardinality /\ form'.backed = form.backed
      /\ form'.dataset = form.dataset
      /\ form'.columnA = form.columnA /\ form'.columnB = form.columnB
  BY <1>1, <1>2 DEF LinkForms
<1>5. LinkKeyFits(form)'
  <2>1. CASE ForeignKeySide(form.cardinality) = "A"
    BY <2>1, <1>2, <1>4 DEF LinkKeyFits
  <2>2. CASE ForeignKeySide(form.cardinality) # "A"
    <3>1. ForeignKeyEnd(form') = ForeignKeyEnd(form)
      BY <2>2, <1>4, EndStays
    <3>2. form'.fk = form.fk
      BY <2>2, <1>2, <1>4
    <3> QED BY <3>1, <3>2, <1>4, KeyStays DEF LinkIInv, LinkFits
  <2> QED BY <2>1, <2>2
<1>6. LinkTableFits(form)'
  BY <1>4, TableStays DEF LinkIInv, LinkFits
<1>7. LinkSidesFit(form)'
  BY <1>4 DEF LinkIInv, LinkFits, LinkSidesFit
<1>8. LastStepFits(form)'
  <2>1. form'.step # 2
    BY <1>4 DEF LinkSelectA
  <2> QED BY <2>1, LinkNotLast
<1> QED BY <1>3, <1>5, <1>6, <1>7, <1>8 DEF LinkIInv, LinkFits

\* The same at the other end.
LEMMA EndBFits ==
  ASSUME LinkIInv, NEW o \in LinkEnds, LinkSelectB(o)
  PROVE  LinkIInv'
<1>1. o \in OrNone(LinkEnds) /\ form \in LinkForms /\ form.fk \in OrNone(LinkEnds)
  BY DEF OrNone, LinkIInv, LinkForms
<1>2. PICK k \in OrNone(LinkEnds) :
        /\ form' = [form EXCEPT !.b = o, !.linkB = None, !.fk = k]
        /\ k = IF ForeignKeySide(form.cardinality) = "B" THEN None ELSE form.fk
  <2>1. CASE ForeignKeySide(form.cardinality) = "B"
    BY <2>1, NoneAllowed DEF LinkSelectB
  <2>2. CASE ForeignKeySide(form.cardinality) # "B"
    BY <2>2, <1>1 DEF LinkSelectB
  <2> QED BY <2>1, <2>2
<1>3. form' \in LinkForms
  BY <1>1, <1>2, NoneAllowed DEF LinkForms
<1>4. /\ form'.b = o /\ form'.linkB = None /\ form'.fk = k /\ form'.step = form.step
      /\ form'.a = form.a /\ form'.linkA = form.linkA /\ form'.backing = form.backing
      /\ form'.cardinality = form.cardinality /\ form'.backed = form.backed
      /\ form'.dataset = form.dataset
      /\ form'.columnA = form.columnA /\ form'.columnB = form.columnB
  BY <1>1, <1>2 DEF LinkForms
<1>5. LinkKeyFits(form)'
  <2>1. CASE ForeignKeySide(form.cardinality) = "B"
    BY <2>1, <1>2, <1>4 DEF LinkKeyFits
  <2>2. CASE ForeignKeySide(form.cardinality) # "B"
    <3>1. ForeignKeyEnd(form') = ForeignKeyEnd(form)
      BY <2>2, <1>4, EndStays
    <3>2. form'.fk = form.fk
      BY <2>2, <1>2, <1>4
    <3> QED BY <3>1, <3>2, <1>4, KeyStays DEF LinkIInv, LinkFits
  <2> QED BY <2>1, <2>2
<1>6. LinkTableFits(form)'
  BY <1>4, TableStays DEF LinkIInv, LinkFits
<1>7. LinkSidesFit(form)'
  BY <1>4 DEF LinkIInv, LinkFits, LinkSidesFit
<1>8. LastStepFits(form)'
  <2>1. form'.step # 2
    BY <1>4 DEF LinkSelectB
  <2> QED BY <2>1, LinkNotLast
<1> QED BY <1>3, <1>5, <1>6, <1>7, <1>8 DEF LinkIInv, LinkFits

\* The foreign key is chosen among the properties of the end that has it.
LEMMA ForeignKeyFits ==
  ASSUME LinkIInv, LinkSelectForeignKey
  PROVE  LinkIInv'
<1>1. form \in LinkForms /\ form.step = 1
  BY DEF LinkIInv, LinkSelectForeignKey
<1>2. PICK k \in {ForeignKeyEnd(form), None} : form' = [form EXCEPT !.fk = k]
  BY DEF LinkSelectForeignKey
<1>3. k \in OrNone(LinkEnds)
  BY <1>1, NoneAllowed DEF ForeignKeyEnd, LinkForms
<1>4. form' \in LinkForms
  BY <1>1, <1>2, <1>3 DEF LinkForms
<1>5. /\ form'.fk = k /\ form'.step = form.step
      /\ form'.a = form.a /\ form'.linkA = form.linkA /\ form'.backing = form.backing
      /\ form'.b = form.b /\ form'.linkB = form.linkB
      /\ form'.cardinality = form.cardinality /\ form'.backed = form.backed
      /\ form'.dataset = form.dataset
      /\ form'.columnA = form.columnA /\ form'.columnB = form.columnB
  BY <1>1, <1>2 DEF LinkForms
<1>6. LinkKeyFits(form)'
  <2>1. ForeignKeyEnd(form') = ForeignKeyEnd(form)
    BY <1>5, EndStays
  <2> QED BY <2>1, <1>5 DEF LinkKeyFits
<1>7. LinkTableFits(form)' /\ LinkSidesFit(form)'
  BY <1>5, TableStays, SidesStay DEF LinkIInv, LinkFits
<1>8. LastStepFits(form)'
  <2>1. form'.step # 2
    BY <1>1, <1>5
  <2> QED BY <2>1, LinkNotLast
<1> QED BY <1>4, <1>6, <1>7, <1>8 DEF LinkIInv, LinkFits

\* A change of the fields of the join table, or of the backing object and its
\* side links, leaves the foreign key alone.
LEMMA JoinFits ==
  ASSUME LinkIInv, form'.fk = form.fk, form'.cardinality = form.cardinality,
         form'.a = form.a, form'.b = form.b,
         form' \in LinkForms, LinkTableFits(form)', LinkSidesFit(form)', LastStepFits(form)'
  PROVE  LinkIInv'
<1>1. LinkKeyFits(form)'
  BY EndStays, KeyStays DEF LinkIInv, LinkFits
<1> QED BY <1>1 DEF LinkIInv, LinkFits

\* The join table is chosen among what fits.
LEMMA JoinTableFits ==
  ASSUME LinkIInv, LinkSelectColumns \/ \E d \in JoinDatasets : LinkSelectDataset(d)
  PROVE  LinkIInv'
<1>1. form \in LinkForms /\ LinkTableFits(form) /\ LinkSidesFit(form)
  BY DEF LinkIInv, LinkFits
<1>2. CASE LinkSelectColumns
  <2>1. PICK A \in OrNone(JoinDatasets), B \in OrNone(JoinDatasets) :
          /\ form' = [form EXCEPT !.columnA = A, !.columnB = B]
          /\ A \in {form.dataset, None} /\ B \in {form.dataset, None}
    <3>1. CASE form' = [form EXCEPT !.columnA = form.dataset]
      BY <3>1, <1>1 DEF LinkForms, LinkTableFits
    <3>2. CASE form' = [form EXCEPT !.columnB = form.dataset]
      BY <3>2, <1>1 DEF LinkForms, LinkTableFits
    <3> QED BY <1>2, <3>1, <3>2 DEF LinkSelectColumns
  <2>2. form' \in LinkForms
    BY <1>1, <2>1 DEF LinkForms
  <2>3. /\ form'.columnA = A /\ form'.columnB = B /\ form'.fk = form.fk
        /\ form'.cardinality = form.cardinality /\ form'.backed = form.backed
        /\ form'.a = form.a /\ form'.b = form.b /\ form'.backing = form.backing
        /\ form'.linkA = form.linkA /\ form'.linkB = form.linkB
        /\ form'.dataset = form.dataset /\ form'.step = form.step
    BY <1>1, <2>1 DEF LinkForms
  <2>4. LinkTableFits(form)'
    BY <1>1, <2>1, <2>3 DEF LinkTableFits, JoinTable
  <2>5. LinkSidesFit(form)'
    BY <1>1, <2>3, SidesStay
  <2>6. LastStepFits(form)'
    <3>1. form'.step # 2
      BY <1>2, <2>3 DEF LinkSelectColumns
    <3> QED BY <3>1, LinkNotLast
  <2> QED BY <2>2, <2>3, <2>4, <2>5, <2>6, JoinFits
<1>3. ASSUME NEW d \in JoinDatasets, LinkSelectDataset(d) PROVE LinkIInv'
  <2>1. /\ form' = [form EXCEPT !.dataset = d, !.columnA = None, !.columnB = None]
        /\ d \in OrNone(JoinDatasets) /\ JoinTable(form)
    BY <1>3 DEF LinkSelectDataset, OrNone
  <2>2. form' \in LinkForms
    BY <1>1, <2>1, NoneAllowed DEF LinkForms
  <2>3. /\ form'.dataset = d /\ form'.columnA = None /\ form'.columnB = None
        /\ form'.cardinality = form.cardinality /\ form'.backed = form.backed
        /\ form'.a = form.a /\ form'.b = form.b /\ form'.backing = form.backing
        /\ form'.linkA = form.linkA /\ form'.linkB = form.linkB
        /\ form'.fk = form.fk /\ form'.step = form.step
    BY <1>1, <2>1 DEF LinkForms
  <2>4. LinkTableFits(form)'
    BY <2>1, <2>3 DEF LinkTableFits, JoinTable
  <2>5. LinkSidesFit(form)'
    BY <1>1, <2>3, SidesStay
  <2>6. LastStepFits(form)'
    <3>1. form'.step # 2
      <4>1. form.step = 1
        BY <1>3 DEF LinkSelectDataset
      <4> QED BY <2>3, <4>1
    <3> QED BY <3>1, LinkNotLast
  <2> QED BY <2>2, <2>3, <2>4, <2>5, <2>6, JoinFits
<1> QED BY <1>2, <1>3

\* Another backing object type takes the side links along.
LEMMA BackingFits ==
  ASSUME LinkIInv, NEW o \in LinkEnds, LinkSelectBacking(o)
  PROVE  LinkIInv'
<1>1. form \in LinkForms /\ LinkTableFits(form) /\ o \in OrNone(LinkEnds)
  BY DEF LinkIInv, LinkFits, OrNone
<1>2. form' = [form EXCEPT !.backing = o, !.linkA = None, !.linkB = None]
  BY DEF LinkSelectBacking
<1>3. form' \in LinkForms
  BY <1>1, <1>2, NoneAllowed DEF LinkForms
<1>4. /\ form'.linkA = None /\ form'.linkB = None /\ form'.fk = form.fk
      /\ form'.cardinality = form.cardinality /\ form'.backed = form.backed
      /\ form'.a = form.a /\ form'.b = form.b /\ form'.step = form.step
      /\ form'.dataset = form.dataset
      /\ form'.columnA = form.columnA /\ form'.columnB = form.columnB
  BY <1>1, <1>2 DEF LinkForms
<1>5. LinkTableFits(form)'
  BY <1>1, <1>4, TableStays
<1>6. LinkSidesFit(form)'
  BY <1>4 DEF LinkSidesFit
<1>7. LastStepFits(form)'
  <2>1. form'.step # 2
    BY <1>4 DEF LinkSelectBacking
  <2> QED BY <2>1, LinkNotLast
<1> QED BY <1>3, <1>4, <1>5, <1>6, <1>7, JoinFits

\* A side link is chosen among those that connect the end to the backing object
\* type, by the user or, if there is only one, by itself.
LEMMA SideLinkAFits ==
  ASSUME LinkIInv, NEW l \in EligibleLinks(form.a, form.backing),
         form' = [form EXCEPT !.linkA = l],
         form.step # 2 \/ form.linkA = None
  PROVE  LinkIInv'
<1>1. form \in LinkForms /\ LinkTableFits(form) /\ LinkSidesFit(form) /\ LastStepFits(form)
  BY DEF LinkIInv, LinkFits
<1>2. l \in OrNone(SideLinks)
  BY DEF EligibleLinks, OrNone
<1>3. form' \in LinkForms
  BY <1>1, <1>2 DEF LinkForms
<1>4. /\ form'.linkA = l /\ form'.linkB = form.linkB /\ form'.fk = form.fk
      /\ form'.cardinality = form.cardinality /\ form'.backed = form.backed
      /\ form'.a = form.a /\ form'.b = form.b /\ form'.step = form.step
      /\ form'.dataset = form.dataset /\ form'.backing = form.backing
      /\ form'.columnA = form.columnA /\ form'.columnB = form.columnB
  BY <1>1 DEF LinkForms
<1>5. LinkTableFits(form)'
  BY <1>1, <1>4, TableStays
<1>6. LinkSidesFit(form)'
  BY <1>1, <1>4 DEF LinkSidesFit
<1>7. LastStepFits(form)'
  BY <1>1, <1>4 DEF LastStepFits, JoinTable
<1> QED BY <1>3, <1>4, <1>5, <1>6, <1>7, JoinFits

\* The same for the other end.
LEMMA SideLinkBFits ==
  ASSUME LinkIInv, NEW l \in EligibleLinks(form.b, form.backing),
         form' = [form EXCEPT !.linkB = l],
         form.step # 2 \/ form.linkB = None
  PROVE  LinkIInv'
<1>1. form \in LinkForms /\ LinkTableFits(form) /\ LinkSidesFit(form) /\ LastStepFits(form)
  BY DEF LinkIInv, LinkFits
<1>2. l \in OrNone(SideLinks)
  BY DEF EligibleLinks, OrNone
<1>3. form' \in LinkForms
  BY <1>1, <1>2 DEF LinkForms
<1>4. /\ form'.linkB = l /\ form'.linkA = form.linkA /\ form'.fk = form.fk
      /\ form'.cardinality = form.cardinality /\ form'.backed = form.backed
      /\ form'.a = form.a /\ form'.b = form.b /\ form'.step = form.step
      /\ form'.dataset = form.dataset /\ form'.backing = form.backing
      /\ form'.columnA = form.columnA /\ form'.columnB = form.columnB
  BY <1>1 DEF LinkForms
<1>5. LinkTableFits(form)'
  BY <1>1, <1>4, TableStays
<1>6. LinkSidesFit(form)'
  BY <1>1, <1>4 DEF LinkSidesFit
<1>7. LastStepFits(form)'
  BY <1>1, <1>4 DEF LastStepFits, JoinTable
<1> QED BY <1>3, <1>4, <1>5, <1>6, <1>7, JoinFits

\* Whether the user chooses it or it is chosen by itself.
LEMMA SideLinksFit ==
  ASSUME LinkIInv, LinkSelectSideLinks \/ LinkAutoSelectA \/ LinkAutoSelectB
  PROVE  LinkIInv'
<1>1. CASE LinkSelectSideLinks
  BY <1>1, SideLinkAFits, SideLinkBFits DEF LinkSelectSideLinks
<1>2. CASE LinkAutoSelectA
  BY <1>2, SideLinkAFits DEF LinkAutoSelectA
<1>3. CASE LinkAutoSelectB
  BY <1>3, SideLinkBFits DEF LinkAutoSelectB
<1> QED BY <1>1, <1>2, <1>3

\* The next step leaves the fields alone; the last one is entered when the one
\* before it is done.
LEMMA NextStepFits ==
  ASSUME LinkIInv, LinkNextStep
  PROVE  LinkIInv'
<1>1. form \in LinkForms /\ LinkTableFits(form) /\ LinkSidesFit(form)
  BY DEF LinkIInv, LinkFits
<1>2. PICK s \in {1, 2}, v \in BOOLEAN :
        /\ form' = [form EXCEPT !.step = s, !.valid = v]
        /\ s = 2 => form.step = 1
  <2>1. CASE form.step = 1
    BY <2>1 DEF LinkNextStep
  <2>2. CASE form.step # 1
    <3>1. form' = [form EXCEPT !.step = 1] /\ form.valid \in BOOLEAN
      BY <1>1, <2>2 DEF LinkNextStep, LinkForms
    <3>2. form' = [form EXCEPT !.step = 1, !.valid = form.valid]
      BY <3>1, <1>1 DEF LinkForms
    <3>3. 1 # 2 /\ 1 \in {1, 2}
      OBVIOUS
    <3> QED BY <3>1, <3>2, <3>3
  <2> QED BY <2>1, <2>2
<1>3. s \in 0..2
  BY <1>2
<1>4. form' \in LinkForms
  BY <1>1, <1>2, <1>3 DEF LinkForms
<1>5. /\ form'.step = s /\ form'.fk = form.fk
      /\ form'.cardinality = form.cardinality /\ form'.backed = form.backed
      /\ form'.a = form.a /\ form'.b = form.b /\ form'.backing = form.backing
      /\ form'.linkA = form.linkA /\ form'.linkB = form.linkB
      /\ form'.dataset = form.dataset
      /\ form'.columnA = form.columnA /\ form'.columnB = form.columnB
  BY <1>1, <1>2 DEF LinkForms
<1>6. LinkTableFits(form)' /\ LinkSidesFit(form)'
  BY <1>1, <1>5, TableStays, SidesStay
<1>7. LastStepFits(form)'
  <2>1. CASE s = 2
    <3>1. form.step = 1 /\ LinkStepDone
      BY <1>2, <2>1 DEF LinkNextStep
    <3>2. /\ form.a # None /\ form.b # None
          /\ JoinTable(form) => form.dataset # None
          /\ form.backed => form.backing # None /\ form.linkA # None /\ form.linkB # None
      BY <3>1 DEF LinkStepDone
    <3> QED BY <1>2, <1>5, <2>1, <3>2 DEF LastStepFits, JoinTable
  <2>2. CASE s # 2
    BY <1>5, <2>2, LinkNotLast
  <2> QED BY <2>1, <2>2
<1> QED BY <1>4, <1>5, <1>6, <1>7, JoinFits

\* So does the step before, and so do the names that the user gives.
LEMMA BackFits ==
  ASSUME LinkIInv, LinkBack \/ \E valid \in BOOLEAN : LinkEditNames(valid)
  PROVE  LinkIInv'
<1>1. form \in LinkForms /\ LinkTableFits(form) /\ LinkSidesFit(form) /\ LastStepFits(form)
  BY DEF LinkIInv, LinkFits
<1>2. PICK s \in 0..2, v \in BOOLEAN :
        /\ form' = [form EXCEPT !.step = s, !.valid = v]
        /\ s # 2 \/ s = form.step
  <2>1. form.step \in 0..2 /\ form.valid \in BOOLEAN
    BY <1>1 DEF LinkForms
  <2>2. CASE LinkBack
    <3>1. form.step - 1 \in 0..2 /\ form.step - 1 # 2
      BY <2>1, <2>2 DEF LinkBack
    <3>2. form' = [form EXCEPT !.step = form.step - 1]
      BY <2>2 DEF LinkBack
    <3>3. form' = [form EXCEPT !.step = form.step - 1, !.valid = form.valid]
      BY <3>2, <1>1 DEF LinkForms
    <3> QED BY <2>1, <3>1, <3>3
  <2>3. ASSUME NEW v \in BOOLEAN, LinkEditNames(v)
        PROVE  form' = [form EXCEPT !.step = form.step, !.valid = v]
    BY <2>3, <1>1 DEF LinkEditNames, LinkForms
  <2> QED BY <2>1, <2>2, <2>3
<1>3. form' \in LinkForms
  BY <1>1, <1>2 DEF LinkForms
<1>4. /\ form'.step = s /\ form'.fk = form.fk
      /\ form'.cardinality = form.cardinality /\ form'.backed = form.backed
      /\ form'.a = form.a /\ form'.b = form.b /\ form'.backing = form.backing
      /\ form'.linkA = form.linkA /\ form'.linkB = form.linkB
      /\ form'.dataset = form.dataset
      /\ form'.columnA = form.columnA /\ form'.columnB = form.columnB
  BY <1>1, <1>2 DEF LinkForms
<1>5. LinkTableFits(form)' /\ LinkSidesFit(form)'
  BY <1>1, <1>4, TableStays, SidesStay
<1>6. LastStepFits(form)'
  BY <1>1, <1>2, <1>4 DEF LastStepFits, JoinTable
<1> QED BY <1>3, <1>4, <1>5, <1>6, JoinFits

-----------------------------------------------------------------------------
\* Whatever has been chosen, taken back and chosen again, in any order and from
\* any step, the fields of the form fit each other.
THEOREM FormsFit == LinkSpec => []LinkIInv
<1>1. LinkInit => LinkIInv
  BY EmptyFormFits DEF LinkInit, LinkIInv
<1>2. LinkIInv /\ [LinkNext \/ \E i \in 1..MaxCalls : Refuse(i) \/ LoseAnswer(i)]_vars
        => LinkIInv'
  <2> SUFFICES ASSUME LinkIInv,
                      [LinkNext \/ \E i \in 1..MaxCalls : Refuse(i) \/ LoseAnswer(i)]_vars
               PROVE  LinkIInv'
    OBVIOUS
  <2>1. CASE form' = form
    BY <2>1 DEF LinkIInv
  <2>2. CASE form' = LinkDefault
    BY <2>2, EmptyFormFits DEF LinkIInv
  <2>3. CASE LinkNext
    <3>1. CASE \E o \in LinkEnds \cup {None} : LinkOpen(o)
      BY <3>1, OpenedFormFits
    <3>2. CASE \E c \in Cardinalities : LinkSelectCardinality(c)
      BY <3>2, CardinalityFits
    <3>3. CASE \E backed \in BOOLEAN : LinkSelectBacked(backed)
      BY <3>3, BackedFits
    <3>4. CASE \E o \in LinkEnds : LinkSelectA(o) \/ LinkSelectB(o) \/ LinkSelectBacking(o)
      BY <3>4, EndAFits, EndBFits, BackingFits
    <3>5. CASE LinkSelectForeignKey
      BY <3>5, ForeignKeyFits
    <3>6. CASE LinkSelectColumns \/ \E d \in JoinDatasets : LinkSelectDataset(d)
      BY <3>6, JoinTableFits
    <3>7. CASE LinkSelectSideLinks \/ LinkAutoSelectA \/ LinkAutoSelectB
      BY <3>7, SideLinksFit
    <3>8. CASE LinkNextStep
      BY <3>8, NextStepFits
    <3>9. CASE LinkBack \/ \E valid \in BOOLEAN : LinkEditNames(valid)
      BY <3>9, BackFits
    <3>10. CASE LinkClose \/ LinkSubmit
      BY <3>10, <2>1, <2>2 DEF LinkClose, LinkSubmit
    <3>11. CASE \E i \in 1..MaxCalls : LinkServe(i) \/ LinkCreated(i) \/ LinkFailed(i)
      BY <3>11, <2>1, <2>2 DEF LinkServe, LinkCreated, LinkFailed
    <3> QED
      BY <2>3, <3>1, <3>2, <3>3, <3>4, <3>5, <3>6, <3>7, <3>8, <3>9,
         <3>10, <3>11 DEF LinkNext
  <2>4. CASE UNCHANGED vars \/ \E i \in 1..MaxCalls : Refuse(i) \/ LoseAnswer(i)
    BY <2>1, <2>4 DEF vars, Refuse, LoseAnswer
  <2> QED BY <2>3, <2>4
<1> QED BY <1>1, <1>2, PTL DEF LinkSpec

\* What can be submitted fits the last choices: the foreign key is a property of the
\* end that has it, only a many-to-many relationship has a join table, which has the
\* columns, or else a backing object, and side links connect these ends to this
\* backing object.
THEOREM RequestsFit == LinkSpec => []LinkRequestFits
<1>1. LinkIInv => LinkRequestFits
  <2> SUFFICES ASSUME LinkIInv, form.step = 2 PROVE RequestFits(LinkRequest(form))
    BY DEF LinkRequestFits
  <2> DEFINE q == LinkRequest(form)
  <2>1. q.a # None /\ q.b # None
    BY DEF LinkIInv, LinkFits, LastStepFits, LinkRequest
  <2>2. q.fkA \in {None, q.a} /\ q.fkB \in {None, q.b}
    BY DEF LinkIInv, LinkFits, LinkKeyFits, ForeignKeyEnd, LinkRequest, ForeignKeySide
  <2>3. q.columnA \in {None, q.dataset} /\ q.columnB \in {None, q.dataset}
    BY DEF LinkIInv, LinkFits, LinkTableFits, LinkRequest
  <2>4. q.cardinality = "many-to-many" => /\ q.fkA = None /\ q.fkB = None
                                          /\ q.dataset # None <=> q.backing = None
    <3>1. q.cardinality = "many-to-many" => q.fkA = None /\ q.fkB = None
      BY DEF LinkRequest, ForeignKeySide
    <3>2. q.cardinality = "many-to-many" => (q.dataset # None <=> q.backing = None)
      BY DEF LinkIInv, LinkForms, LinkFits, LastStepFits, LinkRequest, JoinTable
    <3> QED BY <3>1, <3>2
  <2>5. q.dataset # None => q.cardinality = "many-to-many"
    BY DEF LinkRequest, JoinTable
  <2>6. q.backing # None => /\ q.linkA \in EligibleLinks(q.a, q.backing)
                            /\ q.linkB \in EligibleLinks(q.b, q.backing)
    BY DEF LinkIInv, LinkForms, LinkFits, LinkSidesFit, LastStepFits, LinkRequest
  <2>7. q.backing = None => q.linkA = None /\ q.linkB = None
    BY DEF LinkIInv, LinkForms, LinkFits, LastStepFits, LinkRequest
  <2> QED
    BY <2>1, <2>2, <2>3, <2>4, <2>5, <2>6, <2>7 DEF RequestFits
<1> QED BY <1>1, FormsFit, PTL

-----------------------------------------------------------------------------
(***************************************************************************)
(* Imports of files: the columns are those of the file, however many files have*)
(* been uploaded.                                                          *)
(***************************************************************************)

ImportFields == {"kind", "wizard", "open", "step", "connection", "source", "columns", "timer",
                 "task", "seen", "told", "sheet", "header"}

\* Columns that are chosen are those of the file that is shown.
ColumnsFit(f) == f.source # None => f.columns \in {None, f.source}

\* What a handler asks for are columns of the file that it asks to import.
AsksForFile(call) ==
  /\ call.ask \in {"upload", "file"} /\ "source" \in DOMAIN call
  /\ call.ask = "file" =>
       {"connection", "columns"} \subseteq DOMAIN call /\ call.columns = call.source

DatasetFits(d) ==
  {"columns", "table", "status"} \subseteq DOMAIN d /\ d.columns \in {None, d.table[2]}

DatasetsFit ==
  (\E V : server \in Seq(V)) /\ \A t \in 1..Len(server) : DatasetFits(server[t])

FileCallsFit == CallsTyped /\ \A call \in UnderWay : AsksForFile(call)

\* The inductive invariant.  A wizard stays the one it is.
ImportIInv ==
  /\ ImportFields \subseteq DOMAIN form
  /\ form.wizard = "file" => ColumnsFit(form) /\ FileCallsFit /\ DatasetsFit

\* The other wizards, while the one for files is shown.
LEMMA OnlyTheFileWizard ==
  ASSUME form.wizard = "file", FileCallsFit,
         [ImportNext \/ \E i \in 1..MaxCalls : Refuse(i) \/ LoseAnswer(i)]_vars
  PROVE  \/ \E wizard \in {"file", "mysql", "live"} : ImportOpen(wizard)
         \/ \E file \in Sources : FileUpload(file)
         \/ FileBack \/ FileChooseColumns \/ FileChooseSheet \/ FileChooseHeader
         \/ FileConfirm \/ FileClose \/ FilePoll
         \/ \E i \in 1..MaxCalls :
              \/ FileUploaded(i) \/ FileStarted(i) \/ ImportServe(i) \/ ImportFailed(i)
              \/ Refuse(i) \/ LoseAnswer(i)
         \/ \E t \in 1..MaxImports : ImportRuns(t) \/ ImportForgotten(t)
         \/ UNCHANGED vars
<1>1. ~ \E wizard \in {"mysql", "live"}, step \in {0, 1, 2} : ImportShown(wizard, step)
  BY DEF ImportShown
<1>2. ASSUME NEW i
      PROVE  ~MySQLStarted(i) /\ ~LiveRegistered(i)
  BY DEF MySQLStarted, LiveRegistered, Waiting, FileCallsFit, UnderWay, AsksForFile
<1> QED
  BY <1>1, <1>2
  DEF ImportNext, MySQLSelectConnection, MySQLSelectTable, MySQLGoToTables, MySQLGoToColumns,
      MySQLBack, MySQLSetTimer, MySQLTimer, MySQLChooseColumns, MySQLStart, MySQLClose,
      MySQLPoll, LiveSelectConnection, LiveSelectTable, LiveGoToTables, LiveBack, LiveSetTimer,
      LiveTimer, LiveChooseColumns, LiveRegister, LiveClose

\* A wizard stays the one it is.
LEMMA WizardStays ==
  ASSUME ImportFields \subseteq DOMAIN form,
         [ImportNext \/ \E i \in 1..MaxCalls : Refuse(i) \/ LoseAnswer(i)]_vars
  PROVE  ImportFields \subseteq DOMAIN form' /\ form'.wizard = form.wizard
<1> USE DEF ImportFields
<1> DEFINE Goal == ImportFields \subseteq DOMAIN form' /\ form'.wizard = form.wizard
<1> SUFFICES Goal
  OBVIOUS
<1>1. CASE UNCHANGED form
  BY <1>1
<1>2. CASE \E wizard \in {"file", "mysql", "live"} : ImportOpen(wizard)
  BY <1>2 DEF ImportOpen
<1>3. CASE FileBack \/ FileChooseColumns \/ FileChooseSheet \/ FileChooseHeader \/ FilePoll
  BY <1>3 DEF FileBack, FileChooseColumns, FileChooseSheet, FileChooseHeader, FilePoll
<1>4. CASE FileClose
  BY <1>4 DEF FileClose, ImportDefault
<1>5. CASE MySQLClose \/ LiveClose
  BY <1>5 DEF MySQLClose, LiveClose, ImportDefault
<1>6. CASE \/ \E c \in Connections : MySQLSelectConnection(c)
           \/ \E table \in Sources : MySQLSelectTable(table)
           \/ MySQLGoToTables \/ MySQLGoToColumns \/ MySQLBack \/ MySQLSetTimer
           \/ MySQLTimer \/ MySQLChooseColumns \/ MySQLPoll
  BY <1>6 DEF MySQLSelectConnection, MySQLSelectTable, MySQLGoToTables, MySQLGoToColumns,
     MySQLBack, MySQLSetTimer, MySQLTimer, MySQLChooseColumns, MySQLPoll
<1>7. CASE \/ \E c \in Connections : LiveSelectConnection(c)
           \/ \E table \in Sources : LiveSelectTable(table)
           \/ LiveGoToTables \/ LiveBack \/ LiveSetTimer \/ LiveTimer \/ LiveChooseColumns
  BY <1>7 DEF LiveSelectConnection, LiveSelectTable, LiveGoToTables, LiveBack, LiveSetTimer,
     LiveTimer, LiveChooseColumns
<1>8. ASSUME NEW i, \/ FileUploaded(i) \/ FileStarted(i) \/ MySQLStarted(i) \/ LiveRegistered(i)
      PROVE  Goal
  BY <1>8 DEF FileUploaded, FileStarted, MySQLStarted, LiveRegistered
<1> QED
  BY <1>1, <1>2, <1>3, <1>4, <1>5, <1>6, <1>7, <1>8
  DEF ImportNext, FileUpload, FileConfirm, MySQLStart, LiveRegister, ImportServe, ImportFailed,
      ImportRuns, ImportForgotten, Refuse, LoseAnswer, vars

\* The columns that are chosen.
LEMMA ColumnsStep ==
  ASSUME ImportIInv, form.wizard = "file",
         [ImportNext \/ \E i \in 1..MaxCalls : Refuse(i) \/ LoseAnswer(i)]_vars
  PROVE  ColumnsFit(form')
<1> USE DEF ImportFields, ColumnsFit
<1>1. ImportFields \subseteq DOMAIN form /\ ColumnsFit(form) /\ FileCallsFit
  BY DEF ImportIInv
<1>2. CASE UNCHANGED form
  BY <1>1, <1>2
<1>3. CASE \E wizard \in {"file", "mysql", "live"} : ImportOpen(wizard)
  BY <1>1, <1>3 DEF ImportOpen
<1>4. CASE FileBack \/ FileChooseColumns \/ FileChooseSheet \/ FileChooseHeader \/ FilePoll
  BY <1>1, <1>4 DEF FileBack, FileChooseColumns, FileChooseSheet, FileChooseHeader, FilePoll
<1>5. CASE FileClose
  BY <1>5 DEF FileClose, ImportDefault
<1>6. ASSUME NEW i, FileUploaded(i) \/ FileStarted(i)
      PROVE  ColumnsFit(form')
  BY <1>1, <1>6 DEF FileUploaded, FileStarted
<1> QED
  BY <1>1, <1>2, <1>3, <1>4, <1>5, <1>6, OnlyTheFileWizard
  DEF FileUpload, FileConfirm, ImportServe, ImportFailed, ImportRuns, ImportForgotten, Refuse,
      LoseAnswer, vars

\* A handler is started.
LEMMA FileCallStarted ==
  ASSUME FileCallsFit, NEW call, Start(call), {"ask"} \subseteq DOMAIN call, AsksForFile(call)
  PROVE  FileCallsFit'
<1> DEFINE new == With(call, "state", "sent")
<1>1. AsksForFile(new)
  BY DEF AsksForFile, With
<1> HIDE DEF new
<1>2. CallsTyped' /\ UnderWay' = UnderWay \cup {With(call, "state", "sent")}
  BY Started DEF FileCallsFit
<1> QED BY <1>1, <1>2 DEF new, FileCallsFit

\* What the handlers ask for.
LEMMA FileCallsStep ==
  ASSUME ImportIInv, form.wizard = "file",
         [ImportNext \/ \E i \in 1..MaxCalls : Refuse(i) \/ LoseAnswer(i)]_vars
  PROVE  FileCallsFit'
<1>1. FileCallsFit /\ ColumnsFit(form)
  BY DEF ImportIInv
<1>2. CASE UNCHANGED calls
  BY <1>1, <1>2 DEF FileCallsFit, CallsTyped, UnderWay
<1>3. ASSUME NEW file, FileUpload(file)
      PROVE  FileCallsFit'
  <2> DEFINE call == [ask |-> "upload", source |-> file]
  <2>1. Start(call) /\ {"ask"} \subseteq DOMAIN call /\ AsksForFile(call)
    BY <1>3 DEF FileUpload, AsksForFile
  <2> HIDE DEF call
  <2> QED BY <1>1, <2>1, FileCallStarted
<1>4. CASE FileConfirm
  <2> DEFINE call == [ask |-> "file", connection |-> None, source |-> form.source,
                      columns |-> form.columns, listed |-> ReadAsListed]
  <2>1. form.columns = form.source
    BY <1>1, <1>4 DEF FileConfirm, ColumnsFit
  <2>2. Start(call) /\ {"ask"} \subseteq DOMAIN call /\ AsksForFile(call)
    BY <1>4, <2>1 DEF FileConfirm, AsksForFile
  <2> HIDE DEF call
  <2> QED BY <1>1, <2>2, FileCallStarted
<1>5. ASSUME NEW i, i \in 1..Len(calls), Return(i)
      PROVE  FileCallsFit'
  BY <1>1, <1>5, Returned DEF FileCallsFit
<1>6. ASSUME NEW i, i \in 1..Len(calls), NEW call, AsksForFile(call), Asked(call),
             calls' = [calls EXCEPT ![i] = call]
      PROVE  FileCallsFit'
  BY <1>1, <1>6, Changed DEF FileCallsFit
<1>7. ASSUME NEW i, i \in 1..Len(calls), NEW state, Answer(i, state)
      PROVE  FileCallsFit'
  <2> DEFINE call == [calls[i] EXCEPT !.state = state]
  <2>1. calls' = [calls EXCEPT ![i] = call]
    BY <1>1, <1>7 DEF Answer, CallsTyped, FileCallsFit
  <2>2. Asked(call) /\ AsksForFile(call)
    BY <1>1, <1>7 DEF FileCallsFit, CallsTyped, UnderWay, Asked, AsksForFile
  <2> HIDE DEF call
  <2> QED BY <1>6, <1>7, <2>1, <2>2
<1>8. ASSUME NEW i, ImportServe(i)
      PROVE  FileCallsFit'
  <2>1. i \in 1..Len(calls)
    BY <1>8 DEF ImportServe, Waiting
  <2>2. CASE calls[i].ask = "upload"
    BY <1>7, <1>8, <2>1, <2>2 DEF ImportServe
  <2>3. CASE calls[i].ask # "upload"
    <3> DEFINE done == [calls[i] EXCEPT !.state = "done"]
               call == With(done, "task", Len(server'))
    <3>1. Asked(calls[i]) /\ AsksForFile(calls[i])
      BY <1>1, <2>1 DEF FileCallsFit, CallsTyped, UnderWay
    <3>2. calls' = [calls EXCEPT ![i] = call]
      BY <1>1, <1>8, <2>1, <2>3 DEF ImportServe, FileCallsFit, CallsTyped
    <3>3. /\ DOMAIN done = DOMAIN calls[i]
          /\ \A x \in DOMAIN done : x # "state" => done[x] = calls[i][x]
      OBVIOUS
    <3> HIDE DEF done
    <3>4. Asked(call) /\ AsksForFile(call)
      BY <3>1, <3>3 DEF Asked, AsksForFile, With
    <3> HIDE DEF call
    <3> QED BY <1>6, <2>1, <3>2, <3>4
  <2> QED BY <2>2, <2>3
<1> QED
  BY <1>1, <1>2, <1>3, <1>4, <1>5, <1>7, <1>8, OnlyTheFileWizard
  DEF ImportOpen, FileBack, FileChooseColumns, FileChooseSheet, FileChooseHeader, FileClose,
      FilePoll, FileUploaded, FileStarted,
      ImportFailed, ImportRuns, ImportForgotten, Refuse, LoseAnswer, Waiting, vars

\* What the server holds.
LEMMA DatasetsStep ==
  ASSUME ImportIInv, form.wizard = "file",
         [ImportNext \/ \E i \in 1..MaxCalls : Refuse(i) \/ LoseAnswer(i)]_vars
  PROVE  DatasetsFit'
<1>1. FileCallsFit /\ DatasetsFit
  BY DEF ImportIInv
<1>2. PICK V : server \in Seq(V)
  BY <1>1 DEF DatasetsFit
<1>3. CASE UNCHANGED server
  BY <1>1, <1>3 DEF DatasetsFit
<1>4. ASSUME NEW i, ImportServe(i)
      PROVE  DatasetsFit'
  <2>1. i \in 1..Len(calls)
    BY <1>4 DEF ImportServe, Waiting
  <2>2. CASE calls[i].ask = "upload"
    BY <1>3, <1>4, <2>2 DEF ImportServe
  <2>3. CASE calls[i].ask # "upload"
    <3> DEFINE d == [columns |-> calls[i].columns,
                     table |-> <<calls[i].connection, calls[i].source>>,
                     listed |-> (calls[i].ask = "file" => calls[i].listed),
                     status |-> IF calls[i].ask = "live" THEN "registered" ELSE "pending"]
    <3>1. server' = Append(server, d)
      BY <1>4, <2>3 DEF ImportServe
    <3>2. DatasetFits(d)
      BY <1>1, <2>1, <2>3 DEF FileCallsFit, UnderWay, AsksForFile, DatasetFits
    <3> HIDE DEF d
    <3>3. server' \in Seq(V \cup {d}) /\ Len(server') = Len(server) + 1
      BY <1>2, <3>1
    <3>4. \A t \in 1..Len(server') : server'[t] \in {server[t], d}
                                     /\ (t \notin 1..Len(server) => server'[t] = d)
      BY <1>2, <3>1
    <3> QED BY <1>1, <3>2, <3>3, <3>4 DEF DatasetsFit
  <2> QED BY <2>2, <2>3
<1>5. ASSUME NEW x, server' \in Seq(x), Len(server') = Len(server),
             \A t \in 1..Len(server) :
               /\ DOMAIN server'[t] = DOMAIN server[t]
               /\ server'[t].table = server[t].table
               /\ server'[t].columns \in {None, server[t].columns}
      PROVE  DatasetsFit'
  BY <1>1, <1>5 DEF DatasetsFit, DatasetFits
<1>6. ASSUME NEW t, ImportRuns(t)
      PROVE  DatasetsFit'
  <2>1. PICK status, columns :
          /\ server' = [server EXCEPT ![t].status = status, ![t].columns = columns]
          /\ columns \in {None, server[t].columns}
    <3>1. PICK status :
            server' = [server EXCEPT ![t].status = status,
                         ![t].columns = IF status = "completed" /\ ~server[t].listed
                                        THEN None ELSE @]
      BY <1>6 DEF ImportRuns
    <3>2. t \in DOMAIN server /\ DatasetFits(server[t])
      BY <1>1, <1>2, <1>6 DEF ImportRuns, DatasetsFit
    <3>3. CASE status = "completed" /\ ~server[t].listed
      BY <3>1, <3>3
    <3>4. CASE ~(status = "completed" /\ ~server[t].listed)
      BY <3>1, <3>2, <3>4 DEF DatasetFits
    <3> QED BY <3>3, <3>4
  <2> DEFINE d == [[server[t] EXCEPT !.status = status] EXCEPT !.columns = columns]
  <2>2. t \in 1..Len(server) /\ server' = [server EXCEPT ![t] = d]
    BY <1>2, <1>6, <2>1 DEF ImportRuns
  <2>3. DOMAIN d = DOMAIN server[t] /\ d.table = server[t].table /\ d.columns = columns
    BY <1>1, <2>2 DEF DatasetsFit, DatasetFits
  <2> HIDE DEF d
  <2>4. /\ server' \in Seq(V \cup {d}) /\ Len(server') = Len(server)
        /\ \A u \in 1..Len(server) : server'[u] = IF u = t THEN d ELSE server[u]
    BY <1>2, <2>2
  <2> QED BY <1>5, <2>1, <2>3, <2>4
<1>7. ASSUME NEW last, ImportForgotten(last)
      PROVE  DatasetsFit'
  <2> DEFINE W == V \cup {[d EXCEPT !.status = "forgotten"] : d \in V}
             New(t) == IF t > last \/ server[t].status = "registered" THEN server[t]
                       ELSE [server[t] EXCEPT !.status = "forgotten"]
  <2>1. server' = [t \in 1..Len(server) |-> New(t)]
    BY <1>7 DEF ImportForgotten
  <2>2. ASSUME NEW t \in 1..Len(server)
        PROVE  /\ New(t) \in W /\ DOMAIN New(t) = DOMAIN server[t]
               /\ New(t).table = server[t].table /\ New(t).columns = server[t].columns
    <3>1. server[t] \in V /\ {"columns", "table", "status"} \subseteq DOMAIN server[t]
      BY <1>1, <1>2 DEF DatasetsFit, DatasetFits
    <3> DEFINE d == [server[t] EXCEPT !.status = "forgotten"]
    <3>2. d \in W
      BY <3>1
    <3>3. DOMAIN d = DOMAIN server[t] /\ d.table = server[t].table /\ d.columns = server[t].columns
      BY <3>1
    <3>4. New(t) \in {server[t], d} /\ server[t] \in W
      BY <3>1
    <3> HIDE DEF New, d, W
    <3> QED BY <3>2, <3>3, <3>4
  <2>3. Len(server) \in Nat
    BY <1>2
  <2> HIDE DEF W, New
  <2>4. server' \in Seq(W) /\ Len(server') = Len(server)
    BY <2>1, <2>2, <2>3
  <2> QED BY <1>5, <2>1, <2>2, <2>4
<1> QED
  BY <1>1, <1>3, <1>4, <1>6, <1>7, OnlyTheFileWizard
  DEF ImportOpen, FileUpload, FileBack, FileChooseColumns, FileChooseSheet, FileChooseHeader,
      FileConfirm, FileClose, FilePoll, FileUploaded, FileStarted, ImportFailed, Refuse,
      LoseAnswer, vars

\* What is imported from a file are columns of that file, if any, however many have been
\* uploaded and wherever the user has gone while answers were on their way.
THEOREM FilesFit == ImportSpec => []ImportFileFits
<1>1. ImportInit => ImportIInv
  <2> SUFFICES ASSUME ImportInit PROVE ImportIInv
    OBVIOUS
  <2>1. PICK wizard \in {"file", "mysql", "live"} : form = [ImportDefault EXCEPT !.wizard = wizard]
    BY DEF ImportInit
  <2>2. ImportFields \subseteq DOMAIN form /\ form.source = None
    BY <2>1 DEF ImportDefault, ImportFields
  <2>3. calls \in Seq({}) /\ UnderWay = {} /\ server \in Seq({}) /\ Len(server) = 0
    BY DEF ImportInit, UnderWay
  <2> QED BY <2>2, <2>3 DEF ImportIInv, ColumnsFit, FileCallsFit, CallsTyped, DatasetsFit
<1>2. ImportIInv /\ [ImportNext \/ \E i \in 1..MaxCalls : Refuse(i) \/ LoseAnswer(i)]_vars
        => ImportIInv'
  BY WizardStays, ColumnsStep, FileCallsStep, DatasetsStep DEF ImportIInv
<1>3. ImportIInv => ImportFileFits
  BY DEF ImportIInv, ImportFileFits, DatasetsFit, DatasetFits
<1> QED BY <1>1, <1>2, <1>3, PTL DEF ImportSpec

-----------------------------------------------------------------------------
(***************************************************************************)
(* The agent's chat: answers stand right behind their questions, and the files*)
(* that are shown as under way are.                                        *)
(***************************************************************************)

ChatFields == {"kind", "here", "panel", "session", "page", "status", "typed", "streaming",
               "text", "messages", "streams", "timer", "forgotten", "uploading", "instant"}

ChatTyped ==
  /\ ChatFields \subseteq DOMAIN form
  /\ form.streams \in Nat /\ \E V : form.messages \in Seq(V)

\* An answer stands right behind its question.
AnswersWhole(messages) ==
  \A k \in 1..Len(messages) :
    messages[k].by = "assistant" =>
      /\ k > 1 /\ messages[k - 1].by = "user"
      /\ messages[k].of = messages[k - 1].of

\* The partial answer holds words of the latest stream only.
TextFits == form.text \subseteq {form.streams}

\* The question of the latest stream is the last message.
QuestionIsLast(f) ==
  /\ Len(f.messages) > 0
  /\ f.messages[Len(f.messages)].by = "user"
  /\ f.messages[Len(f.messages)].of = {f.streams}

\* The stream is the latest; until its answer has ended, its question is the last
\* message.
ChatCallFits(call, f) ==
  /\ call.ask = "chat" =>
       /\ {"stream", "ended"} \subseteq DOMAIN call
       /\ call.stream = f.streams
       /\ ~call.ended => QuestionIsLast(f)
  /\ call.ask = "upload" => {"instant", "left"} \subseteq DOMAIN call

\* One stream at a time.
OneStream(s) ==
  \A j, k \in 1..Len(s) : s[j].ask = "chat" /\ s[k].ask = "chat" => j = k

ChatCallsFit ==
  CallsTyped /\ OneStream(calls) /\ \A call \in UnderWay : ChatCallFits(call, form)

\* The keys of the files under way that the panel knows of.
InstantsKnown == {call.instant : call \in {c \in UnderWay : c.ask = "upload" /\ ~c.left}}

UploadsFit == form.uploading \subseteq InstantsKnown

\* The inductive invariant.
ChatIInv == ChatTyped /\ AnswersWhole(form.messages) /\ TextFits /\ ChatCallsFit /\ UploadsFit

-----------------------------------------------------------------------------
(* What becomes of the handlers. *)

\* The handlers but the one of the stream.
LEMMA WithoutStreamIs ==
  ASSUME NEW V, NEW s \in Seq(V), OneStream(s)
  PROVE  LET w == WithoutStream(s)
         IN  /\ w \in Seq(V)
             /\ {w[k] : k \in 1..Len(w)} = {c \in {s[k] : k \in 1..Len(s)} : c.ask # "chat"}
<1> DEFINE I == {k \in 1..Len(s) : s[k].ask = "chat"}
           w == WithoutStream(s)
<1>1. w = IF I # {} THEN RemoveAt(s, IF I # {} THEN Min(I) ELSE 0) ELSE s
  BY DEF WithoutStream, RemoveFirstMatch, SelectInSeq
<1>2. CASE I = {}
  BY <1>1, <1>2
<1>3. CASE I # {}
  <2>1. PICK i : I = {i}
    BY <1>3 DEF OneStream
  <2>2. i \in 1..Len(s) /\ s[i].ask = "chat" /\ \A k \in 1..Len(s) : k # i => s[k].ask # "chat"
    BY <2>1
  <2> HIDE DEF I
  <2>3. Min(I) = i
    BY <2>1, <2>2 DEF Min
  <2>4. w = RemoveAt(s, i)
    BY <1>1, <1>3, <2>3
  <2> HIDE DEF w
  <2>5. /\ w \in Seq(V) /\ Len(w) = Len(s) - 1 /\ Len(s) \in Nat
        /\ \A k \in 1..Len(s) - 1 : w[k] = s[IF k < i THEN k ELSE k + 1]
    <3>1. /\ RemoveAt(s, i) \in Seq(V) /\ Len(RemoveAt(s, i)) = Len(s) - 1
          /\ \A k \in 1..Len(s) - 1 : RemoveAt(s, i)[k] = s[IF k < i THEN k ELSE k + 1]
      BY <2>2, Removed, Zenon
    <3>2. Len(s) \in Nat
      OBVIOUS
    <3> QED BY <2>4, <3>1, <3>2
  <2>6. ASSUME NEW k \in 1..Len(w)
        PROVE  \E j \in 1..Len(s) : j # i /\ w[k] = s[j]
    <3>1. (IF k < i THEN k ELSE k + 1) \in 1..Len(s) /\ (IF k < i THEN k ELSE k + 1) # i
      BY <2>2, <2>5, <2>6
    <3> QED BY <2>5, <3>1
  <2>7. ASSUME NEW j \in 1..Len(s), j # i
        PROVE  \E k \in 1..Len(w) : w[k] = s[j]
    <3> DEFINE k == IF j < i THEN j ELSE j - 1
    <3>1. k \in 1..Len(w) /\ (IF k < i THEN k ELSE k + 1) = j
      BY <2>2, <2>5, <2>7
    <3> HIDE DEF k
    <3> QED BY <2>5, <3>1
  <2>8. {w[k] : k \in 1..Len(w)} = {c \in {s[k] : k \in 1..Len(s)} : c.ask # "chat"}
    <3>1. \A k \in 1..Len(w) : w[k] \in {c \in {s[j] : j \in 1..Len(s)} : c.ask # "chat"}
      BY <2>2, <2>6
    <3>2. \A j \in 1..Len(s) : s[j].ask # "chat" => s[j] \in {w[k] : k \in 1..Len(w)}
      BY <2>2, <2>7
    <3> QED BY <3>1, <3>2
  <2> QED BY <2>5, <2>8 DEF w
<1> QED BY <1>2, <1>3

\* The handlers are the same, one may have changed its state or the like, or has
\* returned.
LEMMA ChatChanged ==
  ASSUME ChatCallsFit, NEW i \in 1..Len(calls), NEW call, calls' = [calls EXCEPT ![i] = call],
         Asked(call), call.ask = calls[i].ask, ChatCallFits(call, form'),
         \A j \in 1..Len(calls) : j # i => ChatCallFits(calls[j], form')
  PROVE  ChatCallsFit'
<1>1. CallsTyped /\ OneStream(calls)
  BY DEF ChatCallsFit
<1>2. /\ CallsTyped' /\ Len(calls') = Len(calls) /\ calls'[i] = call
      /\ \A k \in 1..Len(calls) : k # i => calls'[k] = calls[k]
  BY <1>1, Changed
<1>3. OneStream(calls')
  BY <1>1, <1>2 DEF OneStream
<1>4. \A c \in UnderWay' : ChatCallFits(c, form')
  BY <1>2 DEF UnderWay
<1> QED BY <1>2, <1>3, <1>4 DEF ChatCallsFit

\* A handler has returned.
LEMMA ChatReturned ==
  ASSUME ChatCallsFit, NEW i \in 1..Len(calls), Return(i),
         \A call \in UnderWay : ChatCallFits(call, form')
  PROVE  ChatCallsFit'
<1>1. CallsTyped /\ OneStream(calls)
  BY DEF ChatCallsFit
<1>2. /\ CallsTyped' /\ UnderWay' \subseteq UnderWay /\ Len(calls') = Len(calls) - 1
      /\ \A k \in 1..Len(calls') : calls'[k] = calls[IF k < i THEN k ELSE k + 1]
      /\ Len(calls) \in Nat
  BY <1>1, Returned DEF CallsTyped
<1>3. ASSUME NEW j \in 1..Len(calls'), NEW k \in 1..Len(calls'),
             calls'[j].ask = "chat", calls'[k].ask = "chat"
      PROVE  j = k
  <2> DEFINE At(n) == IF n < i THEN n ELSE n + 1
  <2>1. At(j) \in 1..Len(calls) /\ At(k) \in 1..Len(calls)
    BY <1>2
  <2>2. calls[At(j)].ask = "chat" /\ calls[At(k)].ask = "chat"
    BY <1>2, <1>3
  <2>3. At(j) = At(k)
    BY <1>1, <2>1, <2>2 DEF OneStream
  <2> QED BY <2>3
<1> QED BY <1>2, <1>3 DEF ChatCallsFit, OneStream

\* A handler is started.
LEMMA ChatStarted ==
  ASSUME ChatCallsFit, NEW call, Start(call), {"ask"} \subseteq DOMAIN call, call.ask # "chat",
         ChatCallFits(call, form'), \A c \in UnderWay : ChatCallFits(c, form')
  PROVE  ChatCallsFit'
<1> DEFINE new == With(call, "state", "sent")
<1>1. new.ask # "chat" /\ ChatCallFits(new, form')
  BY DEF ChatCallFits, With
<1> HIDE DEF new
<1>2. /\ CallsTyped' /\ UnderWay' = UnderWay \cup {new} /\ calls' = Append(calls, new)
      /\ OneStream(calls)
  BY Started DEF ChatCallsFit, new
<1>3. PICK V : calls \in Seq(V)
  BY DEF ChatCallsFit, CallsTyped
<1>4. /\ Len(calls') = Len(calls) + 1 /\ calls'[Len(calls) + 1] = new
      /\ \A k \in 1..Len(calls) : calls'[k] = calls[k]
  BY <1>2, <1>3
<1>5. OneStream(calls')
  <2> SUFFICES ASSUME NEW j \in 1..Len(calls'), NEW k \in 1..Len(calls'),
                      calls'[j].ask = "chat", calls'[k].ask = "chat"
               PROVE  j = k
    BY DEF OneStream
  <2>1. j \in 1..Len(calls) /\ k \in 1..Len(calls)
    BY <1>1, <1>3, <1>4
  <2> QED BY <1>2, <1>4, <2>1 DEF OneStream
<1> QED BY <1>1, <1>2, <1>5 DEF ChatCallsFit

\* Components that handlers belong to are gone.
LEMMA ChatDetached ==
  ASSUME ChatCallsFit, NEW asks
  PROVE  LET s == Detached(asks)
         IN  /\ \E V : s \in Seq(V)
             /\ OneStream(s)
             /\ \A k \in 1..Len(s) : Asked(s[k]) /\ ChatCallFits(s[k], form)
<1> DEFINE Op == [call \in UnderWay |->
                    IF call.ask \in asks THEN [call EXCEPT !.left = TRUE] ELSE call]
           V == {Op[call] : call \in UnderWay}
           s == Detached(asks)
<1>1. CallsTyped /\ OneStream(calls) /\ \A call \in UnderWay : Asked(call) /\ ChatCallFits(call, form)
  BY DEF ChatCallsFit, CallsTyped
<1>2. Len(calls) \in Nat /\ \A k \in 1..Len(calls) : calls[k] \in UnderWay
  BY <1>1 DEF CallsTyped, UnderWay
<1>3. s = [k \in 1..Len(calls) |-> Op[calls[k]]]
  BY <1>2 DEF Detached
<1>4. ASSUME NEW call \in UnderWay
      PROVE  /\ Asked(Op[call]) /\ ChatCallFits(Op[call], form)
             /\ Op[call].ask = call.ask
  BY <1>1 DEF Asked, ChatCallFits
<1>5. \A k \in 1..Len(calls) : Op[calls[k]] \in V
  BY <1>2
<1> HIDE DEF Op, V, s
<1>6. s \in Seq(V) /\ Len(s) = Len(calls) /\ \A k \in 1..Len(calls) : s[k] = Op[calls[k]]
  BY <1>2, <1>3, <1>5
<1>7. OneStream(s)
  BY <1>1, <1>2, <1>4, <1>6 DEF OneStream
<1>8. \A k \in 1..Len(s) : Asked(s[k]) /\ ChatCallFits(s[k], form)
  BY <1>2, <1>4, <1>6
<1> QED BY <1>6, <1>7, <1>8 DEF s

\* The page is left.
LEMMA ChatLeft ==
  ASSUME ChatCallsFit, calls' = WithoutStream(Detached({"session", "upload"}))
  PROVE  ChatCallsFit'
<1> DEFINE s == Detached({"session", "upload"})
           w == WithoutStream(s)
<1>1. PICK V : s \in Seq(V)
  BY ChatDetached
<1>2. OneStream(s) /\ \A k \in 1..Len(s) : Asked(s[k]) /\ ChatCallFits(s[k], form)
  BY ChatDetached
<1> HIDE DEF s
<1>3. /\ w \in Seq(V)
      /\ {w[k] : k \in 1..Len(w)} = {c \in {s[k] : k \in 1..Len(s)} : c.ask # "chat"}
  BY <1>1, <1>2, WithoutStreamIs
<1>4. calls' = w
  BY DEF s
<1> HIDE DEF w
<1>5. \A k \in 1..Len(w) : Asked(w[k]) /\ w[k].ask # "chat" /\ ChatCallFits(w[k], form)
  BY <1>2, <1>3
<1>6. \A k \in 1..Len(w) : ChatCallFits(w[k], form')
  BY <1>5 DEF ChatCallFits
<1> QED BY <1>3, <1>4, <1>5, <1>6 DEF ChatCallsFit, CallsTyped, UnderWay, OneStream

\* The panel is closed or opened.
LEMMA ChatToggled ==
  ASSUME ChatCallsFit, calls' = Detached({"upload"}),
         form'.streams = form.streams, form'.messages = form.messages
  PROVE  ChatCallsFit'
<1> DEFINE s == Detached({"upload"})
<1>1. /\ \E V : s \in Seq(V)
      /\ OneStream(s) /\ \A k \in 1..Len(s) : Asked(s[k]) /\ ChatCallFits(s[k], form)
  BY ChatDetached
<1> HIDE DEF s
<1>2. \A k \in 1..Len(s) : ChatCallFits(s[k], form')
  BY <1>1 DEF ChatCallFits, QuestionIsLast
<1>3. calls' = s
  BY DEF s
<1> QED BY <1>1, <1>2, <1>3 DEF ChatCallsFit, CallsTyped, UnderWay

\* A message is sent.
LEMMA ChatStreamed ==
  ASSUME ChatTyped, ChatCallsFit, NEW typed, ChatStream(typed)
  PROVE  /\ ChatCallsFit'
         /\ {c \in UnderWay : c.ask # "chat"} \subseteq UnderWay'
<1> DEFINE stream == form.streams + 1
           new == [ask |-> "chat", stream |-> stream, ended |-> FALSE, left |-> FALSE,
                   state |-> "sent"]
           w == WithoutStream(calls)
<1>1. PICK V : calls \in Seq(V)
  BY DEF ChatCallsFit, CallsTyped
<1>2. /\ w \in Seq(V)
      /\ {w[k] : k \in 1..Len(w)} = {c \in UnderWay : c.ask # "chat"}
  BY <1>1, WithoutStreamIs DEF ChatCallsFit, UnderWay
<1>3. calls' = Append(w, new)
  BY DEF ChatStream
<1>4. form'.streams = stream /\ QuestionIsLast(form')
  <2> DEFINE question == [by |-> "user", of |-> {stream}]
  <2>1. form'.streams = stream /\ form'.messages = Append(form.messages, question)
    BY DEF ChatStream, ChatTyped, ChatFields
  <2>2. question.by = "user" /\ question.of = {stream}
    OBVIOUS
  <2> HIDE DEF question, stream
  <2>3. PICK M : form.messages \in Seq(M)
    BY DEF ChatTyped
  <2>4. /\ Len(form'.messages) = Len(form.messages) + 1 /\ Len(form.messages) \in Nat
        /\ form'.messages[Len(form.messages) + 1] = question
    BY <2>1, <2>3
  <2> QED BY <2>1, <2>2, <2>4 DEF QuestionIsLast
<1>5. Asked(new) /\ ChatCallFits(new, form') /\ new.ask = "chat"
  BY <1>4 DEF Asked, ChatCallFits
<1> HIDE DEF new, w, stream
<1>6. /\ calls' \in Seq(V \cup {new}) /\ Len(calls') = Len(w) + 1 /\ Len(w) \in Nat
      /\ calls'[Len(w) + 1] = new
      /\ \A k \in 1..Len(w) : calls'[k] = w[k]
  BY <1>2, <1>3
<1>7. \A k \in 1..Len(w) : w[k] \in UnderWay /\ w[k].ask # "chat"
  BY <1>2
<1>8. \A k \in 1..Len(calls') : k \in 1..Len(w) \/ k = Len(w) + 1
  BY <1>6
<1>9. OneStream(calls')
  BY <1>6, <1>7, <1>8 DEF OneStream
<1>10. ASSUME NEW c \in UnderWay, c.ask # "chat"
       PROVE  Asked(c) /\ ChatCallFits(c, form')
  BY <1>10 DEF ChatCallsFit, CallsTyped, ChatCallFits
<1>11. \A c \in UnderWay' : Asked(c) /\ ChatCallFits(c, form')
  BY <1>5, <1>6, <1>7, <1>8, <1>10 DEF UnderWay
<1>12. \A k \in 1..Len(w) : w[k] \in UnderWay'
  BY <1>6 DEF UnderWay
<1>13. {c \in UnderWay : c.ask # "chat"} \subseteq UnderWay'
  BY <1>2, <1>12
<1>14. CallsTyped'
  BY <1>6, <1>11 DEF CallsTyped
<1> QED BY <1>9, <1>11, <1>13, <1>14 DEF ChatCallsFit

-----------------------------------------------------------------------------
(* The conversation. *)

\* A message is added behind the others.
LEMMA MoreMessages ==
  ASSUME NEW M, NEW messages \in Seq(M), AnswersWhole(messages), NEW m,
         m.by = "assistant" =>
           /\ Len(messages) > 0 /\ messages[Len(messages)].by = "user"
           /\ m.of = messages[Len(messages)].of
  PROVE  Append(messages, m) \in Seq(M \cup {m}) /\ AnswersWhole(Append(messages, m))
<1> DEFINE more == Append(messages, m)
<1>1. /\ more \in Seq(M \cup {m}) /\ Len(more) = Len(messages) + 1 /\ Len(messages) \in Nat
      /\ more[Len(messages) + 1] = m /\ \A k \in 1..Len(messages) : more[k] = messages[k]
  OBVIOUS
<1> HIDE DEF more
<1>2. ASSUME NEW k \in 1..Len(more), more[k].by = "assistant"
      PROVE  k > 1 /\ more[k - 1].by = "user" /\ more[k].of = more[k - 1].of
  <2>1. CASE k = Len(messages) + 1
    <3>1. k - 1 = Len(messages) /\ Len(messages) \in 1..Len(messages)
      BY <1>1, <1>2, <2>1
    <3> QED BY <1>1, <1>2, <2>1, <3>1
  <2>2. CASE k # Len(messages) + 1
    <3>1. k \in 1..Len(messages) /\ more[k] = messages[k]
      BY <1>1, <2>2
    <3>2. k > 1 /\ messages[k - 1].by = "user" /\ messages[k].of = messages[k - 1].of
      BY <1>2, <3>1 DEF AnswersWhole
    <3>3. k - 1 \in 1..Len(messages)
      BY <1>1, <3>1, <3>2
    <3> QED BY <1>1, <3>1, <3>2, <3>3
  <2> QED BY <2>1, <2>2
<1> QED BY <1>1, <1>2 DEF AnswersWhole, more

Conversation == ChatTyped /\ AnswersWhole(form.messages) /\ TextFits

\* What the user and the agent say, and what is left of it when the page is left.
LEMMA ConversationStep ==
  ASSUME ChatIInv,
         [ChatNext \/ \E i \in 1..MaxCalls : Refuse(i) \/ LoseAnswer(i)]_vars
  PROVE  Conversation'
<1> USE DEF ChatFields
<1>1. Conversation
  BY DEF ChatIInv, Conversation
<1>2. ASSUME ChatFields \subseteq DOMAIN form',
             \A x \in {"messages", "streams", "text"} : form'[x] = form[x]
      PROVE  Conversation'
  BY <1>1, <1>2 DEF Conversation, ChatTyped, TextFits, AnswersWhole
<1>3. CASE ChatLeave
  <2>1. /\ ChatFields \subseteq DOMAIN form'
        /\ form'.messages = <<>> /\ form'.text = {} /\ form'.streams = form.streams
    BY <1>3 DEF ChatLeave, ChatDefault
  <2>2. AnswersWhole(<<>>)
    BY DEF AnswersWhole
  <2>3. <<>> \in Seq({})
    OBVIOUS
  <2> QED BY <1>1, <2>1, <2>2, <2>3 DEF Conversation, ChatTyped, TextFits
<1>4. ASSUME NEW typed, ChatStream(typed)
      PROVE  Conversation'
  <2> DEFINE question == [by |-> "user", of |-> {form.streams + 1}]
  <2>1. /\ ChatFields \subseteq DOMAIN form' /\ form'.streams = form.streams + 1
        /\ form'.text = {} /\ form'.messages = Append(form.messages, question)
    BY <1>1, <1>4 DEF ChatStream, Conversation, ChatTyped
  <2>2. question.by # "assistant"
    OBVIOUS
  <2> HIDE DEF question
  <2>3. PICK M : form.messages \in Seq(M)
    BY <1>1 DEF Conversation, ChatTyped
  <2>4. form'.messages \in Seq(M \cup {question}) /\ AnswersWhole(form'.messages)
    <3>1. AnswersWhole(form.messages)
      BY <1>1 DEF Conversation
    <3>2. /\ Append(form.messages, question) \in Seq(M \cup {question})
          /\ AnswersWhole(Append(form.messages, question))
      BY <2>2, <2>3, <3>1, MoreMessages
    <3> QED BY <2>1, <3>2
  <2> QED BY <1>1, <2>1, <2>4 DEF Conversation, ChatTyped, TextFits
<1>5. ASSUME NEW i, ChatEvent(i)
      PROVE  /\ calls[i].stream = form.streams /\ QuestionIsLast(form)
  BY <1>5 DEF ChatEvent, Waiting, UnderWay, ChatIInv, ChatCallsFit, ChatCallFits
<1>6. ASSUME NEW i, ChatText(i)
      PROVE  Conversation'
  <2>1. /\ ChatFields \subseteq DOMAIN form' /\ form'.text = form.text \cup {form.streams}
        /\ form'.messages = form.messages /\ form'.streams = form.streams
    BY <1>1, <1>5, <1>6 DEF ChatText, Conversation, ChatTyped
  <2> QED BY <1>1, <2>1 DEF Conversation, ChatTyped, TextFits
<1>7. ASSUME NEW i, ChatDone(i)
      PROVE  Conversation'
  <2> DEFINE answer == [by |-> "assistant", of |-> form.text]
  <2>1. /\ ChatFields \subseteq DOMAIN form' /\ form'.text = {}
        /\ form'.streams = form.streams
        /\ form'.messages = IF form.text = {} THEN form.messages
                            ELSE Append(form.messages, answer)
    BY <1>1, <1>7 DEF ChatDone, Conversation, ChatTyped
  <2>2. PICK M : form.messages \in Seq(M)
    BY <1>1 DEF Conversation, ChatTyped
  <2>3. CASE form.text = {}
    BY <1>1, <2>1, <2>2, <2>3 DEF Conversation, ChatTyped, TextFits
  <2>4. CASE form.text # {}
    <3>1. answer.of = {form.streams}
      BY <1>1, <2>4 DEF Conversation, TextFits
    <3>2. QuestionIsLast(form)
      BY <1>5, <1>7 DEF ChatDone
    <3> HIDE DEF answer
    <3>3. form'.messages \in Seq(M \cup {answer}) /\ AnswersWhole(form'.messages)
      <4>1. AnswersWhole(form.messages)
        BY <1>1 DEF Conversation
      <4>2. /\ Len(form.messages) > 0 /\ form.messages[Len(form.messages)].by = "user"
            /\ answer.of = form.messages[Len(form.messages)].of
        BY <3>1, <3>2 DEF QuestionIsLast
      <4>3. /\ Append(form.messages, answer) \in Seq(M \cup {answer})
            /\ AnswersWhole(Append(form.messages, answer))
        BY <2>2, <4>1, <4>2, MoreMessages
      <4> QED BY <2>1, <2>4, <4>3
    <3> QED BY <1>1, <2>1, <3>3 DEF Conversation, ChatTyped, TextFits
  <2> QED BY <2>3, <2>4
<1>8. CASE UNCHANGED form
  BY <1>1, <1>2, <1>8 DEF Conversation, ChatTyped
<1>9. CASE \/ ChatEnter \/ ChatTogglePanel \/ ChatFindsObjects \/ ChatRestores \/ ChatType
           \/ ChatTimer \/ ChatForgottenTimer \/ ChatReconnect
  BY <1>1, <1>2, <1>9 DEF Conversation, ChatTyped, ChatEnter, ChatTogglePanel, ChatFindsObjects,
     ChatRestores, ChatType, ChatTimer, ChatForgottenTimer, ChatReconnect
<1>10. ASSUME NEW i, ChatGuided(i) \/ ChatError(i) \/ ChatBreaks(i) \/ UploadTick(i) \/ UploadEnds(i)
       PROVE  Conversation'
  BY <1>1, <1>2, <1>10 DEF Conversation, ChatTyped, ChatGuided, ChatError, ChatBreaks,
     UploadTick, UploadEnds
<1>11. ASSUME NEW instant, UploadFile(instant)
       PROVE  Conversation'
  BY <1>1, <1>2, <1>11 DEF Conversation, ChatTyped, UploadFile
<1> QED
  BY <1>3, <1>4, <1>6, <1>7, <1>8, <1>9, <1>10, <1>11
  DEF ChatNext, ChatGuide, ChatSend, ChatPropose, ChatDrawLink, ChatGuideFailed, ChatCloses,
      ChatServe, ChatCompleted, Refuse, LoseAnswer, vars

-----------------------------------------------------------------------------
(* The handlers and the files. *)

\* What holds of the handlers, whatever happens to the conversation.
LEMMA HandlersStep ==
  ASSUME ChatIInv,
         [ChatNext \/ \E i \in 1..MaxCalls : Refuse(i) \/ LoseAnswer(i)]_vars
  PROVE  ChatCallsFit'
<1> USE DEF ChatFields
<1>1. ChatTyped /\ ChatCallsFit /\ \A call \in UnderWay : Asked(call) /\ ChatCallFits(call, form)
  BY DEF ChatIInv, ChatCallsFit, CallsTyped
<1>2. ASSUME form'.streams = form.streams, form'.messages = form.messages
      PROVE  \A call \in UnderWay : ChatCallFits(call, form')
  BY <1>1, <1>2 DEF ChatCallFits, QuestionIsLast
<1>3. ASSUME form'.streams = form.streams, form'.messages = form.messages, UNCHANGED calls
      PROVE  ChatCallsFit'
  BY <1>1, <1>2, <1>3 DEF ChatCallsFit, CallsTyped, UnderWay, OneStream
<1>4. ASSUME form'.streams = form.streams, form'.messages = form.messages,
             NEW i \in 1..Len(calls), Return(i)
      PROVE  ChatCallsFit'
  BY <1>1, <1>2, <1>4, ChatReturned
<1>5. ASSUME NEW i \in 1..Len(calls)
      PROVE  calls[i] \in UnderWay /\ i \in DOMAIN calls
  BY <1>1, <1>5 DEF UnderWay, ChatCallsFit, CallsTyped
<1>6. ASSUME UNCHANGED form, NEW i \in 1..Len(calls), NEW state, Answer(i, state)
      PROVE  ChatCallsFit'
  <2> DEFINE call == [calls[i] EXCEPT !.state = state]
  <2>1. calls' = [calls EXCEPT ![i] = call]
    BY <1>5, <1>6 DEF Answer
  <2>2. /\ Asked(call) /\ call.ask = calls[i].ask /\ ChatCallFits(call, form)
    BY <1>1, <1>5 DEF Asked, ChatCallFits
  <2> HIDE DEF call
  <2> QED BY <1>1, <1>5, <1>6, <2>1, <2>2, ChatChanged
<1>7. CASE UNCHANGED <<form, calls>>
  BY <1>3, <1>7
<1>8. CASE ChatLeave
  BY <1>1, <1>8, ChatLeft DEF ChatLeave
<1>9. CASE ChatTogglePanel
  BY <1>1, <1>9, ChatToggled DEF ChatTogglePanel, ChatTyped
<1>10. CASE ChatGuide
  <2> DEFINE call == [ask |-> "session", left |-> FALSE]
  <2>1. Start(call) /\ {"ask"} \subseteq DOMAIN call /\ call.ask # "chat"
        /\ ChatCallFits(call, form') /\ UNCHANGED form
    BY <1>10 DEF ChatGuide, ChatCallFits
  <2> HIDE DEF call
  <2> QED BY <1>1, <1>2, <2>1, ChatStarted
<1>11. ASSUME NEW typed, ChatStream(typed)
       PROVE  ChatCallsFit'
  BY <1>1, <1>11, ChatStreamed
<1>12. ASSUME NEW i, ChatDone(i) \/ ChatError(i)
       PROVE  ChatCallsFit'
  <2> DEFINE call == [calls[i] EXCEPT !.ended = TRUE]
  <2>1. /\ i \in 1..Len(calls) /\ calls' = [calls EXCEPT ![i] = call]
        /\ calls[i].ask = "chat" /\ form'.streams = form.streams
    BY <1>1, <1>5, <1>12 DEF ChatDone, ChatError, ChatEvent, Waiting, ChatTyped
  <2>2. /\ Asked(call) /\ call.ask = calls[i].ask /\ ChatCallFits(call, form')
    BY <1>1, <1>5, <2>1 DEF Asked, ChatCallFits
  <2> HIDE DEF call
  <2>3. \A j \in 1..Len(calls) : j # i => calls[j].ask # "chat"
    BY <1>1, <2>1 DEF ChatCallsFit, OneStream
  <2>4. \A j \in 1..Len(calls) : j # i => ChatCallFits(calls[j], form')
    BY <1>1, <1>5, <2>3 DEF ChatCallFits
  <2> QED BY <1>1, <2>1, <2>2, <2>4, ChatChanged
<1>13. ASSUME NEW i, \/ ChatGuided(i) \/ ChatGuideFailed(i) \/ ChatCloses(i) \/ ChatBreaks(i)
                     \/ UploadEnds(i)
       PROVE  ChatCallsFit'
  <2>1. /\ i \in 1..Len(calls) /\ Return(i)
        /\ form'.streams = form.streams /\ form'.messages = form.messages
    BY <1>1, <1>13 DEF ChatGuided, ChatGuideFailed, ChatCloses, ChatBreaks, UploadEnds, Waiting,
       ChatTyped
  <2> QED BY <1>4, <2>1
<1>14. ASSUME NEW instant, UploadFile(instant)
       PROVE  ChatCallsFit'
  <2> DEFINE call == [ask |-> "upload", instant |-> instant, left |-> FALSE]
  <2>1. Start(call) /\ {"ask"} \subseteq DOMAIN call /\ call.ask # "chat"
        /\ ChatCallFits(call, form')
    BY <1>14 DEF UploadFile, ChatCallFits
  <2>2. form'.streams = form.streams /\ form'.messages = form.messages
    BY <1>1, <1>14 DEF UploadFile, ChatTyped
  <2> HIDE DEF call
  <2> QED BY <1>1, <1>2, <2>1, <2>2, ChatStarted
<1>15. CASE \/ ChatEnter \/ ChatFindsObjects \/ ChatRestores \/ ChatType
            \/ ChatTimer \/ ChatForgottenTimer \/ ChatReconnect \/ ChatCompleted
  BY <1>1, <1>3, <1>15 DEF ChatEnter, ChatFindsObjects, ChatRestores, ChatType, ChatTimer,
     ChatForgottenTimer, ChatReconnect, ChatCompleted, ChatTyped
<1>16. ASSUME NEW i, ChatText(i) \/ UploadTick(i)
       PROVE  ChatCallsFit'
  BY <1>1, <1>3, <1>16 DEF ChatText, UploadTick, ChatTyped
<1>17. ASSUME NEW i, ChatServe(i) \/ Refuse(i) \/ LoseAnswer(i)
       PROVE  ChatCallsFit'
  <2>1. i \in 1..Len(calls) /\ UNCHANGED form /\ \E state : Answer(i, state)
    BY <1>17, Zenon DEF ChatServe, Refuse, LoseAnswer, Waiting
  <2> QED BY <1>6, <2>1
<1> QED
  BY <1>7, <1>8, <1>9, <1>10, <1>11, <1>12, <1>13, <1>14, <1>15, <1>16, <1>17
  DEF ChatNext, ChatSend, ChatPropose, ChatDrawLink, vars

\* The entries of files that the panel shows.
LEMMA UploadsStep ==
  ASSUME ChatIInv,
         [ChatNext \/ \E i \in 1..MaxCalls : Refuse(i) \/ LoseAnswer(i)]_vars
  PROVE  UploadsFit'
<1> USE DEF ChatFields
<1> DEFINE Known(c) == c.ask = "upload" /\ ~c.left
<1>1. /\ ChatTyped /\ ChatCallsFit /\ CallsTyped /\ UploadsFit
      /\ \A call \in UnderWay : Asked(call) /\ ChatCallFits(call, form)
  BY DEF ChatIInv, ChatCallsFit, CallsTyped
<1>2. ASSUME form'.uploading \subseteq form.uploading,
             \A c \in UnderWay : Known(c) => \/ \E d \in UnderWay' : Known(d) /\ d.instant = c.instant
                                             \/ c.instant \notin form'.uploading
      PROVE  UploadsFit'
  BY <1>1, <1>2 DEF UploadsFit, InstantsKnown
<1>3. ASSUME form'.uploading = form.uploading, UNCHANGED calls
      PROVE  UploadsFit'
  BY <1>2, <1>3 DEF UnderWay
<1>4. ASSUME form'.uploading = form.uploading, NEW i \in 1..Len(calls), Return(i),
             ~Known(calls[i])
      PROVE  UploadsFit'
  <2>1. UnderWay \subseteq UnderWay' \cup {calls[i]}
    BY <1>1, <1>4, Returned
  <2> QED BY <1>2, <1>4, <2>1
<1>5. ASSUME NEW i \in 1..Len(calls)
      PROVE  calls[i] \in UnderWay /\ i \in DOMAIN calls
  BY <1>1, <1>5 DEF UnderWay, CallsTyped
<1>6. ASSUME form'.uploading = form.uploading, NEW i \in 1..Len(calls), NEW call, Asked(call),
             calls' = [calls EXCEPT ![i] = call],
             Known(calls[i]) => Known(call) /\ call.instant = calls[i].instant
      PROVE  UploadsFit'
  <2>1. call \in UnderWay' /\ UnderWay \subseteq UnderWay' \cup {calls[i]}
    BY <1>1, <1>6, Changed
  <2> QED BY <1>2, <1>6, <2>1
<1>7. CASE ChatLeave \/ ChatTogglePanel
  <2>1. form'.uploading = {}
    BY <1>1, <1>7 DEF ChatLeave, ChatTogglePanel, ChatDefault, ChatTyped
  <2> QED BY <2>1 DEF UploadsFit
<1>8. CASE ChatGuide
  <2> DEFINE call == [ask |-> "session", left |-> FALSE]
  <2>1. Start(call) /\ {"ask"} \subseteq DOMAIN call /\ UNCHANGED form
    BY <1>8 DEF ChatGuide
  <2> HIDE DEF call
  <2>2. UnderWay \subseteq UnderWay'
    BY <1>1, <2>1, Started
  <2> QED BY <1>2, <2>1, <2>2
<1>9. ASSUME NEW typed, ChatStream(typed)
      PROVE  UploadsFit'
  <2>1. form'.uploading = form.uploading
    BY <1>1, <1>9 DEF ChatStream, ChatTyped
  <2>2. {c \in UnderWay : c.ask # "chat"} \subseteq UnderWay'
    BY <1>1, <1>9, ChatStreamed
  <2> QED BY <1>2, <2>1, <2>2
<1>10. ASSUME NEW i, ChatDone(i) \/ ChatError(i)
       PROVE  UploadsFit'
  <2> DEFINE call == [calls[i] EXCEPT !.ended = TRUE]
  <2>1. /\ i \in 1..Len(calls) /\ calls' = [calls EXCEPT ![i] = call]
        /\ calls[i].ask = "chat" /\ form'.uploading = form.uploading
    BY <1>1, <1>5, <1>10 DEF ChatDone, ChatError, ChatEvent, Waiting, ChatTyped
  <2>2. Asked(call)
    BY <1>1, <1>5, <2>1 DEF Asked
  <2> HIDE DEF call
  <2> QED BY <1>6, <2>1, <2>2
<1>11. ASSUME NEW i, ChatGuided(i) \/ ChatGuideFailed(i) \/ ChatCloses(i) \/ ChatBreaks(i)
       PROVE  UploadsFit'
  <2>1. /\ i \in 1..Len(calls) /\ Return(i) /\ form'.uploading = form.uploading
        /\ calls[i].ask # "upload" \/ ChatGuideFailed(i)
    BY <1>1, <1>11 DEF ChatGuided, ChatGuideFailed, ChatCloses, ChatBreaks, Waiting, ChatTyped
  <2>2. calls[i].ask # "upload"
    BY <2>1 DEF ChatGuideFailed
  <2> QED BY <1>4, <2>1, <2>2
<1>12. ASSUME NEW instant, UploadFile(instant)
       PROVE  UploadsFit'
  <2> DEFINE call == [ask |-> "upload", instant |-> instant, left |-> FALSE]
             new == With(call, "state", "sent")
  <2>1. Start(call) /\ {"ask"} \subseteq DOMAIN call
        /\ form'.uploading = form.uploading \cup {instant}
    BY <1>1, <1>12 DEF UploadFile, ChatTyped
  <2>2. Known(new) /\ new.instant = instant
    BY DEF With
  <2> HIDE DEF call
  <2>3. UnderWay' = UnderWay \cup {With(call, "state", "sent")}
    BY <1>1, <2>1, Started
  <2> HIDE DEF new
  <2>4. UnderWay' = UnderWay \cup {new}
    BY <2>3 DEF new
  <2> QED BY <1>1, <2>1, <2>2, <2>4 DEF UploadsFit, InstantsKnown
<1>13. ASSUME NEW i, UploadTick(i)
       PROVE  UploadsFit'
  <2>1. /\ calls[i] \in UnderWay /\ Known(calls[i]) /\ UNCHANGED calls
        /\ form'.uploading = form.uploading \cup {calls[i].instant}
    BY <1>1, <1>5, <1>13 DEF UploadTick, ChatTyped
  <2> QED BY <1>1, <2>1 DEF UploadsFit, InstantsKnown, UnderWay
<1>14. ASSUME NEW i, UploadEnds(i)
       PROVE  UploadsFit'
  <2>1. /\ i \in 1..Len(calls) /\ Return(i) /\ calls[i].ask = "upload"
        /\ form'.uploading = IF calls[i].left THEN form.uploading
                             ELSE form.uploading \ {calls[i].instant}
    BY <1>1, <1>14 DEF UploadEnds, Waiting, ChatTyped
  <2>2. UnderWay \subseteq UnderWay' \cup {calls[i]}
    BY <1>1, <2>1, Returned
  <2> QED BY <1>2, <2>1, <2>2
<1>15. CASE \/ ChatEnter \/ ChatFindsObjects \/ ChatRestores \/ ChatType
            \/ ChatTimer \/ ChatForgottenTimer \/ ChatReconnect \/ ChatCompleted
            \/ \E i \in 1..MaxCalls : ChatText(i)
            \/ UNCHANGED vars
  BY <1>1, <1>3, <1>15 DEF ChatEnter, ChatFindsObjects, ChatRestores, ChatType, ChatTimer,
     ChatForgottenTimer, ChatReconnect, ChatCompleted, ChatText, ChatTyped, vars
<1>16. ASSUME NEW i, ChatServe(i) \/ Refuse(i) \/ LoseAnswer(i)
       PROVE  UploadsFit'
  <2>1. i \in 1..Len(calls) /\ UNCHANGED form /\ \E state : Answer(i, state)
    BY <1>16, Zenon DEF ChatServe, Refuse, LoseAnswer, Waiting
  <2>2. PICK state : Answer(i, state)
    BY <2>1
  <2> DEFINE call == [calls[i] EXCEPT !.state = state]
  <2>3. calls' = [calls EXCEPT ![i] = call]
    BY <1>5, <2>1, <2>2 DEF Answer
  <2>4. Asked(call) /\ (Known(calls[i]) => Known(call) /\ call.instant = calls[i].instant)
    BY <1>1, <1>5, <2>1 DEF Asked
  <2> HIDE DEF call
  <2> QED BY <1>6, <2>1, <2>3, <2>4
<1> QED
  BY <1>7, <1>8, <1>9, <1>10, <1>11, <1>12, <1>13, <1>14, <1>15, <1>16
  DEF ChatNext, ChatSend, ChatPropose, ChatDrawLink

\* What holds of the conversation and of the files in every state.
THEOREM ChatFits == ChatSpec => []ChatIInv
<1>1. ChatInit => ChatIInv
  <2> SUFFICES ASSUME ChatInit PROVE ChatIInv
    OBVIOUS
  <2>1. calls = <<>> /\ UnderWay = {} /\ form = ChatDefault
    BY DEF ChatInit, UnderWay
  <2>2. ChatTyped /\ TextFits /\ UploadsFit /\ form.messages = <<>>
    <3>1. <<>> \in Seq({})
      OBVIOUS
    <3> QED BY <2>1, <3>1 DEF ChatDefault, ChatTyped, ChatFields, TextFits, UploadsFit
  <2>3. AnswersWhole(form.messages)
    BY <2>2 DEF AnswersWhole
  <2>4. ChatCallsFit
    BY <2>1 DEF ChatCallsFit, CallsTyped, OneStream
  <2> QED BY <2>2, <2>3, <2>4 DEF ChatIInv
<1>2. ChatIInv /\ [ChatNext \/ \E i \in 1..MaxCalls : Refuse(i) \/ LoseAnswer(i)]_vars => ChatIInv'
  BY ConversationStep, HandlersStep, UploadsStep DEF ChatIInv, Conversation
<1> QED BY <1>1, <1>2, PTL DEF ChatSpec

\* An answer in the conversation stands right behind its question and holds words
\* of that answer only.
THEOREM AnswersStayWhole == ChatSpec => []AnswersAreWhole
<1>1. ChatIInv => AnswersAreWhole
  BY DEF ChatIInv, AnswersWhole, AnswersAreWhole
<1> QED BY <1>1, ChatFits, PTL

\* An entry of a file under way belongs to one.
THEOREM UploadsAreUnderWay == ChatSpec => []UploadsShownAreUnderWay
<1>1. ChatIInv => UploadsShownAreUnderWay
  BY DEF ChatIInv, UploadsFit, InstantsKnown, UnderWay, UploadsShownAreUnderWay
<1> QED BY <1>1, ChatFits, PTL
===============================================================================
