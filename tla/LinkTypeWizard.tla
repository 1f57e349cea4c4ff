--------------------------- MODULE LinkTypeWizard ---------------------------
(***************************************************************************)
(* The wizard that creates a link type: the kind of relationship, the      *)
(* object types at its ends with what joins them (a foreign key, a join    *)
(* table or a backing object with two side links), and the names.  Each    *)
(* kind of relationship has fields of its own; the steps can be gone       *)
(* through back and forth, so that fields of another choice must not stay. *)
(* Of the names only whether they are valid is kept.                       *)
(***************************************************************************)
EXTENDS Screen

CONSTANTS
  LinkEnds,      \* object types
  JoinDatasets,  \* datasets
  SideLinks      \* many-to-one link types: records with id, from and to

ASSUME LinkNoneAssumption ==
  None \notin LinkEnds /\ None \notin JoinDatasets /\ None \notin SideLinks

Cardinalities == {"one-to-one", "one-to-many", "many-to-one", "many-to-many"}

\* The state that handleClose leaves.  A foreign key is named by the object type
\* that has the property, a column by its dataset.
LinkDefault ==
  [kind |-> "link type", open |-> FALSE, prefilled |-> FALSE, step |-> 0,
   cardinality |-> None, backed |-> FALSE, a |-> None, b |-> None, fk |-> None,
   dataset |-> None, columnA |-> None, columnB |-> None,
   backing |-> None, linkA |-> None, linkB |-> None,
   valid |-> FALSE]

LinkShown == form.kind = "link type" /\ form.open

JoinTable(f) == f.cardinality = "many-to-many" /\ ~f.backed

\* getFkSide: the side whose object type has the foreign key.
ForeignKeySide(cardinality) ==
  IF cardinality \in {"one-to-one", "many-to-one"} THEN "A"
  ELSE IF cardinality = "one-to-many" THEN "B" ELSE "none"

ForeignKeyEnd(f) ==
  IF ForeignKeySide(f.cardinality) = "A" THEN f.a
  ELSE IF ForeignKeySide(f.cardinality) = "B" THEN f.b ELSE None

-----------------------------------------------------------------------------
(* Step 0: the relationship. *)

\* The store's open; a page of an object type opens the wizard for that one.
LinkOpen(prefilled) ==
  /\ form.kind = "link type" /\ ~form.open
  /\ form' = [LinkDefault EXCEPT !.open = TRUE, !.a = prefilled,
                                 !.prefilled = prefilled # None]
  /\ UNCHANGED <<calls, server>>

\* Mutant of LinkSelectCardinality: the foreign key stays.
LinkSelectCardinalityOnly(c) ==
  /\ LinkShown /\ form.step = 0
  /\ form' = IF c = "many-to-many"
             THEN [form EXCEPT !.cardinality = c]
             ELSE [form EXCEPT !.cardinality = c, !.backed = FALSE,
                     !.backing = None, !.linkA = None, !.linkB = None,
                     !.dataset = None, !.columnA = None, !.columnB = None]
  /\ UNCHANGED <<calls, server>>

\* handleCardinalitySelect
LinkSelectCardinality(c) ==
  /\ LinkShown /\ form.step = 0
  /\ form' = IF c = "many-to-many"
             THEN [form EXCEPT !.cardinality = c, !.fk = None]
             ELSE [form EXCEPT !.cardinality = c, !.fk = None, !.backed = FALSE,
                     !.backing = None, !.linkA = None, !.linkB = None,
                     !.dataset = None, !.columnA = None, !.columnB = None]
  /\ UNCHANGED <<calls, server>>

\* handleNNSubChange.  For other cardinalities its cards are clipped to no
\* height; they keep their tab stop and answer the keyboard.
LinkSelectBacked(backed) ==
  /\ LinkShown /\ form.step = 0
  /\ form' = IF backed
             THEN [form EXCEPT !.backed = TRUE, !.dataset = None,
                               !.columnA = None, !.columnB = None]
             ELSE [form EXCEPT !.backed = FALSE, !.backing = None,
                               !.linkA = None, !.linkB = None]
  /\ UNCHANGED <<calls, server>>

-----------------------------------------------------------------------------
(* Step 1: the ends and what joins them. *)

LinkSelectA(o) ==
  /\ LinkShown /\ form.step = 1 /\ ~form.prefilled
  /\ form' = [form EXCEPT !.a = o, !.linkA = None,
                !.fk = IF ForeignKeySide(form.cardinality) = "A" THEN None ELSE @]
  /\ UNCHANGED <<calls, server>>

LinkSelectB(o) ==
  /\ LinkShown /\ form.step = 1
  /\ form' = [form EXCEPT !.b = o, !.linkB = None,
                !.fk = IF ForeignKeySide(form.cardinality) = "B" THEN None ELSE @]
  /\ UNCHANGED <<calls, server>>

\* The list of the end's properties; the choice may be cleared.
LinkSelectForeignKey ==
  /\ LinkShown /\ form.step = 1
  /\ ForeignKeyEnd(form) # None /\ form.a # None /\ form.b # None
  /\ \E fk \in {ForeignKeyEnd(form), None} : form' = [form EXCEPT !.fk = fk]
  /\ UNCHANGED <<calls, server>>

LinkSelectBacking(o) ==
  /\ LinkShown /\ form.step = 1 /\ form.backed
  /\ form' = [form EXCEPT !.backing = o, !.linkA = None, !.linkB = None]
  /\ UNCHANGED <<calls, server>>

\* useEligibleSideLinks: what the server answers for a side and the backing
\* object type.
EligibleLinks(end, backing) == {l \in SideLinks : l.from = end /\ l.to = backing}

LinkSelectSideLinks ==
  /\ LinkShown /\ form.step = 1 /\ form.backed
  /\ form.backing # None /\ form.a # None /\ form.b # None
  /\ \/ \E l \in EligibleLinks(form.a, form.backing) : form' = [form EXCEPT !.linkA = l]
     \/ \E l \in EligibleLinks(form.b, form.backing) : form' = [form EXCEPT !.linkB = l]
  /\ UNCHANGED <<calls, server>>

\* The effects that choose the only eligible link once the list is there.
LinkAutoSelectA ==
  /\ LinkShown /\ form.linkA = None
  /\ \E l \in SideLinks :
       /\ EligibleLinks(form.a, form.backing) = {l}
       /\ form' = [form EXCEPT !.linkA = l]
  /\ UNCHANGED <<calls, server>>

LinkAutoSelectB ==
  /\ LinkShown /\ form.linkB = None
  /\ \E l \in SideLinks :
       /\ EligibleLinks(form.b, form.backing) = {l}
       /\ form' = [form EXCEPT !.linkB = l]
  /\ UNCHANGED <<calls, server>>

LinkSelectDataset(d) ==
  /\ LinkShown /\ form.step = 1 /\ JoinTable(form)
  /\ form' = [form EXCEPT !.dataset = d, !.columnA = None, !.columnB = None]
  /\ UNCHANGED <<calls, server>>

LinkSelectColumns ==
  /\ LinkShown /\ form.step = 1 /\ JoinTable(form) /\ form.dataset # None
  /\ \/ form' = [form EXCEPT !.columnA = form.dataset]
     \/ form' = [form EXCEPT !.columnB = form.dataset]
  /\ UNCHANGED <<calls, server>>

-----------------------------------------------------------------------------
(* From step to step. *)

\* While the request is pending the button loads: nothing is submitted and no
\* step is taken.
LinkPending == calls # <<>>

\* isNextDisabled
LinkStepDone ==
  CASE form.step = 0 -> form.cardinality # None
    [] form.step = 1 ->
         /\ form.a # None /\ form.b # None
         /\ JoinTable(form) => form.dataset # None
         /\ form.backed => form.backing # None /\ form.linkA # None /\ form.linkB # None
    [] OTHER -> FALSE

\* handleNext.  Going on to the last step proposes names over what was entered, if
\* both ends are in the list of object types that is loaded, which may be valid or
\* not; otherwise what was entered before stays, for whatever ends it was.
LinkNextStep ==
  /\ LinkShown /\ ~LinkPending /\ LinkStepDone
  /\ IF form.step = 1
       THEN \E valid \in BOOLEAN : form' = [form EXCEPT !.step = 2, !.valid = valid]
       ELSE form' = [form EXCEPT !.step = 1]
  /\ UNCHANGED <<calls, server>>

\* handlePrev
LinkBack ==
  /\ LinkShown /\ form.step > 0
  /\ form' = [form EXCEPT !.step = @ - 1]
  /\ UNCHANGED <<calls, server>>

\* Step 2: the names are edited, into valid ones or not.
LinkEditNames(valid) ==
  /\ LinkShown /\ form.step = 2
  /\ form' = [form EXCEPT !.valid = valid]
  /\ UNCHANGED <<calls, server>>

\* handleClose
LinkClose ==
  /\ LinkShown
  /\ form' = LinkDefault
  /\ UNCHANGED <<calls, server>>

-----------------------------------------------------------------------------
(* Submission. *)

\* The body that handleSubmit sends.
LinkRequest(f) ==
  [a |-> f.a, b |-> f.b, cardinality |-> f.cardinality,
   fkA |-> IF ForeignKeySide(f.cardinality) = "A" THEN f.fk ELSE None,
   fkB |-> IF ForeignKeySide(f.cardinality) = "B" THEN f.fk ELSE None,
   columnA |-> f.columnA, columnB |-> f.columnB,
   dataset |-> IF JoinTable(f) THEN f.dataset ELSE None,
   backing |-> IF f.backed THEN f.backing ELSE None,
   linkA |-> IF f.backed THEN f.linkA ELSE None,
   linkB |-> IF f.backed THEN f.linkB ELSE None]

LinkSubmit ==
  /\ LinkShown /\ form.step = 2 /\ form.valid /\ ~LinkPending
  /\ Start([request |-> LinkRequest(form)])
  /\ UNCHANGED <<form, server>>

LinkServe(i) ==
  /\ form.kind = "link type" /\ Waiting(i, "sent")
  /\ Answer(i, "done")
  /\ UNCHANGED <<form, server>>

\* The dialog is closed, also when the user has opened it again meanwhile.
LinkCreated(i) ==
  /\ form.kind = "link type" /\ Waiting(i, "done")
  /\ form' = LinkDefault
  /\ Return(i)
  /\ UNCHANGED server

\* The dialog stays; an error is shown.
LinkFailed(i) ==
  /\ form.kind = "link type" /\ Waiting(i, "failed")
  /\ Return(i)
  /\ UNCHANGED <<form, server>>

-----------------------------------------------------------------------------
LinkInit == form = LinkDefault /\ calls = <<>> /\ server = <<>>

LinkNext ==
  \/ \E o \in LinkEnds \cup {None} : LinkOpen(o)
  \/ \E c \in Cardinalities : LinkSelectCardinality(c)
  \/ \E backed \in BOOLEAN : LinkSelectBacked(backed)
  \/ \E o \in LinkEnds : LinkSelectA(o) \/ LinkSelectB(o) \/ LinkSelectBacking(o)
  \/ LinkSelectForeignKey \/ LinkSelectSideLinks \/ LinkAutoSelectA \/ LinkAutoSelectB
  \/ \E d \in JoinDatasets : LinkSelectDataset(d)
  \/ LinkSelectColumns
  \/ LinkNextStep \/ LinkBack \/ LinkClose \/ LinkSubmit
  \/ \E valid \in BOOLEAN : LinkEditNames(valid)
  \/ \E i \in 1..MaxCalls : LinkServe(i) \/ LinkCreated(i) \/ LinkFailed(i)

LinkSpec ==
  LinkInit /\ [][LinkNext \/ \E i \in 1..MaxCalls : Refuse(i) \/ LoseAnswer(i)]_vars

-----------------------------------------------------------------------------
(* Properties. *)

\* Fields fit each other and the ends.
RequestFits(q) ==
  /\ q.a # None /\ q.b # None
  /\ q.fkA \in {None, q.a} /\ q.fkB \in {None, q.b}
  /\ q.columnA \in {None, q.dataset} /\ q.columnB \in {None, q.dataset}
  /\ q.cardinality = "many-to-many" => /\ q.fkA = None /\ q.fkB = None
                                       /\ q.dataset # None <=> q.backing = None
  /\ q.dataset # None => q.cardinality = "many-to-many"
  /\ q.backing # None => /\ q.linkA \in EligibleLinks(q.a, q.backing)
                         /\ q.linkB \in EligibleLinks(q.b, q.backing)
  /\ q.backing = None => q.linkA = None /\ q.linkB = None

\* However the user has changed his mind on the way, what can be submitted fits
\* the last choices: the foreign key is a property of the end that has it, only a
\* many-to-many relationship has a join table, which has the columns, or else a
\* backing object, and side links connect these ends to this backing object.
\* (Side links say nothing of the cardinality: the cards that choose a backing object
\* are only hidden for the others, and one that is reached comes with a foreign key.)
LinkRequestFits ==
  (form.kind = "link type" /\ form.step = 2) => RequestFits(LinkRequest(form))
=============================================================================
