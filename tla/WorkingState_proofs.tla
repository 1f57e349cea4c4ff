------------------------- MODULE WorkingState_proofs -------------------------
(***************************************************************************)
(* That the requests of WorkingState, however they interleave, keep their  *)
(* safety invariants: for every number of clients, every set of resources  *)
(* and every bound.                                                        *)
(***************************************************************************)
EXTENDS WorkingState, ChangeLog_proofs

USE DEF Idle, Begin, Goto, HasDraft, HoldsRows

\* What is read of the tables has their rows.
LEMMA LoadedType ==
  ASSUME published \in Tables
  PROVE  /\ Loaded \in Tables
         /\ \A r \in Resources : Loaded[r] = Absent <=> published[r] = Absent
BY ReadBackType DEF Loaded

\* Resources do not matter to what an edit does once it has begun.
LEMMA EditsBegin ==
  ASSUME TypeOK, DraftsAreSound, NEW t \in Clients,
         CreateResource(t) \/ UpdateResource(t) \/ DeleteResource(t) \/ DeleteObjectType(t)
  PROVE  /\ issued' \subseteq Resources
         /\ \E changes : WellFormed(changes) /\ BeginEdit(t, changes)
<1> USE DEF TypeOK
<1>0. WellFormed(ws.changes) /\ Loaded \in Tables
  BY LoadedType DEF DraftsAreSound
<1>1. CASE CreateResource(t)
  BY <1>1, ChangesMade DEF CreateResource
<1>2. CASE UpdateResource(t)
  <2>1. PICK r \in Found(Loaded, ws.changes), patch \in Patch :
          /\ BeginEdit(t, {Update(r, ViewData(Loaded, ws.changes, r), patch)})
          /\ UNCHANGED issued
    BY <1>2 DEF UpdateResource
  <2>2. r \in Resources /\ ViewData(Loaded, ws.changes, r) \in Content
    BY <1>0, ViewDataType
  <2>3. WellFormed({Update(r, ViewData(Loaded, ws.changes, r), patch)})
    BY <2>2, UpdateType
  <2> QED
    BY <2>1, <2>3
<1>3. CASE DeleteResource(t)
  <2>1. PICK r \in Found(Loaded, ws.changes) :
          /\ BeginEdit(t, {Deletion(r, ViewData(Loaded, ws.changes, r))})
          /\ UNCHANGED issued
    BY <1>3 DEF DeleteResource
  <2>2. r \in Resources /\ ViewData(Loaded, ws.changes, r) \in Content
    BY <1>0, ViewDataType
  <2>3. WellFormed({Deletion(r, ViewData(Loaded, ws.changes, r))})
    BY <2>2, ChangesMade, ContentIsPatch DEF WellFormed
  <2> QED
    BY <2>1, <2>3
<1>4. CASE DeleteObjectType(t)
  BY <1>0, <1>4, ObjectTypeDeletionType DEF DeleteObjectType
<1> QED
  BY <1>1, <1>2, <1>3, <1>4

\* A request is one of the actions; an edit begins with changes of its own.
LEMMA StepCases ==
  ASSUME TypeOK, DraftsAreSound, Next
  PROVE  \E t \in Clients :
           \/ /\ issued' \subseteq Resources
              /\ \E changes : WellFormed(changes) /\ BeginEdit(t, changes)
           \/ BeginPublish(t) \/ BeginDiscard(t) \/ BeginDiscardChange(t)
           \/ LockDraft(t) \/ InsertDraft(t) \/ CollapseNext(t) \/ CommitEdit(t)
           \/ ApplyChanges(t) \/ ReadVersion(t) \/ BumpVersion(t) \/ ClearDraft(t)
           \/ CommitPublish(t) \/ CommitDiscard(t) \/ CommitDiscardChange(t)
           \/ Abort(t)
BY EditsBegin DEF Next, Advance

\* What the end of a request leaves behind.
LEMMA EndType ==
  ASSUME TypeOK, NEW t \in Clients, End(t)
  PROVE  /\ pc' \in [Clients -> Steps]
         /\ seen' \in [Clients -> DraftRow]
         /\ edits' \in [Clients -> SUBSET Change]
         /\ left' \in [Clients -> SUBSET Change]
         /\ buf' \in [Clients -> SUBSET Change]
         /\ readVersion' \in [Clients -> Nat]
         /\ wsLock' \in Clients \cup {NoClient}
         /\ ontLock' \in Clients \cup {NoClient}
BY DEF TypeOK, End, Steps, DraftRow, EmptyDraft

LEMMA EndSound ==
  ASSUME DraftsAreSound, TypeOK, NEW t \in Clients, End(t)
  PROVE  \A u \in Clients :
           /\ WellFormed(seen'[u].changes) /\ OneChangeEach(seen'[u].changes)
           /\ WellFormed(buf'[u]) /\ OneChangeEach(buf'[u])
           /\ WellFormed(left'[u])
           /\ pc'[u] = "rewrite" => seen'[u].id # NoDraft
<1>1. WellFormed({}) /\ OneChangeEach({})
  BY DEF WellFormed, OneChangeEach
<1> QED
  BY <1>1 DEF DraftsAreSound, TypeOK, End, EmptyDraft

-----------------------------------------------------------------------------
(* Initially *)

LEMMA SeedIsSound ==
  /\ WellFormed({Creation(r, Seed[r]) : r \in DOMAIN Seed})
  /\ OneChangeEach({Creation(r, Seed[r]) : r \in DOMAIN Seed})
<1>1. ASSUME NEW r \in DOMAIN Seed
      PROVE  WellFormed({Creation(r, Seed[r])})
  <2>1. r \in Resources /\ Seed[r] \in Content
    BY SeedAssumption
  <2> QED
    BY <2>1, ChangesMade
<1>2. \A r \in DOMAIN Seed : Creation(r, Seed[r]).rid = r
  BY DEF Creation
<1>3. OneChangeEach({Creation(r, Seed[r]) : r \in DOMAIN Seed})
  BY <1>2 DEF OneChangeEach
<1> QED
  BY <1>1, <1>3 DEF WellFormed

LEMMA SingletonSeq ==
  ASSUME NEW S, NEW x \in S
  PROVE  <<x>> \in Seq(S) /\ Len(<<x>>) = 1 /\ DOMAIN <<x>> = {1} /\ <<x>>[1] = x
OBVIOUS

LEMMA InitIInv == Init => IInv
<1> SUFFICES ASSUME Init PROVE IInv
  OBVIOUS
<1> USE DEF Init
<1>0. WellFormed({}) /\ OneChangeEach({})
  BY DEF WellFormed, OneChangeEach
<1> DEFINE first == [version |-> 1,
                     changes |-> {Creation(r, Seed[r]) : r \in DOMAIN Seed}]
<1>1. /\ first \in [version: Nat, changes: SUBSET Change]
      /\ first.version = 1 /\ OneChangeEach(first.changes)
  BY SeedIsSound DEF WellFormed
<1>2. records = << >> \/ records = <<first>>
  OBVIOUS
<1>3. version = Len(records)
  OBVIOUS
<1> HIDE DEF first
<1>4. /\ records \in Seq([version: Nat, changes: SUBSET Change])
      /\ HistoryNumbered
      /\ \A i \in DOMAIN records : OneChangeEach(records[i].changes)
  <2>1. CASE records = << >>
    BY <1>3, <2>1 DEF HistoryNumbered
  <2>2. CASE records = <<first>>
    <3>1. /\ records \in Seq([version: Nat, changes: SUBSET Change])
          /\ Len(records) = 1 /\ DOMAIN records = {1} /\ records[1] = first
      <4> HIDE DEF Init
      <4> QED
        BY <1>1, <2>2, SingletonSeq
    <3> QED
      BY <1>1, <1>3, <3>1 DEF HistoryNumbered
  <2> QED
    BY <1>2, <2>1, <2>2
<1>5. published \in Tables
  BY SeedAssumption DEF Tables
<1>6. TypeOK
  <2>1. version \in Nat
    BY <1>2, <1>3, <1>4
  <2> QED
    BY <1>4, <1>5, <2>1, SeedAssumption DEF TypeOK, DraftRow, EmptyDraft, Steps
<1>7. PublishedReferencesHold
  <2>1. \A s \in Resources : published[s] # Absent <=> s \in DOMAIN Seed
    BY SeedAssumption, AbsentAssumption
  <2>2. \A s \in DOMAIN Seed : s \in Resources /\ published[s] = Seed[s]
    BY SeedAssumption
  <2>3. ASSUME NEW r \in Resources, published[r] # Absent, NEW o \in Refs(r)
        PROVE  published[o] # Absent
    BY <2>1, <2>2, <2>3, SeedAssumption
  <2>4. ASSUME NEW l \in LinkTypes, NEW f \in Pointers,
               published[l] # Absent, published[l][f] # None
        PROVE  published[l][f] \in Resources /\ published[published[l][f]] # Absent
    <3>1. l \in DOMAIN Seed
      BY <2>1, <2>4 DEF Resources
    <3>2. published[l][f] \in DOMAIN Seed
      BY <2>2, <2>4, <3>1, SeedAssumption
    <3> QED
      BY <2>1, <2>2, <3>2
  <2> QED
    BY <2>3, <2>4 DEF PublishedReferencesHold, ReferencesHold
<1>8. DraftsAreSound
  BY <1>0, <1>4 DEF DraftsAreSound, OneChangePerResource, EmptyDraft
<1>9. LocksAreHeld /\ VersionsAreFresh /\ TablesAreHeld /\ EditsAreAdded
  BY ClientsAssumption DEF LocksAreHeld, VersionsAreFresh, TablesAreHeld, EditsAreAdded
<1> QED
  BY <1>4, <1>6, <1>7, <1>8, <1>9 DEF IInv, RequestsRely

-----------------------------------------------------------------------------
(* Every step *)

LEMMA TypeStep == IInv /\ [Next]_vars => TypeOK'
<1> SUFFICES ASSUME IInv, [Next]_vars PROVE TypeOK'
  OBVIOUS
<1>1. TypeOK /\ DraftsAreSound
  BY DEF IInv, RequestsRely
<1> USE DEF TypeOK
<1>2. CASE UNCHANGED vars
  BY <1>1, <1>2 DEF vars
<1>3. ASSUME NEW t \in Clients, issued' \subseteq Resources,
             NEW changes, WellFormed(changes), BeginEdit(t, changes)
      PROVE  TypeOK'
  <2>1. changes \subseteq Change
    BY <1>3 DEF WellFormed
  <2> QED
    BY <1>1, <1>3, <2>1 DEF BeginEdit, Steps
<1>4. ASSUME NEW t \in Clients, BeginPublish(t) \/ BeginDiscard(t)
      PROVE  TypeOK'
  BY <1>1, <1>4 DEF BeginPublish, BeginDiscard, Steps
<1>5. ASSUME NEW t \in Clients, BeginDiscardChange(t)
      PROVE  TypeOK'
  <2>1. PICK c \in ws.changes :
          /\ Begin(t, "rewrite")
          /\ edits' = [edits EXCEPT ![t] = DiscardedWith(Loaded, ws.changes, c)]
          /\ buf' = [buf EXCEPT ![t] =
                       ws.changes \ DiscardedWith(Loaded, ws.changes, c)]
          /\ UNCHANGED <<issued, left>>
    BY <1>5 DEF BeginDiscardChange
  <2>2. DiscardedWith(Loaded, ws.changes, c) \subseteq ws.changes
    BY DEF DiscardedWith
  <2>3. ws.changes \subseteq Change
    BY <1>1 DEF DraftRow
  <2> QED
    BY <1>1, <2>1, <2>2, <2>3 DEF Steps
<1>6. ASSUME NEW t \in Clients, LockDraft(t) \/ InsertDraft(t)
      PROVE  TypeOK'
  BY <1>1, <1>6, EndType DEF LockDraft, InsertDraft, Fail, Steps, DraftRow
<1>7. ASSUME NEW t \in Clients, CollapseNext(t)
      PROVE  TypeOK'
  <2>1. PICK c \in left[t] :
          /\ buf' = [buf EXCEPT ![t] = Collapse(@, c)]
          /\ left' = [left EXCEPT ![t] = @ \ {c}]
    BY <1>7 DEF CollapseNext
  <2>2. WellFormed(buf[t]) /\ OneChangeEach(buf[t]) /\ WellFormed({c})
    BY <1>1 DEF DraftsAreSound, WellFormed
  <2>3. Collapse(buf[t], c) \in SUBSET Change
    BY <2>2, CollapseType DEF WellFormed
  <2> QED
    BY <1>1, <1>7, <2>1, <2>3 DEF CollapseNext
<1>8. ASSUME NEW t \in Clients, CommitEdit(t)
      PROVE  TypeOK'
  <2>1. ws' \in DraftRow
    BY <1>1, <1>8 DEF CommitEdit, DraftRow
  <2> QED
    BY <1>1, <1>8, <2>1, EndType DEF CommitEdit
<1>9. ASSUME NEW t \in Clients,
             ApplyChanges(t) \/ ReadVersion(t) \/ BumpVersion(t) \/ ClearDraft(t)
      PROVE  TypeOK'
  BY <1>1, <1>9, EndType
     DEF ApplyChanges, ReadVersion, BumpVersion, ClearDraft, Fail, Steps
<1>10. ASSUME NEW t \in Clients, CommitPublish(t)
       PROVE  TypeOK'
  <2>1. seen[t].changes \subseteq Change /\ readVersion[t] + 1 \in Nat
    BY <1>1 DEF DraftRow
  <2>2. published' \in Tables
    <3>1. Applicable(published, seen[t].changes)
      BY <1>10 DEF IInv, RequestsRely, TablesAreHeld, CommitPublish
    <3> QED
      BY <1>1, <1>10, <3>1, AppliedType DEF DraftsAreSound, CommitPublish
  <2>3. /\ version' \in Nat
        /\ records' \in Seq([version: Nat, changes: SUBSET Change])
    BY <1>1, <1>10, <2>1 DEF CommitPublish
  <2>4. ws' \in DraftRow
    BY <1>1, <1>10 DEF CommitPublish, DraftRow, EmptyDraft
  <2> QED
    BY <1>1, <1>10, <2>2, <2>3, <2>4, EndType DEF CommitPublish
<1>11. ASSUME NEW t \in Clients, CommitDiscard(t) \/ CommitDiscardChange(t)
       PROVE  TypeOK'
  <2>1. \/ ws' = ws \/ ws' = EmptyDraft \/ ws' = [ws EXCEPT !.changes = buf[t]]
    <3>1. CASE CommitDiscard(t)
      BY <3>1 DEF CommitDiscard
    <3>2. CASE CommitDiscardChange(t)
      BY <3>2 DEF CommitDiscardChange
    <3> QED
      BY <1>11, <3>1, <3>2
  <2>2. ws' \in DraftRow
    <3>1. ws \in DraftRow /\ buf[t] \in SUBSET Change /\ EmptyDraft \in DraftRow
      BY <1>1 DEF DraftRow, EmptyDraft
    <3>2. [ws EXCEPT !.changes = buf[t]] \in DraftRow
      <4> HIDE DEF TypeOK
      <4> QED
        BY <3>1 DEF DraftRow
    <3> QED
      BY <2>1, <3>1, <3>2
  <2> QED
    BY <1>1, <1>11, <2>2, EndType DEF CommitDiscard, CommitDiscardChange
<1>12. ASSUME NEW t \in Clients, Abort(t)
       PROVE  TypeOK'
  BY <1>1, <1>12, EndType DEF Abort, Fail
<1> QED
  BY <1>1, <1>2, <1>3, <1>4, <1>5, <1>6, <1>7, <1>8, <1>9, <1>10, <1>11, <1>12, StepCases

LEMMA DraftsStep == IInv /\ [Next]_vars => DraftsAreSound'
<1> SUFFICES ASSUME IInv, [Next]_vars PROVE DraftsAreSound'
  OBVIOUS
<1>1. TypeOK /\ DraftsAreSound
  BY DEF IInv, RequestsRely
<1>2. /\ WellFormed(ws.changes) /\ OneChangeEach(ws.changes)
      /\ ~HasDraft => ws.changes = {}
      /\ \A i \in DOMAIN records : OneChangeEach(records[i].changes)
      /\ \A u \in Clients : /\ WellFormed(seen[u].changes) /\ OneChangeEach(seen[u].changes)
                            /\ WellFormed(buf[u]) /\ OneChangeEach(buf[u])
                            /\ WellFormed(left[u])
                            /\ pc[u] = "rewrite" => seen[u].id # NoDraft
  BY <1>1 DEF DraftsAreSound, OneChangePerResource
<1> DEFINE RowSound == /\ WellFormed(ws.changes) /\ OneChangeEach(ws.changes)
                       /\ ~HasDraft => ws.changes = {}
           RecordsSound == \A i \in DOMAIN records : OneChangeEach(records[i].changes)
           OwnSound == \A u \in Clients :
                         /\ WellFormed(seen[u].changes) /\ OneChangeEach(seen[u].changes)
                         /\ WellFormed(buf[u]) /\ OneChangeEach(buf[u])
                         /\ WellFormed(left[u])
                         /\ pc[u] = "rewrite" => seen[u].id # NoDraft
<1>3. SUFFICES RowSound' /\ RecordsSound' /\ OwnSound'
  BY DEF DraftsAreSound, OneChangePerResource
<1>4. WellFormed({}) /\ OneChangeEach({})
  BY DEF WellFormed, OneChangeEach
<1>6. RowSound /\ RecordsSound /\ OwnSound
  BY <1>2
<1>7. CASE UNCHANGED vars
  BY <1>6, <1>7 DEF vars
<1>8. ASSUME NEW t \in Clients, End(t) PROVE OwnSound'
  BY <1>1, <1>8, EndSound
<1>9. ASSUME UNCHANGED ws PROVE RowSound'
  BY <1>6, <1>9
<1>10. ASSUME UNCHANGED records PROVE RecordsSound'
  BY <1>6, <1>10
<1>11. ASSUME NEW t \in Clients, NEW changes, WellFormed(changes), BeginEdit(t, changes)
       PROVE  RowSound' /\ RecordsSound' /\ OwnSound'
  <2>1. OwnSound'
    BY <1>1, <1>2, <1>11 DEF BeginEdit, TypeOK
  <2> QED
    BY <1>9, <1>10, <1>11, <2>1 DEF BeginEdit
<1>12. ASSUME NEW t \in Clients, BeginPublish(t) \/ BeginDiscard(t)
       PROVE  RowSound' /\ RecordsSound' /\ OwnSound'
  <2>1. OwnSound'
    BY <1>1, <1>2, <1>12 DEF BeginPublish, BeginDiscard, TypeOK
  <2> QED
    BY <1>9, <1>10, <1>12, <2>1 DEF BeginPublish, BeginDiscard
<1>13. ASSUME NEW t \in Clients, BeginDiscardChange(t)
       PROVE  RowSound' /\ RecordsSound' /\ OwnSound'
  <2>1. PICK gone :
          /\ Begin(t, "rewrite")
          /\ buf' = [buf EXCEPT ![t] = ws.changes \ gone]
          /\ UNCHANGED left
    BY <1>13 DEF BeginDiscardChange
  <2>2. WellFormed(ws.changes \ gone) /\ OneChangeEach(ws.changes \ gone)
    BY <1>2 DEF WellFormed, OneChangeEach
  <2>3. HasDraft
    BY <1>2, <1>13 DEF BeginDiscardChange
  <2>4. OwnSound'
    BY <1>1, <1>2, <2>1, <2>2, <2>3 DEF TypeOK
  <2> QED
    BY <1>9, <1>10, <2>1, <2>4
<1>14. ASSUME NEW t \in Clients, LockDraft(t)
       PROVE  RowSound' /\ RecordsSound' /\ OwnSound'
  <2>1. OwnSound'
    BY <1>1, <1>2, <1>14 DEF LockDraft, TypeOK
  <2> QED
    BY <1>9, <1>10, <1>14, <2>1 DEF LockDraft
<1>15. ASSUME NEW t \in Clients, InsertDraft(t)
       PROVE  RowSound' /\ RecordsSound' /\ OwnSound'
  <2>1. CASE Fail(t)
    BY <1>8, <1>9, <1>10, <2>1 DEF Fail
  <2>2. CASE UNCHANGED <<ws, records, seen, left, buf>> /\ pc'[t] # "rewrite"
                 /\ \A u \in Clients \ {t} : pc'[u] = pc[u]
    BY <1>6, <2>2
  <2> QED
    BY <1>1, <1>15, <2>1, <2>2 DEF InsertDraft, TypeOK
<1>16. ASSUME NEW t \in Clients, CollapseNext(t)
       PROVE  RowSound' /\ RecordsSound' /\ OwnSound'
  <2>1. PICK c \in left[t] :
          /\ buf' = [buf EXCEPT ![t] = Collapse(@, c)]
          /\ left' = [left EXCEPT ![t] = @ \ {c}]
    BY <1>16 DEF CollapseNext
  <2>2. UNCHANGED <<ws, records, seen, pc>>
    BY <1>16 DEF CollapseNext
  <2>3. WellFormed({c})
    BY <1>2 DEF WellFormed
  <2>4. WellFormed(Collapse(buf[t], c)) /\ OneChangeEach(Collapse(buf[t], c))
    BY <1>2, <2>3, CollapseType
  <2>5. WellFormed(left[t] \ {c})
    BY <1>2 DEF WellFormed
  <2>6. OwnSound'
    BY <1>1, <1>2, <2>1, <2>2, <2>4, <2>5 DEF TypeOK
  <2> QED
    BY <1>9, <1>10, <2>2, <2>6
<1>17. ASSUME NEW t \in Clients, CommitEdit(t)
       PROVE  RowSound' /\ RecordsSound' /\ OwnSound'
  <2>1. PICK id \in IF HasDraft THEN {ws.id} ELSE DraftIds :
          ws' = [id |-> id, changes |-> buf[t]]
    BY <1>17 DEF CommitEdit
  <2>2. id # NoDraft
    BY ClientsAssumption
  <2>3. RowSound'
    BY <1>2, <2>1, <2>2
  <2> QED
    BY <1>8, <1>10, <1>17, <2>3 DEF CommitEdit
<1>18. ASSUME NEW t \in Clients,
              ApplyChanges(t) \/ ReadVersion(t) \/ BumpVersion(t) \/ ClearDraft(t)
       PROVE  RowSound' /\ RecordsSound' /\ OwnSound'
  <2>1. CASE Fail(t)
    BY <1>8, <1>9, <1>10, <2>1 DEF Fail
  <2>2. CASE UNCHANGED <<ws, records, seen, left, buf>> /\ pc'[t] # "rewrite"
                 /\ \A u \in Clients \ {t} : pc'[u] = pc[u]
    BY <1>6, <2>2
  <2> QED
    BY <1>1, <1>18, <2>1, <2>2
       DEF ApplyChanges, ReadVersion, BumpVersion, ClearDraft, TypeOK
<1>19. ASSUME NEW t \in Clients, CommitPublish(t)
       PROVE  RowSound' /\ RecordsSound' /\ OwnSound'
  <2>1. ws' = ws \/ ws' = EmptyDraft
    BY <1>19 DEF CommitPublish
  <2>2. RowSound'
    BY <1>4, <1>9, <2>1 DEF EmptyDraft
  <2>3. RecordsSound'
    <3> DEFINE new == [version |-> readVersion[t] + 1, changes |-> seen[t].changes]
    <3>1. records' = Append(records, new) /\ OneChangeEach(new.changes)
      BY <1>2, <1>19 DEF CommitPublish
    <3>2. records \in Seq([version: Nat, changes: SUBSET Change])
      BY <1>1 DEF TypeOK
    <3> HIDE DEF new
    <3>3. \A i \in DOMAIN records' : records'[i] = new \/ (i \in DOMAIN records /\ records'[i] = records[i])
      BY <3>1, <3>2
    <3> QED
      BY <1>2, <3>1, <3>3
  <2> QED
    BY <1>8, <1>19, <2>2, <2>3 DEF CommitPublish
<1>20. ASSUME NEW t \in Clients, CommitDiscard(t)
       PROVE  RowSound' /\ RecordsSound' /\ OwnSound'
  <2>1. ws' = ws \/ ws' = EmptyDraft
    BY <1>20 DEF CommitDiscard
  <2>2. RowSound'
    BY <1>4, <1>9, <2>1 DEF EmptyDraft
  <2> QED
    BY <1>8, <1>10, <1>20, <2>2 DEF CommitDiscard
<1>21. ASSUME NEW t \in Clients, CommitDiscardChange(t)
       PROVE  RowSound' /\ RecordsSound' /\ OwnSound'
  <2>1. \/ ws' = ws
        \/ ws' = EmptyDraft
        \/ ws.id = seen[t].id /\ ws' = [ws EXCEPT !.changes = buf[t]]
    BY <1>21 DEF CommitDiscardChange
  <2>2. CASE ws' = EmptyDraft
    <3>1. RowSound'
      BY <1>4, <2>2 DEF EmptyDraft
    <3> QED
      BY <1>8, <1>10, <1>21, <3>1 DEF CommitDiscardChange
  <2>3. CASE ws.id = seen[t].id /\ ws' = [ws EXCEPT !.changes = buf[t]]
    <3>1. ws \in DraftRow /\ seen[t].id # NoDraft
      BY <1>1, <1>21 DEF TypeOK, DraftsAreSound, CommitDiscardChange
    <3>2. ws'.changes = buf[t] /\ ws'.id # NoDraft
      BY <2>3, <3>1 DEF DraftRow
    <3>3. RowSound'
      BY <1>2, <3>2
    <3> QED
      BY <1>8, <1>10, <1>21, <3>3 DEF CommitDiscardChange
  <2>4. CASE ws' = ws
    BY <1>8, <1>9, <1>10, <1>21, <2>4 DEF CommitDiscardChange
  <2> QED
    BY <2>1, <2>2, <2>3, <2>4
<1>22. ASSUME NEW t \in Clients, Abort(t)
       PROVE  RowSound' /\ RecordsSound' /\ OwnSound'
  BY <1>8, <1>9, <1>10, <1>22 DEF Abort, Fail
<1> HIDE DEF RowSound, RecordsSound, OwnSound
<1> QED
  BY <1>1, <1>7, <1>11, <1>12, <1>13, <1>14, <1>15, <1>16, <1>17, <1>18, <1>19, <1>20,
     <1>21, <1>22, StepCases

LEMMA LocksStep == IInv /\ [Next]_vars => LocksAreHeld'
<1> SUFFICES ASSUME IInv, [Next]_vars PROVE LocksAreHeld'
  OBVIOUS
<1>1. TypeOK /\ DraftsAreSound /\ LocksAreHeld
  BY DEF IInv, RequestsRely
<1> USE DEF LocksAreHeld
<1>2. CASE UNCHANGED vars
  BY <1>1, <1>2 DEF vars
<1>3. ASSUME NEW t \in Clients,
             \/ \E changes : BeginEdit(t, changes)
             \/ BeginPublish(t) \/ BeginDiscard(t) \/ BeginDiscardChange(t)
      PROVE  LocksAreHeld'
  <2>1. \E where \in Steps \ {"collapse", "clear", "sync"} : Begin(t, where)
    BY <1>3 DEF BeginEdit, BeginPublish, BeginDiscard, BeginDiscardChange, Steps
  <2> QED
    BY <1>1, <2>1, ClientsAssumption DEF TypeOK
<1>4. ASSUME NEW t \in Clients, End(t), ws' = ws \/ wsLock \in {t, NoClient}
      PROVE  LocksAreHeld'
  BY <1>1, <1>4, ClientsAssumption DEF End, TypeOK
<1>5. ASSUME NEW t \in Clients, LockDraft(t)
      PROVE  LocksAreHeld'
  BY <1>1, <1>5, ClientsAssumption DEF LockDraft, TypeOK
<1>6. ASSUME NEW t \in Clients, InsertDraft(t)
      PROVE  LocksAreHeld'
  <2>1. CASE Fail(t)
    BY <1>4, <2>1 DEF Fail
  <2>2. CASE ~Fail(t)
    BY <1>1, <1>6, <2>2, ClientsAssumption DEF InsertDraft, TypeOK
  <2> QED
    BY <2>1, <2>2
<1>7. ASSUME NEW t \in Clients, CollapseNext(t)
      PROVE  LocksAreHeld'
  BY <1>1, <1>7 DEF CollapseNext
<1>8. ASSUME NEW t \in Clients, CommitEdit(t)
      PROVE  LocksAreHeld'
  BY <1>1, <1>4, <1>8 DEF CommitEdit
<1>9. ASSUME NEW t \in Clients, ApplyChanges(t) \/ BumpVersion(t)
      PROVE  LocksAreHeld'
  <2>1. CASE Fail(t)
    BY <1>4, <2>1 DEF Fail
  <2>2. CASE ~Fail(t)
    BY <1>1, <1>9, <2>2, ClientsAssumption DEF ApplyChanges, BumpVersion, TypeOK
  <2> QED
    BY <2>1, <2>2
<1>10. ASSUME NEW t \in Clients, ReadVersion(t)
       PROVE  LocksAreHeld'
  BY <1>1, <1>10, ClientsAssumption DEF ReadVersion, TypeOK
<1>11. ASSUME NEW t \in Clients, ClearDraft(t)
       PROVE  LocksAreHeld'
  BY <1>1, <1>11, ClientsAssumption DEF ClearDraft, TypeOK
<1>12. ASSUME NEW t \in Clients, CommitPublish(t)
       PROVE  LocksAreHeld'
  BY <1>4, <1>12 DEF CommitPublish
<1>13. ASSUME NEW t \in Clients, CommitDiscard(t) \/ CommitDiscardChange(t)
       PROVE  LocksAreHeld'
  BY <1>4, <1>13 DEF CommitDiscard, CommitDiscardChange
<1>14. ASSUME NEW t \in Clients, Abort(t)
       PROVE  LocksAreHeld'
  BY <1>4, <1>14 DEF Abort, Fail
<1> QED
  BY <1>1, <1>2, <1>3, <1>5, <1>6, <1>7, <1>8, <1>9, <1>10, <1>11, <1>12, <1>13, <1>14,
     StepCases

\* Only the holder of the row of ontologies commits a version, and the version
\* it has read is then still the newest: any other would have been recorded.
LEMMA VersionsStep ==
  IInv /\ [Next]_vars => VersionsAreFresh' /\ HistoryNumbered'
<1> SUFFICES ASSUME IInv, [Next]_vars PROVE VersionsAreFresh' /\ HistoryNumbered'
  OBVIOUS
<1>1. /\ TypeOK /\ DraftsAreSound
      /\ LocksAreHeld /\ VersionsAreFresh /\ HistoryNumbered
  BY DEF IInv, RequestsRely
<1> USE DEF VersionsAreFresh
<1>2. CASE UNCHANGED vars
  BY <1>1, <1>2 DEF vars, HistoryNumbered
<1>3. ASSUME NEW t \in Clients,
             \/ \E changes : BeginEdit(t, changes)
             \/ BeginPublish(t) \/ BeginDiscard(t) \/ BeginDiscardChange(t)
      PROVE  VersionsAreFresh' /\ HistoryNumbered'
  <2>1. \E where \in Steps \ {"bump", "clear", "sync"} : Begin(t, where)
    BY <1>3 DEF BeginEdit, BeginPublish, BeginDiscard, BeginDiscardChange, Steps
  <2> QED
    BY <1>1, <2>1 DEF TypeOK, HistoryNumbered
<1>4. ASSUME NEW t \in Clients, End(t), UNCHANGED <<version, records>>
      PROVE  VersionsAreFresh' /\ HistoryNumbered'
  BY <1>1, <1>4 DEF End, TypeOK, HistoryNumbered
<1>5. ASSUME NEW t \in Clients, LockDraft(t)
      PROVE  VersionsAreFresh' /\ HistoryNumbered'
  BY <1>1, <1>5 DEF LockDraft, TypeOK, HistoryNumbered
<1>6. ASSUME NEW t \in Clients, InsertDraft(t) \/ ApplyChanges(t)
      PROVE  VersionsAreFresh' /\ HistoryNumbered'
  <2>1. CASE Fail(t)
    BY <1>4, <2>1 DEF Fail
  <2>2. CASE ~Fail(t)
    BY <1>1, <1>6, <2>2 DEF InsertDraft, ApplyChanges, TypeOK, HistoryNumbered
  <2> QED
    BY <2>1, <2>2
<1>7. ASSUME NEW t \in Clients, CollapseNext(t)
      PROVE  VersionsAreFresh' /\ HistoryNumbered'
  BY <1>1, <1>7 DEF CollapseNext, HistoryNumbered
<1>8. ASSUME NEW t \in Clients,
             \/ CommitEdit(t) \/ CommitDiscard(t) \/ CommitDiscardChange(t) \/ Abort(t)
      PROVE  VersionsAreFresh' /\ HistoryNumbered'
  BY <1>4, <1>8 DEF CommitEdit, CommitDiscard, CommitDiscardChange, Abort, Fail
<1>9. ASSUME NEW t \in Clients, ReadVersion(t)
      PROVE  VersionsAreFresh' /\ HistoryNumbered'
  BY <1>1, <1>9 DEF ReadVersion, TypeOK, HistoryNumbered
<1>10. ASSUME NEW t \in Clients, BumpVersion(t)
       PROVE  VersionsAreFresh' /\ HistoryNumbered'
  <2>1. CASE Fail(t)
    BY <1>4, <2>1 DEF Fail
  <2>2. CASE ~Fail(t)
    <3>1. /\ pc[t] = "bump"
          /\ \A i \in DOMAIN records : records[i].version # readVersion[t] + 1
          /\ pc' = [pc EXCEPT ![t] = "clear"]
          /\ UNCHANGED <<version, records, readVersion>>
      BY <1>10, <2>2 DEF BumpVersion
    <3>2. readVersion[t] \in Nat /\ version \in Nat /\ readVersion[t] <= version
      BY <1>1, <3>1 DEF TypeOK
    <3>3. DOMAIN records = 1..version
      BY <1>1 DEF TypeOK, HistoryNumbered
    <3>4. readVersion[t] + 1 \notin 1..version
      BY <1>1, <3>1, <3>3 DEF HistoryNumbered
    <3>5. readVersion[t] = version
      BY <3>2, <3>4
    <3> QED
      BY <1>1, <3>1, <3>5 DEF TypeOK, HistoryNumbered
  <2> QED
    BY <2>1, <2>2
<1>11. ASSUME NEW t \in Clients, ClearDraft(t)
       PROVE  VersionsAreFresh' /\ HistoryNumbered'
  BY <1>1, <1>11 DEF ClearDraft, TypeOK, HistoryNumbered
<1>12. ASSUME NEW t \in Clients, CommitPublish(t)
       PROVE  VersionsAreFresh' /\ HistoryNumbered'
  <2>1. /\ pc[t] = "sync" /\ readVersion[t] = version /\ version \in Nat
        /\ ontLock = t
    BY <1>1, <1>12 DEF CommitPublish, TypeOK, LocksAreHeld
  <2>2. version' = version + 1
    BY <1>12, <2>1 DEF CommitPublish
  <2>3. VersionsAreFresh'
    <3>1. SUFFICES ASSUME NEW u \in Clients
                   PROVE  /\ pc'[u] = "bump" => readVersion'[u] <= version'
                          /\ pc'[u] \in {"clear", "sync"} => readVersion'[u] = version'
      OBVIOUS
    <3>2. CASE u = t
      BY <1>1, <1>12, <3>2 DEF CommitPublish, End, TypeOK
    <3>3. CASE u # t
      <4>1. pc'[u] = pc[u] /\ readVersion'[u] = readVersion[u]
        BY <1>1, <1>12, <3>3 DEF CommitPublish, End, TypeOK
      <4>2. pc[u] \notin {"clear", "sync"}
        BY <1>1, <2>1, <3>3 DEF LocksAreHeld
      <4>3. readVersion[u] \in Nat
        BY <1>1 DEF TypeOK
      <4> QED
        BY <1>1, <2>1, <2>2, <4>1, <4>2, <4>3
    <3> QED
      BY <3>2, <3>3
  <2>4. HistoryNumbered'
    <3> DEFINE new == [version |-> readVersion[t] + 1, changes |-> seen[t].changes]
    <3>1. records' = Append(records, new) /\ new.version = version + 1
      BY <1>12, <2>1 DEF CommitPublish
    <3>2. records \in Seq([version: Nat, changes: SUBSET Change]) /\ version = Len(records)
      BY <1>1 DEF TypeOK, HistoryNumbered
    <3> HIDE DEF new
    <3>3. Len(records') = version + 1
      BY <3>1, <3>2
    <3>4. \A i \in DOMAIN records' :
            \/ i = version + 1 /\ records'[i] = new
            \/ i \in DOMAIN records /\ records'[i] = records[i]
      BY <3>1, <3>2
    <3> QED
      BY <1>1, <2>2, <3>1, <3>3, <3>4 DEF HistoryNumbered
  <2> QED
    BY <2>3, <2>4
<1> QED
  BY <1>1, <1>2, <1>3, <1>5, <1>6, <1>7, <1>8, <1>9, <1>10, <1>11, <1>12, StepCases

\* A publish that commits leaves to the others the rows they have written: they
\* touch different ones.
LEMMA TablesStep ==
  IInv /\ [Next]_vars => TablesAreHeld' /\ PublishedReferencesHold'
<1> SUFFICES ASSUME IInv, [Next]_vars PROVE TablesAreHeld' /\ PublishedReferencesHold'
  OBVIOUS
<1>1. TypeOK /\ DraftsAreSound /\ TablesAreHeld /\ PublishedReferencesHold
  BY DEF IInv, RequestsRely
<1> DEFINE Held(t) ==
             HoldsRows(t) =>
               /\ Applicable(published, seen[t].changes)
               /\ \A u \in Clients \ {t} :
                    HoldsRows(u) =>
                      Apart(seen[u].changes, seen[t].changes)
<1>2. ASSUME UNCHANGED published,
             \A u \in Clients : HoldsRows(u)' => HoldsRows(u) /\ seen'[u] = seen[u]
      PROVE  TablesAreHeld' /\ PublishedReferencesHold'
  BY <1>1, <1>2 DEF TablesAreHeld, Apart, PublishedReferencesHold
<1>3. CASE UNCHANGED vars
  BY <1>2, <1>3 DEF vars
<1>4. ASSUME NEW t \in Clients,
             \/ \E changes : BeginEdit(t, changes)
             \/ BeginPublish(t) \/ BeginDiscard(t) \/ BeginDiscardChange(t)
      PROVE  TablesAreHeld' /\ PublishedReferencesHold'
  <2>1. \E where \in {"lock", "apply", "discard", "rewrite"} : Begin(t, where)
    BY <1>4 DEF BeginEdit, BeginPublish, BeginDiscard, BeginDiscardChange
  <2> QED
    BY <1>1, <1>2, <2>1 DEF TypeOK
<1>5. ASSUME NEW t \in Clients, End(t), UNCHANGED published
      PROVE  TablesAreHeld' /\ PublishedReferencesHold'
  BY <1>1, <1>2, <1>5 DEF End, TypeOK
<1>6. ASSUME NEW t \in Clients, LockDraft(t) \/ CollapseNext(t)
      PROVE  TablesAreHeld' /\ PublishedReferencesHold'
  BY <1>1, <1>2, <1>6 DEF LockDraft, CollapseNext, TypeOK
<1>7. ASSUME NEW t \in Clients, InsertDraft(t)
      PROVE  TablesAreHeld' /\ PublishedReferencesHold'
  <2>1. CASE Fail(t)
    BY <1>5, <2>1 DEF Fail
  <2>2. CASE ~Fail(t)
    BY <1>1, <1>2, <1>7, <2>2 DEF InsertDraft, TypeOK
  <2> QED
    BY <2>1, <2>2
<1>8. ASSUME NEW t \in Clients,
             \/ CommitEdit(t) \/ CommitDiscard(t) \/ CommitDiscardChange(t) \/ Abort(t)
      PROVE  TablesAreHeld' /\ PublishedReferencesHold'
  BY <1>5, <1>8 DEF CommitEdit, CommitDiscard, CommitDiscardChange, Abort, Fail
<1>9. ASSUME NEW t \in Clients, ApplyChanges(t)
      PROVE  TablesAreHeld' /\ PublishedReferencesHold'
  <2>1. CASE Fail(t)
    BY <1>5, <2>1 DEF Fail
  <2>2. CASE ~Fail(t)
    <3>1. /\ Applicable(published, seen[t].changes)
          /\ \A u \in Clients \ {t} :
               HoldsRows(u) =>
                 Apart(seen[u].changes, seen[t].changes)
          /\ pc' = [pc EXCEPT ![t] = "version"]
          /\ UNCHANGED <<published, seen>>
      BY <1>9, <2>2 DEF ApplyChanges
    <3>2. \A u \in Clients \ {t} : HoldsRows(u)' <=> HoldsRows(u)
      BY <1>1, <3>1 DEF TypeOK
    <3>3. TablesAreHeld'
      BY <1>1, <3>1, <3>2 DEF TablesAreHeld, Apart
    <3> QED
      BY <1>1, <3>1, <3>3 DEF PublishedReferencesHold
  <2> QED
    BY <2>1, <2>2
<1>10. ASSUME NEW t \in Clients, ReadVersion(t) \/ ClearDraft(t)
       PROVE  TablesAreHeld' /\ PublishedReferencesHold'
  BY <1>1, <1>2, <1>10 DEF ReadVersion, ClearDraft, TypeOK
<1>11. ASSUME NEW t \in Clients, BumpVersion(t)
       PROVE  TablesAreHeld' /\ PublishedReferencesHold'
  <2>1. CASE Fail(t)
    BY <1>5, <2>1 DEF Fail
  <2>2. CASE ~Fail(t)
    BY <1>1, <1>2, <1>11, <2>2 DEF BumpVersion, TypeOK
  <2> QED
    BY <2>1, <2>2
<1>12. ASSUME NEW t \in Clients, CommitPublish(t)
       PROVE  TablesAreHeld' /\ PublishedReferencesHold'
  <2> DEFINE mine == seen[t].changes
  <2>1. /\ WellFormed(mine) /\ OneChangeEach(mine)
        /\ published \in Tables /\ published' = Applied(published, mine)
    BY <1>1, <1>12 DEF DraftsAreSound, TypeOK, CommitPublish
  <2>2. HoldsRows(t) /\ Applicable(published, mine)
    BY <1>1, <1>12 DEF TablesAreHeld, CommitPublish
  <2>3. PublishedReferencesHold'
    BY <1>1, <2>1, <2>2, AppliedKeepsReferences DEF PublishedReferencesHold
  <2>4. ASSUME NEW u \in Clients, HoldsRows(u)'
        PROVE  /\ u # t /\ HoldsRows(u) /\ seen'[u] = seen[u]
               /\ Applicable(published', seen[u].changes)
               /\ Footprint(published', seen[u].changes)
                    \subseteq Footprint(published, seen[u].changes)
    <3>1. u # t /\ HoldsRows(u) /\ seen'[u] = seen[u]
      BY <1>1, <1>12, <2>4 DEF CommitPublish, End, TypeOK
    <3>2. /\ WellFormed(seen[u].changes) /\ Applicable(published, seen[u].changes)
          /\ Footprint(published, mine) \cap Footprint(published, seen[u].changes) = {}
      BY <1>1, <2>2, <3>1 DEF DraftsAreSound, TablesAreHeld, Apart
    <3>3. Applicable(published', seen[u].changes)
      BY <2>1, <2>2, <3>2, AppliedElsewhere
    <3>4. Footprint(published', seen[u].changes)
            \subseteq Footprint(published, seen[u].changes)
      BY <2>1, <2>2, <3>2, FootprintElsewhere
    <3> QED
      BY <3>1, <3>3, <3>4
  <2>5. TablesAreHeld'
    BY <1>1, <2>4 DEF TablesAreHeld, Apart
  <2> QED
    BY <2>3, <2>5
<1> QED
  BY <1>1, <1>3, <1>4, <1>6, <1>7, <1>8, <1>9, <1>10, <1>11, <1>12, StepCases

LEMMA EditsStep == IInv /\ [Next]_vars => EditsAreAdded'
<1> SUFFICES ASSUME IInv, [Next]_vars PROVE EditsAreAdded'
  OBVIOUS
<1>1. TypeOK /\ DraftsAreSound /\ LocksAreHeld /\ EditsAreAdded
  BY DEF IInv, RequestsRely
<1> USE DEF EditsAreAdded
<1>2. ASSUME UNCHANGED ws,
             \A u \in Clients :
               pc'[u] \in {"lock", "insert", "collapse"} =>
                 /\ UNCHANGED <<pc[u], edits[u], left[u], buf[u]>>
      PROVE  EditsAreAdded'
  BY <1>1, <1>2
<1>3. CASE UNCHANGED vars
  BY <1>2, <1>3 DEF vars
<1>4. ASSUME NEW t \in Clients,
             \/ \E changes : BeginEdit(t, changes)
             \/ BeginPublish(t) \/ BeginDiscard(t) \/ BeginDiscardChange(t)
      PROVE  EditsAreAdded'
  <2>1. CASE \E changes : BeginEdit(t, changes)
    BY <1>1, <2>1 DEF BeginEdit, TypeOK
  <2>2. CASE BeginPublish(t) \/ BeginDiscard(t) \/ BeginDiscardChange(t)
    BY <1>1, <1>2, <2>2 DEF BeginPublish, BeginDiscard, BeginDiscardChange, TypeOK
  <2> QED
    BY <1>4, <2>1, <2>2
<1>5. ASSUME NEW t \in Clients, End(t),
             UNCHANGED ws \/ wsLock \in {t, NoClient}
      PROVE  EditsAreAdded'
  <2>1. CASE UNCHANGED ws
    BY <1>1, <1>2, <1>5, <2>1 DEF End, TypeOK
  <2>2. CASE wsLock \in {t, NoClient}
    <3>1. \A u \in Clients : pc'[u] # "collapse"
      BY <1>1, <1>5, <2>2, ClientsAssumption DEF End, TypeOK, LocksAreHeld
    <3>2. \A u \in Clients :
            pc'[u] \in {"lock", "insert"} => UNCHANGED <<pc[u], edits[u], left[u]>>
      BY <1>1, <1>5 DEF End, TypeOK
    <3> QED
      BY <1>1, <3>1, <3>2
  <2> QED
    BY <1>5, <2>1, <2>2
<1>6. ASSUME NEW t \in Clients, LockDraft(t)
      PROVE  EditsAreAdded'
  BY <1>1, <1>6 DEF LockDraft, TypeOK
<1>7. ASSUME NEW t \in Clients, InsertDraft(t)
      PROVE  EditsAreAdded'
  <2>1. CASE Fail(t)
    BY <1>5, <2>1 DEF Fail
  <2>2. CASE ~Fail(t)
    BY <1>1, <1>7, <2>2 DEF InsertDraft, TypeOK, DraftsAreSound
  <2> QED
    BY <2>1, <2>2
<1>8. ASSUME NEW t \in Clients, CollapseNext(t)
      PROVE  EditsAreAdded'
  <2>1. PICK c \in left[t] :
          /\ buf' = [buf EXCEPT ![t] = Collapse(@, c)]
          /\ left' = [left EXCEPT ![t] = @ \ {c}]
    BY <1>8 DEF CollapseNext
  <2>2. pc[t] = "collapse" /\ UNCHANGED <<ws, pc, edits>>
    BY <1>8 DEF CollapseNext
  <2>3. c \in edits[t] /\ c.rid \in Rids(edits[t])
    BY <1>1, <2>2 DEF Rids
  <2>4. WellFormed(buf[t]) /\ OneChangeEach(buf[t]) /\ WellFormed({c})
    BY <1>1 DEF DraftsAreSound, WellFormed
  <2>5. \A d \in buf[t] : d.rid # c.rid => d \in Collapse(buf[t], c)
    BY <2>4, CollapseType
  <2> QED
    BY <1>1, <2>1, <2>2, <2>3, <2>5 DEF TypeOK
<1>9. ASSUME NEW t \in Clients, CommitEdit(t)
      PROVE  EditsAreAdded'
  BY <1>1, <1>5, <1>9 DEF CommitEdit, LocksAreHeld
<1>10. ASSUME NEW t \in Clients,
              ApplyChanges(t) \/ ReadVersion(t) \/ BumpVersion(t) \/ ClearDraft(t)
       PROVE  EditsAreAdded'
  <2>1. CASE Fail(t)
    BY <1>5, <2>1 DEF Fail
  <2>2. CASE ~Fail(t)
    BY <1>1, <1>2, <1>10, <2>2
       DEF ApplyChanges, ReadVersion, BumpVersion, ClearDraft, TypeOK
  <2> QED
    BY <2>1, <2>2
<1>11. ASSUME NEW t \in Clients, CommitPublish(t)
       PROVE  EditsAreAdded'
  BY <1>5, <1>11 DEF CommitPublish
<1>12. ASSUME NEW t \in Clients,
              CommitDiscard(t) \/ CommitDiscardChange(t) \/ Abort(t)
       PROVE  EditsAreAdded'
  BY <1>5, <1>12 DEF CommitDiscard, CommitDiscardChange, Abort, Fail
<1> QED
  BY <1>1, <1>3, <1>4, <1>6, <1>7, <1>8, <1>9, <1>10, <1>11, <1>12, StepCases

-----------------------------------------------------------------------------
(* The theorems *)

LEMMA Step == IInv /\ [Next]_vars => IInv'
BY TypeStep, DraftsStep, LocksStep, VersionsStep, TablesStep, EditsStep
   DEF IInv, RequestsRely

\* What every request relies on when it goes on holds at all times.
THEOREM Invariance == Spec => []IInv
BY InitIInv, Step, PTL DEF Spec

\* Every variable keeps its type.
THEOREM TypeCorrect == Spec => []TypeOK
BY Invariance, PTL DEF IInv

\* However requests overlap, the draft and every record hold at most one change
\* to a resource.
THEOREM DraftCollapsed == Spec => []OneChangePerResource
BY Invariance, PTL DEF IInv, RequestsRely, DraftsAreSound

\* However publishes overlap, records are numbered 1, 2, 3 and so on, up to the
\* version.
THEOREM HistoryIsNumbered == Spec => []HistoryNumbered
BY Invariance, PTL DEF IInv

\* However publishes and edits overlap, no published row refers to a row that is
\* not there.
THEOREM ReferencesKept == Spec => []PublishedReferencesHold
BY Invariance, PTL DEF IInv

\* What every request relies on between its statements holds until it ends: drafts
\* are sound and locks exclusive, the version that a publish writes is the next
\* one, what it has applied stays applicable, and an edit has lost no change that
\* it does not touch.
THEOREM RequestsMayRely == Spec => []RequestsRely
BY Invariance, PTL DEF IInv

-----------------------------------------------------------------------------
(* What a step may never do *)

\* While a request holds the draft's row, nobody else changes the draft.
THEOREM HeldDraftStays == Spec => HeldDraftIsStill
<1> DEFINE Still == wsLock # NoClient /\ wsLock' = wsLock => UNCHANGED ws
<1>1. ASSUME IInv, [Next]_vars PROVE [Still]_vars
  <2>1. TypeOK /\ DraftsAreSound /\ LocksAreHeld
    BY <1>1 DEF IInv, RequestsRely
  <2>2. CASE UNCHANGED vars
    BY <2>2 DEF vars
  <2>3. ASSUME NEW t \in Clients, End(t), wsLock = t
        PROVE  wsLock' = NoClient
    BY <2>3 DEF End
  <2>4. ASSUME NEW t \in Clients, CommitEdit(t) PROVE Still
    BY <2>1, <2>3, <2>4, ClientsAssumption DEF CommitEdit, LocksAreHeld
  <2>5. ASSUME NEW t \in Clients, CommitPublish(t) PROVE Still
    BY <2>3, <2>5, ClientsAssumption DEF CommitPublish
  <2>6. ASSUME NEW t \in Clients, CommitDiscard(t) \/ CommitDiscardChange(t) PROVE Still
    BY <2>6 DEF CommitDiscard, CommitDiscardChange
  <2>7. ASSUME NEW t \in Clients,
               \/ \E changes : BeginEdit(t, changes)
               \/ BeginPublish(t) \/ BeginDiscard(t) \/ BeginDiscardChange(t)
               \/ LockDraft(t) \/ InsertDraft(t) \/ CollapseNext(t)
               \/ ApplyChanges(t) \/ ReadVersion(t) \/ BumpVersion(t) \/ ClearDraft(t)
               \/ Abort(t)
        PROVE  UNCHANGED ws
    BY <2>7 DEF BeginEdit, BeginPublish, BeginDiscard, BeginDiscardChange, LockDraft,
                InsertDraft, CollapseNext, ApplyChanges, ReadVersion, BumpVersion,
                ClearDraft, Abort, Fail
  <2> QED
    BY <1>1, <2>1, <2>2, <2>4, <2>5, <2>6, <2>7, StepCases
<1>2. (IInv /\ [Next]_vars) => [Still]_vars
  BY <1>1
<1> QED
  BY <1>2, Invariance, PTL DEF Spec, HeldDraftIsStill

\* An edit that ends has kept the changes to resources it does not touch, though
\* others edited the draft since it began.
THEOREM EditsAreKept == Spec => EditsAccumulate
<1> DEFINE Kept == \A t \in Clients :
                     CommitEdit(t) =>
                       \A c \in ws.changes :
                         c.rid \notin Rids(edits[t]) => c \in ws'.changes
<1>1. IInv /\ [Next]_vars => [Kept]_vars
  BY DEF IInv, RequestsRely, EditsAreAdded, CommitEdit
<1> QED
  BY <1>1, Invariance, PTL DEF Spec, EditsAccumulate

\* A publish or a discard that read one draft leaves a later one alone.
THEOREM LaterDraftKept == Spec => LaterDraftIsSpared
<1> DEFINE Spared == \A t \in Clients :
                       /\ pc[t] \in {"sync", "discard", "rewrite"}
                       /\ pc'[t] = "idle"
                       /\ HasDraft
                       /\ ws.id # seen[t].id
                       => UNCHANGED ws
<1>1. ASSUME IInv, [Next]_vars PROVE [Spared]_vars
  <2>1. TypeOK /\ DraftsAreSound /\ LocksAreHeld
    BY <1>1 DEF IInv, RequestsRely
  <2>2. CASE UNCHANGED vars
    BY <2>2
  <2>3. SUFFICES ASSUME Next, NEW t \in Clients,
                        pc[t] \in {"sync", "discard", "rewrite"},
                        pc'[t] = "idle", ws.id # seen[t].id
                 PROVE  UNCHANGED ws
    BY <1>1, <2>2
  <2>4. ASSUME NEW u \in Clients,
               \/ \E changes : BeginEdit(u, changes)
               \/ BeginPublish(u) \/ BeginDiscard(u) \/ BeginDiscardChange(u)
               \/ LockDraft(u) \/ InsertDraft(u) \/ CollapseNext(u)
               \/ ApplyChanges(u) \/ ReadVersion(u) \/ BumpVersion(u) \/ ClearDraft(u)
               \/ Abort(u)
        PROVE  UNCHANGED ws
    BY <2>4 DEF BeginEdit, BeginPublish, BeginDiscard, BeginDiscardChange, LockDraft,
                InsertDraft, CollapseNext, ApplyChanges, ReadVersion, BumpVersion,
                ClearDraft, Abort, Fail
  <2>5. ASSUME NEW u \in Clients, End(u) PROVE u = t
    BY <2>1, <2>3, <2>5 DEF End, TypeOK
  <2>6. ASSUME NEW u \in Clients, CommitEdit(u) PROVE FALSE
    BY <2>3, <2>5, <2>6 DEF CommitEdit
  <2>7. ASSUME NEW u \in Clients,
               CommitPublish(u) \/ CommitDiscard(u) \/ CommitDiscardChange(u)
        PROVE  UNCHANGED ws
    BY <2>1, <2>3, <2>5, <2>7
       DEF CommitPublish, CommitDiscard, CommitDiscardChange, LocksAreHeld
  <2> QED
    BY <2>1, <2>3, <2>4, <2>6, <2>7, StepCases
<1>2. (IInv /\ [Next]_vars) => [Spared]_vars
  BY <1>1
<1> QED
  BY <1>2, Invariance, PTL DEF Spec, LaterDraftIsSpared

-----------------------------------------------------------------------------
(* The history *)

\* The tables before the first record.
NothingYet == [r \in Resources |-> Absent]

\* The tables after each record, as HistoryReplays defines them.
IsReplay(replay, recs) ==
  replay = [n \in 0..Len(recs) |->
              IF n = 0 THEN NothingYet ELSE Applied(replay[n - 1], recs[n].changes)]

\* The records have a replay, and every replay of them ends with these tables.
Rebuilds(recs, table) ==
  /\ \E replay : IsReplay(replay, recs)
  /\ \A replay : IsReplay(replay, recs) => replay[Len(recs)] = table

\* Nothing but its records is in a replay: one more record, one more step.
LEMMA ReplayAppend ==
  ASSUME NEW S, NEW recs \in Seq(S), NEW new \in S, NEW table, Rebuilds(recs, table)
  PROVE  Rebuilds(Append(recs, new), Applied(table, new.changes))
<1> DEFINE more == Append(recs, new)
           last == Len(recs) + 1
<1>1. /\ Len(recs) \in Nat /\ Len(more) = last
      /\ \A n \in 1..Len(recs) : more[n] = recs[n]
      /\ more[last] = new
  OBVIOUS
<1>2. \A n \in 0..last : n \in 0..Len(recs) \/ n = last
  BY <1>1
<1>3. \A n \in 0..Len(recs) : n # 0 => n - 1 \in 0..Len(recs) /\ n \in 1..Len(recs)
  BY <1>1
<1>4. /\ last # 0 /\ last - 1 = Len(recs) /\ last \in 0..last
      /\ Len(recs) \in 0..Len(recs) /\ 0..Len(recs) \subseteq 0..last
      /\ last \notin 0..Len(recs)
  BY <1>1
<1> HIDE DEF more, last
<1>5. \E replay : IsReplay(replay, more)
  <2>1. PICK f : IsReplay(f, recs)
    BY DEF Rebuilds
  <2> DEFINE g == [n \in 0..last |-> IF n = last THEN Applied(f[Len(recs)], new.changes)
                                     ELSE f[n]]
  <2>2. \A n \in 0..Len(recs) :
          f[n] = IF n = 0 THEN NothingYet ELSE Applied(f[n - 1], recs[n].changes)
    BY <2>1 DEF IsReplay
  <2>3. \A n \in 0..Len(recs) : g[n] = f[n]
    BY <1>4
  <2>4. g[last] = Applied(g[last - 1], more[last].changes)
    BY <1>1, <1>4, <2>3
  <2>5. g = [n \in 0..last |-> g[n]]
    OBVIOUS
  <2> HIDE DEF g
  <2>6. \A n \in 0..Len(recs) :
          g[n] = IF n = 0 THEN NothingYet ELSE Applied(g[n - 1], more[n].changes)
    BY <1>1, <1>3, <2>2, <2>3
  <2>7. g = [n \in 0..last |->
               IF n = 0 THEN NothingYet ELSE Applied(g[n - 1], more[n].changes)]
    BY <1>2, <1>4, <2>4, <2>5, <2>6
  <2> QED
    BY <1>1, <2>7 DEF IsReplay
<1>6. ASSUME NEW g, IsReplay(g, more) PROVE g[last] = Applied(table, new.changes)
  <2> DEFINE f == [n \in 0..Len(recs) |-> g[n]]
  <2>1. \A n \in 0..last :
          g[n] = IF n = 0 THEN NothingYet ELSE Applied(g[n - 1], more[n].changes)
    BY <1>1, <1>6 DEF IsReplay
  <2>2. \A n \in 0..Len(recs) :
          f[n] = IF n = 0 THEN NothingYet ELSE Applied(f[n - 1], recs[n].changes)
    BY <1>1, <1>3, <1>4, <2>1
  <2>3. f = [n \in 0..Len(recs) |-> f[n]]
    OBVIOUS
  <2>4. f[Len(recs)] = g[Len(recs)]
    BY <1>4
  <2> HIDE DEF f
  <2>5. IsReplay(f, recs)
    BY <2>2, <2>3 DEF IsReplay
  <2>6. g[Len(recs)] = table
    BY <2>4, <2>5 DEF Rebuilds
  <2> QED
    BY <1>1, <1>4, <2>1, <2>6
<1> QED
  BY <1>1, <1>5, <1>6 DEF Rebuilds, more

LEMMA ReplayNothing ==
  ASSUME NEW recs, Len(recs) = 0
  PROVE  Rebuilds(recs, NothingYet)
<1>1. 0..Len(recs) = {0}
  OBVIOUS
<1> DEFINE f == [n \in {0} |-> NothingYet]
<1>2. IsReplay(f, recs)
  BY <1>1 DEF IsReplay
<1>3. ASSUME NEW g, IsReplay(g, recs) PROVE g[0] = NothingYet
  BY <1>1, <1>3 DEF IsReplay
<1> QED
  BY <1>2, <1>3 DEF Rebuilds

LEMMA InitRebuilds == Init => Rebuilds(records, published)
<1> SUFFICES ASSUME Init PROVE Rebuilds(records, published)
  OBVIOUS
<1> DEFINE creations == {Creation(r, Seed[r]) : r \in DOMAIN Seed}
           first == [version |-> 1, changes |-> creations]
<1>1. \/ records = << >> /\ DOMAIN Seed = {}
      \/ records = <<first>>
  BY DEF Init
<1>2. published = [r \in Resources |-> IF r \in DOMAIN Seed THEN Seed[r] ELSE Absent]
  BY DEF Init
<1>3. Rebuilds(<< >>, NothingYet)
  BY ReplayNothing
<1>4. CASE records = << >> /\ DOMAIN Seed = {}
  <2>1. published = NothingYet
    BY <1>2, <1>4 DEF NothingYet
  <2> QED
    BY <1>3, <1>4, <2>1
<1>5. CASE records = <<first>>
  <2>1. \A r \in DOMAIN Seed : Creation(r, Seed[r]).rid = r /\ Creation(r, Seed[r]).op = "CREATE"
                               /\ Creation(r, Seed[r]).after = Seed[r]
    BY DEF Creation
  <2>2. Rids(creations) = DOMAIN Seed /\ OfKind(creations, "DELETE") = {}
    BY <2>1 DEF Rids, OfKind
  <2>3. ASSUME NEW r \in DOMAIN Seed PROVE ChangeTo(creations, r).after = Seed[r]
    <3>1. ChangeTo(creations, r) \in creations /\ ChangeTo(creations, r).rid = r
      BY <2>2, ChangeToIn
    <3>2. PICK s \in DOMAIN Seed : ChangeTo(creations, r) = Creation(s, Seed[s])
      BY <3>1
    <3> QED
      BY <2>1, <3>1, <3>2
  <2> HIDE DEF creations
  <2>4. Applied(NothingYet, creations) = published
    <3>1. \A r \in Resources :
            Written(NothingYet, creations, r) = published[r]
      BY <1>2, <2>2, <2>3 DEF Written, NothingYet
    <3>2. ASSUME NEW r \in Resources PROVE Applied(NothingYet, creations)[r] = published[r]
      <4>1. published[r] # Absent => Emptied(published[r], {}) = published[r]
        <5>1. published[r] # Absent => published[r] \in Content
          BY <1>2, SeedAssumption
        <5> QED
          BY <5>1 DEF Emptied, Content
      <4> QED
        BY <2>2, <3>1, <4>1 DEF Applied
    <3>3. Applied(NothingYet, creations) = [r \in Resources |-> Applied(NothingYet, creations)[r]]
      BY DEF Applied
    <3> QED
      BY <1>2, <3>2, <3>3
  <2>5. first.changes = creations /\ Append(<< >>, first) = <<first>> /\ << >> \in Seq({first})
    OBVIOUS
  <2> HIDE DEF first
  <2>6. Rebuilds(Append(<< >>, first), Applied(NothingYet, first.changes))
    BY <1>3, <2>5, ReplayAppend
  <2> QED
    BY <1>5, <2>4, <2>5, <2>6
<1> QED
  BY <1>1, <1>4, <1>5

LEMMA RebuildsStep ==
  IInv /\ Rebuilds(records, published) /\ [Next]_vars => Rebuilds(records, published)'
<1> SUFFICES ASSUME IInv, Rebuilds(records, published), [Next]_vars
             PROVE  Rebuilds(records', published')
  OBVIOUS
<1>1. TypeOK /\ DraftsAreSound
  BY DEF IInv, RequestsRely
<1>2. CASE UNCHANGED vars
  BY <1>2 DEF vars
<1>3. ASSUME NEW t \in Clients,
             \/ \E changes : BeginEdit(t, changes)
             \/ BeginPublish(t) \/ BeginDiscard(t) \/ BeginDiscardChange(t)
             \/ LockDraft(t) \/ InsertDraft(t) \/ CollapseNext(t) \/ CommitEdit(t)
             \/ ApplyChanges(t) \/ ReadVersion(t) \/ BumpVersion(t) \/ ClearDraft(t)
             \/ CommitDiscard(t) \/ CommitDiscardChange(t) \/ Abort(t)
      PROVE  UNCHANGED <<records, published>>
  <2>1. CASE \/ \E changes : BeginEdit(t, changes)
             \/ BeginPublish(t) \/ BeginDiscard(t) \/ BeginDiscardChange(t)
    <3>1. PICK where : Begin(t, where)
      BY <2>1 DEF BeginEdit, BeginPublish, BeginDiscard, BeginDiscardChange
    <3> QED
      BY <3>1
  <2>2. CASE LockDraft(t) \/ InsertDraft(t) \/ CollapseNext(t) \/ CommitEdit(t)
    BY <2>2 DEF LockDraft, InsertDraft, CollapseNext, CommitEdit, Fail
  <2>3. CASE ApplyChanges(t) \/ ReadVersion(t) \/ BumpVersion(t) \/ ClearDraft(t)
    BY <2>3 DEF ApplyChanges, ReadVersion, BumpVersion, ClearDraft, Fail
  <2>4. CASE CommitDiscard(t) \/ CommitDiscardChange(t) \/ Abort(t)
    BY <2>4 DEF CommitDiscard, CommitDiscardChange, Abort, Fail
  <2> QED
    BY <1>3, <2>1, <2>2, <2>3, <2>4
<1>4. ASSUME NEW t \in Clients, CommitPublish(t)
      PROVE  Rebuilds(records', published')
  <2> DEFINE new == [version |-> readVersion[t] + 1, changes |-> seen[t].changes]
             S == [version: Nat, changes: SUBSET Change]
  <2>1. /\ records' = Append(records, new)
        /\ published' = Applied(published, new.changes)
    BY <1>4 DEF CommitPublish
  <2>2. records \in Seq(S)
    BY <1>1 DEF TypeOK
  <2>3. new \in S
    BY <1>1 DEF TypeOK, DraftRow
  <2> HIDE DEF new, S
  <2> QED
    BY <2>1, <2>2, <2>3, ReplayAppend
<1> QED
  BY <1>1, <1>2, <1>3, <1>4, StepCases

\* Replaying the records in order rebuilds the published tables.
THEOREM HistoryIsComplete == Spec => []HistoryReplays
<1>1. Rebuilds(records, published) => HistoryReplays
  <2> SUFFICES ASSUME Rebuilds(records, published) PROVE HistoryReplays
    OBVIOUS
  <2> DEFINE replay == CHOOSE f : IsReplay(f, records)
  <2>1. IsReplay(replay, records)
    BY DEF Rebuilds
  <2>2. replay[Len(records)] = published
    BY <2>1 DEF Rebuilds
  <2> QED
    BY <2>2 DEF HistoryReplays, IsReplay, NothingYet
<1> QED
  BY <1>1, InitRebuilds, RebuildsStep, Invariance, PTL DEF Spec
=============================================================================
