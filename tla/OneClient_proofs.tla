-------------------------- MODULE OneClient_proofs --------------------------
(***************************************************************************)
(* That with one client the draft is what its user takes it for: it fits   *)
(* the published tables, every edit shows through, and change management   *)
(* implements OntologyDraft.  For every set of resources, every document   *)
(* and every bound; with a second client none of this holds.               *)
(***************************************************************************)
EXTENDS WorkingState_proofs

USE DEF Idle, Begin, Goto, HasDraft, HoldsRows

\* The change or changes that an edit begins with are such as the draft allows.
LEMMA EditsBeginMade ==
  ASSUME TypeOK, DraftsAreSound, DraftFitsPublished, IssuedOnce, NEW t \in Clients,
         CreateResource(t) \/ UpdateResource(t) \/ DeleteResource(t) \/ DeleteObjectType(t)
  PROVE  /\ issued \subseteq issued'
         /\ \E changes :
              /\ BeginEdit(t, changes)
              /\ WellFormed(changes) /\ OneChangeEach(changes)
              /\ \A c \in changes : Made(Loaded, ws.changes, c)
              /\ \/ \A c \in changes : c.op = "DELETE"
                 \/ \E c \in changes : changes = {c}
              /\ Rids(changes) \subseteq issued'
<1> DEFINE Allowed(changes) ==
             /\ WellFormed(changes) /\ OneChangeEach(changes)
             /\ \A c \in changes : Made(Loaded, ws.changes, c)
             /\ \/ \A c \in changes : c.op = "DELETE"
                \/ \E c \in changes : changes = {c}
             /\ Rids(changes) \subseteq issued'
<1>0. /\ WellFormed(ws.changes) /\ OneChangeEach(ws.changes)
      /\ Loaded \in Tables /\ Fits(Loaded, ws.changes)
      /\ \A r \in Resources : Loaded[r] = Absent <=> published[r] = Absent
  BY LoadedType DEF DraftsAreSound, OneChangePerResource, TypeOK, DraftFitsPublished
<1>1. Found(Loaded, ws.changes) \subseteq issued
  <2>1. SUFFICES ASSUME NEW r \in Resources, ViewState(Loaded, ws.changes, r) # "missing"
                 PROVE  r \in issued
    BY DEF Found
  <2>2. published[r] # Absent \/ r \in Rids(ws.changes)
    BY <1>0, <2>1 DEF ViewState
  <2> QED
    BY <2>2 DEF IssuedOnce
<1>2. ASSUME NEW c, WellFormed({c}), Made(Loaded, ws.changes, c), c.rid \in issued'
      PROVE  Allowed({c})
  BY <1>2 DEF OneChangeEach, Rids
<1>3. CASE CreateResource(t)
  <2>1. PICK r \in Resources \ issued, content \in Content :
          BeginEdit(t, {Creation(r, content)}) /\ issued' = issued \cup {r}
    BY <1>3 DEF CreateResource
  <2> DEFINE c == Creation(r, content)
  <2>2. WellFormed({c}) /\ c.rid = r /\ c.op = "CREATE"
    BY ChangesMade DEF Creation
  <2>3. Made(Loaded, ws.changes, c)
    BY <1>0, <2>2 DEF Made, IssuedOnce
  <2> HIDE DEF c, Allowed
  <2>4. Allowed({c})
    BY <1>2, <2>1, <2>2, <2>3
  <2> QED
    BY <2>1, <2>4 DEF Allowed, c
<1>4. CASE UpdateResource(t)
  <2>1. PICK r \in Found(Loaded, ws.changes), patch \in Patch :
          /\ BeginEdit(t, {Update(r, ViewData(Loaded, ws.changes, r), patch)})
          /\ UNCHANGED issued
    BY <1>4 DEF UpdateResource
  <2> DEFINE c == Update(r, ViewData(Loaded, ws.changes, r), patch)
  <2>2. WellFormed({c}) /\ c.rid = r
    BY <1>0, ViewDataType, UpdateType DEF Update
  <2>3. Made(Loaded, ws.changes, c)
    BY <1>0, ShownMayChange
  <2> HIDE DEF c, Allowed
  <2>4. Allowed({c})
    BY <1>1, <1>2, <2>1, <2>2, <2>3
  <2> QED
    BY <2>1, <2>4 DEF Allowed, c
<1>5. CASE DeleteResource(t)
  <2>1. PICK r \in Found(Loaded, ws.changes) :
          /\ BeginEdit(t, {Deletion(r, ViewData(Loaded, ws.changes, r))})
          /\ UNCHANGED issued
    BY <1>5 DEF DeleteResource
  <2> DEFINE c == Deletion(r, ViewData(Loaded, ws.changes, r))
  <2>2. WellFormed({c}) /\ c.rid = r
    BY <1>0, ViewDataType, ContentIsPatch, ChangesMade DEF WellFormed
  <2>3. Made(Loaded, ws.changes, c)
    BY <1>0, ShownMayChange
  <2> HIDE DEF c, Allowed
  <2>4. Allowed({c})
    BY <1>1, <1>2, <2>1, <2>2, <2>3
  <2> QED
    BY <2>1, <2>4 DEF Allowed, c
<1>6. CASE DeleteObjectType(t)
  <2>1. PICK o \in Found(Loaded, ws.changes) \cap ObjectTypes :
          /\ BeginEdit(t, ObjectTypeDeletion(Loaded, ws.changes, o))
          /\ UNCHANGED issued
    BY <1>6 DEF DeleteObjectType
  <2> DEFINE gone == ObjectTypeDeletion(Loaded, ws.changes, o)
  <2>2. /\ WellFormed(gone) /\ OneChangeEach(gone)
        /\ \A c \in gone : /\ c.op = "DELETE" /\ Made(Loaded, ws.changes, c)
                           /\ c.rid \in Found(Loaded, ws.changes)
    BY <1>0, ObjectTypeDeletionType, ObjectTypeDeletionMade
  <2> HIDE DEF gone
  <2>3. Rids(gone) \subseteq issued'
    BY <1>1, <2>1, <2>2 DEF Rids
  <2> QED
    BY <2>1, <2>2, <2>3 DEF gone
<1> QED
  BY <1>3, <1>4, <1>5, <1>6

-----------------------------------------------------------------------------
(* What one client relies on *)

LEMMA ClientInit == Init => ClientRelies
<1> SUFFICES ASSUME Init PROVE ClientRelies
  OBVIOUS
<1> USE DEF Init
<1>1. DraftFitsPublished
  BY DEF DraftFitsPublished, Fits, EmptyDraft
<1>2. DraftStaysRead /\ EditsAreMade /\ CollapsedSoFar
  BY DEF DraftStaysRead, EditsAreMade, CollapsedSoFar, Editing
<1>3. IssuedOnce
  BY DEF IssuedOnce, Rids, EmptyDraft, Editing
<1> QED
  BY <1>1, <1>2, <1>3 DEF ClientRelies

\* When the one request there is has ended, nothing is relied on but the draft.
LEMMA EndRelies ==
  ASSUME TypeOK, NEW t, Clients = {t}, End(t),
         Fits(Loaded', ws'.changes),
         \A r \in Resources : published'[r] # Absent => r \in issued',
         Rids(ws'.changes) \subseteq issued'
  PROVE  ClientRelies'
<1>1. /\ pc' = [u \in Clients |-> "idle"]
      /\ buf' = [u \in Clients |-> {}]
  BY DEF TypeOK, End
<1>2. DraftStaysRead' /\ EditsAreMade' /\ CollapsedSoFar'
  BY <1>1 DEF DraftStaysRead, EditsAreMade, CollapsedSoFar, Editing
<1>3. IssuedOnce'
  BY <1>1 DEF IssuedOnce, Editing
<1> QED
  BY <1>2, <1>3 DEF ClientRelies, DraftFitsPublished

\* What add_changes has collapsed when its loop ends.
LEMMA CollapsedAll ==
  ASSUME IInv, ClientRelies, NEW t \in Clients, pc[t] = "collapse", left[t] = {}
  PROVE  /\ WellFormed(buf[t]) /\ OneChangeEach(buf[t])
         /\ Fits(Loaded, buf[t])
         /\ Rids(buf[t]) \subseteq issued
         /\ \A r \in Resources \ Rids(edits[t]) : On(buf[t], r) = On(ws.changes, r)
         /\ \A c \in edits[t] :
              LET r == c.rid
              IN  Shown(Loaded, buf[t])[r] =
                    IF c.op = "DELETE" THEN Absent
                    ELSE IF r \in Found(Loaded, ws.changes)
                      THEN Override(ViewData(Loaded, ws.changes, r), c.after)
                    ELSE c.after
<1> DEFINE b == buf[t]
           e == edits[t]
<1>1. /\ WellFormed(ws.changes) /\ OneChangeEach(ws.changes)
      /\ Loaded \in Tables /\ Fits(Loaded, ws.changes)
      /\ WellFormed(b) /\ OneChangeEach(b)
  BY LoadedType DEF DraftsAreSound, OneChangePerResource, TypeOK, ClientRelies, DraftFitsPublished,
         IInv, RequestsRely
<1>2. /\ WellFormed(e) /\ OneChangeEach(e) /\ Rids(e) \subseteq issued
      /\ \A c \in e : Made(Loaded, ws.changes, c)
  BY DEF ClientRelies, EditsAreMade, IssuedOnce, Editing
<1>3. \A r \in Resources :
        On(b, r) = IF r \in Rids(e) THEN Result(ws.changes, ChangeTo(e, r))
                                    ELSE On(ws.changes, r)
  <2>1. e \ left[t] = e
    OBVIOUS
  <2> QED
    BY <2>1 DEF ClientRelies, CollapsedSoFar
<1> HIDE DEF b, e
<1>4. ASSUME NEW c \in e
      PROVE  LET r == c.rid
             IN  /\ Fits(Loaded, On(b, r))
                 /\ Shown(Loaded, b)[r] =
                      IF c.op = "DELETE" THEN Absent
                      ELSE IF r \in Found(Loaded, ws.changes)
                        THEN Override(ViewData(Loaded, ws.changes, r), c.after)
                      ELSE c.after
  <2>1. /\ c.rid \in Resources /\ c.rid \in Rids(e) /\ ChangeTo(e, c.rid) = c
        /\ WellFormed({c}) /\ Made(Loaded, ws.changes, c)
    BY <1>2, ChangeToIs DEF WellFormed, Change
  <2>2. On(b, c.rid) = Result(ws.changes, c)
    BY <1>3, <2>1
  <2> QED
    BY <1>1, <2>1, <2>2, ResultShows
<1>5. ASSUME NEW c \in b PROVE Fits(Loaded, {c}) /\ c.rid \in issued
  <2>1. c \in On(b, c.rid) /\ c.rid \in Resources
    BY <1>1 DEF On, WellFormed, Change
  <2>2. CASE c.rid \in Rids(e)
    <3>1. PICK d \in e : d.rid = c.rid
      BY <2>2 DEF Rids
    <3>2. Fits(Loaded, On(b, c.rid))
      BY <1>4, <3>1
    <3> QED
      BY <1>2, <2>1, <2>2, <3>2 DEF Fits
  <2>3. CASE c.rid \notin Rids(e)
    <3>1. c \in ws.changes
      BY <1>3, <2>1, <2>3 DEF On
    <3>2. c.rid \in issued
      BY <3>1 DEF ClientRelies, IssuedOnce, Rids
    <3> QED
      BY <1>1, <3>1, <3>2 DEF Fits
  <2> QED
    BY <2>2, <2>3
<1>6. Fits(Loaded, b) /\ Rids(b) \subseteq issued
  BY <1>5 DEF Fits, Rids
<1> QED
  BY <1>1, <1>3, <1>4, <1>6 DEF b, e

\* A request of the only client is one of the actions, and an edit begins with
\* changes that the draft allows.
LEMMA ClientCases ==
  ASSUME TypeOK, DraftsAreSound, DraftFitsPublished, IssuedOnce, NEW t, Clients = {t}, Next
  PROVE  \/ /\ issued \subseteq issued'
            /\ \E changes :
                 /\ BeginEdit(t, changes)
                 /\ WellFormed(changes) /\ OneChangeEach(changes)
                 /\ \A c \in changes : Made(Loaded, ws.changes, c)
                 /\ \/ \A c \in changes : c.op = "DELETE"
                    \/ \E c \in changes : changes = {c}
                 /\ Rids(changes) \subseteq issued'
         \/ BeginPublish(t) \/ BeginDiscard(t) \/ BeginDiscardChange(t)
         \/ LockDraft(t) \/ InsertDraft(t) \/ CollapseNext(t) \/ CommitEdit(t)
         \/ ApplyChanges(t) \/ ReadVersion(t) \/ BumpVersion(t) \/ ClearDraft(t)
         \/ CommitPublish(t) \/ CommitDiscard(t) \/ CommitDiscardChange(t)
         \/ Abort(t)
<1>1. t \in Clients /\ \A u \in Clients : u = t
  OBVIOUS
<1>2. \/ CreateResource(t) \/ UpdateResource(t) \/ DeleteResource(t) \/ DeleteObjectType(t)
      \/ BeginPublish(t) \/ BeginDiscard(t) \/ BeginDiscardChange(t)
      \/ Advance(t) \/ Abort(t)
  BY <1>1 DEF Next
<1>3. CASE CreateResource(t) \/ UpdateResource(t) \/ DeleteResource(t) \/ DeleteObjectType(t)
  BY <1>1, <1>3, EditsBeginMade
<1> QED
  BY <1>2, <1>3 DEF Advance

\* A step that leaves the tables, the draft and the issued identifiers alone.
LEMMA ClientStill ==
  ASSUME ClientRelies, UNCHANGED <<published, ws, issued>>,
         \A u \in Clients : Editing(u)' => Editing(u) /\ edits'[u] = edits[u]
  PROVE  DraftFitsPublished' /\ IssuedOnce' /\ EditsAreMade'
BY DEF ClientRelies, DraftFitsPublished, IssuedOnce, EditsAreMade, Loaded

LEMMA ClientStep == Alone /\ IInv /\ ClientRelies /\ [Next]_vars => ClientRelies'
<1> SUFFICES ASSUME Alone, IInv, ClientRelies, [Next]_vars PROVE ClientRelies'
  OBVIOUS
<1>1. /\ TypeOK /\ DraftsAreSound /\ LocksAreHeld
      /\ DraftFitsPublished /\ DraftStaysRead /\ IssuedOnce /\ EditsAreMade /\ CollapsedSoFar
  BY DEF IInv, RequestsRely, ClientRelies
<1>2. PICK t : Clients = {t}
  BY DEF Alone
<1>3. t \in Clients /\ \A u \in Clients : u = t
  BY <1>2
<1>4. CASE UNCHANGED vars
  <2>1. DraftFitsPublished' /\ IssuedOnce' /\ EditsAreMade'
    BY <1>4, ClientStill DEF vars, Editing
  <2>2. DraftStaysRead' /\ CollapsedSoFar'
    BY <1>1, <1>4 DEF vars, DraftStaysRead, CollapsedSoFar
  <2> QED
    BY <2>1, <2>2 DEF ClientRelies
<1>5. ASSUME NEW changes, BeginEdit(t, changes), issued \subseteq issued',
             WellFormed(changes), OneChangeEach(changes),
             \A c \in changes : Made(Loaded, ws.changes, c),
             \/ \A c \in changes : c.op = "DELETE"
             \/ \E c \in changes : changes = {c},
             Rids(changes) \subseteq issued'
      PROVE  ClientRelies'
  <2>1. /\ pc' = [u \in Clients |-> "lock"]
        /\ seen' = [u \in Clients |-> ws]
        /\ edits' = [u \in Clients |-> changes]
        /\ left' = [u \in Clients |-> changes]
        /\ pc[t] = "idle" /\ UNCHANGED <<published, ws, buf>>
    BY <1>1, <1>2, <1>5 DEF BeginEdit, TypeOK
  <2>2. DraftFitsPublished'
    BY <1>1, <2>1 DEF DraftFitsPublished, Loaded
  <2>3. DraftStaysRead'
    BY <1>1, <1>3, <2>1 DEF DraftStaysRead
  <2>4. IssuedOnce'
    BY <1>1, <1>5, <2>1 DEF IssuedOnce
  <2>5. EditsAreMade' /\ CollapsedSoFar'
    BY <1>5, <2>1 DEF EditsAreMade, CollapsedSoFar, Loaded
  <2> QED
    BY <2>2, <2>3, <2>4, <2>5 DEF ClientRelies
<1>6. CASE BeginPublish(t) \/ BeginDiscard(t)
  <2>1. /\ pc' \in [Clients -> {"apply", "discard"}]
        /\ seen' = [u \in Clients |-> ws]
        /\ UNCHANGED <<published, ws, issued>>
    BY <1>1, <1>2, <1>6 DEF BeginPublish, BeginDiscard, TypeOK
  <2>2. DraftStaysRead' /\ CollapsedSoFar'
    BY <2>1 DEF DraftStaysRead, CollapsedSoFar
  <2>3. DraftFitsPublished' /\ IssuedOnce' /\ EditsAreMade'
    BY <2>1, ClientStill DEF Editing
  <2> QED
    BY <2>2, <2>3 DEF ClientRelies
<1>7. CASE BeginDiscardChange(t)
  <2>1. PICK c \in ws.changes :
          /\ Begin(t, "rewrite")
          /\ edits' = [edits EXCEPT ![t] = DiscardedWith(Loaded, ws.changes, c)]
          /\ buf' = [buf EXCEPT ![t] =
                       ws.changes \ DiscardedWith(Loaded, ws.changes, c)]
          /\ UNCHANGED <<issued, left>>
    BY <1>7 DEF BeginDiscardChange
  <2>2. DiscardedWith(Loaded, ws.changes, c) \subseteq ws.changes
    BY DEF DiscardedWith
  <2>3. /\ pc' = [u \in Clients |-> "rewrite"]
        /\ seen' = [u \in Clients |-> ws]
        /\ edits' = [u \in Clients |-> DiscardedWith(Loaded, ws.changes, c)]
        /\ buf' = [u \in Clients |-> ws.changes \ DiscardedWith(Loaded, ws.changes, c)]
        /\ UNCHANGED <<published, ws, issued>>
    BY <1>1, <1>2, <2>1 DEF TypeOK
  <2>4. DraftStaysRead' /\ CollapsedSoFar'
    BY <2>2, <2>3 DEF DraftStaysRead, CollapsedSoFar
  <2>5. DraftFitsPublished' /\ IssuedOnce' /\ EditsAreMade'
    BY <2>3, ClientStill DEF Editing
  <2> QED
    BY <2>4, <2>5 DEF ClientRelies
<1>8. CASE LockDraft(t)
  <2>1. /\ pc[t] = "lock"
        /\ \/ pc' = [u \in Clients |-> "collapse"] /\ buf' = [u \in Clients |-> ws.changes]
           \/ pc' = [u \in Clients |-> "insert"] /\ ~HasDraft /\ UNCHANGED buf
        /\ UNCHANGED <<published, ws, issued, seen, edits, left>>
    BY <1>1, <1>2, <1>8 DEF LockDraft, TypeOK
  <2>2. left[t] = edits[t] /\ seen[t] = ws /\ buf[t] = {}
    BY <1>1, <1>3, <2>1 DEF DraftStaysRead
  <2>3. DraftStaysRead'
    BY <1>3, <2>1, <2>2 DEF DraftStaysRead
  <2>4. CollapsedSoFar'
    <3>1. \A r : r \notin Rids(edits[t] \ left[t])
      BY <2>2 DEF Rids
    <3> QED
      BY <1>3, <2>1, <3>1 DEF CollapsedSoFar
  <2>5. DraftFitsPublished' /\ IssuedOnce' /\ EditsAreMade'
    BY <1>3, <2>1, ClientStill DEF Editing
  <2> QED
    BY <2>3, <2>4, <2>5 DEF ClientRelies
<1>9. ASSUME End(t), UNCHANGED <<published, ws, issued>>
      PROVE  ClientRelies'
  BY <1>1, <1>2, <1>9, EndRelies DEF DraftFitsPublished, IssuedOnce, Loaded
<1>10. CASE InsertDraft(t)
  <2>1. CASE Fail(t)
    BY <1>9, <2>1 DEF Fail
  <2>2. CASE ~Fail(t)
    <3>1. /\ pc[t] = "insert"
          /\ pc' = [u \in Clients |-> "collapse"]
          /\ UNCHANGED <<published, ws, issued, seen, edits, left, buf>>
      BY <1>1, <1>2, <1>10, <2>2 DEF InsertDraft, TypeOK
    <3>2. /\ left[t] = edits[t] /\ seen[t] = ws /\ buf[t] = {}
          /\ ~HasDraft
      BY <1>1, <1>3, <3>1 DEF DraftStaysRead
    <3>3. ws.changes = {}
      BY <1>1, <3>2 DEF DraftsAreSound
    <3>4. DraftStaysRead'
      BY <1>3, <3>1, <3>2 DEF DraftStaysRead
    <3>5. CollapsedSoFar'
      <4>1. \A r : r \notin Rids(edits[t] \ left[t])
        BY <3>2 DEF Rids
      <4> QED
        BY <1>3, <3>1, <3>2, <3>3, <4>1 DEF CollapsedSoFar
    <3>6. DraftFitsPublished' /\ IssuedOnce' /\ EditsAreMade'
      BY <1>3, <3>1, ClientStill DEF Editing
    <3> QED
      BY <3>4, <3>5, <3>6 DEF ClientRelies
  <2> QED
    BY <2>1, <2>2
<1>11. CASE CollapseNext(t)
  <2>1. PICK c \in left[t] :
          /\ buf' = [buf EXCEPT ![t] = Collapse(@, c)]
          /\ left' = [left EXCEPT ![t] = @ \ {c}]
    BY <1>11 DEF CollapseNext
  <2>2. /\ pc[t] = "collapse"
        /\ UNCHANGED <<published, ws, issued, wsLock, pc, seen, edits>>
    BY <1>11 DEF CollapseNext
  <2>3. buf'[t] = Collapse(buf[t], c) /\ left'[t] = left[t] \ {c}
    BY <1>1, <1>3, <2>1 DEF TypeOK
  <2>4. DraftStaysRead'
    BY <1>1, <1>3, <2>2 DEF DraftStaysRead
  <2>5. CollapsedSoFar'
    <3> DEFINE e == edits[t]
               done == e \ left[t]
               b == buf[t]
    <3>1. /\ WellFormed(e) /\ OneChangeEach(e) /\ left[t] \subseteq e
          /\ WellFormed(b) /\ OneChangeEach(b)
          /\ OneChangeEach(ws.changes)
      <4>1. EditsAreAdded
        BY DEF IInv, RequestsRely
      <4> QED
        BY <1>1, <1>3, <2>2, <4>1
           DEF EditsAreMade, Editing, DraftsAreSound, OneChangePerResource, EditsAreAdded
    <3>2. /\ c \in e /\ WellFormed({c}) /\ c.rid \in Resources
          /\ ChangeTo(e, c.rid) = c
      BY <3>1, ChangeToIs DEF WellFormed, Change
    <3>3. c.rid \notin Rids(done)
      BY <3>1, <3>2 DEF Rids, OneChangeEach
    <3>4. \A r \in Resources :
            On(b, r) = IF r \in Rids(done) THEN Result(ws.changes, ChangeTo(e, r))
                                           ELSE On(ws.changes, r)
      BY <1>1, <1>3, <2>2 DEF CollapsedSoFar
    <3>5. edits'[t] \ left'[t] = done \cup {c}
      BY <2>2, <2>3, <3>2
    <3>6. \A r : r \in Rids(done \cup {c}) <=> r = c.rid \/ r \in Rids(done)
      BY DEF Rids
    <3>7. Result(b, c) = Result(ws.changes, c)
      BY <3>1, <3>2, <3>3, <3>4, ResultAlike
    <3>8. \A r : On(buf'[t], r) = IF r = c.rid THEN Result(b, c) ELSE On(b, r)
      BY <2>3, <3>1, <3>2, CollapseRows
    <3> HIDE DEF e, done, b
    <3>9. \A r \in Resources :
            On(buf'[t], r) = IF r \in Rids(done \cup {c}) THEN Result(ws.changes, ChangeTo(e, r))
                                                          ELSE On(ws.changes, r)
      BY <3>2, <3>3, <3>4, <3>6, <3>7, <3>8
    <3> QED
      BY <1>3, <2>2, <3>5, <3>9 DEF CollapsedSoFar, e
  <2>6. DraftFitsPublished' /\ IssuedOnce' /\ EditsAreMade'
    BY <2>2, ClientStill DEF Editing
  <2> QED
    BY <2>4, <2>5, <2>6 DEF ClientRelies
<1>12. CASE CommitEdit(t)
  <2>1. /\ Fits(Loaded, buf[t])
        /\ Rids(buf[t]) \subseteq issued
    BY <1>3, <1>12, CollapsedAll DEF CommitEdit
  <2>2. /\ ws'.changes = buf[t] /\ End(t)
        /\ UNCHANGED <<published, issued>>
    BY <1>12 DEF CommitEdit
  <2> QED
    BY <1>1, <1>2, <2>1, <2>2, EndRelies DEF IssuedOnce, Loaded
<1>13. CASE ApplyChanges(t) \/ ReadVersion(t) \/ BumpVersion(t) \/ ClearDraft(t)
  <2>1. CASE Fail(t)
    BY <1>9, <2>1 DEF Fail
  <2>2. CASE ~Fail(t)
    <3>1. /\ pc[t] \in {"apply", "version", "bump", "clear"}
          /\ pc'[t] \in {"version", "bump", "clear", "sync"}
          /\ pc'[t] = "sync" => wsLock' = t \/ ws.id # seen[t].id
          /\ UNCHANGED <<published, ws, issued, seen, edits, left, buf>>
      BY <1>1, <1>3, <1>13, <2>2
         DEF ApplyChanges, ReadVersion, BumpVersion, ClearDraft, TypeOK
    <3>2. seen[t] = ws
      BY <1>1, <1>3, <3>1 DEF DraftStaysRead
    <3>3. DraftStaysRead' /\ CollapsedSoFar'
      BY <1>3, <3>1, <3>2 DEF DraftStaysRead, CollapsedSoFar
    <3>4. DraftFitsPublished' /\ IssuedOnce' /\ EditsAreMade'
      BY <1>3, <3>1, ClientStill DEF Editing
    <3> QED
      BY <3>3, <3>4 DEF ClientRelies
  <2> QED
    BY <2>1, <2>2
<1>14. CASE CommitPublish(t)
  <2>1. /\ pc[t] = "sync" /\ End(t) /\ UNCHANGED issued
        /\ published' = Applied(published, seen[t].changes)
        /\ ws' = IF wsLock = t THEN EmptyDraft ELSE ws
    BY <1>14 DEF CommitPublish
  <2>2. seen[t] = ws /\ wsLock = t
    BY <1>1, <1>3, <2>1 DEF DraftStaysRead
  <2>3. ws'.changes = {}
    BY <2>1, <2>2 DEF EmptyDraft
  <2>4. Fits(Loaded', ws'.changes) /\ Rids(ws'.changes) \subseteq issued'
    BY <2>3 DEF Fits, Rids
  <2>5. /\ published \in Tables
        /\ WellFormed(ws.changes) /\ OneChangeEach(ws.changes)
        /\ Applicable(published, ws.changes)
    BY <1>1, <1>3, <2>1, <2>2
       DEF DraftsAreSound, OneChangePerResource, TypeOK, IInv, RequestsRely, TablesAreHeld
  <2>6. ASSUME NEW r \in Resources, published'[r] # Absent PROVE r \in issued'
    <3>1. published[r] # Absent \/ r \in OfKind(ws.changes, "CREATE")
      BY <2>1, <2>2, <2>5, <2>6, AppliedRow
    <3>2. OfKind(ws.changes, "CREATE") \subseteq Rids(ws.changes)
      BY DEF OfKind, Rids
    <3> QED
      BY <1>1, <2>1, <3>1, <3>2 DEF IssuedOnce
  <2> QED
    BY <1>1, <1>2, <2>1, <2>4, <2>6, EndRelies
<1>15. CASE CommitDiscard(t) \/ CommitDiscardChange(t)
  <2>1. /\ End(t) /\ UNCHANGED <<published, issued>>
    BY <1>15 DEF CommitDiscard, CommitDiscardChange
  <2>2. ws'.changes \subseteq ws.changes
    <3>1. CASE CommitDiscard(t)
      BY <3>1 DEF CommitDiscard, EmptyDraft
    <3>2. CASE CommitDiscardChange(t)
      <4>1. buf[t] \subseteq ws.changes /\ ws \in DraftRow
        BY <1>1, <1>3, <3>2 DEF CommitDiscardChange, DraftStaysRead, TypeOK
      <4>2. ws' = ws \/ ws'.changes = {} \/ ws'.changes = buf[t]
        BY <3>2, <4>1 DEF CommitDiscardChange, EmptyDraft, DraftRow
      <4> QED
        BY <4>1, <4>2
    <3> QED
      BY <1>15, <3>1, <3>2
  <2>3. Fits(Loaded', ws'.changes) /\ Rids(ws'.changes) \subseteq issued'
    BY <1>1, <2>1, <2>2 DEF DraftFitsPublished, Fits, IssuedOnce, Rids, Loaded
  <2> QED
    BY <1>1, <1>2, <2>1, <2>3, EndRelies DEF IssuedOnce
<1>16. CASE Abort(t)
  BY <1>9, <1>16 DEF Abort, Fail
<1> QED
  BY <1>1, <1>2, <1>4, <1>5, <1>6, <1>7, <1>8, <1>10, <1>11, <1>12, <1>13, <1>14, <1>15,
     <1>16, ClientCases

\* What the draft shows when an edit has ended.
LEMMA CommitShows ==
  ASSUME IInv, ClientRelies, NEW t \in Clients, CommitEdit(t), NEW r \in Resources
  PROVE  Shown(Loaded, ws'.changes)[r] =
           IF r \notin Rids(edits[t])
             THEN Shown(Loaded, ws.changes)[r]
           ELSE IF ChangeTo(edits[t], r).op = "DELETE"
             THEN Absent
           ELSE IF r \in Found(Loaded, ws.changes)
             THEN Override(ViewData(Loaded, ws.changes, r), ChangeTo(edits[t], r).after)
           ELSE ChangeTo(edits[t], r).after
<1>1. ws'.changes = buf[t] /\ pc[t] = "collapse" /\ left[t] = {}
  BY DEF CommitEdit
<1>2. /\ Loaded \in Tables /\ OneChangeEach(ws.changes) /\ OneChangeEach(buf[t])
      /\ OneChangeEach(edits[t])
  BY <1>1, LoadedType DEF IInv, RequestsRely, DraftsAreSound, OneChangePerResource, TypeOK,
              ClientRelies, EditsAreMade, Editing
<1>3. CASE r \notin Rids(edits[t])
  <2>1. On(buf[t], r) = On(ws.changes, r)
    BY <1>1, <1>3, CollapsedAll
  <2> QED
    BY <1>1, <1>2, <1>3, <2>1, ShownAlike
<1>4. CASE r \in Rids(edits[t])
  <2> DEFINE c == ChangeTo(edits[t], r)
  <2>1. c \in edits[t] /\ c.rid = r
    BY <1>4, ChangeToIn
  <2> HIDE DEF c
  <2>2. Shown(Loaded, buf[t])[r] =
          IF c.op = "DELETE" THEN Absent
          ELSE IF r \in Found(Loaded, ws.changes)
            THEN Override(ViewData(Loaded, ws.changes, r), c.after)
          ELSE c.after
    BY <1>1, <2>1, CollapsedAll
  <2> QED
    BY <1>1, <1>4, <2>2 DEF c
<1> QED
  BY <1>3, <1>4

-----------------------------------------------------------------------------
(* The refinement *)

LEMMA DraftInit == IInv /\ Init => Draft!Init
<1> SUFFICES ASSUME IInv, Init PROVE Draft!Init
  OBVIOUS
<1>1. Loaded \in Tables /\ version \in Nat
  BY LoadedType DEF IInv, TypeOK
<1>2. Shown(Loaded, ws.changes) = Loaded
  BY <1>1, ShownNothing DEF Init, EmptyDraft
<1> QED
  BY <1>1, <1>2 DEF Draft!Init, Tables

\* The edits of one request put one resource or remove several.
LEMMA EditPutsOrRemoves ==
  ASSUME IInv, ClientRelies, NEW t \in Clients, CommitEdit(t)
  PROVE  Draft!Put \/ Draft!Remove
<1> DEFINE view == Shown(Loaded, ws.changes)
           later == Shown(Loaded, ws'.changes)
           e == edits[t]
<1>1. /\ pc[t] = "collapse" /\ UNCHANGED <<published, version>>
  BY DEF CommitEdit
<1>2. /\ WellFormed(e) /\ OneChangeEach(e)
      /\ \A c \in e : Made(Loaded, ws.changes, c)
      /\ \/ \A c \in e : c.op = "DELETE"
         \/ \E c \in e : e = {c}
  BY <1>1 DEF ClientRelies, EditsAreMade, Editing
<1>3. /\ view = [r \in Resources |-> view[r]]
      /\ later = [r \in Resources |-> later[r]]
  BY DEF Shown
<1>4. Shown(Loaded, ws.changes)' = later /\ Loaded' = Loaded
  BY <1>1 DEF Loaded
<1>5. Loaded \in Tables /\ WellFormed(ws.changes)
  BY LoadedType DEF IInv, RequestsRely, DraftsAreSound, TypeOK
<1>6. ASSUME \A c \in e : c.op = "DELETE" PROVE Draft!Remove
  <2>1. ASSUME NEW r \in Resources
        PROVE  later[r] = IF r \in Rids(e) THEN Absent ELSE view[r]
    <3>1. r \in Rids(e) => ChangeTo(e, r).op = "DELETE"
      BY <1>6, ChangeToIn
    <3> QED
      BY <3>1, CommitShows
  <2>2. Rids(e) \in SUBSET Resources
    BY <1>2 DEF Rids, WellFormed, Change
  <2> HIDE DEF view, later, e
  <2>3. later = [r \in Resources |-> IF r \in Rids(e) THEN Absent ELSE view[r]]
    BY <1>3, <2>1
  <2> QED
    BY <1>1, <1>4, <2>2, <2>3 DEF Draft!Remove, view
<1>7. ASSUME NEW c \in e, e = {c}, c.op # "DELETE" PROVE Draft!Put
  <2>1. /\ c \in Change /\ c.rid \in Resources /\ c.op \in {"CREATE", "UPDATE"}
        /\ c.after \in Patch /\ (c.op = "CREATE" => c.after \in Content)
    BY <1>2, <1>7 DEF WellFormed, Change
  <2>2. \A r : (r \in Rids(e) <=> r = c.rid)
    BY <1>7 DEF Rids
  <2>3. ChangeTo(e, c.rid) = c
    BY <1>2, ChangeToIs
  <2> DEFINE content == IF c.rid \in Found(Loaded, ws.changes)
                          THEN Override(ViewData(Loaded, ws.changes, c.rid), c.after)
                          ELSE c.after
  <2>4. content \in Content
    <3>1. CASE c.rid \in Found(Loaded, ws.changes)
      BY <1>5, <2>1, <3>1, ViewDataType, OverrideType, ContentIsPatch
    <3>2. CASE c.rid \notin Found(Loaded, ws.changes)
      BY <1>2, <2>1, <3>2 DEF Made
    <3> QED
      BY <3>1, <3>2
  <2>5. ASSUME NEW r \in Resources
        PROVE  later[r] = IF r = c.rid THEN content ELSE view[r]
    BY <1>7, <2>2, <2>3, CommitShows
  <2> HIDE DEF view, later, e, content
  <2>6. later = [view EXCEPT ![c.rid] = content]
    BY <1>3, <2>1, <2>5
  <2> QED
    BY <1>1, <1>4, <2>1, <2>4, <2>6 DEF Draft!Put, view
<1> QED
  BY <1>2, <1>6, <1>7

LEMMA PublishPublishes ==
  ASSUME Alone, IInv, ClientRelies, NEW t \in Clients, CommitPublish(t)
  PROVE  Draft!Publish
<1>1. /\ pc[t] = "sync" /\ version' = readVersion[t] + 1
      /\ published' = Applied(published, seen[t].changes)
      /\ ws' = IF wsLock = t THEN EmptyDraft ELSE ws
  BY DEF CommitPublish
<1>2. seen[t] = ws /\ wsLock = t
  BY <1>1 DEF ClientRelies, DraftStaysRead
<1>3. version' = version + 1
  BY <1>1 DEF IInv, RequestsRely, VersionsAreFresh
<1>4. /\ published \in Tables
      /\ WellFormed(ws.changes) /\ OneChangeEach(ws.changes)
      /\ Fits(Loaded, ws.changes) /\ ReferencesHold(published)
      /\ Applicable(published, ws.changes)
  BY <1>1, <1>2 DEF DraftsAreSound, OneChangePerResource, TypeOK, IInv, RequestsRely,
                    TablesAreHeld, ClientRelies, DraftFitsPublished, PublishedReferencesHold
<1> DEFINE view == Shown(Loaded, ws.changes)
<1>5. published' = Applied(published, ws.changes) /\ published' \in Tables
  BY <1>1, <1>2, <1>4, AppliedType
<1>6. /\ Loaded' \in Tables
      /\ \A r \in Resources : Loaded'[r] = Absent <=> published'[r] = Absent
  BY <1>5, ReadBackType DEF Loaded
<1>7. Shown(Loaded, ws.changes)' = Loaded'
  <2>1. ws'.changes = {}
    BY <1>1, <1>2 DEF EmptyDraft
  <2>2. Shown(Loaded, ws.changes)' = Shown(Loaded', {})
    BY <2>1
  <2> QED
    BY <1>6, <2>2, ShownNothing
<1>8. Loaded' = ReadBack(Applied(published, ws.changes)) /\ Loaded = ReadBack(published)
  BY <1>5 DEF Loaded
<1>9. ASSUME NEW r \in Resources
      PROVE  /\ Loaded'[r] = Absent <=> view[r] = Absent \/ \E o \in Refs(r) : view[o] = Absent
             /\ Loaded'[r] # Absent =>
                  /\ view[r] \in Content
                  /\ \A f \in Fields :
                       Loaded'[r][f] =
                         IF \/ r \in ObjectTypes /\ f \in Unread
                            \/ r \in LinkTypes /\ f \in Pointers
                                 /\ view[r][f] \notin {s \in Resources : Loaded'[s] # Absent}
                           THEN None ELSE view[r][f]
  <2>1. {s \in Resources : Loaded'[s] # Absent} = {s \in Resources : published'[s] # Absent}
    BY <1>6
  <2> QED
    BY <1>4, <1>5, <1>6, <1>8, <2>1, AppliedIsShown
<1> DEFINE closed  == Draft!Closed(view)
           present == {r \in Resources : closed[r] # Absent}
<1>10. ASSUME NEW r \in Resources
       PROVE  closed[r] = IF Loaded'[r] = Absent THEN Absent ELSE view[r]
  BY <1>9 DEF Draft!Closed
<1>11. present = {s \in Resources : Loaded'[s] # Absent}
  BY <1>9, <1>10, AbsentAssumption
<1>12. ASSUME NEW r \in Resources
       PROVE  Loaded'[r] = Draft!Kept(view)[r]
  <2>1. CASE Loaded'[r] = Absent
    BY <1>11, <2>1 DEF Draft!Kept
  <2>2. CASE Loaded'[r] # Absent
    <3>1. /\ r \in present /\ closed[r] = view[r]
          /\ Loaded'[r] \in Content /\ view[r] \in Content
      BY <1>6, <1>9, <1>10, <1>11, <2>2 DEF Tables
    <3> DEFINE lost     == IF r \in ObjectTypes THEN Unread ELSE {}
               pointers == IF r \in LinkTypes THEN Pointers ELSE {}
               kept == [f \in Fields |->
                          IF \/ f \in lost
                             \/ f \in pointers /\ view[r][f] \notin present
                            THEN None ELSE view[r][f]]
    <3>2. Draft!Kept(view)[r] = kept
      BY <3>1 DEF Draft!Kept, Content
    <3> HIDE DEF closed, present, view
    <3>3. ASSUME NEW f \in Fields PROVE Loaded'[r][f] = kept[f]
      BY <1>9, <1>11, <2>2
    <3>4. Loaded'[r] = [f \in Fields |-> Loaded'[r][f]]
      BY <3>1 DEF Content
    <3> QED
      BY <3>2, <3>3, <3>4
  <2> QED
    BY <2>1, <2>2
<1>13. Loaded' = [r \in Resources |-> Loaded'[r]]
  BY <1>6 DEF Tables
<1>14. Draft!Kept(view) = [r \in Resources |-> Draft!Kept(view)[r]]
  BY DEF Draft!Kept
<1> HIDE DEF view, closed, present
<1>15. Loaded' = Draft!Kept(view)
  BY <1>12, <1>13, <1>14
<1> QED
  BY <1>3, <1>7, <1>15 DEF Draft!Publish, view

LEMMA DiscardDiscards ==
  ASSUME IInv, ClientRelies, NEW t \in Clients, CommitDiscard(t) \/ CommitDiscardChange(t)
  PROVE  Draft!Discard
<1> DEFINE view == Shown(Loaded, ws.changes)
           later == Shown(Loaded, ws'.changes)
<1>1. /\ pc[t] \in {"discard", "rewrite"} /\ UNCHANGED <<published, version>>
      /\ seen[t] = ws
  BY DEF CommitDiscard, CommitDiscardChange, ClientRelies, DraftStaysRead
<1>2. /\ Loaded \in Tables /\ OneChangeEach(ws.changes) /\ ws \in DraftRow
  BY LoadedType DEF IInv, RequestsRely, DraftsAreSound, OneChangePerResource, TypeOK
<1>3. /\ view = [r \in Resources |-> view[r]]
      /\ later = [r \in Resources |-> later[r]]
  BY DEF Shown
<1>4. Shown(Loaded, ws.changes)' = later /\ Loaded' = Loaded
  BY <1>1 DEF Loaded
<1>5. \E gone \in SUBSET ws.changes : ws'.changes = ws.changes \ gone
  <2>1. CASE CommitDiscard(t)
    <3>1. ws'.changes = {}
      BY <1>1, <2>1 DEF CommitDiscard, EmptyDraft
    <3> QED
      BY <3>1
  <2>2. CASE CommitDiscardChange(t)
    <3>1. buf[t] = ws.changes \ edits[t] /\ edits[t] \subseteq ws.changes
      BY <2>2 DEF CommitDiscardChange, ClientRelies, DraftStaysRead
    <3>2. ws'.changes = buf[t]
      BY <1>1, <1>2, <2>2 DEF CommitDiscardChange, EmptyDraft, DraftRow
    <3> QED
      BY <3>1, <3>2
  <2> QED
    BY <2>1, <2>2
<1>6. PICK gone \in SUBSET ws.changes : ws'.changes = ws.changes \ gone
  BY <1>5
<1> DEFINE back == {r \in Resources : r \in Rids(gone)}
<1>7. ASSUME NEW r \in Resources
      PROVE  later[r] = IF r \in back THEN Loaded[r] ELSE view[r]
  <2>1. CASE r \in back
    <3>1. r \notin Rids(ws'.changes)
      BY <1>2, <1>6, <2>1 DEF Rids, OneChangeEach
    <3> QED
      BY <1>2, <2>1, <3>1, ShownUntouched
  <2>2. CASE r \notin back
    <3>1. On(ws'.changes, r) = On(ws.changes, r)
      BY <1>6, <2>2 DEF On, Rids
    <3>2. OneChangeEach(ws'.changes)
      BY <1>2, <1>6 DEF OneChangeEach
    <3> QED
      BY <1>2, <2>2, <3>1, <3>2, ShownAlike
  <2> QED
    BY <2>1, <2>2
<1>8. back \in SUBSET Resources
  OBVIOUS
<1> HIDE DEF view, later, back
<1>9. later = [r \in Resources |-> IF r \in back THEN Loaded[r] ELSE view[r]]
  BY <1>3, <1>7
<1> QED
  BY <1>1, <1>4, <1>8, <1>9 DEF Draft!Discard, view

LEMMA DraftStep ==
  ASSUME Alone
  PROVE  IInv /\ ClientRelies /\ [Next]_vars => [Draft!Next]_(Draft!vars)
<1> SUFFICES ASSUME IInv, ClientRelies, [Next]_vars PROVE [Draft!Next]_(Draft!vars)
  OBVIOUS
<1>1. TypeOK /\ DraftsAreSound /\ DraftFitsPublished /\ IssuedOnce
  BY DEF IInv, RequestsRely, ClientRelies
<1>2. ASSUME UNCHANGED <<published, version, ws>> PROVE UNCHANGED Draft!vars
  BY <1>2 DEF Draft!vars, Loaded
<1>3. CASE UNCHANGED vars
  BY <1>2, <1>3 DEF vars
<1>4. PICK t : Clients = {t}
  BY DEF Alone
<1>5. t \in Clients
  BY <1>4
<1>6. ASSUME NEW changes, BeginEdit(t, changes) PROVE UNCHANGED <<published, version, ws>>
  BY <1>6 DEF BeginEdit
<1>7. CASE BeginPublish(t) \/ BeginDiscard(t) \/ BeginDiscardChange(t)
  BY <1>2, <1>7 DEF BeginPublish, BeginDiscard, BeginDiscardChange
<1>8. CASE LockDraft(t) \/ InsertDraft(t) \/ CollapseNext(t) \/ Abort(t)
  BY <1>2, <1>8 DEF LockDraft, InsertDraft, CollapseNext, Abort, Fail
<1>9. CASE ApplyChanges(t) \/ ReadVersion(t) \/ BumpVersion(t) \/ ClearDraft(t)
  BY <1>2, <1>9 DEF ApplyChanges, ReadVersion, BumpVersion, ClearDraft, Fail
<1>10. CASE CommitEdit(t)
  BY <1>5, <1>10, EditPutsOrRemoves DEF Draft!Next
<1>11. CASE CommitPublish(t)
  BY <1>5, <1>11, PublishPublishes DEF Draft!Next
<1>12. CASE CommitDiscard(t) \/ CommitDiscardChange(t)
  BY <1>5, <1>12, DiscardDiscards DEF Draft!Next
<1> QED
  BY <1>1, <1>2, <1>3, <1>4, <1>6, <1>7, <1>8, <1>9, <1>10, <1>11, <1>12, ClientCases

-----------------------------------------------------------------------------
(* The theorems *)

\* What the only request relies on from its unlocked read to its end: the draft is
\* still the one it read, its edits are such as the draft allows, and what
\* add_changes has collapsed so far is the draft with some of them made.
THEOREM OneClientMayRely == ASSUME Alone PROVE Spec => []ClientRelies
<1>1. IInv /\ ClientRelies /\ [Next]_vars => ClientRelies'
  BY ClientStep
<1> QED
  BY <1>1, ClientInit, Invariance, PTL DEF Spec

\* The draft creates what is not published, updates and deletes what is, and its
\* before images are what was read of the published rows, in which an object type
\* has no intended actions, however many edits add_change has collapsed.
THEOREM DraftFits == ASSUME Alone PROVE Spec => []DraftFitsPublished
BY OneClientMayRely, PTL DEF ClientRelies

\* After an edit get_merged_view shows what it showed before, with the edit made
\* to it.
THEOREM EditsShow == ASSUME Alone PROVE Spec => EditShowsThrough
<1> DEFINE Shows ==
      \A t \in Clients :
        CommitEdit(t) =>
          Shown(Loaded, ws'.changes) =
            [r \in Resources |->
               IF r \notin Rids(edits[t])
                 THEN Shown(Loaded, ws.changes)[r]
               ELSE IF ChangeTo(edits[t], r).op = "DELETE"
                 THEN Absent
               ELSE IF r \in Found(Loaded, ws.changes)
                 THEN Override(ViewData(Loaded, ws.changes, r),
                               ChangeTo(edits[t], r).after)
               ELSE ChangeTo(edits[t], r).after]
<1>1. ASSUME IInv, ClientRelies, NEW t \in Clients, CommitEdit(t)
      PROVE  Shown(Loaded, ws'.changes) =
               [r \in Resources |->
                  IF r \notin Rids(edits[t])
                    THEN Shown(Loaded, ws.changes)[r]
                  ELSE IF ChangeTo(edits[t], r).op = "DELETE"
                    THEN Absent
                  ELSE IF r \in Found(Loaded, ws.changes)
                    THEN Override(ViewData(Loaded, ws.changes, r),
                                  ChangeTo(edits[t], r).after)
                  ELSE ChangeTo(edits[t], r).after]
  <2>1. Shown(Loaded, ws'.changes)
          = [r \in Resources |-> Shown(Loaded, ws'.changes)[r]]
    BY DEF Shown
  <2> QED
    BY <1>1, <2>1, CommitShows
<1>2. IInv /\ ClientRelies /\ [Next]_vars => [Shows]_vars
  BY <1>1
<1> QED
  BY <1>2, Invariance, OneClientMayRely, PTL DEF Spec, EditShowsThrough

\* A publish that clears the draft has recorded all of it: without a second
\* client nothing comes between its unlocked read and its deletion of the row.
THEOREM PublishRecordsAll == ASSUME Alone PROVE Spec => PublishRecordsWhatItClears
<1> DEFINE All == Len(records') > Len(records) /\ ws' # ws
                    => records'[Len(records')].changes = ws.changes
<1>1. ASSUME IInv, ClientRelies, [Next]_vars PROVE [All]_vars
  <2>1. CASE UNCHANGED vars
    BY <2>1 DEF vars
  <2>2. ASSUME NEW t \in Clients, CommitPublish(t) PROVE All
    <3> DEFINE new == [version |-> readVersion[t] + 1, changes |-> seen[t].changes]
               S == [version: Nat, changes: SUBSET Change]
    <3>1. seen[t] = ws
      BY <1>1, <2>2 DEF CommitPublish, ClientRelies, DraftStaysRead
    <3>2. records' = Append(records, new) /\ new.changes = ws.changes
      BY <2>2, <3>1 DEF CommitPublish
    <3>3. records \in Seq(S)
      BY <1>1 DEF IInv, TypeOK
    <3> HIDE DEF new, S
    <3>4. records'[Len(records')] = new
      BY <3>2, <3>3
    <3> QED
      BY <3>2, <3>4
  <2>3. ASSUME NEW t \in Clients, End(t), UNCHANGED records PROVE All
    BY <1>1, <2>3 DEF IInv, TypeOK
  <2>4. ASSUME NEW t \in Clients,
               CommitEdit(t) \/ CommitDiscard(t) \/ CommitDiscardChange(t) \/ Abort(t)
        PROVE  All
    BY <2>3, <2>4 DEF CommitEdit, CommitDiscard, CommitDiscardChange, Abort, Fail
  <2>5. ASSUME NEW t \in Clients,
               \/ \E changes : BeginEdit(t, changes)
               \/ BeginPublish(t) \/ BeginDiscard(t) \/ BeginDiscardChange(t)
               \/ LockDraft(t) \/ InsertDraft(t) \/ CollapseNext(t)
               \/ ApplyChanges(t) \/ ReadVersion(t) \/ BumpVersion(t) \/ ClearDraft(t)
        PROVE  All
    <3>1. UNCHANGED ws
      BY <2>5 DEF BeginEdit, BeginPublish, BeginDiscard, BeginDiscardChange, LockDraft,
                  InsertDraft, CollapseNext, ApplyChanges, ReadVersion, BumpVersion,
                  ClearDraft, Fail
    <3> QED
      BY <3>1
  <2>6. TypeOK /\ DraftsAreSound
    BY <1>1 DEF IInv, RequestsRely
  <2> QED
    BY <1>1, <2>1, <2>2, <2>4, <2>5, <2>6, StepCases
<1>2. (IInv /\ ClientRelies /\ [Next]_vars) => [All]_vars
  BY <1>1
<1> QED
  BY <1>2, Invariance, OneClientMayRely, PTL DEF Spec, PublishRecordsWhatItClears

\* Editing changes only what is shown, discarding shows what is published again
\* and publishing shows what was shown before, but for intended actions, which are
\* never read back, and for pointers to what is deleted, which are emptied: the
\* draft, the collapsing, the merged view, the cascades and publish together
\* implement OntologyDraft.
THEOREM OneClientImplementsDraft == ASSUME Alone PROVE Spec => ImplementsDraft
<1>1. Init => Draft!Init
  BY InitIInv, DraftInit
<1>2. IInv /\ ClientRelies /\ [Next]_vars => [Draft!Next]_(Draft!vars)
  BY DraftStep
<1> QED
  BY <1>1, <1>2, Invariance, OneClientMayRely, PTL DEF Spec, ImplementsDraft, Draft!Spec
=============================================================================
