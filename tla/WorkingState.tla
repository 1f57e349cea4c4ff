---------------------------- MODULE WorkingState ----------------------------
(***************************************************************************)
(* The change management of the server: the one draft ("working state") of *)
(* the ontology, and the HTTP requests that edit, publish and discard it.  *)
(*                                                                         *)
(* A request runs in one database transaction (app/database.py) under READ *)
(* COMMITTED.  What it has read stays in its own variables; what it writes *)
(* becomes visible to the others in its last step; a row it has written or *)
(* selected FOR UPDATE makes the others wait until it ends.  Edits lock    *)
(* the draft's row before they read it again; publish, discard and the     *)
(* discarding of one change work from the unlocked read they began with.   *)
(* Any request may fail before its last step and be rolled back.           *)
(***************************************************************************)
EXTENDS ChangeLog

CONSTANTS
  Clients,      \* those who may have one request in progress each
  DraftIds,     \* identifiers of rows of working_states
  NoDraft,      \* no row
  NoClient,     \* nobody
  Seed,         \* resource -> content, published as version 1 beforehand
  MaxVersion    \* bound: no publish begins at this version

ASSUME ClientsAssumption == NoClient \notin Clients /\ NoDraft \notin DraftIds
ASSUME MaxVersionAssumption == MaxVersion \in Nat
ASSUME SeedAssumption ==
  /\ DOMAIN Seed \subseteq Resources
  /\ Seed \in [DOMAIN Seed -> Content]
  /\ \A r \in DOMAIN Seed : Refs(r) \subseteq DOMAIN Seed
  /\ \A l \in LinkTypes \cap DOMAIN Seed, f \in Pointers :
       Seed[l][f] # None => Seed[l][f] \in DOMAIN Seed

VARIABLES
  published,    \* the tables object_types, properties and link_types
  version,      \* ontologies.version
  records,      \* change_records, in the order they were committed
  ws,           \* the row of working_states
  issued,       \* identifiers ever given to a resource
  wsLock,       \* the request that holds the row of working_states
  ontLock,      \* the request that has updated the row of ontologies
  pc, seen, edits, left, buf, readVersion   \* each request's own state

requestVars == <<pc, seen, edits, left, buf, readVersion>>
vars == <<published, version, records, ws, issued, wsLock, ontLock,
          pc, seen, edits, left, buf, readVersion>>

EmptyDraft == [id |-> NoDraft, changes |-> {}]
HasDraft   == ws.id # NoDraft

\* The published rows as every request reads them.
Loaded == ReadBack(published)

-----------------------------------------------------------------------------
(* Beginning and ending a request *)

Idle(t) == pc[t] = "idle"

\* The request takes its next step at "where", having read the draft as it is.
Begin(t, where) ==
  /\ Idle(t)
  /\ pc' = [pc EXCEPT ![t] = where]
  /\ seen' = [seen EXCEPT ![t] = ws]
  /\ UNCHANGED <<published, version, records, ws, wsLock, ontLock, readVersion>>

Goto(t, where) == pc' = [pc EXCEPT ![t] = where]

\* Mutant of End: the row of ontologies stays locked.
EndHoldingOntology(t) ==
  /\ Goto(t, "idle")
  /\ seen' = [seen EXCEPT ![t] = EmptyDraft]
  /\ edits' = [edits EXCEPT ![t] = {}]
  /\ left' = [left EXCEPT ![t] = {}]
  /\ buf' = [buf EXCEPT ![t] = {}]
  /\ readVersion' = [readVersion EXCEPT ![t] = 0]
  /\ wsLock' = IF wsLock = t THEN NoClient ELSE wsLock
  /\ UNCHANGED ontLock

\* The request's session is closed: its locks are released.
End(t) ==
  /\ Goto(t, "idle")
  /\ seen' = [seen EXCEPT ![t] = EmptyDraft]
  /\ edits' = [edits EXCEPT ![t] = {}]
  /\ left' = [left EXCEPT ![t] = {}]
  /\ buf' = [buf EXCEPT ![t] = {}]
  /\ readVersion' = [readVersion EXCEPT ![t] = 0]
  /\ wsLock' = IF wsLock = t THEN NoClient ELSE wsLock
  /\ ontLock' = IF ontLock = t THEN NoClient ELSE ontLock

\* An error: the transaction is rolled back.
Fail(t) ==
  /\ End(t)
  /\ UNCHANGED <<published, version, records, ws, issued>>

\* A validation, a constraint, a deadlock or a lost connection fails it.
Abort(t) == ~Idle(t) /\ Fail(t)

-----------------------------------------------------------------------------
(* Editing *)

\* The request will make these changes to what it has just read.
BeginEdit(t, changes) ==
  /\ Begin(t, "lock")
  /\ edits' = [edits EXCEPT ![t] = changes]
  /\ left' = [left EXCEPT ![t] = changes]
  /\ UNCHANGED buf

\* POST of an object type, a property or a link type.  The backing object type
\* and the side links are looked for in the view only if the link type is
\* many-to-many, so that they may name anything but what is not there yet.
CreateResource(t) ==
  \E r \in Resources \ issued, content \in Content :
    /\ Refs(r) \subseteq Visible(Loaded, ws.changes)
    /\ \A f \in Fields \ FieldsOf(r) : content[f] = None
    /\ \A f \in Pointers : content[f] \notin Resources \ issued
    /\ BeginEdit(t, {Creation(r, content)})
    /\ issued' = issued \cup {r}

\* PUT of a resource: what a link type points at is given at its creation.
UpdateResource(t) ==
  \E r \in Found(Loaded, ws.changes), patch \in Patch \ {NoPatch} :
    /\ DOMAIN patch \subseteq FieldsOf(r) \ Pointers
    /\ BeginEdit(t, {Update(r, ViewData(Loaded, ws.changes, r), patch)})
    /\ UNCHANGED issued

\* The visible link types that point at r.
Referring(r) ==
  {l \in (LinkTypes \cap Visible(Loaded, ws.changes)) \ {r} :
     \E f \in Pointers : ViewData(Loaded, ws.changes, l)[f] = r}

\* DELETE of a property, or of a link type that is not another's side link.
DeleteResource(t) ==
  \E r \in Found(Loaded, ws.changes) \ ObjectTypes :
    /\ r \in LinkTypes => Referring(r) = {}
    /\ BeginEdit(t, {Deletion(r, ViewData(Loaded, ws.changes, r))})
    /\ UNCHANGED issued

\* DELETE of an object type, with everything that hangs on it.
DeleteObjectType(t) ==
  \E o \in Found(Loaded, ws.changes) \cap ObjectTypes :
    /\ BeginEdit(t, ObjectTypeDeletion(Loaded, ws.changes, o))
    /\ UNCHANGED issued

\* Mutant of LockDraft: it goes on with the draft that the guards have read.
LockStaleDraft(t) ==
  /\ pc[t] = "lock"
  /\ \/ /\ HasDraft
        /\ wsLock = NoClient
        /\ wsLock' = t
        /\ buf' = [buf EXCEPT ![t] = seen[t].changes]
        /\ Goto(t, "collapse")
     \/ /\ ~HasDraft
        /\ Goto(t, "insert")
        /\ UNCHANGED <<wsLock, buf>>
  /\ UNCHANGED <<published, version, records, ws, issued, ontLock,
                 seen, edits, left, readVersion>>

\* get_or_create's SELECT ... FOR UPDATE: waits for the row, if there is one.
LockDraft(t) ==
  /\ pc[t] = "lock"
  /\ \/ /\ HasDraft
        /\ wsLock = NoClient
        /\ wsLock' = t
        /\ buf' = [buf EXCEPT ![t] = ws.changes]
        /\ Goto(t, "collapse")
     \/ /\ ~HasDraft
        /\ Goto(t, "insert")
        /\ UNCHANGED <<wsLock, buf>>
  /\ UNCHANGED <<published, version, records, ws, issued, ontLock,
                 seen, edits, left, readVersion>>

\* get_or_create's INSERT: waits for another one that is not yet committed;
\* the unique key of (user, ontology) refuses a second row.
InsertDraft(t) ==
  /\ pc[t] = "insert"
  /\ wsLock = NoClient
  /\ \/ /\ HasDraft
        /\ Fail(t)
     \/ /\ ~HasDraft
        /\ wsLock' = t
        /\ Goto(t, "collapse")
        /\ UNCHANGED <<published, version, records, ws, issued, ontLock,
                       seen, edits, left, buf, readVersion>>

\* One turn of the loop of add_changes.
CollapseNext(t) ==
  /\ pc[t] = "collapse"
  /\ left[t] # {}
  /\ LET c == CHOOSE c \in left[t] : TRUE
     IN  /\ buf' = [buf EXCEPT ![t] = Collapse(@, c)]
         /\ left' = [left EXCEPT ![t] = @ \ {c}]
  /\ UNCHANGED <<published, version, records, ws, issued, wsLock, ontLock,
                 pc, seen, edits, readVersion>>

\* update_changes and the commit; a row inserted by this request gets an
\* identifier that nobody refers to.
CommitEdit(t) ==
  /\ pc[t] = "collapse"
  /\ left[t] = {}
  /\ \E id \in IF HasDraft THEN {ws.id}
               ELSE DraftIds \ {seen[u].id : u \in Clients} :
       ws' = [id |-> id, changes |-> buf[t]]
  /\ End(t)
  /\ UNCHANGED <<published, version, records, issued>>

-----------------------------------------------------------------------------
(* Publishing *)

BeginPublish(t) ==
  /\ ws.changes # {}
  /\ version < MaxVersion
  /\ Begin(t, "apply")
  /\ UNCHANGED <<issued, edits, left, buf>>

\* The request keeps the rows of the tables that it has written.
HoldsRows(t) == pc[t] \in {"version", "bump", "clear", "sync"}

\* Two drafts write and refer to different rows.
Apart(changes, others) ==
  Footprint(published, changes) \cap Footprint(published, others) = {}

\* Mutant of ApplyChanges: it does not wait.
ApplyAtOnce(t) ==
  /\ pc[t] = "apply"
  /\ IF Applicable(published, seen[t].changes)
       THEN /\ Goto(t, "version")
            /\ UNCHANGED <<published, version, records, ws, issued, wsLock, ontLock,
                           seen, edits, left, buf, readVersion>>
       ELSE Fail(t)

\* The INSERTs, UPDATEs and DELETEs on the tables, which wait for those of
\* another publish.
ApplyChanges(t) ==
  /\ pc[t] = "apply"
  /\ \A u \in Clients \ {t} :
       HoldsRows(u) => Apart(seen[u].changes, seen[t].changes)
  /\ \/ /\ Applicable(published, seen[t].changes)
        /\ Goto(t, "version")
        /\ UNCHANGED <<published, version, records, ws, issued, wsLock, ontLock,
                       seen, edits, left, buf, readVersion>>
     \/ /\ ~Applicable(published, seen[t].changes)
        /\ Fail(t)

\* increment_version reads the version ...
ReadVersion(t) ==
  /\ pc[t] = "version"
  /\ readVersion' = [readVersion EXCEPT ![t] = version]
  /\ Goto(t, "bump")
  /\ UNCHANGED <<published, version, records, ws, issued, wsLock, ontLock,
                 seen, edits, left, buf>>

\* Mutant of BumpVersion: two records may have the same version.
BumpAnyVersion(t) ==
  /\ pc[t] = "bump"
  /\ ontLock = NoClient
  /\ ontLock' = t
  /\ Goto(t, "clear")
  /\ UNCHANGED <<published, version, records, ws, issued, wsLock,
                 seen, edits, left, buf, readVersion>>

\* ... and writes the next one back, waiting for another publish that did;
\* then the record is inserted, unless there is one of that version.
BumpVersion(t) ==
  /\ pc[t] = "bump"
  /\ ontLock = NoClient
  /\ \/ /\ \E i \in DOMAIN records : records[i].version = readVersion[t] + 1
        /\ Fail(t)
     \/ /\ \A i \in DOMAIN records : records[i].version # readVersion[t] + 1
        /\ ontLock' = t
        /\ Goto(t, "clear")
        /\ UNCHANGED <<published, version, records, ws, issued, wsLock,
                       seen, edits, left, buf, readVersion>>

\* WorkingStateStorage.delete: by the identifier read at the beginning, and
\* content with finding no such row.
ClearDraft(t) ==
  /\ pc[t] = "clear"
  /\ \/ /\ ws.id = seen[t].id
        /\ wsLock = NoClient
        /\ wsLock' = t
     \/ /\ ws.id # seen[t].id
        /\ UNCHANGED wsLock
  /\ Goto(t, "sync")
  /\ UNCHANGED <<published, version, records, ws, issued, ontLock,
                 seen, edits, left, buf, readVersion>>

\* Mutant of CommitPublish: the draft is read again to be recorded.
CommitPublishRereading(t) ==
  /\ pc[t] = "sync"
  /\ published' = Applied(published, seen[t].changes)
  /\ version' = readVersion[t] + 1
  /\ records' = Append(records, [version |-> readVersion[t] + 1, changes |-> ws.changes])
  /\ ws' = IF wsLock = t THEN EmptyDraft ELSE ws
  /\ End(t)
  /\ UNCHANGED issued

CommitPublish(t) ==
  /\ pc[t] = "sync"
  /\ published' = Applied(published, seen[t].changes)
  /\ version' = readVersion[t] + 1
  /\ records' = Append(records, [version |-> readVersion[t] + 1,
                                 changes |-> seen[t].changes])
  /\ ws' = IF wsLock = t THEN EmptyDraft ELSE ws
  /\ End(t)
  /\ UNCHANGED issued

-----------------------------------------------------------------------------
(* Discarding *)

BeginDiscard(t) ==
  /\ HasDraft
  /\ Begin(t, "discard")
  /\ UNCHANGED <<issued, edits, left, buf>>

\* Mutants of CommitDiscard: it does not wait for the row; it deletes whatever
\* row the user has by now.
CommitDiscardAtOnce(t) ==
  /\ pc[t] = "discard"
  /\ ws' = IF ws.id = seen[t].id THEN EmptyDraft ELSE ws
  /\ End(t)
  /\ UNCHANGED <<published, version, records, issued>>

CommitDiscardAny(t) ==
  /\ pc[t] = "discard"
  /\ wsLock = NoClient
  /\ ws' = EmptyDraft
  /\ End(t)
  /\ UNCHANGED <<published, version, records, issued>>

\* Deletes the row read at the beginning, if it is still there.
CommitDiscard(t) ==
  /\ pc[t] = "discard"
  /\ ws.id = seen[t].id => wsLock = NoClient
  /\ ws' = IF ws.id = seen[t].id THEN EmptyDraft ELSE ws
  /\ End(t)
  /\ UNCHANGED <<published, version, records, issued>>

\* discard_single_change: what remains is computed from the unlocked read.
BeginDiscardChange(t) ==
  \E c \in ws.changes :
    /\ Begin(t, "rewrite")
    /\ LET gone == DiscardedWith(Loaded, ws.changes, c)
       IN  /\ edits' = [edits EXCEPT ![t] = gone]
           /\ buf' = [buf EXCEPT ![t] = ws.changes \ gone]
    /\ UNCHANGED <<issued, left>>

\* It replaces the changes of the row read at the beginning, or deletes the
\* row when none remains; without that row it has no effect (and fails, if
\* there was something to write).
CommitDiscardChange(t) ==
  /\ pc[t] = "rewrite"
  /\ ws.id = seen[t].id => wsLock = NoClient
  /\ ws' = IF ws.id # seen[t].id THEN ws
           ELSE IF buf[t] = {} THEN EmptyDraft
           ELSE [ws EXCEPT !.changes = buf[t]]
  /\ End(t)
  /\ UNCHANGED <<published, version, records, issued>>

-----------------------------------------------------------------------------
Init ==
  /\ published = [r \in Resources |-> IF r \in DOMAIN Seed THEN Seed[r] ELSE Absent]
  /\ records = IF DOMAIN Seed = {} THEN << >>
               ELSE << [version |-> 1,
                        changes |-> {Creation(r, Seed[r]) : r \in DOMAIN Seed}] >>
  /\ version = Len(records)
  /\ ws = EmptyDraft
  /\ issued = DOMAIN Seed
  /\ wsLock = NoClient
  /\ ontLock = NoClient
  /\ pc = [t \in Clients |-> "idle"]
  /\ seen = [t \in Clients |-> EmptyDraft]
  /\ edits = [t \in Clients |-> {}]
  /\ left = [t \in Clients |-> {}]
  /\ buf = [t \in Clients |-> {}]
  /\ readVersion = [t \in Clients |-> 0]

\* A step of a request that has begun.
Advance(t) ==
  \/ LockDraft(t) \/ InsertDraft(t) \/ CollapseNext(t) \/ CommitEdit(t)
  \/ ApplyChanges(t) \/ ReadVersion(t) \/ BumpVersion(t) \/ ClearDraft(t)
  \/ CommitPublish(t)
  \/ CommitDiscard(t) \/ CommitDiscardChange(t)

Next ==
  \E t \in Clients :
    \/ CreateResource(t) \/ UpdateResource(t)
    \/ DeleteResource(t) \/ DeleteObjectType(t)
    \/ BeginPublish(t) \/ BeginDiscard(t) \/ BeginDiscardChange(t)
    \/ Advance(t)
    \/ Abort(t)

Spec == Init /\ [][Next]_vars

\* The server keeps running what it has begun, and the database hands a row to
\* those who wait for it in turn.
FairSpec == Spec /\ \A t \in Clients : SF_vars(Advance(t))
-----------------------------------------------------------------------------
(* Properties of every run *)

DraftRow == [id: DraftIds \cup {NoDraft}, changes: SUBSET Change]
Steps == {"idle", "lock", "insert", "collapse", "apply", "version", "bump",
          "clear", "sync", "discard", "rewrite"}

\* Every variable has its type.
TypeOK ==
  /\ published \in Tables
  /\ version \in Nat
  /\ records \in Seq([version: Nat, changes: SUBSET Change])
  /\ ws \in DraftRow
  /\ issued \subseteq Resources
  /\ wsLock \in Clients \cup {NoClient}
  /\ ontLock \in Clients \cup {NoClient}
  /\ pc \in [Clients -> Steps]
  /\ seen \in [Clients -> DraftRow]
  /\ edits \in [Clients -> SUBSET Change]
  /\ left \in [Clients -> SUBSET Change]
  /\ buf \in [Clients -> SUBSET Change]
  /\ readVersion \in [Clients -> Nat]

\* However requests interleave, the draft and every record of the history hold
\* at most one change to a resource: this is what add_change's collapsing is
\* for, and what get_merged_view's index by rid and publish's single pass
\* silently rely on.
OneChangePerResource ==
  /\ OneChangeEach(ws.changes)
  /\ \A i \in DOMAIN records : OneChangeEach(records[i].changes)

\* Versions and records stay in step, with no gap and no duplicate, although
\* increment_version reads the version without a lock.
HistoryNumbered ==
  /\ version = Len(records)
  /\ \A i \in DOMAIN records : records[i].version = i

\* No published property is without its object type and no published link
\* type without its ends, whatever was edited while a publish was under way.
PublishedReferencesHold == ReferencesHold(published)

\* Replaying the records in order rebuilds the published tables: the history
\* is complete, even when publishes overlap.
HistoryReplays ==
  LET replay[n \in 0..Len(records)] ==
        IF n = 0 THEN [r \in Resources |-> Absent]
        ELSE Applied(replay[n - 1], records[n].changes)
  IN  published = replay[Len(records)]

\* While a request holds the draft's row, nobody else changes the draft.
HeldDraftIsStill ==
  [][wsLock # NoClient /\ wsLock' = wsLock => UNCHANGED ws]_vars

\* An edit keeps the changes to resources it does not touch: two edits that
\* overlap both end up in the draft.
EditsAccumulate ==
  [][\A t \in Clients :
       CommitEdit(t) =>
         \A c \in ws.changes : c.rid \notin Rids(edits[t]) => c \in ws'.changes]_vars

\* A publish or discard that read one draft leaves a later draft alone, though
\* it deletes or rewrites the draft without having locked it when it read it.
LaterDraftIsSpared ==
  [][\A t \in Clients :
       /\ pc[t] \in {"sync", "discard", "rewrite"}
       /\ pc'[t] = "idle"
       /\ HasDraft
       /\ ws.id # seen[t].id
       => UNCHANGED ws]_vars

\* Every request ends: the rows of the tables, the row of ontologies and the
\* row of working_states are never waited for in a circle.
RequestsEnd == \A t \in Clients : pc[t] # "idle" ~> pc[t] = "idle"

-----------------------------------------------------------------------------
(* What the requests rely on, and together an inductive invariant *)

\* Every set of changes in hand could be a draft, and no draft has no changes.
DraftsAreSound ==
  /\ WellFormed(ws.changes)
  /\ OneChangePerResource
  /\ ~HasDraft => ws.changes = {}
  /\ \A t \in Clients : /\ WellFormed(seen[t].changes) /\ OneChangeEach(seen[t].changes)
                        /\ WellFormed(buf[t]) /\ OneChangeEach(buf[t])
                        /\ WellFormed(left[t])
                        /\ pc[t] = "rewrite" => seen[t].id # NoDraft

\* Who holds a lock, and what it holds it for.
LocksAreHeld ==
  \A t \in Clients :
    /\ pc[t] = "collapse" => wsLock = t
    /\ wsLock = t => pc[t] \in {"collapse", "sync"}
    /\ wsLock = t /\ pc[t] = "sync" => ws.id = seen[t].id
    /\ ontLock = t <=> pc[t] \in {"clear", "sync"}

\* The version a publish has written is the next one until it commits.
VersionsAreFresh ==
  \A t \in Clients :
    /\ pc[t] = "bump" => readVersion[t] <= version
    /\ pc[t] \in {"clear", "sync"} => readVersion[t] = version

\* What a publish has done to the tables stays possible until it commits.
TablesAreHeld ==
  \A t \in Clients :
    HoldsRows(t) =>
      /\ Applicable(published, seen[t].changes)
      /\ \A u \in Clients \ {t} :
           HoldsRows(u) => Apart(seen[u].changes, seen[t].changes)

\* An edit under way has lost no change that it does not itself touch.
EditsAreAdded ==
  \A t \in Clients :
    /\ pc[t] \in {"lock", "insert", "collapse"} => left[t] \subseteq edits[t]
    /\ pc[t] = "collapse" =>
         \A c \in ws.changes : c.rid \notin Rids(edits[t]) => c \in buf[t]

RequestsRely ==
  /\ DraftsAreSound
  /\ LocksAreHeld
  /\ VersionsAreFresh
  /\ TablesAreHeld
  /\ EditsAreAdded

IInv == TypeOK /\ HistoryNumbered /\ PublishedReferencesHold /\ RequestsRely

-----------------------------------------------------------------------------
(* Properties of one client, which overlapping requests break *)

\* A draft agrees with the published rows it is laid over, as they are read: it
\* creates what is not there, updates and deletes what is, and the before image
\* it keeps is what was read of the row (the earliest state, not that of the last
\* edit).  Of an object type's intended actions nothing is read: the image says
\* that there are none, whatever the row holds.
DraftFitsPublished == Fits(Loaded, ws.changes)

\* An edit shows through: once it is done the draft shows what it showed before,
\* with the edit made to it, however many edits of the same resources have
\* been collapsed into one change.
EditShowsThrough ==
  [][\A t \in Clients :
       CommitEdit(t) =>
         Shown(Loaded, ws'.changes) =
           [r \in Resources |->
              IF r \notin Rids(edits[t])
                THEN Shown(Loaded, ws.changes)[r]
              ELSE IF ChangeTo(edits[t], r).op = "DELETE"
                THEN Absent
              ELSE IF r \in Found(Loaded, ws.changes)
                THEN Override(ViewData(Loaded, ws.changes, r),
                              ChangeTo(edits[t], r).after)
              ELSE ChangeTo(edits[t], r).after]]_vars

\* A publish goes on showing the intended actions that object types were shown
\* with.
IntendedActionsStay ==
  [][\A t \in Clients :
       CommitPublish(t) =>
         \A o \in ObjectTypes \cap Visible(Loaded', ws'.changes),
            f \in Unread :
           Shown(Loaded', ws'.changes)[o][f] = Shown(Loaded, ws.changes)[o][f]]_vars

\* A publish that clears the draft has recorded all of it.
PublishRecordsWhatItClears ==
  [][Len(records') > Len(records) /\ ws' # ws
       => records'[Len(records')].changes = ws.changes]_vars

\* The abstract ontology: what is published is what is read of the tables, what
\* is shown is the merged view.
Draft == INSTANCE OntologyDraft
  WITH Contents <- Content,
       RefsOf <- [r \in Resources |-> Refs(r)],
       LostOf <- [r \in Resources |-> IF r \in ObjectTypes THEN Unread ELSE {}],
       PointersOf <- [r \in Resources |-> IF r \in LinkTypes THEN Pointers ELSE {}],
       table <- Loaded,
       shown <- Shown(Loaded, ws.changes)

\* With one client, the draft, the collapsing of changes, the merged view and
\* publish together implement OntologyDraft: publishing publishes what is shown,
\* but for intended actions and for what pointed at something deleted.
ImplementsDraft == Draft!Spec

-----------------------------------------------------------------------------
(* What the requests of one client rely on, and together with IInv an         *)
(* inductive invariant when there is no other                                 *)

Alone == \E c : Clients = {c}

Editing(t) == pc[t] \in {"lock", "insert", "collapse"}

\* The draft is as the request read it.
DraftStaysRead ==
  \A t \in Clients :
    /\ ~Idle(t) => seen[t] = ws
    /\ pc[t] = "insert" => ~HasDraft
    /\ pc[t] = "sync" => wsLock = t
    /\ pc[t] = "rewrite" => edits[t] \subseteq ws.changes /\ buf[t] = ws.changes \ edits[t]
    /\ pc[t] \in {"idle", "lock", "insert"} => buf[t] = {}
    /\ pc[t] \in {"lock", "insert"} => left[t] = edits[t]

\* No identifier is given to two resources.
IssuedOnce ==
  /\ \A r \in Resources : published[r] # Absent => r \in issued
  /\ Rids(ws.changes) \subseteq issued
  /\ \A t \in Clients : Editing(t) => Rids(edits[t]) \subseteq issued

\* An edit under way is one that the draft allows: of one resource, or of
\* several that it deletes together.
EditsAreMade ==
  \A t \in Clients :
    Editing(t) =>
      /\ WellFormed(edits[t]) /\ OneChangeEach(edits[t])
      /\ \A c \in edits[t] : Made(Loaded, ws.changes, c)
      /\ \/ \A c \in edits[t] : c.op = "DELETE"
         \/ \E c \in edits[t] : edits[t] = {c}

\* What add_changes has collapsed so far differs from the draft in the resources
\* of the changes it has taken, and there as one collapse would have it.
CollapsedSoFar ==
  \A t \in Clients :
    pc[t] = "collapse" =>
      \A r \in Resources :
        On(buf[t], r) = IF r \in Rids(edits[t] \ left[t])
                          THEN Result(ws.changes, ChangeTo(edits[t], r))
                          ELSE On(ws.changes, r)

ClientRelies ==
  /\ DraftFitsPublished
  /\ DraftStaysRead
  /\ IssuedOnce
  /\ EditsAreMade
  /\ CollapsedSoFar
=============================================================================
