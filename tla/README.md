# TLA+ models of open-ontology

open-ontology keeps an *ontology* (object types, their properties and the link
types between them) in PostgreSQL and lets users edit it through a *draft*,
publish the draft and look up the history. A FastAPI server does this
(`src/apps/server/app`); a React client (`src/apps/web`) and a command line
client talk to it over HTTP. An agent may suggest an ontology as a *blueprint*,
which the user reviews and applies. These modules model both ends: the server's
change management and its blueprints, statement by statement, and the dialogs
and pages of the web client, handler by handler. TLC checks them on small
instances and TLAPS proves their main guarantees for all.

## The system

Paths are relative to `src/apps/server/app` unless they begin with `src/`.

| Component | State | Operations | What is hard | What makes it correct | Modelled |
|---|---|---|---|---|---|
| change management: `services/working_state_service.py`, `storage/working_state_storage.py`, `storage/ontology_storage.py` | one row of `working_states` (the list of changes), `ontologies.version`, `change_records` | `add_change(s)`, `publish`, `discard`, `discard_single_change`, the merged view | requests overlap, and not every read is locked; several changes collapse into one; publish spans six tables | no edit is lost, the history replays to the tables, the draft fits what is published, every request ends | yes, except validation |
| object types, properties, link types: `services/object_type_service.py`, `property_service.py`, `link_type_service.py` | the published tables; drafted changes | create, update, delete, reorder, batch edits | cascades over published and drafted rows; names checked before the draft is locked; keys kept in two places | no dangling references, unique names, keys consistent, what is published stays readable | creation, update, deletion and cascades; keys and statuses (`PropertyPages`); ends and joins of link types (`LinkTypeWizard`); not names |
| blueprints: `services/blueprint_service.py` | blueprint status, item decisions, created entities | add items, change the status, decide (one or a batch), apply, retry | unlocked checks of status and decision; partial failure of apply | each accepted item is created once and after what it refers to; a draft stays untouched | yes, but for deletion with the session and `pre_apply_check` |
| data connections, datasets, import tasks: `services/*_import_service.py`, `dataset_service.py`, `import_task_service.py` | connections, datasets, tasks in memory | import, confirm, bind, delete | tasks expire or vanish with the process; in-use checks race | every end of a task is seen | tasks and tests as the wizards meet them |
| validation, synchronisation, agent sessions, materials, search, sidekick, encryption, CLI, migrations | see *Not modelled* | | | | no |

The web client (paths relative to `src/apps/web/src`):

| Component | State | Operations | What is hard | What makes it correct | Module |
|---|---|---|---|---|---|
| object type wizard: `pages/object-types/components/CreateObjectTypeWizard.tsx`, `WizardStep*.tsx`, `stores/create-wizard-store.ts` | the form over five steps | steps, mapping of columns, create, close (which creates, too) | one request per object, property and key, each of which may fail | what exists is a beginning of the form, and the user is told so | `ObjectTypeWizard` |
| link type wizard: `pages/link-types/components/CreateLinkTypeWizard.tsx` | the form, eleven fields that depend on one another | choose and take back, submit | fields of a choice that was taken back | a request fits the last choices | `LinkTypeWizard` |
| imports: `pages/data-connection/components/*Wizard.tsx`, `api/imports.ts` | three forms, a polled task | upload, choose, confirm, poll, close | answers and timers that arrive later than what they are about | columns fit the file; ends of tasks are seen | `Imports` |
| connections: `ConnectionsTab.tsx`, `NewConnectionModal.tsx` | the form, the row under test | test, save, delete | overlapping tests share a flag | no row stays under test | `Connections` |
| agent chat: `pages/workshop/hooks/use-agent-chat.ts`, `FileUploadArea.tsx`, `stores/workshop-store.ts` | messages, partial answer, connection, uploads | send, stream, break off, reconnect, upload, leave | ends of a stream that reset only part; timers that outlive the page | answers are whole, the input becomes usable again | `AgentChat` |
| property pages: `ObjectTypePropertiesPage.tsx`, `PropertyTable.tsx`, `EditPropertyPanel.tsx`, `CreatePropertyDrawer.tsx` | selection, panel's snapshot, drawer's form | batches, edits, keys, create | buttons of an outdated panel; fields of another type | keys agree; requests fit | `PropertyPages` |
| detail pages: `ObjectTypeOverviewPage.tsx`, `InlineEditText.tsx`, `LinkTypeOverviewTab.tsx`, `ObjectTypeDatasourcesPage.tsx` | cache, texts under edit | edit in place, visit, delete, bind a dataset | values that are loaded again under an edit | only what was typed is written | `DetailPages` |
| review: `BlueprintReviewTable.tsx`, `ReviewToolbar.tsx`, `ApplyProgressModal.tsx` | the blueprint as loaded, the dialog's result | decide, apply, retry, skip, discard | answers into a reopened dialog | what is called created exists | `WorkshopReview` |
| saving: `components/SaveDialog`, `components/ChangeActions.tsx`, `api/working-state.ts` | the draft as loaded | publish, discard, discard one | lists that arrive after what they do not know of | what was discarded is not shown | `SaveFlow` |
| search: `components/layout/SearchBar.tsx`, `stores/search-store.ts` | words, query, mode, timer | type, leave, resume | a timer that is not cancelled | results fit the words | `Search` |

**How they interact.** Every HTTP request runs in one session and one database
transaction (`database.py`: commit when the handler returns, rollback when it
raises). The CRUD services validate against the *merged view* (published tables
overlaid with the draft's changes) and hand changes to
`WorkingStateService.add_change(s)`, which locks the draft's row, collapses the
new changes into the list and writes it back. `publish` applies the list to the
tables, increments the version, inserts a change record and deletes the draft.
Applying a blueprint calls the CRUD services' `create` for each accepted item, in
one transaction with the blueprint's own rows. Requests share nothing but the
database, which runs at READ COMMITTED: a statement sees what was committed
before it, and a row written or selected `FOR UPDATE` makes other writers wait
until the transaction ends.

The client's dialogs share nothing but the server and the query cache. An event
handler is an asynchronous function: it runs up to a request, waits, and goes on
with the answer; what the user does in between runs at once. Every mutation that
succeeds has the queries it is about loaded again.

## Modules

| Module | What it is |
|---|---|
| `ChangeLog` | Pure operators: the `Change` record, collapsing (`_collapse_change`), merging of documents (`_deep_merge_dicts`), what is read back of a row, the merged view, an object type's cascade, discarding, and what applying a draft does to the tables. |
| `WorkingState` | The state machine: any number of clients, each with at most one request in progress, one action per statement that other requests can see or wait for. EXTENDS `ChangeLog`; refines `Draft == INSTANCE OntologyDraft WITH table <- Loaded, shown <- Shown(Loaded, ws.changes)`, where `Loaded` is what is read of the published rows. |
| `OntologyDraft` | The abstract specification: a published table as it is read, a shown one, and a version; nothing of changes, transactions or locks. Its `Publish` says what a publish loses. |
| `MCWorkingState` | Constants for TLC. |
| `ChangeLog_proofs` | Lemmas about the operators: types, what collapsing keeps, what applying keeps, what is shown after an edit. |
| `WorkingState_proofs` | The inductive invariant and the theorems for any number of clients. |
| `OneClient_proofs` | What holds of one client beyond these: the draft fits what is published, and the refinement of `OntologyDraft`. |
| `Blueprint` | The state machine of one blueprint: its items, the review, application and retries, for any number of clients, one action per statement that other requests can see or wait for. |
| `MCBlueprint` | Constants for TLC. |
| `Blueprint_proofs` | The inductive invariant of `Blueprint` and its theorems. |
| `Screen` | What dialogs and pages have in common: the form, the handlers under way, and what the server holds; requests that are refused or lost, answers that are lost. |
| `ObjectTypeWizard`, `LinkTypeWizard`, `Imports`, `Connections`, `AgentChat` | The dialogs; each EXTENDS `Screen`. |
| `MCDialogs` | The dialogs that must come to an end, for TLC (all but the wizard for link types): each behaviour shows one. Fairness. |
| `PropertyPages`, `DetailPages`, `WorkshopReview`, `SaveFlow`, `Search` | The pages; each EXTENDS `Screen`. |
| `MCPages` | The pages and the wizard for link types, for TLC: each behaviour shows one. Symmetry. |
| `Screen_proofs` | Lemmas about the handlers under way: what starting, changing and returning do to them. |
| `ObjectTypeWizard_proofs` | The inductive invariant of the wizard for object types: what a creation leaves is the beginning of a form. Induction over the properties. |
| `Dialogs_proofs` | The inductive invariants of `LinkTypeWizard`, `Imports` and `AgentChat`. |
| `Pages_proofs` | The inductive invariants of `PropertyPages`, `DetailPages`, `Search`, `SaveFlow` and `WorkshopReview`. |

### State and code

| Variable | Code |
|---|---|
| `published` | tables `object_types`, `properties`, `link_types` with their endpoints |
| `version`, `records` | `ontologies.version`, `change_records` |
| `ws` | the row of `working_states` (identifier and changes), or `EmptyDraft` |
| `issued` | resource identifiers handed out by `generate_rid` (fresh every time) |
| `wsLock` | who holds the row of `working_states`: by `SELECT ... FOR UPDATE`, by an INSERT or by a DELETE that is not committed |
| `ontLock` | who has updated the row of `ontologies` and has not committed |
| `pc`, `seen`, `edits`, `left`, `buf`, `readVersion` | a request's local variables: the next statement, the draft it read first, the changes it makes, those not yet collapsed, the list it will write, the version it read |

| Actions | Code |
|---|---|
| `CreateResource`, `UpdateResource`, `DeleteResource`, `DeleteObjectType` | `create`, `update`, `delete` of the three CRUD services up to the call of `add_change(s)` |
| `LockDraft`, `InsertDraft` | `get_or_create(for_update=True)` |
| `CollapseNext`, `CommitEdit` | the loop of `add_changes`; `update_changes` and the commit |
| `BeginPublish`, `ApplyChanges`, `ReadVersion`, `BumpVersion`, `ClearDraft`, `CommitPublish` | `publish`, statement by statement |
| `BeginDiscard`, `CommitDiscard` | `discard` |
| `BeginDiscardChange`, `CommitDiscardChange` | `discard_single_change` |
| `Abort` | any error: the transaction is rolled back |

`Blueprint` follows the same pattern:

| Variable | Code |
|---|---|
| `status`, `items`, `decision`, `linked` | `blueprints.status`; the rows of `blueprint_items`, their `user_decision`, those with a `created_entity_rid` |
| `made` | how many entities have been created for an item (the code keeps no such count) |
| `bpLock`, `itemLock` | who holds the blueprint's row `FOR UPDATE`, and the row of each item |
| `pc`, `choice`, `todo`, `written` | a request's local variables: the next statement, the status or decision it will write, the items it still has to visit, those it has written |

| Actions | Code (`BlueprintService`) |
|---|---|
| `AddItems` | `create_item`, `batch_create_items` |
| `BeginUpdateStatus`, `CommitUpdateStatus` | `update`: the check against `_VALID_TRANSITIONS`, the write |
| `BeginDecide`, `DecideNext`, `CommitDecide` | `update_item_decision` and `batch_update_decisions` |
| `BeginApply`, `ApplyNext`, `CommitApply` | `apply`: the locked read, one turn of its loops, the new status |
| `BeginRetry`, `LockItem`, `CommitRetry` | `retry_item` |
| `BreakDeadlock`, `Abort` | the database's deadlock detection; any other error |

The modules of the client share the variables of `Screen`:

| Variable | Code |
|---|---|
| `form` | the state of a dialog's components (`useState`, `useRef`) and of its store; `form.kind` says which dialog the behaviour shows |
| `calls` | the handlers under way, each at one `await`: what it asked for, what it captured when it was started, and whether its request is `sent`, `done` or `failed` |
| `server` | what the server holds as the result of the dialog's requests; other users change it in the actions named `...Elsewhere` |

| Actions | Code |
|---|---|
| `WizardOpen` ... `WizardChooseKey`, `WizardCreate`, `WizardClose` | the wizard's steps, `handleCreate` and `handleClose` |
| `WizardNextRequest`, `WizardEndWhole`, `WizardEndPartial`, `WizardFail` | the loop of `createPropertiesForObjectType` and the ends of `executeCreate` |
| `LinkSelect...`, `LinkNextStep`, `LinkBack`, `LinkSubmit`, `LinkCreated`, `LinkFailed` | the handlers of `CreateLinkTypeWizard` with the effects that follow them |
| `File...`, `MySQL...`, `Live...` | the handlers of the three wizards, their polling (`useImportTask`) and timers |
| `ImportServe`, `ImportRuns`, `ImportForgotten` | the services behind the wizards: the endpoints, the background task, a restart of the server or the hour after which a task expires |
| `Connection...`, `Row...` | `NewConnectionModal`; `ConnectionsTab` |
| `ChatSend`, `ChatDrawLink`, `ChatText`, `ChatDone`, `ChatError`, `ChatCloses`, `ChatBreaks` | `handleSend`, from the input or from a link drawn on the canvas; the events of the stream, its end and its breaking off. That a stream closes only after `done` or `error` is the server's doing (`adapt_stream`), not the client's |
| `ChatTimer`, `ChatForgottenTimer`, `ChatReconnect` | the timer of a broken connection, one whose reference was overwritten, the banner's button |
| `Upload...` | `handleUpload` and its interval |
| `Row...`, `Batch...`, `Panel...`, `Drawer...`, `PropertyServe` | table, panel and drawer; what `property_service.py` does with keys and statuses, deleted properties that are still found included |
| `Inline...`, `LinkField...`, `Detail...`, `Delete...`, `Selector...`, `Source...` | texts edited in place; fields that keep their first value; the pages; deletion; the dataset |
| `Apply...`, `Review...`, `...Elsewhere` | the dialog of an application, the table, other users (`DiscardElsewhere`: what discarding one change does to keys) |
| `Save...`, `Discard...` | the dialog and its mutations; `SaveFetch`, `SaveLoaded` are the query |
| `Search...` | the bar, the pause, the ways to leave |

### What is abstracted

* A resource's document is a function from `Fields` to `Values`; a field stands
  for a leaf of the JSON document, so the recursive merge is overriding leaves.
  A link type's before image is in the code a little wider than the after image
  (a whole side), which no property depends on.
* `Unread` are the fields that are written to an object type's row and not read
  back (`intended_actions`: `ObjectTypeStorage._to_domain` leaves it out).
  `Pointers` are a link type's fields that may name another resource and that the
  database empties when it is deleted (`ON DELETE SET NULL`: a backing object
  type, the two side links).
* The resource's identity fixes its kind, a property's object type and a link
  type's ends: no update request and no key map of `publish` can change them.
* The list of changes is a set. Its order matters only among the writes of one
  kind (an update moves a link type's creation behind that of one that names it as
  a side link, and the publish fails, which is an `Abort`). A loop over it takes the changes in a fixed order.
* A request's unlocked reads before its first lock happen in one step. Whatever
  the requests' validations refuse is covered by `Abort`; edits that a
  validation would refuse are therefore allowed here, which makes every
  invariant stronger than needed.
* Publish's writes to the tables take effect at commit; from `ApplyChanges` on it
  keeps the rows it has written or refers to (`Footprint`), and another publish
  that needs one of them waits before it begins. Two publishes that come to wait
  for each other row by row are a database deadlock: PostgreSQL aborts one,
  which is `Abort`.
* Deleting a row that is gone is no error (the storage looks it up first);
  updating one raises, inserting an existing one violates its key.
* Identifiers of drafts are reused only when no request remembers them: they
  stand for UUIDs.
* Multi-change edits of properties (reordering, batch edits, keys) take the same
  path as `DeleteObjectType`, with several changes in `left`. What they do to
  keys and statuses is in `PropertyPages`, where each request is one step: its
  transaction's overlap with others is the subject of `WorkingState`.
* Of a blueprint's items, `accepted` stands for `edited` too: both are created.
  What the user edits only decides whether the entity is accepted (`Fit`, and the
  free outcome of a retry). The entities themselves, and the draft's row that
  creating one locks, are left to `WorkingState`.
* Every property and link type of an application is refused, as the code's
  requests for them lack required fields (finding `AcceptedNotCreated`); the
  difference of failed and skipped items is only reported, not stored.
* In the client, names, types and other values are members of small sets; a
  foreign key is named by the object type that has it, a column by its table.
  Of the names in a form only whether they are valid is kept; the types given to
  a file's columns and the names of datasets are left out. Another sheet, or a
  file without a header row, is taken to have other names of columns.
  Texts, layout and messages are left out, but for those that tell an outcome.
  A handler's synchronous part is one action; so are React's effects that follow
  it before the user can act again.
* A query in the cache is what is shown; loading it again is an answer on its
  way that a later invalidation overtakes (`fetching`, `fetched`).
* Timestamps, `baseVersion` (stored, never read) and the synchronisation after
  publish (its errors are logged; a failed transaction is an `Abort`) are left
  out.

## Runs

`CHECK_DEADLOCK FALSE`: with the bounded set of identifiers and `MaxVersion`,
everything may be published and nothing left to edit, and the system really
stops; so does a blueprint that is discarded, and a dialog whose bounded number
of requests is used up.

| Run (cfg, module) | Instance | Checks | Shows |
|---|---|---|---|
| structure (`WorkingStateStructure`, `MCWorkingState`) | one client; two object types, and a link type of the first that names the second (all published), a property and a second link type to be created; a field of link types that may name the second object type or the first link type; two further versions | `DraftFitsPublished`, `ClientRelies`, `PublishedReferencesHold`, `EditShowsThrough`, `ImplementsDraft` | cascades, discards and collapsing across kinds of resources; what publishing a deletion does to link types that name what is deleted |
| merging (`WorkingStateMerging`, `MCWorkingState`) | one client; one object type, two fields of two values, of which one is not read back | `DraftFitsPublished`, `EditShowsThrough`, `ImplementsDraft` | the field by field merging of repeated partial updates, which loses nothing but what is not read back |
| overlap (`WorkingStateOverlap`, `MCWorkingState`) | two clients; an object type published, a property to be created; symmetric clients and drafts | `TypeOK`, `OneChangePerResource`, `RequestsRely`, `PublishedReferencesHold`, `HeldDraftIsStill`, `EditsAccumulate`, `LaterDraftIsSpared` | what survives every interleaving |
| versions (`WorkingStateVersions`, `MCWorkingState`) | two clients, `FairSpec`; two object types without references or fields, three versions | `HistoryNumbered`, `HistoryReplays`, `RequestsEnd` | publishes that share no row overlap and compete for the next version; no circular waiting |
| blueprint_review (`BlueprintReview`, `MCBlueprint`) | two clients, `FairSpec`; two object types, one of which the ontology refuses until a retry, a link type between them | `TypeOK`, `RequestsRely`, `ParentsCreatedFirst`, `DraftIsUntouched`, `AppliedOutOfReview`, `RetryCreatesOnce`, `RequestsEnd` | what survives every interleaving of review, application and retries; deadlocks of batches are the only ones, and are resolved |
| dialogs (`Dialogs`, `MCDialogs`) | `FairSpec`; two handlers at a time | `WizardLeavesABeginning`, `WizardTellsWhatItMade`, `WizardCreatingEnds`; `ImportFileFits`, `ImportEndIsSeen`; `RowTestingEnds`; `AnswersAreWhole`, `UploadsShownAreUnderWay`, `ChatStreamingEnds` | what dialogs send, show and leave behind when requests fail, answers are lost and the user goes back or closes them; none stays busy |
| pages (`Pages`, `MCPages`) | two handlers at a time, others elsewhere | `LinkRequestFits`; `KeysAgree`; `InlineWritesTyped`; `ResultIsTrue`; `DiscardedNotShown`; `ResultsFitTheBar` | what pages write and show while what they show is out of date; what the wizard for link types sends however the user has changed his mind |

Five runs show where the code departs from its documents; each one's trace is
the shortest there is.

| Run | Property | Trace |
|---|---|---|
| edit_during_publish (`EditDuringPublish`) | `PublishRecordsWhatItClears` | publish reads the draft; an edit commits; publish deletes the draft with the edit |
| intended_actions_lost (`IntendedActionsLost`) | `IntendedActionsStay` | create an object type with intended actions, publish: shown before, null after |
| accepted_not_created (`AcceptedNotCreated`) | `AcceptedAreCreated` | accept an object type and its property, apply: applied, without the property |
| two_keys (`TwoKeys`, module `MCPages`) | `OneForEachKey` | the title key is moved in the draft; the change of one of the two properties is discarded alone: both are marked as the key |
| result_stays (`ResultStays`, module `WorkshopReview`) | `ResultStays` | apply with an item that fails; the result is shown; the blueprint has been loaded again, as applied, and the dialog is gone with the failed item |

More departures and surprises are behaviours of the models without a run:

* Two publishes of one draft may both commit (`CommitPublish`). The discarding
  of one change writes back a list it read without a lock and loses an edit
  committed in between (`CommitDiscardChange`). An update collapsed into another
  keeps the first one's before image, which then lacks fields (`Combined`), and
  the properties of an object type whose deletion is taken back stay deleted if
  they had been updated (`DiscardedWith`). Updating an object type that the draft
  deletes replaces its deletion and leaves those of its properties (`Found`,
  `Combined`).
* Of two decisions that both find an item undecided, the later replaces the
  earlier (`CommitDecide`); a checked change of status overwrites an application
  (`CommitUpdateStatus`), after which the blueprint may be applied again.
* A property that the draft has deleted is found and may be updated, which brings
  it back as it was published, its keys included, though its object type names it
  no more (`Revived`).
* The timer of a broken chat fires into a conversation that goes on
  (`ChatTimer`), and nothing reconnects by itself; a timer's reference may be
  overwritten (`ChatForgottenTimer`).
* A task that the server has forgotten is polled for ever (`ImportForgotten`); a
  second import's end is not announced unless the wizard was closed in between
  (`told`); choosing another MySQL table keeps the columns of the first
  (`MySQLSelectTable`); choosing another sheet or no header row keeps the columns
  chosen, of which the server imports those that it finds, possibly none, and the
  task ends well (`FileChooseSheet`, `FileChooseHeader`); a connection stays
  tested after its form was changed (`ConnectionEdit`).
* When the first answer of the object type wizard is lost, the object type
  exists and the user may create it again. An error that is no answer of the
  server is not shown by the wizard for link types (`LinkFailed`). Its cards for
  many-to-many relationships are hidden for the others and still reached by the
  keyboard, so that a backing object may be requested with a foreign key
  (`LinkSelectBacked`). The names that it proposed stay when an end is chosen that
  is not among the first hundred object types (`LinkNextStep`).
* A field of a link type keeps the value it was mounted with and writes it back
  (`LinkFieldBlur`); a text typed for one object type stays in the field of
  the next one if both hold the same value (`InlineDraft`); removing a dataset
  removes nothing (`SourceRemove`).
* The dialog that saves reports an update without a display name as an error,
  though the published resource has one, and does not save (`HasErrors`).
* The API name that the drawer for properties proposes stays at the first letter
  typed (`CreatePropertyDrawer.tsx:54`; names are not modelled there).
* Save publishes the draft as the server has it, not as the dialog shows it
  (`SaveAll`); an application whose check fails leaves the dialog at its spinner
  (`ReviewFailed`).

**Bounds.** Two clients are enough for every hazard of two requests; `DraftIds`
of three rows let a draft be deleted and created again while a request remembers
the first. Two versions beyond the empty ontology give a publish over an empty
and over a filled table, and a stale publish after another one; the versions run
has three and no fields, as updates meet publishes in the overlap run. In the
structure run the second object type and the first link type are there to be
named, as a backing object and a side link, and to be deleted; the first object
type has the property and is every end. Object types have no fields there, as
merging is the merging run's. One property and one object type give a foreign
key that one publish can pull away from under the other. `MaxVersion` is a guard
of `BeginPublish`; requests already begun may pass it. `Blueprint` needs no
bound: statuses only go forward, so a blueprint is applied at most once per
stale change of status. Two clients let a stale change of status meet an
application; what is stated of more clients is proved. Two object types let
batches deadlock and leave a link type with one parent missing.

In the client, `MaxCalls = 2` lets a handler meet another, or the one that a
closed and reopened dialog starts; one row of one key in the object type wizard
makes three requests, so that each of object, property and key can be the one
that fails, and `MaxObjects = 2` lets a second creation follow or overlap. Link
types have two ends, two datasets and five side links, of which two join the
same ends. Two files, tables or entries suffice for a first one that must not
stay; one of the files has sheets (`Workbooks`). The sheet and the header row
are chosen before the first import and while no request is under way
(`ImportBounded`). Two streams let an answer follow one that broke off; the
instants of `MaxUploads = 1` are shared by files that are chosen together.
`MaxEdits`, `MaxDetail` bound the requests of the property and detail pages to
one of this user; those of others come at any time. The pages run has one key,
as the theorem holds for any; two_keys has two. Nothing is published while the
page of properties is open, and its behaviours end where a key's changes have
been parted (`torn`), from where `KeysAgree` asks nothing. One of the texts has
blanks around it (`Padded`). On the pages of details one object type and no link
type becomes active. One of the resources to be saved is published at first; two
changes with identifiers (`MaxChanges`) let one be discarded while the other is
edited, and an edit be collapsed into either. `Pages.cfg` uses one pair of model
values for properties, resources and items: each page is shown in behaviours of
its own, so that the permutations of the pair are a symmetry of each (TLC checks
invariants and one action property under it, no liveness). `Words` holds a
blank, a word and one that begins with it.

**Overlap, and what it does not promise.** `DraftFitsPublished`,
`EditShowsThrough` and `ImplementsDraft` are properties of one client: with two,
publishing twice or discarding over an edit breaks them, and edit_during_publish
shows what a publish may do to an edit. What does survive is in the overlap and
versions runs, and is proved. A stale publish may also bring back a resource
that was deleted and published meanwhile, which `HistoryReplays` allows: the
history tells it.

**Fairness.** `FairSpec` asks for strong fairness of each client's `Advance`, and
nothing of beginning or aborting a request. The event loop keeps running a
coroutine that can run, and PostgreSQL grants a row lock to those that wait in
turn; a step that waits for a row others take and release again and again is
enabled only now and then, hence strong fairness. `Blueprint`'s `FairSpec` adds
weak fairness of `BreakDeadlock`, PostgreSQL's deadlock detection: a batch of
decisions locks rows in an order that nothing fixes. `MCDialogs`' `FairSpec`
asks for weak fairness of answers (each request is answered, refused or its
connection breaks), of going on with an answer (the browser's event loop), and
of the polling, which an interval repeats while the task has not ended; never of
what the user does.

## Proofs

TLAPS checks the eight modules `*_proofs` for all values of the constants, from
the assumptions in the modules: kinds are disjoint, `Owner` and `Ends` have
their types, `Absent`, `NoDraft` and `NoClient` are none of the values they are
different from, the seed is closed under references, fields that are not read
back and pointers are fields, and null is a value; items have one kind, and
object types no parents.

| Theorem | Result |
|---|---|
| `Invariance` | `Spec => []IInv` |
| `TypeCorrect`, `DraftCollapsed`, `HistoryIsNumbered`, `ReferencesKept`, `RequestsMayRely` | the invariants `TypeOK`, `OneChangePerResource`, `HistoryNumbered`, `PublishedReferencesHold`, `RequestsRely` |
| `HeldDraftStays`, `EditsAreKept`, `LaterDraftKept` | the action properties `HeldDraftIsStill`, `EditsAccumulate`, `LaterDraftIsSpared` |
| `HistoryIsComplete` | the invariant `HistoryReplays`, for any length of the history |

`IInv` adds to these what each request relies on between its statements
(`RequestsRely`):

* `DraftsAreSound`: every set of changes in hand is well formed and has one
  change per resource; collapsing keeps this (`CollapseType`).
* `LocksAreHeld`: which step holds which lock. Without it `EditsAccumulate` is
  not inductive: an edit's buffer is right only because nobody else can write
  the draft while it is at `collapse`.
* `VersionsAreFresh`: a version read is never ahead, and equals the current one
  once the ontology's row is held: the unique key has refused every other.
  From this follows that versions have no gap.
* `TablesAreHeld`: what a publish has applied stays applicable until it commits.
  This is the core of the proof of the references: it needs that publishes past
  `ApplyChanges` have disjoint footprints and that applying one leaves the other
  applicable (lemma `AppliedElsewhere`), and that applying an applicable draft
  keeps references (`AppliedKeepsReferences`).
* `EditsAreAdded`: the buffer still holds every change the edit does not touch.

TLC checks `TypeOK`, `PublishedReferencesHold`, `RequestsRely` (overlap run) and
`HistoryNumbered` (versions run), the four parts of `IInv`.

`HistoryReplays` says that applying record after record to empty tables gives the
published ones. Its replay is a recursive function of the records' numbers, which
is there only if something satisfies its definition, so what is inductive is
`Rebuilds`: the records have a replay, and every replay of them ends with the
published tables. A publish records and applies the changes that it read first,
whatever has become of the draft since, and `ReplayAppend` extends and cuts replays
by one.

`OneClient_proofs`, in addition from `Alone`, that there is one client:

| Theorem | Result |
|---|---|
| `OneClientMayRely` | `Spec => []ClientRelies` |
| `DraftFits` | the invariant `DraftFitsPublished`: the draft fits what is read of the published rows |
| `EditsShow`, `PublishRecordsAll` | the action properties `EditShowsThrough`, `PublishRecordsWhatItClears` |
| `OneClientImplementsDraft` | the refinement, `Spec => ImplementsDraft` |

`Alone` is needed: the run edit_during_publish breaks
`PublishRecordsWhatItClears` with a second client, and a second publish of the
same draft breaks the others. `DraftFitsPublished` is not inductive, as an edit
decides what it changes before it locks the draft, and writes it several
statements later. `ClientRelies` adds that the draft is still as it was read
(`DraftStaysRead`), that the edit is one that it allows (`EditsAreMade`, of
which a deletion of an object type is many), that identifiers are given once
(`IssuedOnce`), and that `add_changes`, half way through its list, has the draft
with the changes made to the resources it has come to and no others
(`CollapsedSoFar`), so that the order in which it takes them does not matter.
The structure run checks `ClientRelies`. From these, lemmas about `ChangeLog`
carry the refinement: an edit collapsed into a fitting draft shows what it would
show on its own, a publish of a fitting draft makes the tables what was shown,
cascades included, and a discarded one leaves them as they are. "What was shown"
has two exceptions, which `OntologyDraft` states (`Kept`): the fields that are
not read back, and pointers to what the publish deletes. The before images of a
draft are what was read of the rows, which is not all that they hold.

`Blueprint_proofs`:

| Theorem | Result |
|---|---|
| `Invariance`, `TypeCorrect`, `RequestsMayRely` | `IInv`, and of it `TypeOK` and `RequestsRely` |
| `ParentsFirst`, `DraftUntouched` | the invariants `ParentsCreatedFirst`, `DraftIsUntouched` |
| `AppliedFromReview`, `RetriedOnce` | the action properties `AppliedOutOfReview`, `RetryCreatesOnce` |

The strengthening is `RequestsRely` again: locks are exclusive (`LocksAreHeld`),
what was read under a lock stays true (`HeldRowsAreStill`), and what is written
without one is at least no return to draft (`WritesArePossible`).
`AppliedOutOfReview` follows because only `apply` holds the blueprint's row, and
`RetryCreatesOnce` because a retry looks at its item only after locking it. The
theorems do not say that a blueprint is applied once, or that its status is
final: stale changes of status break both.

The dialogs and pages have theorems of specifications of their own (`LinkSpec`,
`PageSpec` and so on), in which requests and answers may be refused or lost; what
holds of each handler under way (`UnderWay` of `Screen_proofs`) is kept when one
is started, is answered or returns.

`LinkTypeWizard` (`Dialogs_proofs`), from `None` being no object type, dataset or
side link:

| Theorem | Result |
|---|---|
| `FormsFit` | `LinkSpec => []LinkIInv` |
| `RequestsFit` | the invariant `LinkRequestFits` |

`LinkRequestFits` speaks of the last step only and is not inductive: what is
submitted was chosen one and two steps before. `LinkIInv` says of every step
that the foreign key is at the end that the cardinality gives it
(`LinkKeyFits`), that columns are of the dataset and a dataset is there for a
join table only (`LinkTableFits`), that side links join the ends to the backing
object (`LinkSidesFit`), and that the last step is reached complete
(`LastStepFits`). Each action has a lemma for each part that it may disturb; the
effects that choose a side link when there is only one are the reason why
`LinkSidesFit` needs `EligibleLinks` opened.

`PropertyPages` (`Pages_proofs`), from `None` being no property and no type:

| Theorem | Result |
|---|---|
| `KeysMatch` | `PageSpec => []KeysIInv` |
| `RecordsAgree` | the invariant `KeysAgree` |

`KeysIInv` says of each key and property that the property has the key just if
the object type names it, and then exists, in the draft and in what is
published, as long as no part of a key's change was taken back or brought back
alone (`torn`); it is inductive without anything of what the client shows:
however outdated a panel is, the server's rules keep it. A deleted property that
is brought back keeps it if it had no key. A batch deletion keeps it because it
skips properties with keys, taking a key from another property because it clears
both records.

`SaveFlow` and `WorkshopReview` (`Pages_proofs`), which assume nothing of their
constants:

| Theorem | Result |
|---|---|
| `DiscardedStayHidden` | `SaveSpec => []DiscardedNotShown` |
| `ResultsTrue` | `ReviewSpec => []ResultIsTrue` |

`DiscardedNotShown` speaks of a list that no load is changing; the list was loaded
long before. `SaveIInv` therefore says that identifiers are given once and each
change has its own (`DraftIdentified`, by `CollapsedIdentified`: merging keeps the
identifier of the change merged into), so that an identifier of what was discarded
stays one of no change (`PastId`), of answers on their way (`AnswersPast`) as well as
of what the user was told (`FormPast`); an answer to a load asked for before the
last discard was told is dropped, which `FormPast` needs.

`ReviewIInv` says the same of results (`CallTrue`): what an application or a retry
has answered, and the result that a retry was started from, is true and stays true,
because created items are only added to. The one step that might take some away,
another user's application, is possible only under review, when nothing has been
created (`NothingBefore`).

`ObjectTypeWizard_proofs`, which assumes nothing of its constants:

| Theorem | Result |
|---|---|
| `WizardFits` | `WizardSpec => []WizardIInv` |
| `CreationsBegin` | the invariant `WizardLeavesABeginning` |
| `WizardTells` | the action property `WizardTellsWhatItMade` |

All that a handler is going to ask for is flattened out of the requests for each
property; that every beginning of it has no property without those before it and
no key without its property goes by induction over the properties
(`RequestsBegin`). `WizardIInv` says that a handler that has not been told of a failure has
on the server what it has asked for so far (`WizardCallFits`), and that no two
handlers create the same object type (`OnTheirOwn`), so that what one adds is no
other's. A handler whose answer was lost stops, whatever the server has made.

The other dialogs and pages:

| Theorem (module) | Result |
|---|---|
| `FilesFit` (`Dialogs_proofs`) | `ImportSpec => []ImportFileFits`: columns of that file, if any |
| `ChatFits`, `AnswersStayWhole`, `UploadsAreUnderWay` (`Dialogs_proofs`) | of `ChatSpec`: `ChatIInv`, `AnswersAreWhole`, `UploadsShownAreUnderWay` |
| `InlineWritesFit` (`Pages_proofs`) | `DetailSpec => InlineWritesTyped`, an action property |
| `ResultsFit` (`Pages_proofs`) | `SearchSpec => []ResultsFitTheBar`, from `None` being no words |

`FilesFit` needs that the columns asked for were those of the file that the same
request names (`AsksForFile`): the form may have moved on. `ChatIInv` says that
there is one stream at a time (`OneStream`, as a new one drops the one before),
that until its answer has ended its question is the last message, and that the
partial answer holds words of the latest stream only, which a stream that breaks
off leaves behind and the next one clears. An entry among the uploads is that of
a file under way whose panel was not left. `DetailIInv` says that the text in a
field is what was last typed in it since the field took its value (`typed`,
which a value loaded meanwhile clears), or what the field shows; what is written
is either, without the blanks around it. `SearchIInv` ties the words in the bar
to the query, or to the pause that is going to make them the query.

Induction goes over sets of natural numbers (`SetInduction`, from the library's
`WFMin`), as theorems that take an operator are out of the provers' reach.

**Only model-checked.** The liveness properties `RequestsEnd`, `WizardCreatingEnds`,
`ImportEndIsSeen`, `RowTestingEnds`, `ChatStreamingEnds`: fairness and ENABLED
are out of the provers' reach. `Connections` has no other property.

## Not modelled

* *Validation before publishing*: its verdict only decides whether publish goes
  on, which `Abort` leaves open. Uniqueness of names is part of it.
* *Instance synchronisation*: copying of rows within the publish that triggers
  it; its errors are logged and a broken transaction is an `Abort`.
* *The order of the list of changes*: matters among writes of one kind only.
* *Agent sessions and materials on the server*: insertions around a language
  model's stream and files beside their rows; `AgentChat` has the stream and the
  uploads as the client may receive them.
* *The workshop's canvas, graph and drawer, lists, history, instances*: pictures
  and tables of queries, which write nothing. *The demonstration* sends no
  request. *Search, sidekick, encryption, command line, migrations*: no state
  that others depend on.
* *Code that nothing imports*: the import wizards under `pages/object-types`, the
  link type drawer, `utils/validation.ts`, highlights, two effects.
* *Reordering, filters and paging of tables*; *icons, statuses' colours, layout*.

## Possible extensions

What survives of the refinement of `OntologyDraft` with several clients, as long as
no two publish at a time; names and their uniqueness as another field of
`ChangeLog`'s documents.
