------------------------------ MODULE SaveFlow ------------------------------
(***************************************************************************)
(* Saving: the changes of the draft as the home layout shows them, the     *)
(* dialog in which they are reviewed, published and discarded, and the     *)
(* edits that this user makes on the pages meanwhile.  What is shown is    *)
(* the draft as it was last loaded.  WorkingState has the server's side in *)
(* detail; here it keeps the merging of changes, their identifiers, and    *)
(* whether a change holds the display name of its resource.                *)
(***************************************************************************)
EXTENDS Screen

CONSTANTS
  Saveable,    \* object types, properties and link types
  MaxChanges   \* bound: edits that get an identifier

\* shown: the changes as they were last loaded.  fetching: they are being loaded
\* again, fetched being the answer on its way; unloaded: the last attempt failed.
\* gone: the changes that this user was told to be discarded.
SaveDefault(changes) ==
  [kind |-> "save", open |-> FALSE, shown |-> changes, fetching |-> FALSE,
   fetched |-> None, unloaded |-> FALSE, gone |-> {}]

\* invalidateOntologyData: an older answer is not waited for.
SaveReloading == [form EXCEPT !.fetching = TRUE, !.fetched = None]

\* hasDisplayName: a link type has one on each side.
HasDisplayName(change) == change.named

\* Whether getValidationErrors finds any.
HasErrors(changes) == \E c \in changes : c.type # "DELETE" /\ ~HasDisplayName(c)

SavePending(ask) == \E i \in 1..Len(calls) : calls[i].ask = ask

-----------------------------------------------------------------------------
(* The draft. *)

On(changes, resource) == {c \in changes : c.on = resource}

InDraft(draft) ==
  {r \in Saveable :
     IF On(draft.changes, r) = {} THEN r \in draft.published
     ELSE \A c \in On(draft.changes, r) : c.type # "DELETE"}

\* _collapse_change: a change that is merged into keeps its identifier; a deletion
\* gives way to what comes after it.
Collapsed(changes, new) ==
  LET old == On(changes, new.on)
      Merged(c) == IF new.type = "UPDATE" /\ c.type # "DELETE"
                   THEN {[c EXCEPT !.named = @ \/ new.named]}
                   ELSE IF c.type = "CREATE" THEN {}
                   ELSE {new}
  IN  IF old = {} THEN changes \cup {new}
      ELSE (changes \ old) \cup UNION {Merged(c) : c \in old}

\* What a page asks for: a new resource has its name; an update holds the name
\* only when the name is among what is edited, and finds what the draft deletes as
\* well.
Edits(draft) ==
  [on : Saveable \ (InDraft(draft) \cup draft.published), type : {"CREATE"}, named : {TRUE}]
    \cup [on : InDraft(draft) \cup draft.published, type : {"UPDATE"}, named : BOOLEAN]
    \cup [on : InDraft(draft), type : {"DELETE"}, named : {FALSE}]

Drafted(draft, edit) ==
  [draft EXCEPT !.changes = Collapsed(@, With(edit, "id", draft.next)), !.next = @ + 1]

SavePublishedDraft(draft) ==
  [draft EXCEPT !.published = InDraft(draft), !.changes = {}]

\* With the deletion of an object type go those of its properties and link types.
DiscardSets(draft, id) ==
  {gone \in SUBSET draft.changes :
     /\ \E c \in gone : c.id = id
     /\ \A c \in gone : c.id # id =>
          c.type = "DELETE" /\ \A d \in gone : d.id = id => d.type = "DELETE"}

-----------------------------------------------------------------------------
(* The dialog. *)

\* From the top bar, when there are changes, and from the side bar.
SaveOpen ==
  /\ form.kind = "save" /\ ~form.open /\ form.shown # {}
  /\ form' = [form EXCEPT !.open = TRUE]
  /\ UNCHANGED <<calls, server>>

SaveClose ==
  /\ form.kind = "save" /\ form.open
  /\ form' = [form EXCEPT !.open = FALSE]
  /\ UNCHANGED <<calls, server>>

\* handleSave.  The dialog is never unmounted, so that it knows of a publication
\* that was started before it was closed.
SaveAll ==
  /\ form.kind = "save" /\ form.open /\ ~HasErrors(form.shown) /\ ~SavePending("publish")
  /\ Start([ask |-> "publish"])
  /\ UNCHANGED <<form, server>>

\* A publication closes the dialog, even when it has been opened again.
SaveAllDone(i) ==
  /\ form.kind = "save" /\ Waiting(i, "done") /\ calls[i].ask = "publish"
  /\ form' = [SaveReloading EXCEPT !.open = FALSE]
  /\ Return(i)
  /\ UNCHANGED server

\* handleDiscardAll of the dialog or handleDiscard of the top bar, after the question.
DiscardAll ==
  /\ form.kind = "save" /\ (form.open \/ form.shown # {})
  /\ Start([ask |-> "discardAll", closes |-> form.open])
  /\ UNCHANGED <<form, server>>

DiscardAllDone(i) ==
  /\ form.kind = "save" /\ Waiting(i, "done") /\ calls[i].ask = "discardAll"
  /\ form' = [SaveReloading EXCEPT !.open = @ /\ ~calls[i].closes,
                                   !.gone = @ \cup calls[i].ids]
  /\ Return(i)
  /\ UNCHANGED server

\* handleDiscardChange.
DiscardChange(id) ==
  /\ form.kind = "save" /\ form.open /\ \E c \in form.shown : c.id = id
  /\ Start([ask |-> "discard", id |-> id])
  /\ UNCHANGED <<form, server>>

\* Mutant of DiscardChangeDone: the list is not loaded again.
DiscardChangeDoneStale(i) ==
  /\ form.kind = "save" /\ Waiting(i, "done") /\ calls[i].ask = "discard"
  /\ form' = [form EXCEPT !.gone = @ \cup calls[i].ids]
  /\ Return(i)
  /\ UNCHANGED server

DiscardChangeDone(i) ==
  /\ form.kind = "save" /\ Waiting(i, "done") /\ calls[i].ask = "discard"
  /\ form' = [SaveReloading EXCEPT !.gone = @ \cup calls[i].ids]
  /\ Return(i)
  /\ UNCHANGED server

\* An error is announced; the dialog stays as it is.
SaveFailed(i) ==
  /\ form.kind = "save" /\ Waiting(i, "failed")
  /\ Return(i)
  /\ UNCHANGED <<form, server>>

-----------------------------------------------------------------------------
(* The pages. *)

\* Not while the dialog covers them.  Which edit it is matters when it is carried
\* out only.
SaveEdit ==
  /\ form.kind = "save" /\ ~form.open
  /\ Start([ask |-> "edit"])
  /\ UNCHANGED <<form, server>>

\* The hooks that edit a resource have the changes loaded again, but for the order
\* of properties and for what is taken over from the assistant.
SaveEdited(i) ==
  /\ form.kind = "save" /\ Waiting(i, "done") /\ calls[i].ask = "edit"
  /\ form' \in {SaveReloading, form}
  /\ Return(i)
  /\ UNCHANGED server

\* The answer to the request, or the changes are older than five seconds and the
\* user enters a page that uses them.
SaveFetch ==
  /\ form.kind = "save" /\ form.fetched = None
  /\ form' = [form EXCEPT !.fetching = TRUE, !.fetched = server.changes]
  /\ UNCHANGED <<calls, server>>

SaveLoaded ==
  /\ form.kind = "save" /\ form.fetched # None
  /\ form' = [form EXCEPT !.shown = form.fetched, !.fetching = FALSE,
                          !.fetched = None, !.unloaded = FALSE]
  /\ UNCHANGED <<calls, server>>

\* What was loaded before stays; the changes are not asked for a second time.
SaveFetchFails ==
  /\ form.kind = "save" /\ form.fetching
  /\ form' = [form EXCEPT !.fetching = FALSE, !.fetched = None, !.unloaded = TRUE]
  /\ UNCHANGED <<calls, server>>

-----------------------------------------------------------------------------
(* The server. *)

\* A publication also refuses what its own validation rejects.
SaveServe(i) ==
  /\ form.kind = "save" /\ Waiting(i, "sent")
  /\ CASE calls[i].ask = "publish" ->
            /\ server.changes # {}
            /\ server' = SavePublishedDraft(server)
            /\ Answer(i, "done")
       [] calls[i].ask = "edit" ->
            /\ server.next <= MaxChanges
            /\ \E edit \in Edits(server) : server' = Drafted(server, edit)
            /\ Answer(i, "done")
       [] OTHER ->
            \E gone \in IF calls[i].ask = "discard" THEN DiscardSets(server, calls[i].id)
                        ELSE {server.changes} :
              /\ gone # {}
              /\ server' = [server EXCEPT !.changes = @ \ gone]
              /\ calls' = [calls EXCEPT ![i] =
                   With([@ EXCEPT !.state = "done"], "ids", {c.id : c \in gone})]
  /\ UNCHANGED form

\* Another window or client works on the same draft.
SaveElsewhere ==
  /\ form.kind = "save"
  /\ \/ \E edit \in Edits(server) :
          server.next <= MaxChanges /\ server' = Drafted(server, edit)
     \/ server.changes # {} /\ server' = SavePublishedDraft(server)
     \/ server.changes # {} /\ server' = [server EXCEPT !.changes = {}]
  /\ UNCHANGED <<form, calls>>

SaveInit ==
  /\ \E published \in SUBSET Saveable :
       server = [published |-> published, changes |-> {}, next |-> 1]
  /\ form = SaveDefault({})
  /\ calls = <<>>

SaveNext ==
  \/ SaveOpen \/ SaveClose \/ SaveAll \/ DiscardAll \/ SaveEdit
  \/ SaveFetch \/ SaveLoaded \/ SaveFetchFails \/ SaveElsewhere
  \/ \E id \in 1..MaxChanges : DiscardChange(id)
  \/ \E i \in 1..MaxCalls :
       \/ SaveAllDone(i) \/ DiscardAllDone(i) \/ DiscardChangeDone(i)
       \/ SaveEdited(i) \/ SaveFailed(i) \/ SaveServe(i)

SaveSpec ==
  SaveInit /\ [][SaveNext \/ \E i \in 1..MaxCalls : Refuse(i) \/ LoseAnswer(i)]_vars

-----------------------------------------------------------------------------
(* Properties. *)

\* A change that the user was told to be discarded is not listed, whatever other
\* loads, discards and edits went on at the time, as soon as no load is under way
\* and the last one succeeded.
DiscardedNotShown ==
  form.kind = "save" /\ ~form.fetching /\ ~form.unloaded =>
    \A c \in form.shown : c.id \notin form.gone
=============================================================================
