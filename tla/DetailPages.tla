----------------------------- MODULE DetailPages -----------------------------
(***************************************************************************)
(* The pages of one object type and of one link type.  Their fields can be *)
(* edited in place while the value they show is loaded again, because      *)
(* someone else has changed it, or while the user goes back and forth      *)
(* between pages that are in the cache, which does not unmount the fields. *)
(* Beside it, the choice of the dataset of an object type.                 *)
(***************************************************************************)
EXTENDS Screen

CONSTANTS
  Resources,    \* object types, or link types
  Names,        \* values of a field, but for the blanks around them
  Padded,       \* bound: those that may come with blanks around them
  Datasets,
  MaxRecent,    \* how many object types the start page remembers
  MaxDetail     \* bound: requests under way

DetailStart(call) == Len(calls) < MaxDetail /\ Start(call)

Texts == [name : Names, blanks : {FALSE}] \cup [name : Padded, blanks : {TRUE}]

Trimmed(text) == [text EXCEPT !.blanks = FALSE]

\* shown is the cache; draft is the text of the field, None if it is blank; typed,
\* which is not in the program, is the text that the user has last typed since the
\* draft was taken from the value that the field shows, None if there is none.
DetailDefault(page, at, names) ==
  [kind |-> "detail", page |-> page, at |-> at, shown |-> names, editing |-> FALSE,
   draft |-> names[at], typed |-> None, known |-> {}, deleting |-> FALSE, recent |-> <<at>>]

OnDetail(page) == form.kind = "detail" /\ form.page = page /\ form.at # None

Shown == form.shown[form.at]

-----------------------------------------------------------------------------
(* A field of an object type. *)

InlineEdit ==
  /\ OnDetail("object") /\ ~form.editing /\ ~form.deleting
  /\ form' = [form EXCEPT !.editing = TRUE]
  /\ UNCHANGED <<calls, server>>

InlineType(text) ==
  /\ OnDetail("object") /\ form.editing
  /\ form' = [form EXCEPT !.draft = text, !.typed = text]
  /\ UNCHANGED <<calls, server>>

\* The field takes the value that it shows.
Taken(f) == [f EXCEPT !.draft = f.shown[f.at], !.typed = None]

\* handleSave, by Enter or when the field is left: a blank name is taken back, a
\* name is sent without blanks if that is not the value shown.  The text stays in
\* the field, to be found there if the request fails.
InlineSave ==
  /\ OnDetail("object") /\ form.editing
  /\ IF form.draft = None
     THEN form' = Taken([form EXCEPT !.editing = FALSE]) /\ UNCHANGED calls
     ELSE /\ form' = [form EXCEPT !.editing = FALSE]
          /\ IF Trimmed(form.draft) = Shown THEN UNCHANGED calls
             ELSE DetailStart([ask |-> "rename", rid |-> form.at,
                               name |-> Trimmed(form.draft)])
  /\ UNCHANGED server

InlineCancel ==
  /\ OnDetail("object") /\ form.editing
  /\ form' = Taken([form EXCEPT !.editing = FALSE])
  /\ UNCHANGED <<calls, server>>

\* Mutant of InlineDraft: the field keeps its text.
InlineDraftKept(f, g) == g

\* The field follows the value that it shows when that changes: f before, g after.
InlineDraft(f, g) ==
  IF g.page = "object" /\ f.at # None /\ g.shown[g.at] # f.shown[f.at]
  THEN Taken(g) ELSE g

\* The status, which is chosen from a list; other such fields do the same.
DetailStatus ==
  /\ \E page \in {"object", "link"} : OnDetail(page)
  /\ ~form.deleting
  /\ DetailStart([ask |-> "status", rid |-> form.at])
  /\ UNCHANGED <<form, server>>

-----------------------------------------------------------------------------
(* A field of a link type: the input shows the value with which it was
   mounted until the user changes its text. *)

LinkFieldType(text) ==
  /\ OnDetail("link") /\ ~form.deleting
  /\ form' = [form EXCEPT !.draft = text, !.editing = TRUE]
  /\ UNCHANGED <<calls, server>>

LinkFieldFocus ==
  /\ OnDetail("link") /\ ~form.editing /\ ~form.deleting
  /\ form' = [form EXCEPT !.editing = TRUE]
  /\ UNCHANGED <<calls, server>>

\* handleSideDisplayNameBlur; handleSideApiNameBlur does the same.
LinkFieldBlur ==
  /\ OnDetail("link") /\ form.editing
  /\ form' = [form EXCEPT !.editing = FALSE]
  /\ IF form.draft = Shown THEN UNCHANGED calls
     ELSE DetailStart([ask |-> "rename", rid |-> form.at, name |-> form.draft])
  /\ UNCHANGED server

-----------------------------------------------------------------------------
(* Navigation, deletion, and what has been seen lately. *)

\* Pages are in the cache.  The page of an object type puts it in front of
\* those seen lately, each once; a link type is not remembered.
RecentWith(recent, r) ==
  LET moved == <<r>> \o SelectSeq(recent, LAMBDA q : q # r)
  IN  SubSeq(moved, 1, IF Len(moved) < MaxRecent THEN Len(moved) ELSE MaxRecent)

Visited(f, r) ==
  [f EXCEPT !.at = r, !.recent = IF f.page = "object" THEN RecentWith(@, r) ELSE @]

\* A link of the page, or the browser's way back: the page is another, the
\* fields are the same.
DetailVisit(r) ==
  /\ \E page \in {"object", "link"} : OnDetail(page)
  /\ ~form.deleting /\ r # form.at
  /\ form' = InlineDraft(form, Visited(form, r))
  /\ UNCHANGED <<calls, server>>

\* A card of the start page: the fields are mounted.  An object type that cannot
\* be loaded is no longer remembered.
RecentClick(r) ==
  /\ form.kind = "detail" /\ form.at = None
  /\ r \in ToSet(form.recent)
  /\ form' = IF r \in server.there
             THEN Taken([Visited(form, r) EXCEPT !.editing = FALSE])
             ELSE [form EXCEPT !.recent = SelectSeq(@, LAMBDA q : q # r)]
  /\ UNCHANGED <<calls, server>>

DetailLeave ==
  /\ \E page \in {"object", "link"} : OnDetail(page)
  /\ ~form.deleting /\ ~form.editing
  /\ form' = [form EXCEPT !.at = None]
  /\ UNCHANGED <<calls, server>>

\* Data that has been loaded again; a deleted one fails to load and stays shown.
DetailLoads(r) ==
  /\ form.kind = "detail" /\ r \in server.there
  /\ LET loaded == [form EXCEPT !.shown[r] = server.name[r],
                       !.known = IF r \in server.active THEN @ \cup {r} ELSE @ \ {r}]
     IN form' = IF r = form.at THEN InlineDraft(form, loaded) ELSE loaded
  /\ UNCHANGED <<calls, server>>

DeleteAsk ==
  /\ \E page \in {"object", "link"} : OnDetail(page)
  /\ form.at \notin form.known /\ ~form.editing
  /\ form' = [form EXCEPT !.deleting = TRUE]
  /\ UNCHANGED <<calls, server>>

DeleteCancel ==
  /\ form.kind = "detail" /\ form.deleting
  /\ form' = [form EXCEPT !.deleting = FALSE]
  /\ UNCHANGED <<calls, server>>

\* handleOk of either dialog.
DeleteObject ==
  /\ OnDetail("object") /\ form.deleting /\ ~\E i \in 1..Len(calls) : calls[i].ask = "delete"
  /\ DetailStart([ask |-> "delete", rid |-> form.at])
  /\ UNCHANGED <<form, server>>

DeleteLink ==
  /\ OnDetail("link") /\ form.deleting /\ ~\E i \in 1..Len(calls) : calls[i].ask = "delete"
  /\ DetailStart([ask |-> "delete", rid |-> form.at])
  /\ UNCHANGED <<form, server>>

\* The dialog is closed and the list is shown.
DetailDeleted(i) ==
  /\ form.kind = "detail" /\ Waiting(i, "done") /\ calls[i].ask = "delete"
  /\ form' = [form EXCEPT !.deleting = FALSE, !.at = None, !.editing = FALSE]
  /\ Return(i)
  /\ UNCHANGED server

DetailAnswered(i) ==
  /\ form.kind = "detail"
  /\ \/ Waiting(i, "failed")
     \/ Waiting(i, "done") /\ calls[i].ask # "delete"
  /\ Return(i)
  /\ UNCHANGED <<form, server>>

\* An active resource is not deleted.
DetailServe(i) ==
  /\ form.kind = "detail" /\ Waiting(i, "sent") /\ calls[i].rid \in server.there
  /\ CASE calls[i].ask = "rename" ->
            server' = [server EXCEPT !.name[calls[i].rid] = calls[i].name]
       [] calls[i].ask = "status" ->
            \E active \in {server.active \cup {calls[i].rid}, server.active \ {calls[i].rid}} :
              server' = [server EXCEPT !.active = active]
       [] calls[i].ask = "delete" ->
            /\ calls[i].rid \notin server.active
            /\ server' = [server EXCEPT !.there = @ \ {calls[i].rid}]
  /\ Answer(i, "done")
  /\ UNCHANGED form

\* Another user's page, or a discarded draft.
DetailElsewhere(r, name) ==
  /\ form.kind = "detail" /\ r \in server.there
  /\ server' = [server EXCEPT !.name[r] = name]
  /\ UNCHANGED <<form, calls>>

DetailInit ==
  /\ \E names \in [Resources -> Texts], page \in {"object", "link"}, r \in Resources :
       /\ form = DetailDefault(page, r, names)
       /\ server = [name |-> names, active |-> {}, there |-> Resources]
  /\ calls = <<>>

DetailNext ==
  \/ InlineEdit \/ InlineSave \/ InlineCancel \/ DetailStatus
  \/ \E text \in Texts \cup {None} : InlineType(text)
  \/ \E text \in Texts : LinkFieldType(text)
  \/ LinkFieldFocus \/ LinkFieldBlur
  \/ \E r \in Resources : DetailVisit(r) \/ RecentClick(r) \/ DetailLoads(r)
  \/ DetailLeave \/ DeleteAsk \/ DeleteCancel \/ DeleteObject \/ DeleteLink
  \/ \E i \in 1..MaxCalls : DetailDeleted(i) \/ DetailAnswered(i) \/ DetailServe(i)
  \/ \E r \in Resources, name \in Texts : DetailElsewhere(r, name)

DetailSpec ==
  DetailInit /\ [][DetailNext \/ \E i \in 1..MaxCalls : Refuse(i) \/ LoseAnswer(i)]_vars

-----------------------------------------------------------------------------
(* The dataset of an object type. *)

\* inUse is the list of datasets as it was loaded; chosen, the row that is
\* clicked, outlives the dialog.
SourceDefault(r) ==
  [kind |-> "datasource", at |-> r, source |-> None, inUse |-> {},
   selecting |-> FALSE, chosen |-> None]

OnSource == form.kind = "datasource"

InUse(s) == {s.source[r] : r \in Resources} \ {None}

SelectorOpen ==
  /\ OnSource /\ ~form.selecting
  /\ form' = [form EXCEPT !.selecting = TRUE]
  /\ UNCHANGED <<calls, server>>

\* A dataset in use can be chosen by the object type that uses it only.
SelectorChoose(d) ==
  /\ OnSource /\ form.selecting /\ (d \notin form.inUse \/ d = form.source)
  /\ form' = [form EXCEPT !.chosen = d]
  /\ UNCHANGED <<calls, server>>

SelectorCancel ==
  /\ OnSource /\ form.selecting
  /\ form' = [form EXCEPT !.selecting = FALSE]
  /\ UNCHANGED <<calls, server>>

\* handleSelect
SelectorConfirm ==
  /\ OnSource /\ form.selecting /\ form.chosen # None
  /\ DetailStart([ask |-> "select", dataset |-> form.chosen])
  /\ UNCHANGED <<form, server>>

SourceSelected(i) ==
  /\ OnSource /\ Waiting(i, "done") /\ calls[i].ask = "select"
  /\ form' = [form EXCEPT !.selecting = FALSE]
  /\ Return(i)
  /\ UNCHANGED server

\* handleRemove, after the question.
SourceRemove ==
  /\ OnSource /\ ~form.selecting /\ form.source # None
  /\ DetailStart([ask |-> "remove", dataset |-> None])
  /\ UNCHANGED <<form, server>>

\* The answer to a removal, and errors, which nobody catches.
SourceAnswered(i) ==
  /\ OnSource
  /\ Waiting(i, "failed") \/ (Waiting(i, "done") /\ calls[i].ask = "remove")
  /\ Return(i)
  /\ UNCHANGED <<form, server>>

SourceLoads ==
  /\ OnSource
  /\ form' = [form EXCEPT !.inUse = InUse(server), !.source = server.source[form.at]]
  /\ UNCHANGED <<calls, server>>

\* update of the object type: fields that are null are left out of the change.
SourceServe(i) ==
  /\ OnSource /\ Waiting(i, "sent")
  /\ server' = IF calls[i].dataset = None THEN server
               ELSE [server EXCEPT !.source[form.at] = calls[i].dataset]
  /\ Answer(i, "done")
  /\ UNCHANGED form

\* Another page, whose list is not out of date.
SourceElsewhere(r, d) ==
  /\ OnSource /\ r # form.at /\ d \notin InUse(server)
  /\ server' = [server EXCEPT !.source[r] = d]
  /\ UNCHANGED <<form, calls>>

SourceInit ==
  /\ \E r \in Resources : form = SourceDefault(r)
  /\ calls = <<>>
  /\ server = [source |-> [r \in Resources |-> None]]

SourceNext ==
  \/ SelectorOpen \/ SelectorCancel \/ SelectorConfirm \/ SourceRemove \/ SourceLoads
  \/ \E d \in Datasets : SelectorChoose(d)
  \/ \E i \in 1..MaxCalls : SourceSelected(i) \/ SourceAnswered(i) \/ SourceServe(i)
  \/ \E r \in Resources, d \in Datasets : SourceElsewhere(r, d)

-----------------------------------------------------------------------------
(* Properties. *)

\* A field of an object type that is left sends what the user has last typed in it since
\* it took the value that it shows, or that value, but without the blanks around it:
\* no old name is written over what another user made of it, or into another object
\* type.  Text stays in the field while the value is the same, also after a request
\* that failed, or on the page of another object type with that name.
InlineWritesTyped ==
  [][(OnDetail("object") /\ Len(calls') > Len(calls) /\ Last(calls').ask = "rename") =>
        \E text \in {form.typed, Shown} \ {None} : Last(calls').name = Trimmed(text)]_vars
=============================================================================
