---------------------------- MODULE PropertyPages ----------------------------
(***************************************************************************)
(* The page of the properties of an object type: its table with operations *)
(* on the selected rows, the panel of one property, and the drawer for a   *)
(* new one.  The panel shows the property as it was when its row was       *)
(* clicked: what the panel offers may be out of date, and the server has   *)
(* the last word.                                                          *)
(***************************************************************************)
EXTENDS Screen

CONSTANTS
  Props,          \* properties of the object type
  PropertyKeys,   \* "primary", "title"
  TypedNames,     \* what may be typed as a name
  MaxEdits        \* bound: requests under way; others come from elsewhere

ASSUME PropertyNoneAssumption == None \notin Props \cup {"struct", "string", "array"}

PropertyStatuses == {"active", "experimental"}   \* deprecated: as experimental

\* The panel is closed when it holds None; active is what is known here of the
\* status of the object type.
PageDefault == [kind |-> "properties", active |-> FALSE, selected |-> {}, panel |-> None]

OnPage == form.kind = "properties"

PropertyStart(call) == Len(calls) < MaxEdits /\ Start(call)

Existing(s) == {p \in Props : s.props[p].there}

Protected(property) == property.status = "active" \/ property.keys # {}

\* The object type is loaded again.
PageRefresh ==
  /\ OnPage
  /\ form' = [form EXCEPT !.active = server.active]
  /\ UNCHANGED <<calls, server>>

-----------------------------------------------------------------------------
(* The table. *)

\* The filters of the page only choose which rows are shown; rows that a filter
\* hides afterwards stay selected.
RowSelect(p) ==
  /\ OnPage /\ form.panel = None /\ p \in Existing(server)
  /\ form' = [form EXCEPT !.selected = @ \cup {p}]
  /\ UNCHANGED <<calls, server>>

RowsDeselect ==
  /\ OnPage /\ form.panel = None /\ form.selected # {}
  /\ form' = [form EXCEPT !.selected = {}]
  /\ UNCHANGED <<calls, server>>

BatchStatus(status) ==
  /\ OnPage /\ form.panel = None /\ form.selected # {}
  /\ PropertyStart([ask |-> "batch status", rids |-> form.selected, value |-> status])
  /\ UNCHANGED <<form, server>>

BatchVisibility ==
  /\ OnPage /\ form.panel = None /\ form.selected # {}
  /\ PropertyStart([ask |-> "batch visibility", rids |-> form.selected])
  /\ UNCHANGED <<form, server>>

BatchDelete ==
  /\ OnPage /\ form.panel = None /\ form.selected # {}
  /\ PropertyStart([ask |-> "batch delete", rids |-> form.selected])
  /\ UNCHANGED <<form, server>>

\* A batch has been carried out: nothing is selected, also if rows have been
\* selected meanwhile.
BatchDone(i) ==
  /\ OnPage /\ Waiting(i, "done")
  /\ calls[i].ask \in {"batch status", "batch visibility", "batch delete"}
  /\ form' = [form EXCEPT !.selected = {}]
  /\ Return(i)
  /\ UNCHANGED server

\* handleDragEnd, handleReorder: not while rows are selected.
RowDrag ==
  /\ OnPage /\ form.panel = None /\ form.selected = {}
  /\ PropertyStart([ask |-> "reorder", rids |-> Existing(server)])
  /\ UNCHANGED <<form, server>>

\* A row is clicked: the panel keeps the property as the row shows it.
RowClick(p) ==
  /\ OnPage /\ form.panel = None /\ p \in Existing(server)
  /\ form' = [form EXCEPT !.panel = With(server.props[p], "rid", p)]
  /\ UNCHANGED <<calls, server>>

-----------------------------------------------------------------------------
(* The panel. *)

PanelShown == OnPage /\ form.panel # None

\* A request of the panel, whose outcome is told and leaves the panel as it is.
PanelAsk(call) ==
  /\ PropertyStart(With(call, "rids", {form.panel.rid}))
  /\ UNCHANGED <<form, server>>

PanelRename == PanelShown /\ PanelAsk([ask |-> "edit"])

\* The API name, while the panel does not show the property as active.
PanelRenameApi ==
  PanelShown /\ form.panel.status # "active" /\ PanelAsk([ask |-> "edit api"])

PanelStatus(status) == PanelShown /\ PanelAsk([ask |-> "status", value |-> status])

\* A button sets the key or, if the panel shows the property as the key, unsets it.
PanelKey(key) ==
  /\ PanelShown
  /\ key = "primary" /\ key \notin form.panel.keys => ~form.active
  /\ PanelAsk([ask |-> "key", key |-> key, value |-> key \notin form.panel.keys])

PanelMapColumn == PanelShown /\ PanelAsk([ask |-> "edit"])

PanelVisibility == PanelShown /\ PanelAsk([ask |-> "edit"])

PanelDelete ==
  /\ PanelShown /\ form.panel.status # "active" /\ "primary" \notin form.panel.keys
  /\ PanelAsk([ask |-> "delete"])

PanelClose ==
  /\ PanelShown
  /\ form' = [form EXCEPT !.panel = None]
  /\ UNCHANGED <<calls, server>>

\* The property has been deleted: the panel is closed, whatever it shows now.
PanelDeleted(i) ==
  /\ OnPage /\ Waiting(i, "done") /\ calls[i].ask = "delete"
  /\ form' = [form EXCEPT !.panel = None]
  /\ Return(i)
  /\ UNCHANGED server

\* Other answers, and all errors: a message is shown.
PageAnswered(i) ==
  /\ OnPage
  /\ \/ Waiting(i, "failed")
     \/ /\ Waiting(i, "done")
        /\ calls[i].ask \in {"edit", "edit api", "status", "key", "reorder"}
  /\ Return(i)
  /\ UNCHANGED <<form, server>>

-----------------------------------------------------------------------------
(* The server.  props, keyOf and active are what the draft shows of the properties,
   and of the object type's keys and status; published is what it shows without its
   changes.  torn is history: a change was taken back without the change of the
   other record that was made with it. *)

Gone == [there |-> FALSE, status |-> "experimental", keys |-> {}]

\* _find_property_in_merged_view: a property that the draft deletes is still found,
\* as it is published.
Found(s, p) == IF s.props[p].there THEN s.props[p] ELSE s.published.props[p]

\* An update of a deleted property takes the place of its deletion: the property is
\* back as published, with its keys, which the object type has lost.
Revived(s, p) ==
  [s EXCEPT !.props[p] = Found(s, p),
            !.torn = @ \/ (p \notin Existing(s) /\ Found(s, p).keys # {})]

\* update: the key is taken from the property that had it, and the object type
\* names the new one.
WithKey(s, p, key) ==
  [s EXCEPT !.props = [q \in Props |-> [s.props[q] EXCEPT
                         !.keys = IF q = p THEN @ \cup {key} ELSE @ \ {key}]],
            !.keyOf[key] = p]

\* Only a property that is the key is taken out of the object type.
WithoutKey(s, p, key) ==
  IF key \in s.props[p].keys
  THEN [s EXCEPT !.props[p].keys = @ \ {key}, !.keyOf[key] = None]
  ELSE s

\* batch_update leaves out properties that it does not find, deleted ones included.
WithStatus(s, ps, status) ==
  [s EXCEPT !.props = [q \in Props |->
     IF q \in ps \cap Existing(s) THEN [s.props[q] EXCEPT !.status = status]
     ELSE s.props[q]]]

\* Mutant of Deletable: a key may be deleted.
DeletableKey(s, ps) == {p \in ps \cap Existing(s) : s.props[p].status # "active"}

\* delete and batch_delete: neither active properties nor keys.
Deletable(s, ps) == {p \in ps \cap Existing(s) : ~Protected(s.props[p])}

WithoutProps(s, ps) ==
  [s EXCEPT !.props = [q \in Props |->
     IF q \in Deletable(s, ps) THEN Gone ELSE s.props[q]]]

\* update of one property, which the draft may delete.
Updated(s, p, c) ==
  LET t == Revived(s, p) IN
  CASE c.ask = "status" -> WithStatus(t, {p}, c.value)
    [] c.ask = "key" /\ c.value -> WithKey(t, p, c.key)
    [] c.ask = "key" /\ ~c.value -> WithoutKey(t, p, c.key)
    [] OTHER -> t

UpdateAllowed(s, p, c) ==
  /\ Found(s, p).there
  /\ (c.ask = "key" /\ c.value /\ c.key = "primary") => ~s.active
  /\ c.ask = "edit api" => Found(s, p).status # "active"

\* delete: a property that is deleted already is judged as published and stays so.
DeleteAllowed(s, p) == Found(s, p).there /\ ~Protected(Found(s, p))

\* A batch leaves out what it must not change; a single request is refused.  The
\* server carries out one request after another.
PropertyServe(i) ==
  /\ OnPage /\ Waiting(i, "sent")
  /\ LET c == calls[i] IN
     \/ /\ c.ask \in {"edit", "edit api", "status", "key"}
        /\ \E p \in Props : /\ c.rids = {p} /\ UpdateAllowed(server, p, c)
                           /\ server' = Updated(server, p, c)
     \/ /\ c.ask = "delete" /\ \A p \in c.rids : DeleteAllowed(server, p)
        /\ server' = WithoutProps(server, c.rids)
     \/ c.ask = "batch status" /\ server' = WithStatus(server, c.rids, c.value)
     \/ c.ask = "batch delete" /\ server' = WithoutProps(server, c.rids)
     \/ c.ask = "reorder" /\ c.rids \subseteq Existing(server) /\ UNCHANGED server
     \/ c.ask = "batch visibility" /\ UNCHANGED server
  /\ Answer(i, "done")
  /\ UNCHANGED form

\* The same requests come from another page, with a panel of its own, for a property
\* that exists.
PropertyElsewhere(p) ==
  /\ OnPage /\ p \in Existing(server)
  /\ \/ \E status \in PropertyStatuses : server' = WithStatus(server, {p}, status)
     \/ \E key \in PropertyKeys :
          \/ (key = "primary" => ~server.active) /\ server' = WithKey(server, p, key)
          \/ server' = WithoutKey(server, p, key)
     \/ server' = WithoutProps(server, {p})
     \/ server' = [server EXCEPT !.active = ~@]
  /\ UNCHANGED <<form, calls>>

\* The draft is discarded, all of it or the change of one record alone: of a
\* property, or of the object type if that is published.
DraftDiscard(s) ==
  [s EXCEPT !.props = s.published.props, !.keyOf = s.published.keyOf,
            !.active = s.published.active]

PropertyDiscard(s, p) ==
  [s EXCEPT !.props[p] = s.published.props[p],
            !.torn = @ \/ s.props[p].keys # s.published.props[p].keys]

ObjectTypeDiscard(s) ==
  [s EXCEPT !.keyOf = s.published.keyOf, !.active = s.published.active,
            !.torn = @ \/ s.keyOf # s.published.keyOf]

DiscardElsewhere ==
  /\ OnPage
  /\ \/ server' = DraftDiscard(server)
     \/ \E p \in Props : server' = PropertyDiscard(server, p)
     \/ /\ \E p \in Props : server.published.props[p].there
        /\ server' = ObjectTypeDiscard(server)
  /\ UNCHANGED <<form, calls>>

\* A published object type has both keys: it would not have been published without.
\* Properties that are not published, all of them if the object type is not, have
\* been created in the draft.
PageInit ==
  /\ form = PageDefault /\ calls = <<>>
  /\ \E rows \in SUBSET Props :
       \E keyOf \in [PropertyKeys -> IF rows = {} THEN {None} ELSE rows] :
         LET property(p) == [there |-> TRUE, status |-> "experimental",
                             keys |-> {key \in PropertyKeys : keyOf[key] = p}]
         IN  server = [props |-> [p \in Props |-> property(p)],
                       keyOf |-> keyOf, active |-> FALSE, torn |-> FALSE,
                       published |->
                         [props |-> [p \in Props |-> IF p \in rows THEN property(p) ELSE Gone],
                          keyOf |-> keyOf, active |-> FALSE]]

PageNext ==
  \/ \E p \in Props : RowSelect(p) \/ RowClick(p) \/ PropertyElsewhere(p)
  \/ DiscardElsewhere \/ PageRefresh \/ RowsDeselect \/ BatchVisibility \/ BatchDelete \/ RowDrag
  \/ \E status \in PropertyStatuses : BatchStatus(status) \/ PanelStatus(status)
  \/ PanelRename \/ PanelRenameApi \/ PanelMapColumn \/ PanelVisibility
  \/ \E key \in PropertyKeys : PanelKey(key)
  \/ PanelDelete \/ PanelClose
  \/ \E i \in 1..MaxCalls :
       BatchDone(i) \/ PanelDeleted(i) \/ PageAnswered(i) \/ PropertyServe(i)

PageSpec ==
  PageInit /\ [][PageNext \/ \E i \in 1..MaxCalls : Refuse(i) \/ LoseAnswer(i)]_vars

-----------------------------------------------------------------------------
(* The drawer for a new property.  A struct has fields, any other type may be
   taken as the type of the elements of an array. *)

\* struct and multiple are the values of fields that are shown for some types
\* only; the form keeps them while they are not shown.
DrawerDefault ==
  [kind |-> "new property", open |-> FALSE, name |-> None, api |-> None,
   type |-> None, struct |-> FALSE, multiple |-> FALSE]

DrawerShown == form.kind = "new property" /\ form.open

DrawerOpen ==
  /\ form.kind = "new property" /\ ~form.open
  /\ form' = [form EXCEPT !.open = TRUE]
  /\ UNCHANGED <<calls, server>>

\* The effect that resets the fields runs when the drawer is closed.
DrawerClose ==
  /\ DrawerShown
  /\ form' = DrawerDefault
  /\ UNCHANGED <<calls, server>>

\* handleDisplayNameChange: when it runs the form has the new display name
\* already.  A name stands for the API name that is proposed for it, too.
DrawerTypeName(name) ==
  /\ DrawerShown
  /\ form' = [form EXCEPT !.name = name,
                          !.api = IF @ = None \/ @ = name THEN name ELSE @]
  /\ UNCHANGED <<calls, server>>

DrawerTypeApiName(name) ==
  /\ DrawerShown
  /\ form' = [form EXCEPT !.api = name]
  /\ UNCHANGED <<calls, server>>

DrawerChooseType(type) ==
  /\ DrawerShown
  /\ form' = [form EXCEPT !.type = type]
  /\ UNCHANGED <<calls, server>>

DrawerEditStruct ==
  /\ DrawerShown /\ form.type = "struct"
  /\ form' = [form EXCEPT !.struct = TRUE]
  /\ UNCHANGED <<calls, server>>

DrawerAllowMultiple ==
  /\ DrawerShown /\ form.type \notin {None, "struct"}
  /\ form' = [form EXCEPT !.multiple = ~@]
  /\ UNCHANGED <<calls, server>>

\* validateFields returns the values of the fields that are shown.
DrawerRequest(f) ==
  LET array == f.multiple /\ f.type # "struct"
  IN  [type |-> IF array THEN "array" ELSE f.type,
       inner |-> IF array THEN f.type ELSE None,
       struct |-> f.type = "struct" /\ f.struct]

\* handleSubmit: names and type are required; the button loads while the
\* request is pending.
DrawerSubmit ==
  /\ DrawerShown /\ form.name # None /\ form.api # None /\ form.type # None
  /\ calls = <<>> /\ Start([ask |-> "create", request |-> DrawerRequest(form)])
  /\ UNCHANGED <<form, server>>

\* A struct without fields is refused.
DrawerServe(i) ==
  /\ form.kind = "new property" /\ Waiting(i, "sent")
  /\ calls[i].request.type = "struct" => calls[i].request.struct
  /\ server' = Append(server, calls[i].request)
  /\ Len(server) < MaxEdits   \* a bound
  /\ Answer(i, "done")
  /\ UNCHANGED form

\* The drawer is closed, also if it has been opened again meanwhile.
DrawerCreated(i) ==
  /\ form.kind = "new property" /\ Waiting(i, "done")
  /\ form' = DrawerDefault
  /\ Return(i)
  /\ UNCHANGED server

DrawerFailed(i) ==
  /\ form.kind = "new property" /\ Waiting(i, "failed")
  /\ Return(i)
  /\ UNCHANGED <<form, server>>

DrawerInit == form = DrawerDefault /\ calls = <<>> /\ server = <<>>

DrawerNext ==
  \/ DrawerOpen \/ DrawerClose \/ DrawerEditStruct \/ DrawerAllowMultiple
  \/ \E name \in TypedNames : DrawerTypeName(name) \/ DrawerTypeApiName(name)
  \/ \E type \in {"struct", "string"} : DrawerChooseType(type)
  \/ DrawerSubmit
  \/ \E i \in 1..MaxCalls : DrawerServe(i) \/ DrawerCreated(i) \/ DrawerFailed(i)

-----------------------------------------------------------------------------
(* Properties. *)

\* Whatever panels with out-of-date buttons, batches and other pages ask for: an
\* object type has at most one property for each key, and its own record of the key
\* names just that property, which exists.  It takes one of two things to part them:
\* a panel's late update that brings a deleted property back with the keys it had as
\* published, or discarding one of the two changes that a key is set or unset by.
KeysAgree ==
  OnPage /\ ~server.torn =>
    \A key \in PropertyKeys :
      {p \in Existing(server) : key \in server.props[p].keys}
        = {server.keyOf[key]} \ {None}

\* Each object type has one primary key and one title key at most.
OneForEachKey ==
  OnPage =>
    \A key \in PropertyKeys : \A p, q \in Existing(server) :
      key \in server.props[p].keys \cap server.props[q].keys => p = q
=============================================================================
