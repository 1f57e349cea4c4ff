----------------------------- MODULE ChangeLog -----------------------------
(***************************************************************************)
(* The data of a draft and what the server computes from it, with no       *)
(* state of its own: the change record (app/domain/working_state.py), the  *)
(* collapsing of two changes to one resource, the merged view of the       *)
(* published tables and a draft, the cascade of an object type's deletion  *)
(* and the effect of applying a draft to the tables                        *)
(* (app/services/working_state_service.py, object_type_service.py).        *)
(*                                                                         *)
(* A resource's identity fixes its kind, the object type that owns a       *)
(* property and the object types a link type joins: no update request and  *)
(* no key map of publish can change them.  Everything else a resource      *)
(* holds is a function from Fields to Values; a field is a leaf of the     *)
(* JSON document, so merging documents in depth is overriding leaves.      *)
(* Two groups of fields are set apart because the tables do not keep them  *)
(* as they were written: what is never read back, and what refers to       *)
(* another row and is emptied when that row goes.                          *)
(* The list of changes is a set: its order only decides which of several   *)
(* rows of one kind is written first.                                      *)
(***************************************************************************)
EXTENDS Naturals, Sequences

CONSTANTS
  ObjectTypes, Properties, LinkTypes,   \* resource identifiers, by kind
  Owner,                                \* property -> its object type
  Ends,                                 \* link type -> the object types it joins
  Fields, Values,                       \* what a resource's document holds
  Unread,                               \* an object type's intended actions
  Pointers,                             \* a link type's backing object type and side links
  None,                                 \* null
  Absent                                \* no row with that identifier

Resources == ObjectTypes \cup Properties \cup LinkTypes
Content   == [Fields -> Values]
Patch     == UNION {[F -> Values] : F \in SUBSET Fields}
NoPatch   == [f \in {} |-> f]
Tables    == [Resources -> Content \cup {Absent}]

ASSUME KindsAssumption ==
  /\ ObjectTypes \cap Properties = {}
  /\ ObjectTypes \cap LinkTypes = {}
  /\ Properties \cap LinkTypes = {}

ASSUME ShapeAssumption ==
  /\ Owner \in [Properties -> ObjectTypes]
  /\ Ends \in [LinkTypes -> SUBSET ObjectTypes]

ASSUME AbsentAssumption == Absent \notin Content

\* A pointer may name any object type or link type, and properties never.
ASSUME FieldsAssumption ==
  /\ Unread \subseteq Fields /\ Pointers \subseteq Fields
  /\ None \in Values /\ None \notin Resources
  /\ Values \cap Properties = {}

\* The fields that a resource of r's kind has; the others are null.
FieldsOf(r) == Fields \ ((IF r \in ObjectTypes THEN {} ELSE Unread)
                          \cup (IF r \in LinkTypes THEN {} ELSE Pointers))

\* The object types whose rows the row of r refers to.
Refs(r) == IF r \in Properties THEN {Owner[r]}
           ELSE IF r \in LinkTypes THEN Ends[r]
           ELSE {}

\* One change.  "whole" says that the before image is the whole document and
\* not the few fields an update touched: only then does it name the owner.
Change == [rid: Resources, op: {"CREATE", "UPDATE", "DELETE"},
           before: Patch, whole: BOOLEAN, after: Patch]

Creation(r, content) ==
  [rid |-> r, op |-> "CREATE", before |-> NoPatch, whole |-> FALSE, after |-> content]

Update(r, data, patch) ==
  [rid |-> r, op |-> "UPDATE", before |-> [f \in DOMAIN patch |-> data[f]],
   whole |-> FALSE, after |-> patch]

Deletion(r, data) ==
  [rid |-> r, op |-> "DELETE", before |-> data, whole |-> TRUE, after |-> NoPatch]

\* A link type deleted along with one of its ends leaves only its rid behind.
BareDeletion(r) == [Deletion(r, NoPatch) EXCEPT !.whole = FALSE]

\* Changes such as requests make them: a creation holds a whole document.
WellFormed(changes) ==
  /\ changes \subseteq Change
  /\ \A c \in changes : c.op = "CREATE" => c.after \in Content

Rids(changes) == {c.rid : c \in changes}
ChangeTo(changes, r) == CHOOSE c \in changes : c.rid = r

OneChangeEach(changes) ==
  \A c, d \in changes : c.rid = d.rid => c = d

Override(base, patch) ==
  [f \in DOMAIN base \cup DOMAIN patch |->
     IF f \in DOMAIN patch THEN patch[f] ELSE base[f]]

-----------------------------------------------------------------------------
(* Collapsing *)

\* Mutants of Combined: deleting what the draft created leaves a deletion; a
\* deletion forgets what was published before the update it follows; a second
\* update drops the first; what is deleted cannot be updated any more.
CombinedWithoutCancelling(old, new) ==
  IF old.op # "DELETE" /\ new.op = "UPDATE"
    THEN {[old EXCEPT !.after = Override(old.after, new.after)]}
    ELSE {new}

CombinedWithLastBefore(old, new) ==
  IF old.op # "DELETE" /\ new.op = "UPDATE"
    THEN {[old EXCEPT !.after = Override(old.after, new.after)]}
  ELSE IF old.op = "CREATE" /\ new.op = "DELETE" THEN {}
  ELSE {new}

CombinedReplacing(old, new) ==
  IF old.op # "DELETE" /\ new.op = "UPDATE" THEN {[old EXCEPT !.after = new.after]}
  ELSE IF old.op = "CREATE" /\ new.op = "DELETE" THEN {}
  ELSE {new}

\* What remains of an earlier change and a later one to the same resource.
Combined(old, new) ==
  IF old.op \in {"CREATE", "UPDATE"} /\ new.op = "UPDATE"
    THEN {[old EXCEPT !.after = Override(old.after, new.after)]}
  ELSE IF old.op = "CREATE" /\ new.op = "DELETE"
    THEN {}
  ELSE IF old.op = "UPDATE" /\ new.op = "DELETE"
    THEN {[new EXCEPT !.before = old.before, !.whole = old.whole, !.after = NoPatch]}
  ELSE IF old.op = "DELETE" /\ new.op = "CREATE"
    THEN {[new EXCEPT !.op = "UPDATE", !.before = old.before, !.whole = old.whole]}
  ELSE IF old.op = "DELETE" /\ new.op = "DELETE"
    THEN {old}
  ELSE {new}

\* Mutant of Collapse: the new change is just added.
CollapseAppending(changes, new) == changes \cup {new}

Collapse(changes, new) ==
  IF new.rid \in Rids(changes)
    THEN LET old == ChangeTo(changes, new.rid)
         IN  (changes \ {old}) \cup Combined(old, new)
    ELSE changes \cup {new}

-----------------------------------------------------------------------------
(* The merged view, which is made of the tables as they are read: its "table" *)
(* is ReadBack of the real one                                                *)

\* What is not read is null.
WithoutUnread(data) == [f \in DOMAIN data |-> IF f \in Unread THEN None ELSE data[f]]

\* The rows as the storage classes read them.
ReadBack(table) ==
  [r \in Resources |-> IF r \in ObjectTypes /\ table[r] # Absent
                         THEN WithoutUnread(table[r]) ELSE table[r]]

ViewState(table, changes, r) ==
  LET op == IF r \in Rids(changes) THEN ChangeTo(changes, r).op ELSE "none"
  IN  IF table[r] # Absent
        THEN IF op = "UPDATE" THEN "modified"
             ELSE IF op = "DELETE" THEN "deleted"
             ELSE "published"
        ELSE IF op = "CREATE" THEN "created" ELSE "missing"

ViewData(table, changes, r) ==
  LET state == ViewState(table, changes, r)
  IN  IF state = "modified" THEN Override(table[r], ChangeTo(changes, r).after)
      ELSE IF state = "created" THEN ChangeTo(changes, r).after
      ELSE table[r]

\* What find_in_merged_view finds; a deleted resource is found too.
Found(table, changes) ==
  {r \in Resources : ViewState(table, changes, r) # "missing"}

\* What the lists show.
Visible(table, changes) ==
  {r \in Resources : ViewState(table, changes, r) \notin {"missing", "deleted"}}

\* The ontology as the draft shows it.
Shown(table, changes) ==
  [r \in Resources |-> IF r \in Visible(table, changes)
                         THEN ViewData(table, changes, r) ELSE Absent]

-----------------------------------------------------------------------------
(* Deleting an object type, and taking the deletion back *)

\* Every change a request to delete object type o makes: its published
\* properties, the published link types that join it, the drafted ones, itself.
ObjectTypeDeletion(table, changes, o) ==
  LET props  == {p \in Properties : table[p] # Absent /\ Owner[p] = o}
      links  == {l \in LinkTypes : table[l] # Absent /\ o \in Ends[l]}
      drafts == {c \in changes : /\ c.rid \in LinkTypes \ links
                                 /\ c.op = "CREATE"
                                 /\ o \in Ends[c.rid]}
  IN  {Deletion(p, table[p]) : p \in props}
        \cup {BareDeletion(l) : l \in links}
        \cup {Deletion(c.rid, c.after) : c \in drafts}
        \cup {Deletion(o, ViewData(table, changes, o))}

\* The changes that discarding change c removes from the draft.
DiscardedWith(table, changes, c) ==
  IF c.op = "DELETE" /\ c.rid \in ObjectTypes
    THEN {c} \cup
         {d \in changes :
            /\ d.op = "DELETE"
            /\ \/ d.rid \in Properties /\ d.whole /\ Owner[d.rid] = c.rid
               \/ d.rid \in LinkTypes /\ table[d.rid] # Absent /\ c.rid \in Ends[d.rid]}
    ELSE {c}

-----------------------------------------------------------------------------
(* Applying a draft to the tables *)

OfKind(changes, op) == {c.rid : c \in {d \in changes : d.op = op}}

\* Mutant of Applicable: the tables have no foreign keys.
ApplicableUnreferenced(table, changes) ==
  LET present == {r \in Resources : table[r] # Absent}
  IN  /\ OfKind(changes, "CREATE") \cap present = {}
      /\ OfKind(changes, "UPDATE") \subseteq present

\* What the pointers of a change to a link type name.
PointedAt(c) ==
  IF c.rid \in LinkTypes THEN {c.after[f] : f \in DOMAIN c.after \cap Pointers} \ {None}
                         ELSE {}

\* Every statement of publish succeeds: the rows it creates are new and refer
\* to rows there are, the rows it updates are there, and no link type is left
\* without an object type that it joins.
Applicable(table, changes) ==
  LET created == OfKind(changes, "CREATE")
      deleted == OfKind(changes, "DELETE")
      present == {r \in Resources : table[r] # Absent}
  IN  /\ created \cap present = {}
      /\ OfKind(changes, "UPDATE") \subseteq present
      /\ \A r \in created : Refs(r) \subseteq present \cup created
      /\ \A c \in changes : PointedAt(c) \subseteq present \cup created
      /\ \A o \in deleted \cap ObjectTypes \cap present :
           \A l \in (present \cup created) \cap LinkTypes :
             o \in Ends[l] => l \in deleted

\* The rows whose pointers are emptied because what they name is deleted.
PointingAt(table, gone) ==
  {l \in LinkTypes : table[l] # Absent /\ \E f \in Pointers : table[l][f] \in gone}

\* The rows that applying a draft writes or refers to.
Footprint(table, changes) ==
  Rids(changes)
    \cup (UNION {Refs(r) : r \in Rids(changes)})
    \cup (UNION {PointedAt(c) : c \in changes})
    \cup PointingAt(table, OfKind(changes, "DELETE"))

\* Mutant of Written: an update writes over only what it does not mention.
WrittenUnderneath(table, changes, r) ==
  IF r \notin Rids(changes) THEN table[r]
  ELSE IF table[r] = Absent THEN ChangeTo(changes, r).after
  ELSE Override(ChangeTo(changes, r).after, table[r])

\* What the row of r holds after the INSERT or UPDATE, if there is one.
Written(table, changes, r) ==
  IF r \notin Rids(changes) THEN table[r]
  ELSE IF table[r] = Absent THEN ChangeTo(changes, r).after
  ELSE Override(table[r], ChangeTo(changes, r).after)

\* ON DELETE SET NULL.
Emptied(data, gone) ==
  [f \in DOMAIN data |-> IF f \in Pointers /\ data[f] \in gone THEN None ELSE data[f]]

\* Mutants of Applied: the rows of an object type's properties stay; a deletion
\* of a row that is gone brings one back; pointers to a deleted row stay.
AppliedWithoutCascade(table, changes) ==
  [r \in Resources |->
     IF r \in OfKind(changes, "DELETE") THEN Absent ELSE Written(table, changes, r)]

AppliedReviving(table, changes) ==
  [r \in Resources |->
     IF r \in OfKind(changes, "DELETE") /\ table[r] # Absent
       THEN Absent ELSE Written(table, changes, r)]

AppliedKeepingPointers(table, changes) ==
  LET deleted == OfKind(changes, "DELETE")
  IN  [r \in Resources |->
         IF \/ r \in deleted
            \/ r \in Properties /\ Owner[r] \in deleted
           THEN Absent ELSE Written(table, changes, r)]

\* The tables afterwards: deleting an object type's row deletes the rows of its
\* properties, and deleting a row that link types point at empties their pointers.
Applied(table, changes) ==
  LET deleted == OfKind(changes, "DELETE")
  IN  [r \in Resources |->
         LET row == Written(table, changes, r)
         IN  IF \/ r \in deleted
                \/ r \in Properties /\ Owner[r] \in deleted
               THEN Absent
             ELSE IF r \in LinkTypes /\ row # Absent
               THEN Emptied(row, deleted)
             ELSE row]

\* No row of the tables refers to a row there is not.
ReferencesHold(table) ==
  /\ \A r \in Resources : table[r] # Absent => \A o \in Refs(r) : table[o] # Absent
  /\ \A l \in LinkTypes, f \in Pointers :
       table[l] # Absent /\ table[l][f] # None
         => table[l][f] \in Resources /\ table[table[l][f]] # Absent

-----------------------------------------------------------------------------
(* How a draft and its changes relate to the tables *)

\* The changes to one resource.
On(changes, r) == {c \in changes : c.rid = r}

\* What collapsing leaves of a new change and an earlier one to its resource.
Result(changes, new) ==
  IF new.rid \in Rids(changes) THEN Combined(ChangeTo(changes, new.rid), new) ELSE {new}

\* The before image of a change is what the table holds.
Remembers(table, c) == \A f \in DOMAIN c.before : c.before[f] = table[c.rid][f]

\* The draft creates what is not there, updates and deletes what is, and
\* remembers what was there.
Fits(table, changes) ==
  \A c \in changes :
    IF c.op = "CREATE" THEN table[c.rid] = Absent /\ c.after \in Content
                       ELSE table[c.rid] # Absent /\ Remembers(table, c)

\* A change that a request may make of what the draft shows: it creates what
\* neither has, updates and deletes what is found, and remembers what was there
\* unless an earlier change does.
Made(table, changes, c) ==
  IF c.op = "CREATE"
    THEN table[c.rid] = Absent /\ c.rid \notin Rids(changes)
    ELSE /\ c.rid \in Found(table, changes)
         /\ ViewState(table, changes, c.rid) \in {"published", "deleted"} => Remembers(table, c)
=============================================================================
