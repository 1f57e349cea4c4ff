-------------------------- MODULE ChangeLog_proofs --------------------------
(* What the operators of ChangeLog return, preserve and rely on. *)
EXTENDS ChangeLog, TLAPS

-----------------------------------------------------------------------------
(* Documents and changes *)

\* A document is a patch of all fields.
LEMMA ContentIsPatch == Content \subseteq Patch
BY DEF Content, Patch

LEMMA NoPatchIsPatch == NoPatch \in Patch
<1>1. NoPatch \in [{} -> Values]
  BY DEF NoPatch
<1> QED
  BY <1>1 DEF Patch

\* Merging two patches gives a patch, and merging into a document a document.
LEMMA OverrideType ==
  ASSUME NEW base \in Patch, NEW patch \in Patch
  PROVE  /\ Override(base, patch) \in Patch
         /\ base \in Content => Override(base, patch) \in Content
<1>1. PICK F \in SUBSET Fields : base \in [F -> Values]
  BY DEF Patch
<1>2. PICK G \in SUBSET Fields : patch \in [G -> Values]
  BY DEF Patch
<1>3. Override(base, patch) \in [F \cup G -> Values]
  BY <1>1, <1>2 DEF Override
<1>4. F \cup G \in SUBSET Fields
  OBVIOUS
<1>5. Override(base, patch) \in Patch
  BY <1>3, <1>4 DEF Patch
<1>6. ASSUME base \in Content PROVE Override(base, patch) \in Content
  <2>1. F = Fields
    BY <1>1, <1>6 DEF Content
  <2> QED
    BY <1>3, <1>4, <2>1 DEF Content
<1> QED
  BY <1>5, <1>6

LEMMA ChangeToIn ==
  ASSUME NEW changes, NEW r \in Rids(changes)
  PROVE  ChangeTo(changes, r) \in changes /\ ChangeTo(changes, r).rid = r
BY DEF Rids, ChangeTo

\* What every request makes of a resource is a change.
LEMMA ChangesMade ==
  ASSUME NEW r \in Resources
  PROVE  /\ \A content \in Content : WellFormed({Creation(r, content)})
         /\ \A data \in Patch : /\ Deletion(r, data) \in Change
                                /\ Deletion(r, data).op = "DELETE"
                                /\ Deletion(r, data).rid = r
         /\ BareDeletion(r) \in Change /\ BareDeletion(r).op = "DELETE"
         /\ BareDeletion(r).rid = r
<1>1. ASSUME NEW content \in Content PROVE WellFormed({Creation(r, content)})
  BY ContentIsPatch, NoPatchIsPatch DEF WellFormed, Creation, Change
<1>2. ASSUME NEW data \in Patch
      PROVE  /\ Deletion(r, data) \in Change /\ Deletion(r, data).op = "DELETE"
             /\ Deletion(r, data).rid = r
  BY NoPatchIsPatch DEF Deletion, Change
<1>3. /\ BareDeletion(r) \in Change /\ BareDeletion(r).op = "DELETE"
      /\ BareDeletion(r).rid = r
  BY NoPatchIsPatch DEF BareDeletion, Deletion, Change
<1> QED
  BY <1>1, <1>2, <1>3

\* An update of part of a document is a change.
LEMMA UpdateType ==
  ASSUME NEW r \in Resources, NEW data \in Content, NEW patch \in Patch
  PROVE  WellFormed({Update(r, data, patch)})
<1>1. PICK F \in SUBSET Fields : patch \in [F -> Values]
  BY DEF Patch
<1>2. [f \in DOMAIN patch |-> data[f]] \in [F -> Values]
  BY <1>1 DEF Content
<1>3. [f \in DOMAIN patch |-> data[f]] \in Patch
  BY <1>2 DEF Patch
<1> QED
  BY <1>3 DEF Update, WellFormed, Change

-----------------------------------------------------------------------------
(* Collapsing *)

\* Of two changes to one resource at most one is left, to that resource.
LEMMA CombinedType ==
  ASSUME NEW old \in Change, NEW new \in Change, old.rid = new.rid,
         WellFormed({old}), WellFormed({new})
  PROVE  /\ WellFormed(Combined(old, new))
         /\ \A c, d \in Combined(old, new) : c = d
         /\ \A c \in Combined(old, new) : c.rid = new.rid
<1>1. CASE old.op \in {"CREATE", "UPDATE"} /\ new.op = "UPDATE"
  <2>1. Override(old.after, new.after) \in Patch
    BY OverrideType DEF Change
  <2>2. old.op = "CREATE" => Override(old.after, new.after) \in Content
    BY OverrideType DEF Change, WellFormed
  <2>3. Combined(old, new) = {[old EXCEPT !.after = Override(old.after, new.after)]}
    BY <1>1 DEF Combined
  <2> QED
    BY <2>1, <2>2, <2>3 DEF WellFormed, Change
<1>2. CASE old.op = "CREATE" /\ new.op = "DELETE"
  BY <1>2 DEF Combined, WellFormed
<1>3. CASE old.op = "UPDATE" /\ new.op = "DELETE"
  <2>1. Combined(old, new)
          = {[new EXCEPT !.before = old.before, !.whole = old.whole, !.after = NoPatch]}
    BY <1>3 DEF Combined
  <2> QED
    BY <1>3, <2>1, NoPatchIsPatch DEF WellFormed, Change
<1>4. CASE old.op = "DELETE" /\ new.op = "CREATE"
  <2>1. Combined(old, new)
          = {[new EXCEPT !.op = "UPDATE", !.before = old.before, !.whole = old.whole]}
    BY <1>4 DEF Combined
  <2> QED
    BY <1>4, <2>1 DEF WellFormed, Change
<1>5. CASE old.op = "DELETE" /\ new.op = "DELETE"
  BY <1>5 DEF Combined, WellFormed
<1>6. CASE /\ ~ (old.op \in {"CREATE", "UPDATE"} /\ new.op = "UPDATE")
           /\ ~ (old.op = "CREATE" /\ new.op = "DELETE")
           /\ ~ (old.op = "UPDATE" /\ new.op = "DELETE")
           /\ ~ (old.op = "DELETE" /\ new.op = "CREATE")
           /\ ~ (old.op = "DELETE" /\ new.op = "DELETE")
  <2>1. Combined(old, new) = {new}
    BY <1>6 DEF Combined
  <2> QED
    BY <2>1
<1> QED
  BY <1>1, <1>2, <1>3, <1>4, <1>5, <1>6

\* Collapsing keeps one change to a resource, and every change to another.
LEMMA CollapseType ==
  ASSUME NEW changes, NEW new, WellFormed(changes), WellFormed({new}),
         OneChangeEach(changes)
  PROVE  /\ WellFormed(Collapse(changes, new))
         /\ OneChangeEach(Collapse(changes, new))
         /\ \A c \in changes : c.rid # new.rid => c \in Collapse(changes, new)
<1>1. CASE new.rid \in Rids(changes)
  <2> DEFINE old == ChangeTo(changes, new.rid)
  <2>1. old \in changes /\ old.rid = new.rid
    BY <1>1, ChangeToIn
  <2>2. Collapse(changes, new) = (changes \ {old}) \cup Combined(old, new)
    BY <1>1 DEF Collapse
  <2>3. WellFormed({old}) /\ old \in Change /\ new \in Change
    BY <2>1 DEF WellFormed
  <2>4. /\ WellFormed(Combined(old, new))
        /\ \A c, d \in Combined(old, new) : c = d
        /\ \A c \in Combined(old, new) : c.rid = new.rid
    BY <2>1, <2>3, CombinedType
  <2>5. \A c \in changes \ {old} : c.rid # new.rid
    BY <2>1 DEF OneChangeEach
  <2> HIDE DEF old
  <2>6. WellFormed(Collapse(changes, new))
    BY <2>2, <2>4 DEF WellFormed
  <2>7. OneChangeEach(Collapse(changes, new))
    BY <2>2, <2>4, <2>5 DEF OneChangeEach
  <2> QED
    BY <2>1, <2>2, <2>6, <2>7
<1>2. CASE new.rid \notin Rids(changes)
  <2>1. Collapse(changes, new) = changes \cup {new}
    BY <1>2 DEF Collapse
  <2>2. \A c \in changes : c.rid # new.rid
    BY <1>2 DEF Rids
  <2> QED
    BY <2>1, <2>2 DEF WellFormed, OneChangeEach
<1> QED
  BY <1>1, <1>2

-----------------------------------------------------------------------------
(* The merged view, and the deletion of an object type *)

\* What the merged view finds it shows as a whole document.
LEMMA ViewDataType ==
  ASSUME NEW table \in Tables, NEW changes, WellFormed(changes),
         NEW r \in Found(table, changes)
  PROVE  r \in Resources /\ ViewData(table, changes, r) \in Content
<1>1. r \in Resources /\ ViewState(table, changes, r) # "missing"
  BY DEF Found
<1>2. ASSUME r \in Rids(changes)
      PROVE  /\ ChangeTo(changes, r) \in Change
             /\ ChangeTo(changes, r).after \in Patch
             /\ ChangeTo(changes, r).op = "CREATE" => ChangeTo(changes, r).after \in Content
  BY <1>2, ChangeToIn DEF WellFormed, Change
<1>3. CASE table[r] # Absent
  <2>1. table[r] \in Content
    BY <1>1, <1>3 DEF Tables
  <2>2. ViewState(table, changes, r) = "modified" => r \in Rids(changes)
    BY <1>3 DEF ViewState
  <2>3. ViewState(table, changes, r) # "created"
    BY <1>3 DEF ViewState
  <2>4. r \in Rids(changes) => Override(table[r], ChangeTo(changes, r).after) \in Content
    BY <1>2, <2>1, OverrideType, ContentIsPatch
  <2> QED
    BY <1>1, <2>1, <2>2, <2>3, <2>4 DEF ViewData
<1>4. CASE table[r] = Absent
  <2>1. ViewState(table, changes, r) = "created"
    BY <1>1, <1>4 DEF ViewState
  <2>2. r \in Rids(changes) /\ ChangeTo(changes, r).op = "CREATE"
    BY <1>4, <2>1 DEF ViewState
  <2> QED
    BY <1>1, <1>2, <2>1, <2>2 DEF ViewData
<1> QED
  BY <1>3, <1>4

\* The deletion of an object type consists of deletions.
LEMMA ObjectTypeDeletionType ==
  ASSUME NEW table \in Tables, NEW changes, WellFormed(changes),
         NEW o \in Found(table, changes) \cap ObjectTypes
  PROVE  WellFormed(ObjectTypeDeletion(table, changes, o))
<1> DEFINE props  == {p \in Properties : table[p] # Absent /\ Owner[p] = o}
           links  == {l \in LinkTypes : table[l] # Absent /\ o \in Ends[l]}
           drafts == {c \in changes : /\ c.rid \in LinkTypes \ links
                                      /\ c.op = "CREATE"
                                      /\ o \in Ends[c.rid]}
<1>1. ASSUME NEW p \in props
      PROVE  Deletion(p, table[p]) \in Change /\ Deletion(p, table[p]).op = "DELETE"
  <2>1. p \in Resources /\ table[p] \in Patch
    BY ContentIsPatch DEF Resources, Tables
  <2> QED
    BY <2>1, ChangesMade
<1>2. ASSUME NEW l \in links
      PROVE  BareDeletion(l) \in Change /\ BareDeletion(l).op = "DELETE"
  <2>1. l \in Resources
    BY DEF Resources
  <2> QED
    BY <2>1, ChangesMade
<1>3. ASSUME NEW c \in drafts
      PROVE  Deletion(c.rid, c.after) \in Change /\ Deletion(c.rid, c.after).op = "DELETE"
  <2>1. c.rid \in Resources /\ c.after \in Patch
    BY DEF WellFormed, Change
  <2> QED
    BY <2>1, ChangesMade
<1>4. /\ Deletion(o, ViewData(table, changes, o)) \in Change
      /\ Deletion(o, ViewData(table, changes, o)).op = "DELETE"
  <2>1. o \in Resources /\ ViewData(table, changes, o) \in Patch
    BY ViewDataType, ContentIsPatch
  <2> QED
    BY <2>1, ChangesMade
<1>5. ObjectTypeDeletion(table, changes, o)
        = {Deletion(p, table[p]) : p \in props}
            \cup {BareDeletion(l) : l \in links}
            \cup {Deletion(c.rid, c.after) : c \in drafts}
            \cup {Deletion(o, ViewData(table, changes, o))}
  BY DEF ObjectTypeDeletion
<1> HIDE DEF props, links, drafts
<1> QED
  BY <1>1, <1>2, <1>3, <1>4, <1>5 DEF WellFormed

-----------------------------------------------------------------------------
(* Applying a draft *)

\* Emptying fields leaves a document a document.
LEMMA EmptiedType ==
  ASSUME NEW data \in Content
  PROVE  /\ \A gone : Emptied(data, gone) \in Content
         /\ WithoutUnread(data) \in Content
BY FieldsAssumption DEF Content, Emptied, WithoutUnread

\* What an INSERT or an UPDATE leaves in a row.
LEMMA WrittenRow ==
  ASSUME NEW table \in Tables, NEW changes, WellFormed(changes),
         OneChangeEach(changes), Applicable(table, changes),
         NEW r \in Resources, r \notin OfKind(changes, "DELETE")
  PROVE  /\ Written(table, changes, r) \in Content \cup {Absent}
         /\ Written(table, changes, r) = Absent <=>
              table[r] = Absent /\ r \notin OfKind(changes, "CREATE")
<1> DEFINE row == Written(table, changes, r)
<1>1. row = IF r \notin Rids(changes) THEN table[r]
            ELSE IF table[r] = Absent THEN ChangeTo(changes, r).after
            ELSE Override(table[r], ChangeTo(changes, r).after)
  BY DEF Written
<1>2. OfKind(changes, "CREATE") \subseteq Rids(changes)
  BY DEF OfKind, Rids
<1>3. table[r] \in Content \cup {Absent}
  BY DEF Tables
<1>5. CASE r \notin Rids(changes)
  BY <1>1, <1>2, <1>3, <1>5
<1>6. CASE r \in Rids(changes)
  <2> DEFINE c == ChangeTo(changes, r)
  <2>1. c \in changes /\ c.rid = r
    BY <1>6, ChangeToIn
  <2>2. c.op \in {"CREATE", "UPDATE", "DELETE"} /\ c.after \in Patch
    BY <2>1 DEF WellFormed, Change
  <2>3. r \in OfKind(changes, c.op)
    BY <2>1 DEF OfKind
  <2>4. c.op # "DELETE"
    BY <2>3
  <2>5. CASE table[r] = Absent
    <3>1. c.op # "UPDATE"
      BY <2>3, <2>5 DEF Applicable
    <3>2. c.op = "CREATE" /\ c.after \in Content
      BY <2>1, <2>2, <2>4, <3>1 DEF WellFormed
    <3> QED
      BY <1>1, <1>6, <2>3, <2>5, <3>2, AbsentAssumption
  <2>6. CASE table[r] # Absent
    <3>1. Override(table[r], c.after) \in Content
      BY <1>3, <2>2, <2>6, OverrideType, ContentIsPatch
    <3> QED
      BY <1>1, <1>6, <2>6, <3>1, AbsentAssumption
  <2> QED
    BY <2>5, <2>6
<1> QED
  BY <1>5, <1>6

\* What a resource that the draft changes ends up with.
LEMMA AppliedRow ==
  ASSUME NEW table \in Tables, NEW changes, WellFormed(changes),
         OneChangeEach(changes), Applicable(table, changes),
         NEW r \in Resources
  PROVE  /\ Applied(table, changes)[r] \in Content \cup {Absent}
         /\ Applied(table, changes)[r] = Absent <=>
              \/ r \in OfKind(changes, "DELETE")
              \/ r \in Properties /\ Owner[r] \in OfKind(changes, "DELETE")
              \/ table[r] = Absent /\ r \notin OfKind(changes, "CREATE")
<1> DEFINE deleted == OfKind(changes, "DELETE")
           gone == r \in deleted \/ (r \in Properties /\ Owner[r] \in deleted)
           row == Written(table, changes, r)
<1>1. Applied(table, changes)[r]
        = IF gone THEN Absent
          ELSE IF r \in LinkTypes /\ row # Absent THEN Emptied(row, deleted)
          ELSE row
  BY DEF Applied
<1>2. CASE gone
  BY <1>1, <1>2
<1>3. CASE ~gone
  <2>1. /\ row \in Content \cup {Absent}
        /\ row = Absent <=> table[r] = Absent /\ r \notin OfKind(changes, "CREATE")
    BY <1>3, WrittenRow
  <2>2. row # Absent => Emptied(row, deleted) \in Content
    BY <2>1, EmptiedType
  <2> HIDE DEF row, deleted
  <2> QED
    BY <1>1, <1>3, <2>1, <2>2, AbsentAssumption DEF deleted
<1> QED
  BY <1>2, <1>3

\* Properties are never pointed at.
LEMMA PointersType ==
  ASSUME NEW table \in Tables, NEW changes, WellFormed(changes)
  PROVE  /\ \A c \in changes : \A x \in PointedAt(c) : x \notin Properties
         /\ \A l \in LinkTypes, f \in Pointers :
              table[l] # Absent => table[l][f] \notin Properties
<1>1. ASSUME NEW c \in changes, NEW x \in PointedAt(c) PROVE x \notin Properties
  <2>1. c.after \in Patch
    BY DEF WellFormed, Change
  <2>2. PICK f \in DOMAIN c.after : x = c.after[f]
    BY DEF PointedAt
  <2> QED
    BY <2>1, <2>2, FieldsAssumption DEF Patch
<1>2. ASSUME NEW l \in LinkTypes, NEW f \in Pointers, table[l] # Absent
      PROVE  table[l][f] \notin Properties
  <2>1. table[l] \in Content /\ f \in Fields
    BY <1>2, FieldsAssumption DEF Tables, Resources
  <2> QED
    BY <2>1, FieldsAssumption DEF Content
<1> QED
  BY <1>1, <1>2

\* What a pointer of a link type names once it is written: what the draft has it
\* name, or what it named.
LEMMA WrittenPointer ==
  ASSUME NEW table \in Tables, NEW changes, WellFormed(changes),
         OneChangeEach(changes), Applicable(table, changes),
         NEW l \in LinkTypes, NEW f \in Pointers,
         l \notin OfKind(changes, "DELETE"),
         Written(table, changes, l) # Absent, Written(table, changes, l)[f] # None
  PROVE  LET x == Written(table, changes, l)[f]
         IN  \/ \E c \in changes : x \in PointedAt(c)
             \/ table[l] # Absent /\ x = table[l][f]
<1> DEFINE row == Written(table, changes, l)
           x == row[f]
<1>1. l \in Resources /\ f \in Fields
  BY FieldsAssumption DEF Resources
<1>2. DOMAIN row = Fields
  BY <1>1, WrittenRow DEF Content
<1>3. CASE l \notin Rids(changes)
  BY <1>3 DEF Written
<1>4. CASE l \in Rids(changes)
  <2> DEFINE c == ChangeTo(changes, l)
  <2>1. c \in changes /\ c.rid = l
    BY <1>4, ChangeToIn
  <2>2. row = IF table[l] = Absent THEN c.after ELSE Override(table[l], c.after)
    BY <1>4 DEF Written
  <2> HIDE DEF c, row
  <2>3. CASE f \in DOMAIN c.after
    <3>1. x = c.after[f]
      <4>1. CASE table[l] = Absent
        BY <2>2, <4>1
      <4>2. CASE table[l] # Absent
        BY <2>2, <2>3, <4>2 DEF Override
      <4> QED
        BY <4>1, <4>2
    <3>2. x \in PointedAt(c)
      BY <2>1, <2>3, <3>1 DEF PointedAt, row
    <3> QED
      BY <2>1, <3>2 DEF row
  <2>4. CASE f \notin DOMAIN c.after
    <3>1. table[l] # Absent
      BY <1>1, <1>2, <2>2, <2>4
    <3>2. DOMAIN table[l] = Fields
      BY <1>1, <3>1 DEF Tables, Content
    <3>3. x = table[l][f]
      BY <1>1, <2>2, <2>4, <3>1, <3>2 DEF Override
    <3> QED
      BY <3>1, <3>3 DEF row
  <2> QED
    BY <2>3, <2>4
<1> QED
  BY <1>3, <1>4

\* ... which is there before publish deletes anything.
LEMMA PointedAtThere ==
  ASSUME NEW table \in Tables, NEW changes, WellFormed(changes),
         OneChangeEach(changes), Applicable(table, changes), ReferencesHold(table),
         NEW l \in LinkTypes, NEW f \in Pointers,
         l \notin OfKind(changes, "DELETE"),
         Written(table, changes, l) # Absent, Written(table, changes, l)[f] # None
  PROVE  LET x == Written(table, changes, l)[f]
         IN  /\ x \in Resources /\ x \notin Properties
             /\ table[x] # Absent \/ x \in OfKind(changes, "CREATE")
<1> DEFINE x == Written(table, changes, l)[f]
<1>1. \/ \E c \in changes : x \in PointedAt(c)
      \/ table[l] # Absent /\ x = table[l][f]
  BY WrittenPointer
<1>2. x # None
  OBVIOUS
<1> HIDE DEF x
<1>3. CASE \E c \in changes : x \in PointedAt(c)
  <2>1. OfKind(changes, "CREATE") \subseteq Resources
    BY DEF OfKind, WellFormed, Change
  <2> QED
    BY <1>3, <2>1, PointersType DEF Applicable, x
<1>4. CASE table[l] # Absent /\ x = table[l][f]
  BY <1>2, <1>4, PointersType DEF ReferencesHold, x
<1> QED
  BY <1>1, <1>3, <1>4

\* What a pointer names afterwards is that, unless it is deleted.
LEMMA AppliedPointer ==
  ASSUME NEW table \in Tables, NEW changes, WellFormed(changes),
         OneChangeEach(changes), Applicable(table, changes),
         NEW l \in LinkTypes, NEW f \in Pointers,
         Applied(table, changes)[l] # Absent
  PROVE  LET row == Written(table, changes, l)
         IN  /\ l \notin OfKind(changes, "DELETE") /\ row # Absent
             /\ Applied(table, changes)[l][f] =
                  IF row[f] \in OfKind(changes, "DELETE") THEN None ELSE row[f]
<1> DEFINE deleted == OfKind(changes, "DELETE")
           row == Written(table, changes, l)
<1>1. l \in Resources /\ f \in Fields /\ l \notin Properties
  BY KindsAssumption, FieldsAssumption DEF Resources
<1>2. l \notin deleted
  BY <1>1, AppliedRow
<1>3. row \in Content
  BY <1>1, <1>2, AppliedRow, WrittenRow
<1>4. Applied(table, changes)[l] = Emptied(row, deleted)
  BY <1>1, <1>2, <1>3, AbsentAssumption DEF Applied
<1>5. DOMAIN row = Fields
  BY <1>3 DEF Content
<1> HIDE DEF row, deleted
<1>6. Applied(table, changes)[l][f] = IF row[f] \in deleted THEN None ELSE row[f]
  BY <1>1, <1>4, <1>5 DEF Emptied
<1> QED
  BY <1>2, <1>3, <1>6, AbsentAssumption DEF row, deleted

LEMMA AppliedType ==
  ASSUME NEW table \in Tables, NEW changes, WellFormed(changes),
         OneChangeEach(changes), Applicable(table, changes)
  PROVE  Applied(table, changes) \in Tables
<1>1. \A r \in Resources : Applied(table, changes)[r] \in Content \cup {Absent}
  BY AppliedRow
<1>2. Applied(table, changes) = [r \in Resources |-> Applied(table, changes)[r]]
  BY DEF Applied
<1> QED
  BY <1>1, <1>2 DEF Tables

\* Whatever the database accepts leaves no reference in vain.
LEMMA AppliedKeepsReferences ==
  ASSUME NEW table \in Tables, NEW changes, WellFormed(changes),
         OneChangeEach(changes), Applicable(table, changes),
         ReferencesHold(table)
  PROVE  ReferencesHold(Applied(table, changes))
<1> DEFINE created == OfKind(changes, "CREATE")
           deleted == OfKind(changes, "DELETE")
           after == Applied(table, changes)
<1>0. ASSUME NEW l \in LinkTypes, NEW f \in Pointers, after[l] # Absent, after[l][f] # None
      PROVE  after[l][f] \in Resources /\ after[after[l][f]] # Absent
  <2> DEFINE x == after[l][f]
  <2>1. /\ l \notin deleted /\ Written(table, changes, l) # Absent
        /\ x = Written(table, changes, l)[f] /\ x \notin deleted
    BY <1>0, AppliedPointer
  <2>2. /\ x \in Resources /\ x \notin Properties
        /\ table[x] # Absent \/ x \in created
    BY <1>0, <2>1, PointedAtThere
  <2> HIDE DEF x, created, deleted, after
  <2>3. after[x] # Absent
    BY <2>1, <2>2, AppliedRow DEF created, deleted, after
  <2> QED
    BY <2>2, <2>3 DEF x
<1>1. SUFFICES ASSUME NEW r \in Resources, after[r] # Absent, NEW o \in Refs(r)
               PROVE  after[o] # Absent
  <2> HIDE DEF after
  <2> QED
    BY <1>0 DEF ReferencesHold, after
<1>2. o \in ObjectTypes /\ o \in Resources /\ o \notin Properties
  BY KindsAssumption, ShapeAssumption DEF Refs, Resources
<1>3. /\ r \notin deleted
      /\ r \in Properties => Owner[r] \notin deleted
      /\ table[r] # Absent \/ r \in created
  BY <1>1, AppliedRow
<1>4. table[o] # Absent \/ o \in created
  <2>1. CASE table[r] # Absent
    BY <1>1, <2>1 DEF ReferencesHold
  <2>2. CASE r \in created
    BY <1>1, <2>2 DEF Applicable
  <2> QED
    BY <1>3, <2>1, <2>2
<1>5. created \cap deleted = {}
  BY DEF OfKind, OneChangeEach
<1>6. o \notin deleted
  <2>1. CASE r \in Properties
    BY <1>1, <1>3, <2>1 DEF Refs
  <2>2. CASE r \notin Properties
    <3>1. r \in LinkTypes /\ o \in Ends[r]
      BY <1>1, <2>2 DEF Refs
    <3>2. table[o] # Absent => o \notin deleted
      BY <1>2, <1>3, <3>1 DEF Applicable
    <3> QED
      BY <1>4, <1>5, <3>2
  <2> QED
    BY <2>1, <2>2
<1> HIDE DEF created, deleted, after
<1> QED
  BY <1>2, <1>4, <1>6, AppliedRow DEF created, deleted, after

\* A row that a draft touches is written, referred to or pointed at by a change, or
\* points at what is deleted.
LEMMA FootprintCases ==
  ASSUME NEW table, NEW changes, NEW r
  PROVE  r \in Footprint(table, changes) <=>
           \/ r \in Rids(changes)
           \/ \E s \in Rids(changes) : r \in Refs(s)
           \/ \E c \in changes : r \in PointedAt(c)
           \/ r \in PointingAt(table, OfKind(changes, "DELETE"))
<1> DEFINE referred == UNION {Refs(s) : s \in Rids(changes)}
           pointed == UNION {PointedAt(c) : c \in changes}
           pointing == PointingAt(table, OfKind(changes, "DELETE"))
<1>1. r \in referred <=> \E s \in Rids(changes) : r \in Refs(s)
  OBVIOUS
<1>2. r \in pointed <=> \E c \in changes : r \in PointedAt(c)
  OBVIOUS
<1>3. Footprint(table, changes) = Rids(changes) \cup referred \cup pointed \cup pointing
  BY DEF Footprint
<1> HIDE DEF referred, pointed, pointing
<1> QED
  BY <1>1, <1>2, <1>3 DEF pointing

\* Of two drafts that touch different rows, applying one leaves the other
\* as applicable as it was.
LEMMA AppliedElsewhere ==
  ASSUME NEW table \in Tables, NEW changes, NEW others,
         WellFormed(changes), OneChangeEach(changes), Applicable(table, changes),
         WellFormed(others), Applicable(table, others),
         Footprint(table, changes) \cap Footprint(table, others) = {}
  PROVE  Applicable(Applied(table, changes), others)
<1> DEFINE after == Applied(table, changes)
           Present(rows) == {r \in Resources : rows[r] # Absent}
           created == OfKind(others, "CREATE")
           deleted == OfKind(others, "DELETE")
<1>1. \A op : OfKind(others, op) \subseteq Rids(others)
  BY DEF OfKind, Rids
<1>2. \A op : OfKind(changes, op) \subseteq Rids(changes)
  BY DEF OfKind, Rids
<1>3. Rids(others) \subseteq Resources
  BY DEF Rids, WellFormed, Change
<1>4. ASSUME NEW r \in Footprint(table, others) \cap Resources
      PROVE  r \in Present(after) <=> r \in Present(table)
  <2>1. r \notin Rids(changes)
    BY FootprintCases
  <2>2. r \in Properties => Owner[r] \notin Rids(changes)
    <3>1. SUFFICES ASSUME r \in Properties PROVE Owner[r] \notin Rids(changes)
      OBVIOUS
    <3>2. r \in Rids(others)
      <4>1. \A s \in Rids(others) : r \notin Refs(s)
        BY <3>1, KindsAssumption, ShapeAssumption DEF Refs
      <4>2. \A c \in others : r \notin PointedAt(c)
        BY <3>1, PointersType
      <4>3. r \notin LinkTypes
        BY <3>1, KindsAssumption
      <4> QED
        BY <4>1, <4>2, <4>3, FootprintCases DEF PointingAt
    <3>3. Owner[r] \in Footprint(table, others)
      BY <3>1, <3>2 DEF Footprint, Refs
    <3> QED
      BY <3>3 DEF Footprint
  <2> QED
    BY <1>2, <2>1, <2>2, AppliedRow
<1>5. /\ \A r \in Rids(others) : r \in Footprint(table, others)
      /\ \A r \in Rids(others) : Refs(r) \subseteq Footprint(table, others)
      /\ \A c \in others : PointedAt(c) \subseteq Footprint(table, others)
  BY FootprintCases
<1>6. \A r \in Rids(others) : Refs(r) \subseteq Resources
  BY ShapeAssumption DEF Refs, Resources
<1>7. created \cap Present(after) = {}
  BY <1>1, <1>3, <1>4, <1>5 DEF Applicable
<1>8. OfKind(others, "UPDATE") \subseteq Present(after)
  BY <1>1, <1>3, <1>4, <1>5 DEF Applicable
<1>9. \A r \in created : Refs(r) \subseteq Present(after) \cup created
  BY <1>1, <1>4, <1>5, <1>6 DEF Applicable
<1>10. ASSUME NEW o \in deleted \cap ObjectTypes \cap Present(after),
              NEW l \in (Present(after) \cup created) \cap LinkTypes,
              o \in Ends[l]
       PROVE  l \in deleted
  <2>1. o \in Present(table)
    BY <1>1, <1>4, <1>5
  <2>2. l \in Present(table) \cup created
    <3>1. SUFFICES ASSUME l \in Present(after), l \notin Present(table) PROVE FALSE
      BY <1>10
    <3>2. l \in Rids(changes)
      BY <1>2, <3>1, AppliedRow
    <3>3. o \in Refs(l)
      BY <1>10, KindsAssumption DEF Refs
    <3> QED
      BY <1>1, <1>5, <3>2, <3>3, <1>10 DEF Footprint
  <2> QED
    BY <1>10, <2>1, <2>2 DEF Applicable
<1>11. \A c \in others : PointedAt(c) \subseteq Present(after) \cup created
  <2>1. created \subseteq Resources
    BY <1>1, <1>3
  <2>2. \A c \in others : PointedAt(c) \subseteq Present(table) \cup created
    BY DEF Applicable
  <2> QED
    BY <1>4, <1>5, <2>1, <2>2
<1> QED
  BY <1>7, <1>8, <1>9, <1>10, <1>11 DEF Applicable

\* ... and writes no pointer that the other would have to empty.
LEMMA FootprintElsewhere ==
  ASSUME NEW table \in Tables, NEW changes, NEW others,
         WellFormed(changes), OneChangeEach(changes), Applicable(table, changes),
         WellFormed(others),
         Footprint(table, changes) \cap Footprint(table, others) = {}
  PROVE  Footprint(Applied(table, changes), others) \subseteq Footprint(table, others)
<1> DEFINE after == Applied(table, changes)
           gone == OfKind(others, "DELETE")
<1>1. gone \subseteq Footprint(table, others)
  BY FootprintCases DEF OfKind, Rids
<1>2. None \notin gone
  BY FieldsAssumption DEF OfKind, WellFormed, Change
<1>3. ASSUME NEW l \in LinkTypes, after[l] # Absent,
             NEW f \in Pointers, after[l][f] \in gone
      PROVE  l \in PointingAt(table, gone)
  <2>1. after[l][f] # None
    BY <1>2, <1>3
  <2>2. \/ \E c \in changes : after[l][f] \in PointedAt(c)
        \/ table[l] # Absent /\ after[l][f] = table[l][f]
    BY <1>3, <2>1, AppliedPointer, WrittenPointer
  <2>3. \A c \in changes : after[l][f] \notin PointedAt(c)
    BY <1>1, <1>3, FootprintCases
  <2> QED
    BY <1>3, <2>2, <2>3 DEF PointingAt
<1>4. PointingAt(after, gone) \subseteq PointingAt(table, gone)
  BY <1>3 DEF PointingAt
<1> QED
  BY <1>4, FootprintCases

-----------------------------------------------------------------------------
(* One change after another *)

\* Merging in turn is merging what was merged.
LEMMA OverrideTwice ==
  ASSUME NEW a, NEW b, NEW c
  PROVE  Override(Override(a, b), c) = Override(a, Override(b, c))
<1> DEFINE ab == Override(a, b)
           bc == Override(b, c)
<1>1. /\ DOMAIN ab = DOMAIN a \cup DOMAIN b
      /\ DOMAIN bc = DOMAIN b \cup DOMAIN c
      /\ \A f \in DOMAIN ab : ab[f] = IF f \in DOMAIN b THEN b[f] ELSE a[f]
      /\ \A f \in DOMAIN bc : bc[f] = IF f \in DOMAIN c THEN c[f] ELSE b[f]
  BY DEF Override
<1>2. Override(ab, c) = [f \in DOMAIN ab \cup DOMAIN c |-> IF f \in DOMAIN c THEN c[f] ELSE ab[f]]
  BY DEF Override
<1>3. Override(a, bc) = [f \in DOMAIN a \cup DOMAIN bc |-> IF f \in DOMAIN bc THEN bc[f] ELSE a[f]]
  BY DEF Override
<1> DEFINE D == DOMAIN ab \cup DOMAIN c
           left == [f \in D |-> IF f \in DOMAIN c THEN c[f] ELSE ab[f]]
           right == [f \in D |-> IF f \in DOMAIN bc THEN bc[f] ELSE a[f]]
<1> HIDE DEF ab, bc
<1>4. D = DOMAIN a \cup DOMAIN bc
  BY <1>1
<1>5. \A f \in D : left[f] = right[f]
  BY <1>1
<1>6. left = right
  BY <1>5
<1> QED
  BY <1>2, <1>3, <1>4, <1>6 DEF ab, bc

\* The one change to a resource.
LEMMA ChangeToIs ==
  ASSUME NEW changes, OneChangeEach(changes), NEW c \in changes
  PROVE  c.rid \in Rids(changes) /\ ChangeTo(changes, c.rid) = c
<1>1. c.rid \in Rids(changes)
  BY DEF Rids
<1> QED
  BY <1>1, ChangeToIn DEF OneChangeEach

LEMMA OnRow ==
  ASSUME NEW changes, OneChangeEach(changes), NEW r
  PROVE  /\ On(changes, r) = IF r \in Rids(changes) THEN {ChangeTo(changes, r)} ELSE {}
         /\ r \in Rids(changes) <=> On(changes, r) # {}
<1>1. CASE r \in Rids(changes)
  <2>1. ChangeTo(changes, r) \in changes /\ ChangeTo(changes, r).rid = r
    BY <1>1, ChangeToIn
  <2> QED
    BY <1>1, <2>1 DEF OneChangeEach, On
<1>2. CASE r \notin Rids(changes)
  BY <1>2 DEF Rids, On
<1> QED
  BY <1>1, <1>2

\* Collapsing touches one resource only.
LEMMA CollapseRows ==
  ASSUME NEW changes, NEW new, WellFormed(changes), OneChangeEach(changes),
         WellFormed({new}), NEW r
  PROVE  On(Collapse(changes, new), r)
           = IF r = new.rid THEN Result(changes, new) ELSE On(changes, r)
<1>1. CASE new.rid \in Rids(changes)
  <2> DEFINE old == ChangeTo(changes, new.rid)
  <2>1. old \in changes /\ old.rid = new.rid
    BY <1>1, ChangeToIn
  <2>2. Collapse(changes, new) = (changes \ {old}) \cup Combined(old, new)
    BY <1>1 DEF Collapse
  <2>3. WellFormed({old}) /\ old \in Change /\ new \in Change
    BY <2>1 DEF WellFormed
  <2>4. \A c \in Combined(old, new) : c.rid = new.rid
    BY <2>1, <2>3, CombinedType
  <2>5. \A c \in changes \ {old} : c.rid # new.rid
    BY <2>1 DEF OneChangeEach
  <2>6. Result(changes, new) = Combined(old, new)
    BY <1>1 DEF Result
  <2> HIDE DEF old
  <2> QED
    BY <2>1, <2>2, <2>4, <2>5, <2>6 DEF On
<1>2. CASE new.rid \notin Rids(changes)
  <2>1. Collapse(changes, new) = changes \cup {new} /\ Result(changes, new) = {new}
    BY <1>2 DEF Collapse, Result
  <2>2. \A c \in changes : c.rid # new.rid
    BY <1>2 DEF Rids
  <2> QED
    BY <2>1, <2>2 DEF On
<1> QED
  BY <1>1, <1>2

\* Drafts with the same change to a resource collapse another one alike.
LEMMA ResultAlike ==
  ASSUME NEW a, NEW b, OneChangeEach(a), OneChangeEach(b), NEW new,
         On(a, new.rid) = On(b, new.rid)
  PROVE  Result(a, new) = Result(b, new)
<1>1. new.rid \in Rids(a) <=> new.rid \in Rids(b)
  BY OnRow
<1>2. new.rid \in Rids(a) => ChangeTo(a, new.rid) = ChangeTo(b, new.rid)
  BY <1>1, OnRow
<1> QED
  BY <1>1, <1>2 DEF Result

-----------------------------------------------------------------------------
(* What a draft that fits the tables shows *)

\* A resource that the draft does not touch is as it is published.
LEMMA ShownUntouched ==
  ASSUME NEW table \in Tables, NEW changes, NEW r \in Resources, r \notin Rids(changes)
  PROVE  /\ Shown(table, changes)[r] = table[r]
         /\ ViewState(table, changes, r) = IF table[r] = Absent THEN "missing" ELSE "published"
         /\ ViewData(table, changes, r) = table[r]
<1>1. ViewState(table, changes, r) = IF table[r] = Absent THEN "missing" ELSE "published"
  BY DEF ViewState
<1>2. ViewData(table, changes, r) = table[r]
  BY <1>1 DEF ViewData
<1> QED
  BY <1>1, <1>2 DEF Shown, Visible

\* One that it touches is as the change has it.
LEMMA ShownTouched ==
  ASSUME NEW table \in Tables, NEW changes, WellFormed(changes), OneChangeEach(changes),
         NEW c \in changes, Fits(table, {c})
  PROVE  /\ c.op = "CREATE" =>
              /\ Shown(table, changes)[c.rid] = c.after
              /\ ViewState(table, changes, c.rid) = "created"
              /\ ViewData(table, changes, c.rid) = c.after
         /\ c.op = "UPDATE" =>
              /\ Shown(table, changes)[c.rid] = Override(table[c.rid], c.after)
              /\ ViewState(table, changes, c.rid) = "modified"
              /\ ViewData(table, changes, c.rid) = Override(table[c.rid], c.after)
         /\ c.op = "DELETE" =>
              /\ Shown(table, changes)[c.rid] = Absent
              /\ ViewState(table, changes, c.rid) = "deleted"
              /\ ViewData(table, changes, c.rid) = table[c.rid]
<1> DEFINE r == c.rid
<1>1. r \in Rids(changes) /\ ChangeTo(changes, r) = c
  BY ChangeToIs
<1>2. r \in Resources /\ c.op \in {"CREATE", "UPDATE", "DELETE"}
  BY DEF WellFormed, Change
<1>3. table[r] = Absent <=> c.op = "CREATE"
  BY DEF Fits
<1>4. /\ c.op = "CREATE" => ViewState(table, changes, r) = "created"
      /\ c.op = "UPDATE" => ViewState(table, changes, r) = "modified"
      /\ c.op = "DELETE" => ViewState(table, changes, r) = "deleted"
  BY <1>1, <1>3 DEF ViewState
<1> HIDE DEF r
<1>5. /\ c.op = "CREATE" => ViewData(table, changes, r) = c.after
      /\ c.op = "UPDATE" => ViewData(table, changes, r) = Override(table[r], c.after)
      /\ c.op = "DELETE" => ViewData(table, changes, r) = table[r]
  BY <1>1, <1>4 DEF ViewData
<1>6. /\ c.op = "CREATE" => Shown(table, changes)[r] = c.after
      /\ c.op = "UPDATE" => Shown(table, changes)[r] = Override(table[r], c.after)
      /\ c.op = "DELETE" => Shown(table, changes)[r] = Absent
  BY <1>2, <1>4, <1>5 DEF Shown, Visible
<1> QED
  BY <1>4, <1>5, <1>6 DEF r

\* Without changes the draft shows what is published.
LEMMA ShownNothing ==
  ASSUME NEW table \in Tables
  PROVE  Shown(table, {}) = table
<1>1. \A r \in Resources : Shown(table, {})[r] = table[r]
  BY ShownUntouched DEF Rids
<1>2. Shown(table, {}) = [r \in Resources |-> Shown(table, {})[r]]
  BY DEF Shown
<1>3. table = [r \in Resources |-> table[r]]
  BY DEF Tables
<1> QED
  BY <1>1, <1>2, <1>3

\* Drafts with the same change to a resource show it alike.
LEMMA ShownAlike ==
  ASSUME NEW table \in Tables, NEW a, NEW b, OneChangeEach(a), OneChangeEach(b),
         NEW r \in Resources, On(a, r) = On(b, r)
  PROVE  Shown(table, a)[r] = Shown(table, b)[r]
<1>1. r \in Rids(a) <=> r \in Rids(b)
  BY OnRow
<1>2. r \in Rids(a) => ChangeTo(a, r) = ChangeTo(b, r)
  BY <1>1, OnRow
<1>3. ViewState(table, a, r) = ViewState(table, b, r)
  BY <1>1, <1>2 DEF ViewState
<1>4. ViewState(table, a, r) \in {"modified", "created"} => r \in Rids(a)
  BY DEF ViewState
<1>5. ViewData(table, a, r) = ViewData(table, b, r)
  BY <1>2, <1>3, <1>4 DEF ViewData
<1> QED
  BY <1>3, <1>5 DEF Shown, Visible

\* A draft that has collapsed a change into one that fitted fits there, too, and
\* shows what was shown with the change made to it.
LEMMA ResultShows ==
  ASSUME NEW table \in Tables, NEW changes, WellFormed(changes), OneChangeEach(changes),
         Fits(table, changes), NEW new, WellFormed({new}), Made(table, changes, new),
         NEW after, WellFormed(after), OneChangeEach(after),
         On(after, new.rid) = Result(changes, new)
  PROVE  /\ Fits(table, On(after, new.rid))
         /\ Shown(table, after)[new.rid] =
              IF new.op = "DELETE" THEN Absent
              ELSE IF new.rid \in Found(table, changes)
                THEN Override(ViewData(table, changes, new.rid), new.after)
              ELSE new.after
<1> DEFINE r == new.rid
           found == r \in Found(table, changes)
           data == ViewData(table, changes, r)
           Goal == /\ Fits(table, On(after, r))
                   /\ Shown(table, after)[r] =
                        IF new.op = "DELETE" THEN Absent
                        ELSE IF found THEN Override(data, new.after)
                        ELSE new.after
<1> SUFFICES Goal
  OBVIOUS
<1>1. /\ new \in Change /\ r \in Resources /\ new.op \in {"CREATE", "UPDATE", "DELETE"}
      /\ new.op = "CREATE" => new.after \in Content
  BY DEF WellFormed, Change
<1>2. ASSUME NEW one, Result(changes, new) = {one}, Fits(table, {one})
      PROVE  /\ Fits(table, On(after, r))
             /\ one.op = "CREATE" => Shown(table, after)[r] = one.after
             /\ one.op = "UPDATE" => Shown(table, after)[r] = Override(table[r], one.after)
             /\ one.op = "DELETE" => Shown(table, after)[r] = Absent
  <2>1. one \in after /\ one.rid = r
    BY <1>2 DEF On
  <2>2. Fits(table, On(after, r))
    BY <1>2
  <2> QED
    BY <1>2, <2>1, <2>2, ShownTouched
<1>3. found <=> ViewState(table, changes, r) # "missing"
  BY <1>1 DEF Found
<1>4. CASE r \notin Rids(changes)
  <2>1. /\ ViewState(table, changes, r) = IF table[r] = Absent THEN "missing" ELSE "published"
        /\ data = table[r]
    BY <1>1, <1>4, ShownUntouched
  <2>2. Result(changes, new) = {new}
    BY <1>4 DEF Result
  <2>3. Fits(table, {new}) /\ (found <=> new.op # "CREATE")
    BY <1>1, <1>3, <2>1 DEF Fits, Made
  <2> HIDE DEF r, found, data
  <2>4. /\ Fits(table, On(after, r))
        /\ new.op = "CREATE" => Shown(table, after)[r] = new.after
        /\ new.op = "UPDATE" => Shown(table, after)[r] = Override(table[r], new.after)
        /\ new.op = "DELETE" => Shown(table, after)[r] = Absent
    BY <1>2, <2>2, <2>3
  <2> QED
    BY <1>1, <2>1, <2>3, <2>4
<1>5. CASE r \in Rids(changes)
  <2> DEFINE old == ChangeTo(changes, r)
  <2>1. old \in changes /\ old.rid = r
    BY <1>5, ChangeToIn
  <2>2. /\ old \in Change /\ old.op \in {"CREATE", "UPDATE", "DELETE"}
        /\ old.op = "CREATE" => old.after \in Content
    BY <2>1 DEF WellFormed, Change
  <2>3. Result(changes, new) = Combined(old, new)
    BY <1>5 DEF Result
  <2>4. Fits(table, {old})
    BY <2>1 DEF Fits
  <2>5. new.op \in {"UPDATE", "DELETE"} /\ found
    BY <1>1, <1>5 DEF Made
  <2>6. /\ old.op = "CREATE" =>
             /\ ViewState(table, changes, r) = "created" /\ data = old.after
             /\ table[r] = Absent
        /\ old.op = "UPDATE" =>
             /\ ViewState(table, changes, r) = "modified"
             /\ data = Override(table[r], old.after)
             /\ table[r] # Absent /\ Remembers(table, old)
        /\ old.op = "DELETE" =>
             /\ ViewState(table, changes, r) = "deleted" /\ data = table[r]
             /\ table[r] # Absent /\ Remembers(table, old)
    BY <2>1, <2>4, ShownTouched DEF Fits
  <2>7. old.op = "DELETE" => Remembers(table, new)
    BY <2>5, <2>6 DEF Made
  <2>8. old.after \in Patch /\ new.after \in Patch
    BY <1>1, <2>2 DEF Change
  <2> HIDE DEF old, r, data, found
  <2>9. CASE old.op \in {"CREATE", "UPDATE"} /\ new.op = "UPDATE"
    <3> DEFINE one == [old EXCEPT !.after = Override(old.after, new.after)]
    <3>1. Result(changes, new) = {one}
      BY <2>3, <2>9 DEF Combined
    <3>2. /\ one.op = old.op /\ one.rid = r /\ one.before = old.before
          /\ one.after = Override(old.after, new.after)
      BY <2>1, <2>2 DEF Change
    <3> HIDE DEF one
    <3>3. old.op = "CREATE" => one.after \in Content
      BY <2>2, <2>8, <3>2, OverrideType
    <3>4. Fits(table, {one})
      BY <2>1, <2>6, <2>9, <3>2, <3>3 DEF Fits, Remembers
    <3>5. Override(Override(table[r], old.after), new.after) = Override(table[r], one.after)
      BY <3>2, OverrideTwice
    <3> QED
      BY <1>2, <2>5, <2>6, <2>9, <3>1, <3>2, <3>4, <3>5
  <2>10. CASE old.op = "CREATE" /\ new.op = "DELETE"
    <3>1. On(after, r) = {}
      BY <2>3, <2>10 DEF Combined, r
    <3>2. r \notin Rids(after)
      BY <3>1, OnRow
    <3>3. Shown(table, after)[r] = Absent
      BY <1>1, <2>6, <2>10, <3>2, ShownUntouched
    <3> QED
      BY <2>10, <3>1, <3>3 DEF Fits
  <2>11. CASE old.op = "UPDATE" /\ new.op = "DELETE"
    <3> DEFINE one == [new EXCEPT !.before = old.before, !.whole = old.whole,
                                  !.after = NoPatch]
    <3>1. Result(changes, new) = {one}
      BY <2>3, <2>11 DEF Combined
    <3>2. one.op = "DELETE" /\ one.rid = r /\ one.before = old.before
      BY <1>1, <2>11 DEF Change, r
    <3> HIDE DEF one
    <3>3. Fits(table, {one})
      BY <2>1, <2>6, <2>11, <3>2 DEF Fits, Remembers
    <3> QED
      BY <1>2, <2>11, <3>1, <3>2, <3>3
  <2>12. CASE old.op = "DELETE" /\ new.op = "UPDATE"
    <3>1. Result(changes, new) = {new}
      BY <2>3, <2>12 DEF Combined
    <3>2. Fits(table, {new})
      BY <2>6, <2>7, <2>12 DEF Fits, r
    <3> QED
      BY <1>2, <2>5, <2>6, <2>12, <3>1, <3>2
  <2>13. CASE old.op = "DELETE" /\ new.op = "DELETE"
    <3>1. Result(changes, new) = {old}
      BY <2>3, <2>13 DEF Combined
    <3> QED
      BY <1>2, <2>4, <2>13, <3>1
  <2> QED
    BY <2>2, <2>5, <2>9, <2>10, <2>11, <2>12, <2>13
<1> QED
  BY <1>4, <1>5

-----------------------------------------------------------------------------
(* What a request may make of a draft that fits, and what publishing makes of it *)

\* What is updated or deleted as it is shown may be updated or deleted.
LEMMA ShownMayChange ==
  ASSUME NEW table \in Tables, NEW changes, NEW r \in Found(table, changes)
  PROVE  /\ \A patch \in Patch :
              Made(table, changes, Update(r, ViewData(table, changes, r), patch))
         /\ Made(table, changes, Deletion(r, ViewData(table, changes, r)))
<1> DEFINE data == ViewData(table, changes, r)
<1>1. ViewState(table, changes, r) \in {"published", "deleted"} => data = table[r]
  BY DEF ViewData
<1> HIDE DEF data
<1>2. ASSUME NEW patch \in Patch PROVE Made(table, changes, Update(r, data, patch))
  <2> DEFINE c == Update(r, data, patch)
  <2>1. /\ c.rid = r /\ c.op = "UPDATE" /\ DOMAIN c.before = DOMAIN patch
        /\ \A f \in DOMAIN patch : c.before[f] = data[f]
    BY DEF Update
  <2> HIDE DEF c
  <2> QED
    BY <1>1, <2>1 DEF Made, Remembers, c
<1>3. Made(table, changes, Deletion(r, data))
  <2> DEFINE c == Deletion(r, data)
  <2>1. c.rid = r /\ c.op = "DELETE" /\ c.before = data
    BY DEF Deletion
  <2> HIDE DEF c
  <2> QED
    BY <1>1, <2>1 DEF Made, Remembers, c
<1> QED
  BY <1>2, <1>3 DEF data

\* What a row refers to are object types.
LEMMA RefsType ==
  ASSUME NEW r \in Resources
  PROVE  Refs(r) \subseteq Resources /\ Refs(r) \subseteq ObjectTypes
BY KindsAssumption, ShapeAssumption DEF Refs, Resources

\* An object type's deletion deletes what is found, and nothing twice.
LEMMA ObjectTypeDeletionMade ==
  ASSUME NEW table \in Tables, NEW changes, WellFormed(changes), OneChangeEach(changes),
         Fits(table, changes), NEW o \in Found(table, changes) \cap ObjectTypes
  PROVE  LET gone == ObjectTypeDeletion(table, changes, o)
         IN  /\ \A c \in gone : /\ c.op = "DELETE" /\ Made(table, changes, c)
                                /\ c.rid \in Found(table, changes)
             /\ OneChangeEach(gone)
<1> DEFINE props  == {p \in Properties : table[p] # Absent /\ Owner[p] = o}
           links  == {l \in LinkTypes : table[l] # Absent /\ o \in Ends[l]}
           drafts == {c \in changes : /\ c.rid \in LinkTypes \ links
                                      /\ c.op = "CREATE"
                                      /\ o \in Ends[c.rid]}
           gone == ObjectTypeDeletion(table, changes, o)
<1>1. \A r \in Resources : table[r] # Absent => r \in Found(table, changes)
  BY DEF Found, ViewState
<1>2. ASSUME NEW p \in props
      PROVE  LET c == Deletion(p, table[p])
             IN  /\ c.op = "DELETE" /\ Made(table, changes, c)
                 /\ c.rid = p /\ p \in Found(table, changes)
  <2>1. p \in Found(table, changes)
    BY <1>1 DEF Resources
  <2> QED
    BY <2>1 DEF Deletion, Made, Remembers
<1>3. ASSUME NEW l \in links
      PROVE  LET c == BareDeletion(l)
             IN  /\ c.op = "DELETE" /\ Made(table, changes, c)
                 /\ c.rid = l /\ l \in Found(table, changes)
  <2>1. l \in Found(table, changes)
    BY <1>1 DEF Resources
  <2>2. /\ BareDeletion(l).op = "DELETE" /\ BareDeletion(l).rid = l
        /\ BareDeletion(l).before = NoPatch
    BY DEF BareDeletion, Deletion
  <2>3. DOMAIN NoPatch = {}
    BY DEF NoPatch
  <2> QED
    BY <2>1, <2>2, <2>3 DEF Made, Remembers
<1>4. ASSUME NEW d \in drafts
      PROVE  LET c == Deletion(d.rid, d.after)
             IN  /\ c.op = "DELETE" /\ Made(table, changes, c)
                 /\ c.rid = d.rid /\ d.rid \in Found(table, changes)
  <2>1. d \in changes /\ d.op = "CREATE" /\ d.rid \in Resources /\ Fits(table, {d})
    BY DEF WellFormed, Change, Fits
  <2>2. ViewState(table, changes, d.rid) = "created"
    BY <2>1, ShownTouched
  <2>3. Deletion(d.rid, d.after).op = "DELETE" /\ Deletion(d.rid, d.after).rid = d.rid
    BY DEF Deletion
  <2> QED
    BY <2>1, <2>2, <2>3 DEF Made, Found
<1>5. LET c == Deletion(o, ViewData(table, changes, o))
      IN  c.op = "DELETE" /\ Made(table, changes, c) /\ c.rid = o
  BY ShownMayChange DEF Deletion
<1>6. gone = {Deletion(p, table[p]) : p \in props}
               \cup {BareDeletion(l) : l \in links}
               \cup {Deletion(c.rid, c.after) : c \in drafts}
               \cup {Deletion(o, ViewData(table, changes, o))}
  BY DEF ObjectTypeDeletion
<1>7. /\ \A p \in props : p \in Properties
      /\ \A l \in links : l \in LinkTypes
      /\ \A d \in drafts : d \in changes /\ d.rid \in LinkTypes /\ d.rid \notin links
  OBVIOUS
<1>8. \A d, e \in drafts : d.rid = e.rid => d = e
  BY DEF OneChangeEach
<1> HIDE DEF props, links, drafts, gone
<1>9. ASSUME NEW c \in gone
      PROVE  /\ c.op = "DELETE" /\ Made(table, changes, c)
             /\ c.rid \in Found(table, changes)
  BY <1>2, <1>3, <1>4, <1>5, <1>6
<1>10. ASSUME NEW c \in gone
       PROVE  \/ c.rid \in props /\ c = Deletion(c.rid, table[c.rid])
              \/ c.rid \in links /\ c = BareDeletion(c.rid)
              \/ \E d \in drafts : c.rid = d.rid /\ c = Deletion(d.rid, d.after)
              \/ c.rid = o /\ c = Deletion(o, ViewData(table, changes, o))
  BY <1>2, <1>3, <1>4, <1>5, <1>6
<1>11. OneChangeEach(gone)
  <2>1. SUFFICES ASSUME NEW c \in gone, NEW d \in gone, c.rid = d.rid
                 PROVE  c = d
    BY DEF OneChangeEach
  <2>2. CASE c.rid \in Properties
    BY <1>7, <1>10, <2>1, <2>2, KindsAssumption
  <2>3. CASE c.rid \in links
    BY <1>7, <1>10, <2>1, <2>3, KindsAssumption
  <2>4. CASE c.rid \in LinkTypes \ links
    BY <1>7, <1>8, <1>10, <2>1, <2>4, KindsAssumption
  <2>5. CASE c.rid \in ObjectTypes
    BY <1>7, <1>10, <2>1, <2>5, KindsAssumption
  <2> QED
    BY <1>7, <1>10, <2>1, <2>2, <2>3, <2>4, <2>5
<1> QED
  BY <1>9, <1>11 DEF gone

\* Reading the tables loses what is not read, and no row.
LEMMA ReadBackType ==
  ASSUME NEW table \in Tables
  PROVE  /\ ReadBack(table) \in Tables
         /\ \A r \in Resources : ReadBack(table)[r] = Absent <=> table[r] = Absent
         /\ \A r \in Resources, f \in Fields :
              table[r] # Absent =>
                ReadBack(table)[r][f] = IF r \in ObjectTypes /\ f \in Unread
                                          THEN None ELSE table[r][f]
<1>1. ASSUME NEW r \in Resources
      PROVE  /\ ReadBack(table)[r] \in Content \cup {Absent}
             /\ ReadBack(table)[r] = Absent <=> table[r] = Absent
             /\ \A f \in Fields :
                  table[r] # Absent =>
                    ReadBack(table)[r][f] = IF r \in ObjectTypes /\ f \in Unread
                                              THEN None ELSE table[r][f]
  <2>1. ReadBack(table)[r] = IF r \in ObjectTypes /\ table[r] # Absent
                               THEN WithoutUnread(table[r]) ELSE table[r]
    BY DEF ReadBack
  <2>2. CASE table[r] = Absent
    BY <2>1, <2>2
  <2>3. CASE table[r] # Absent
    <3>1. table[r] \in Content /\ DOMAIN table[r] = Fields
      BY <2>3 DEF Tables, Content
    <3>2. WithoutUnread(table[r]) \in Content
      BY <3>1, EmptiedType
    <3>3. \A f \in Fields :
            WithoutUnread(table[r])[f] = IF f \in Unread THEN None ELSE table[r][f]
      BY <3>1 DEF WithoutUnread
    <3> QED
      BY <2>1, <2>3, <3>1, <3>2, <3>3, AbsentAssumption
  <2> QED
    BY <2>2, <2>3
<1>2. ReadBack(table) = [r \in Resources |-> ReadBack(table)[r]]
  BY DEF ReadBack
<1> QED
  BY <1>1, <1>2 DEF Tables

\* Publishing publishes what is shown, but for what hangs on an object type that
\* is deleted, what is not read back, and what pointed at something deleted.
LEMMA AppliedIsShown ==
  ASSUME NEW table \in Tables, NEW changes, WellFormed(changes), OneChangeEach(changes),
         Fits(ReadBack(table), changes), Applicable(table, changes),
         ReferencesHold(table), NEW r \in Resources
  PROVE  LET view  == Shown(ReadBack(table), changes)
             after == Applied(table, changes)
         IN  /\ after[r] = Absent <=> view[r] = Absent \/ \E o \in Refs(r) : view[o] = Absent
             /\ after[r] # Absent =>
                  /\ view[r] \in Content
                  /\ \A f \in Fields :
                       ReadBack(after)[r][f] =
                         IF \/ r \in ObjectTypes /\ f \in Unread
                            \/ r \in LinkTypes /\ f \in Pointers
                                 /\ view[r][f] \notin {s \in Resources : after[s] # Absent}
                           THEN None ELSE view[r][f]
<1> DEFINE loaded == ReadBack(table)
           view == Shown(loaded, changes)
           created == OfKind(changes, "CREATE")
           deleted == OfKind(changes, "DELETE")
           after == Applied(table, changes)
           row == Written(table, changes, r)
<1>0. /\ loaded \in Tables
      /\ \A s \in Resources : loaded[s] = Absent <=> table[s] = Absent
  BY ReadBackType
<1>2. created \cap deleted = {}
  BY DEF OfKind, OneChangeEach
<1>3. ASSUME NEW c \in changes
      PROVE  /\ c.op \in {"CREATE", "UPDATE", "DELETE"} /\ c.rid \in Resources
             /\ ChangeTo(changes, c.rid) = c
             /\ c.rid \in created <=> c.op = "CREATE"
             /\ c.rid \in deleted <=> c.op = "DELETE"
             /\ loaded[c.rid] = Absent <=> c.op = "CREATE"
             /\ c.op = "CREATE" => view[c.rid] = c.after /\ c.after \in Content
             /\ c.op = "UPDATE" => view[c.rid] = Override(loaded[c.rid], c.after)
                                   /\ view[c.rid] \in Content
             /\ c.op = "DELETE" => view[c.rid] = Absent
  <2>1. Fits(loaded, {c}) /\ c \in Change /\ c.after \in Patch /\ c.rid \in Resources
        /\ c.op \in {"CREATE", "UPDATE", "DELETE"}
    BY DEF Fits, WellFormed, Change
  <2>2. c.op = "CREATE" => c.after \in Content
    BY DEF WellFormed
  <2>3. loaded[c.rid] = Absent <=> c.op = "CREATE"
    BY <2>1 DEF Fits
  <2>4. c.op = "UPDATE" => Override(loaded[c.rid], c.after) \in Content
    BY <1>0, <2>1, <2>3, OverrideType, ContentIsPatch DEF Tables
  <2>5. /\ c.rid \in created <=> c.op = "CREATE"
        /\ c.rid \in deleted <=> c.op = "DELETE"
    BY DEF OfKind, OneChangeEach
  <2>6. ChangeTo(changes, c.rid) = c
    BY ChangeToIs
  <2>7. /\ c.op = "CREATE" => view[c.rid] = c.after
        /\ c.op = "UPDATE" => view[c.rid] = Override(loaded[c.rid], c.after)
        /\ c.op = "DELETE" => view[c.rid] = Absent
    BY <1>0, <2>1, ShownTouched
  <2> HIDE DEF created, deleted, view, loaded
  <2> QED
    BY <2>1, <2>2, <2>3, <2>4, <2>5, <2>6, <2>7
<1>4. ASSUME NEW s \in Resources, s \notin Rids(changes) PROVE view[s] = loaded[s]
  BY <1>0, <1>4, ShownUntouched
<1>5. \A s \in Rids(changes) : \E c \in changes : c.rid = s
  BY DEF Rids
<1>6. \A s \in Resources :
        view[s] = Absent <=> s \in deleted \/ (table[s] = Absent /\ s \notin created)
  <2>1. SUFFICES ASSUME NEW s \in Resources
                 PROVE  view[s] = Absent <=>
                          s \in deleted \/ (table[s] = Absent /\ s \notin created)
    OBVIOUS
  <2>2. CASE s \in Rids(changes)
    <3>1. PICK c \in changes : c.rid = s
      BY <1>5, <2>2
    <3> HIDE DEF created, deleted, view, loaded
    <3> QED
      BY <1>0, <1>3, <3>1, AbsentAssumption
  <2>3. CASE s \notin Rids(changes)
    <3>1. s \notin created /\ s \notin deleted
      BY <2>3 DEF OfKind, Rids
    <3> QED
      BY <1>0, <1>4, <2>3, <3>1
  <2> QED
    BY <2>2, <2>3
<1>7. Refs(r) \subseteq Resources /\ Refs(r) \subseteq ObjectTypes
  BY RefsType
<1> DEFINE gone == r \in deleted \/ (r \in Properties /\ Owner[r] \in deleted)
<1>8. ASSUME table[r] # Absent \/ r \in created, ~gone
      PROVE  \A o \in Refs(r) : view[o] # Absent
  <2>1. SUFFICES ASSUME NEW o \in Refs(r) PROVE o \notin deleted /\ (table[o] # Absent \/ o \in created)
    BY <1>6, <1>7
  <2>2. table[o] # Absent \/ o \in created
    BY <1>8, <2>1, <1>7 DEF Applicable, ReferencesHold
  <2>3. ASSUME r \in Properties PROVE o \notin deleted
    BY <1>8, <2>1, <2>3 DEF Refs
  <2>4. ASSUME r \notin Properties, o \in deleted PROVE FALSE
    <3>1. r \in LinkTypes /\ o \in Ends[r]
      BY <2>1, <2>4 DEF Refs
    <3>2. table[o] # Absent
      BY <1>2, <2>2, <2>4
    <3>3. r \in deleted
      BY <1>7, <1>8, <2>1, <2>4, <3>1, <3>2 DEF Applicable
    <3> QED
      BY <1>8, <3>3
  <2> QED
    BY <2>2, <2>3, <2>4
<1>9. after[r] = Absent <=> view[r] = Absent \/ \E o \in Refs(r) : view[o] = Absent
  <2>1. after[r] = Absent <=> gone \/ (table[r] = Absent /\ r \notin created)
    BY AppliedRow
  <2>2. r \in deleted => view[r] = Absent
    BY <1>6
  <2>3. ASSUME r \in Properties, Owner[r] \in deleted
        PROVE  \E o \in Refs(r) : view[o] = Absent
    BY <1>6, <1>7, <2>3 DEF Refs
  <2>4. table[r] = Absent /\ r \notin created => view[r] = Absent
    BY <1>6
  <2>5. ASSUME table[r] # Absent \/ r \in created, ~gone
        PROVE  view[r] # Absent /\ \A o \in Refs(r) : view[o] # Absent
    BY <1>6, <1>8, <2>5
  <2> HIDE DEF view, deleted, created, after
  <2> QED
    BY <2>1, <2>2, <2>3, <2>4, <2>5
<1>10. ASSUME after[r] # Absent
       PROVE  /\ ~gone /\ row \in Content /\ view[r] \in Content
              /\ \A f \in Fields :
                   ~ (r \in ObjectTypes /\ f \in Unread) => view[r][f] = row[f]
  <2>1. ~gone
    BY <1>10, AppliedRow
  <2>2. row \in Content
    BY <1>10, <2>1, AppliedRow, WrittenRow
  <2>3. CASE r \notin Rids(changes)
    <3>1. row = table[r] /\ view[r] = loaded[r]
      BY <1>4, <2>3 DEF Written
    <3>2. table[r] # Absent
      BY <2>2, <3>1, AbsentAssumption
    <3>3. loaded[r] \in Content
      BY <1>0, <3>2 DEF Tables
    <3> QED
      BY <2>1, <2>2, <3>1, <3>2, <3>3, ReadBackType
  <2>4. CASE r \in Rids(changes)
    <3>1. PICK c \in changes : c.rid = r
      BY <1>5, <2>4
    <3>2. ChangeTo(changes, r) = c /\ c.op # "DELETE"
      BY <1>3, <2>1, <3>1
    <3>3. CASE c.op = "CREATE"
      <4>1. row = c.after /\ view[r] = c.after
        BY <1>0, <1>3, <2>4, <3>1, <3>2, <3>3 DEF Written
      <4> QED
        BY <2>1, <2>2, <4>1
    <3>4. CASE c.op = "UPDATE"
      <4>1. table[r] # Absent /\ loaded[r] # Absent
        BY <1>0, <1>3, <3>1, <3>4
      <4>2. /\ row = Override(table[r], c.after)
            /\ view[r] = Override(loaded[r], c.after) /\ view[r] \in Content
        BY <1>3, <2>4, <3>1, <3>2, <3>4, <4>1 DEF Written
      <4>3. DOMAIN table[r] = Fields /\ DOMAIN loaded[r] = Fields
        BY <1>0, <4>1 DEF Tables, Content
      <4>4. \A f \in Fields :
              ~ (r \in ObjectTypes /\ f \in Unread) => loaded[r][f] = table[r][f]
        BY <4>1, ReadBackType
      <4> HIDE DEF row, view, loaded
      <4>5. \A f \in Fields :
              ~ (r \in ObjectTypes /\ f \in Unread) => view[r][f] = row[f]
        BY <4>2, <4>3, <4>4 DEF Override
      <4> QED
        BY <2>1, <2>2, <4>2, <4>5
    <3> QED
      BY <1>3, <3>1, <3>2, <3>3, <3>4
  <2> QED
    BY <2>3, <2>4
<1>11. ASSUME after[r] # Absent, NEW f \in Fields
       PROVE  ReadBack(after)[r][f] =
                IF \/ r \in ObjectTypes /\ f \in Unread
                   \/ r \in LinkTypes /\ f \in Pointers
                        /\ view[r][f] \notin {s \in Resources : after[s] # Absent}
                  THEN None ELSE view[r][f]
  <2>1. after \in Tables
    BY AppliedType
  <2>2. ReadBack(after)[r][f] = IF r \in ObjectTypes /\ f \in Unread
                                  THEN None ELSE after[r][f]
    BY <1>11, <2>1, ReadBackType
  <2>3. /\ ~gone /\ row \in Content
        /\ ~ (r \in ObjectTypes /\ f \in Unread) => view[r][f] = row[f]
    BY <1>10, <1>11
  <2>4. CASE r \in LinkTypes /\ f \in Pointers
    <3>1. after[r][f] = IF row[f] \in deleted THEN None ELSE row[f]
      BY <1>11, <2>4, AppliedPointer
    <3>2. ASSUME row[f] # None
          PROVE  row[f] \in deleted <=> row[f] \notin {s \in Resources : after[s] # Absent}
      <4>1. /\ row[f] \in Resources /\ row[f] \notin Properties
            /\ table[row[f]] # Absent \/ row[f] \in created
        BY <2>3, <2>4, <3>2, PointedAtThere, AbsentAssumption
      <4> HIDE DEF row
      <4> QED
        BY <4>1, AppliedRow
    <3>3. r \notin ObjectTypes
      BY <2>4, KindsAssumption
    <3>4. None \notin Resources
      BY FieldsAssumption
    <3> HIDE DEF row, after, view, deleted
    <3> QED
      BY <2>2, <2>3, <2>4, <3>1, <3>2, <3>3, <3>4
  <2>5. CASE r \in LinkTypes /\ f \notin Pointers
    <3>1. after[r] = Emptied(row, deleted)
      BY <2>3, <2>5, AbsentAssumption DEF Applied
    <3>2. DOMAIN row = Fields
      BY <2>3 DEF Content
    <3>3. r \notin ObjectTypes
      BY <2>5, KindsAssumption
    <3> HIDE DEF row, after, view, deleted
    <3>4. after[r][f] = row[f]
      BY <2>5, <3>1, <3>2 DEF Emptied
    <3> QED
      BY <2>2, <2>3, <2>5, <3>3, <3>4
  <2>6. CASE r \notin LinkTypes
    <3>1. after[r] = row
      BY <2>3, <2>6 DEF Applied
    <3> HIDE DEF row, after, view
    <3> QED
      BY <2>2, <2>3, <2>6, <3>1
  <2> QED
    BY <2>4, <2>5, <2>6
<1> QED
  BY <1>9, <1>10, <1>11
=============================================================================
