----------------------------- MODULE Pages_proofs -----------------------------
(***************************************************************************)
(* Proofs about the pages of the web client: the pages and the drawer of   *)
(* properties, the detail pages, the search bar, saving, and the review of a*)
(* blueprint.  Each is a component of its own, with an inductive invariant of*)
(* its own; what they share is in Screen_proofs.                           *)
(***************************************************************************)
EXTENDS PropertyPages, DetailPages, Search, SaveFlow, WorkshopReview, Screen_proofs

-----------------------------------------------------------------------------
(***************************************************************************)
(* The keys of an object type and of its properties agree, whatever the    *)
(* properties and their keys are, and whatever is asked for in what order. *)
(***************************************************************************)

\* What the server holds for the page; V and K are the statuses and the keys
\* that have been asked for.
KeyProperties(V, K) == [there : BOOLEAN, status : V, keys : SUBSET K]

KeyRows(V, K) == [Props -> KeyProperties(V, K)]

KeyNames == [PropertyKeys -> Props \cup {None}]

KeyStores(V, K) ==
  [props : KeyRows(V, K), keyOf : KeyNames, active : BOOLEAN, torn : BOOLEAN,
   published : [props : KeyRows(V, K), keyOf : KeyNames, active : BOOLEAN]]

\* A property has a key just if the object type names it, and then it exists.
Matching(props, keyOf) ==
  \A key \in PropertyKeys : \A p \in Props :
    /\ key \in props[p].keys <=> keyOf[key] = p
    /\ key \in props[p].keys => props[p].there

\* So it is in what is published, and in what the draft shows unless a change was
\* taken back alone.
KeysGood(s) ==
  /\ \E V, K : s \in KeyStores(V, K)
  /\ Matching(s.published.props, s.published.keyOf)
  /\ s.torn \/ Matching(s.props, s.keyOf)

KeysIInv == KeysGood(server)

\* In such a store the object type names just the property that has the key.
LEMMA MatchingAgrees ==
  ASSUME NEW s, KeysGood(s), ~s.torn, NEW key \in PropertyKeys
  PROVE  {p \in Existing(s) : key \in s.props[p].keys} = {s.keyOf[key]} \ {None}
<1>1. s.keyOf[key] \in Props \cup {None}
  BY DEF KeysGood, KeyStores, KeyNames
<1>2. {p \in Props : s.props[p].there /\ key \in s.props[p].keys} = {s.keyOf[key]} \ {None}
  BY <1>1, PropertyNoneAssumption DEF KeysGood, Matching
<1> QED
  BY <1>2 DEF Existing

-----------------------------------------------------------------------------
(* The parts of a store. *)

\* More statuses and keys may be asked for.
LEMMA MoreStores ==
  ASSUME NEW V, NEW K, NEW v, NEW k, NEW s \in KeyStores(V, K)
  PROVE  s \in KeyStores(V \cup {v}, K \cup {k})
<1>1. KeyProperties(V, K) \subseteq KeyProperties(V \cup {v}, K \cup {k})
  BY DEF KeyProperties
<1>2. KeyRows(V, K) \subseteq KeyRows(V \cup {v}, K \cup {k})
  BY <1>1 DEF KeyRows
<1> QED
  BY <1>2 DEF KeyStores

\* Every status and key is one that may have been asked for.
LEMMA AnyStores ==
  ASSUME NEW s, KeysGood(s), NEW v, NEW k
  PROVE  \E V, K : s \in KeyStores(V, K) /\ v \in V /\ k \in K
<1>1. PICK V, K : s \in KeyStores(V, K)
  BY DEF KeysGood
<1>2. s \in KeyStores(V \cup {v}, K \cup {k})
  BY <1>1, MoreStores
<1>3. v \in V \cup {v} /\ k \in K \cup {k}
  OBVIOUS
<1> QED BY <1>2, <1>3

\* A property with other keys, or with another status.
LEMMA OtherKeys ==
  ASSUME NEW V, NEW K, NEW r \in KeyProperties(V, K), NEW ks \in SUBSET K
  PROVE  /\ [r EXCEPT !.keys = ks] \in KeyProperties(V, K)
         /\ [r EXCEPT !.keys = ks].keys = ks /\ [r EXCEPT !.keys = ks].there = r.there
BY DEF KeyProperties

\* The same for its status.
LEMMA OtherStatus ==
  ASSUME NEW V, NEW K, NEW r \in KeyProperties(V, K), NEW v \in V
  PROVE  /\ [r EXCEPT !.status = v] \in KeyProperties(V, K)
         /\ [r EXCEPT !.status = v].keys = r.keys
         /\ [r EXCEPT !.status = v].there = r.there
BY DEF KeyProperties

\* The parts of a store.
LEMMA StoreParts ==
  ASSUME NEW V, NEW K, NEW s \in KeyStores(V, K)
  PROVE  /\ s.props \in KeyRows(V, K) /\ s.keyOf \in KeyNames
         /\ s.active \in BOOLEAN /\ s.torn \in BOOLEAN
         /\ s.published.props \in KeyRows(V, K) /\ s.published.keyOf \in KeyNames
         /\ s.published.active \in BOOLEAN
<1> QED BY DEF KeyStores

\* A store is as good as the one before, if the keys agree in its draft.
LEMMA DraftGood ==
  ASSUME NEW s, KeysGood(s), NEW V, NEW K, NEW t \in KeyStores(V, K),
         t.published = s.published, t.torn \/ Matching(t.props, t.keyOf)
  PROVE  KeysGood(t)
BY DEF KeysGood

-----------------------------------------------------------------------------
(* What the server does to its store. *)

\* A key that is given to a property is taken from the one that had it.
LEMMA WithKeyGood ==
  ASSUME NEW s, KeysGood(s), NEW p \in Existing(s), NEW key
  PROVE  KeysGood(WithKey(s, p, key))
<1> DEFINE Keys(q) == IF q = p THEN s.props[q].keys \cup {key} ELSE s.props[q].keys \ {key}
           props == [q \in Props |-> [s.props[q] EXCEPT !.keys = Keys(q)]]
           keyOf == [s.keyOf EXCEPT ![key] = p]
<1>1. PICK V, K : s \in KeyStores(V, K) /\ key \in K
  BY AnyStores
<1>2. p \in Props /\ s.props[p].there
  BY DEF Existing
<1>3. /\ s.props \in KeyRows(V, K) /\ s.keyOf \in KeyNames
      /\ s.active \in BOOLEAN /\ s.torn \in BOOLEAN
  BY <1>1, StoreParts
<1>4. ASSUME NEW q \in Props
      PROVE  s.props[q] \in KeyProperties(V, K) /\ Keys(q) \in SUBSET K
  BY <1>1, <1>3 DEF KeyRows, KeyProperties
<1>5. ASSUME NEW q \in Props
      PROVE  /\ props[q] \in KeyProperties(V, K)
             /\ props[q].keys = Keys(q) /\ props[q].there = s.props[q].there
  <2> DEFINE r == s.props[q]
             ks == Keys(q)
  <2>1. props[q] = [r EXCEPT !.keys = ks] /\ r \in KeyProperties(V, K) /\ ks \in SUBSET K
    BY <1>4
  <2> HIDE DEF props, r, ks
  <2>2. /\ [r EXCEPT !.keys = ks] \in KeyProperties(V, K)
        /\ [r EXCEPT !.keys = ks].keys = ks /\ [r EXCEPT !.keys = ks].there = r.there
    BY <2>1, OtherKeys
  <2> QED BY <2>1, <2>2 DEF r, ks
<1>6. props \in KeyRows(V, K)
  BY <1>5 DEF KeyRows
<1>7. /\ keyOf \in KeyNames
      /\ \A k \in PropertyKeys : keyOf[k] = IF k = key THEN p ELSE s.keyOf[k]
  BY <1>2, <1>3 DEF KeyNames
<1>8. WithKey(s, p, key) = [s EXCEPT !.props = props, !.keyOf = keyOf]
  BY DEF WithKey
<1> HIDE DEF props, keyOf
<1>9. /\ WithKey(s, p, key) \in KeyStores(V, K)
      /\ WithKey(s, p, key).props = props /\ WithKey(s, p, key).keyOf = keyOf
      /\ WithKey(s, p, key).torn = s.torn /\ WithKey(s, p, key).published = s.published
  BY <1>1, <1>3, <1>6, <1>7, <1>8 DEF KeyStores
<1>10. s.torn \/ Matching(props, keyOf)
  <2> SUFFICES ASSUME ~s.torn, NEW k \in PropertyKeys, NEW q \in Props
               PROVE  /\ k \in props[q].keys <=> keyOf[k] = q
                      /\ k \in props[q].keys => props[q].there
    BY DEF Matching
  <2>1. props[q].keys = Keys(q) /\ props[q].there = s.props[q].there
    BY <1>5
  <2>2. /\ k \in s.props[q].keys <=> s.keyOf[k] = q
        /\ k \in s.props[q].keys => s.props[q].there
    BY DEF KeysGood, Matching
  <2>3. keyOf[k] = IF k = key THEN p ELSE s.keyOf[k]
    BY <1>7
  <2> QED BY <1>2, <2>1, <2>2, <2>3
<1> HIDE DEF Keys
<1> QED BY <1>9, <1>10, DraftGood

\* A key that is taken from its property is taken from the object type.
LEMMA WithoutKeyGood ==
  ASSUME NEW s, KeysGood(s), NEW p \in Existing(s), NEW key
  PROVE  KeysGood(WithoutKey(s, p, key))
<1>1. CASE key \notin s.props[p].keys
  BY <1>1 DEF WithoutKey
<1>2. CASE key \in s.props[p].keys
  <2> DEFINE keys == s.props[p].keys \ {key}
             r == s.props[p]
             property == [r EXCEPT !.keys = keys]
             props == [s.props EXCEPT ![p] = property]
             keyOf == [s.keyOf EXCEPT ![key] = None]
  <2>1. PICK V, K : s \in KeyStores(V, K)
    BY DEF KeysGood
  <2>2. /\ s.props \in KeyRows(V, K) /\ s.keyOf \in KeyNames
        /\ s.active \in BOOLEAN /\ s.torn \in BOOLEAN
    BY <2>1, StoreParts
  <2>3. p \in Props
    BY DEF Existing
  <2>4. r \in KeyProperties(V, K) /\ keys \in SUBSET K
    BY <2>2, <2>3 DEF KeyRows, KeyProperties
  <2>5. WithoutKey(s, p, key) = [s EXCEPT !.props = props, !.keyOf = keyOf]
    BY <1>2 DEF WithoutKey
  <2> HIDE DEF r, keys
  <2>6. /\ property \in KeyProperties(V, K)
        /\ property.keys = keys /\ property.there = r.there
    BY <2>4, OtherKeys
  <2> HIDE DEF property
  <2>7. /\ props \in KeyRows(V, K)
        /\ \A q \in Props : /\ props[q].keys = IF q = p THEN keys ELSE s.props[q].keys
                            /\ props[q].there = s.props[q].there
    BY <2>2, <2>3, <2>6 DEF KeyRows, r
  <2>8. /\ keyOf \in KeyNames
        /\ \A k \in PropertyKeys : keyOf[k] = IF k = key THEN None ELSE s.keyOf[k]
    BY <2>2 DEF KeyNames
  <2> HIDE DEF props, keyOf
  <2>9. /\ WithoutKey(s, p, key) \in KeyStores(V, K)
        /\ WithoutKey(s, p, key).props = props /\ WithoutKey(s, p, key).keyOf = keyOf
        /\ WithoutKey(s, p, key).torn = s.torn
        /\ WithoutKey(s, p, key).published = s.published
    BY <2>1, <2>2, <2>5, <2>7, <2>8 DEF KeyStores
  <2>10. s.torn \/ Matching(props, keyOf)
    <3> SUFFICES ASSUME ~s.torn, NEW k \in PropertyKeys, NEW q \in Props
                 PROVE  /\ k \in props[q].keys <=> keyOf[k] = q
                        /\ k \in props[q].keys => props[q].there
      BY DEF Matching
    <3>1. /\ k \in s.props[q].keys <=> s.keyOf[k] = q
          /\ k \in s.props[q].keys => s.props[q].there
          /\ k \in s.props[p].keys <=> s.keyOf[k] = p
      BY <2>3 DEF KeysGood, Matching
    <3>2. keyOf[k] = IF k = key THEN None ELSE s.keyOf[k]
      BY <2>8
    <3> QED BY <1>2, <2>7, <3>1, <3>2, PropertyNoneAssumption DEF keys
  <2> QED BY <2>9, <2>10, DraftGood
<1> QED BY <1>1, <1>2

\* A store whose properties have the keys they had, and exist if they have keys.
LEMMA SameKeysGood ==
  ASSUME NEW s, KeysGood(s), NEW V, NEW K, s \in KeyStores(V, K),
         NEW props \in KeyRows(V, K),
         \A q \in Props : /\ props[q].keys = s.props[q].keys
                          /\ s.props[q].keys # {} => props[q].there = s.props[q].there
  PROVE  KeysGood([s EXCEPT !.props = props])
<1> DEFINE t == [s EXCEPT !.props = props]
<1>1. s.keyOf \in KeyNames /\ s.active \in BOOLEAN /\ s.torn \in BOOLEAN
  BY StoreParts
<1>2. /\ t \in KeyStores(V, K) /\ t.props = props /\ t.keyOf = s.keyOf
      /\ t.torn = s.torn /\ t.published = s.published
  BY <1>1 DEF KeyStores
<1>3. s.torn \/ Matching(props, s.keyOf)
  BY DEF KeysGood, Matching
<1> HIDE DEF t
<1>4. KeysGood(t)
  BY <1>2, <1>3, DraftGood
<1> QED BY <1>4 DEF t

\* The status of properties has no part in it.
LEMMA WithStatusGood ==
  ASSUME NEW s, KeysGood(s), NEW ps, NEW v
  PROVE  KeysGood(WithStatus(s, ps, v))
<1> DEFINE props == [q \in Props |->
             IF q \in ps \cap Existing(s) THEN [s.props[q] EXCEPT !.status = v] ELSE s.props[q]]
<1>1. PICK V, K : s \in KeyStores(V, K) /\ v \in V
  BY AnyStores
<1>2. \A q \in Props : s.props[q] \in KeyProperties(V, K)
  BY <1>1, StoreParts DEF KeyRows
<1>3. \A q \in Props : /\ props[q] \in KeyProperties(V, K)
                       /\ props[q].keys = s.props[q].keys
                       /\ props[q].there = s.props[q].there
  BY <1>1, <1>2, OtherStatus
<1>4. props \in KeyRows(V, K)
  BY <1>3 DEF KeyRows
<1>5. WithStatus(s, ps, v) = [s EXCEPT !.props = props]
  BY DEF WithStatus
<1> HIDE DEF props
<1> QED
  BY <1>1, <1>3, <1>4, <1>5, SameKeysGood

\* What may be deleted has no keys.
LEMMA WithoutPropsGood ==
  ASSUME NEW s, KeysGood(s), NEW ps
  PROVE  KeysGood(WithoutProps(s, ps))
<1> DEFINE props == [q \in Props |-> IF q \in Deletable(s, ps) THEN Gone ELSE s.props[q]]
<1>1. PICK V, K : s \in KeyStores(V, K) /\ "experimental" \in V
  BY AnyStores
<1>2. \A q \in Props : s.props[q] \in KeyProperties(V, K)
  BY <1>1, StoreParts DEF KeyRows
<1>3. Gone \in KeyProperties(V, K) /\ Gone.keys = {}
  BY <1>1 DEF KeyProperties, Gone
<1>4. \A q \in Deletable(s, ps) : s.props[q].keys = {}
  BY DEF Deletable, Protected
<1>5. \A q \in Props : /\ props[q] \in KeyProperties(V, K)
                       /\ props[q].keys = s.props[q].keys
                       /\ s.props[q].keys # {} => props[q].there = s.props[q].there
  BY <1>2, <1>3, <1>4
<1>6. props \in KeyRows(V, K)
  BY <1>5 DEF KeyRows
<1>7. WithoutProps(s, ps) = [s EXCEPT !.props = props]
  BY DEF WithoutProps
<1> HIDE DEF props
<1> QED
  BY <1>1, <1>5, <1>6, <1>7, SameKeysGood

\* A property that comes back is as it was published; if it had keys, the object
\* type may have another one for them.
LEMMA RevivedGood ==
  ASSUME NEW s, KeysGood(s), NEW p \in Props, Found(s, p).there
  PROVE  KeysGood(Revived(s, p)) /\ p \in Existing(Revived(s, p))
<1> DEFINE r == Found(s, p)
           props == [s.props EXCEPT ![p] = r]
           torn == s.torn \/ (p \notin Existing(s) /\ r.keys # {})
<1>1. PICK V, K : s \in KeyStores(V, K)
  BY DEF KeysGood
<1>2. /\ s.props \in KeyRows(V, K) /\ s.keyOf \in KeyNames
      /\ s.active \in BOOLEAN /\ torn \in BOOLEAN /\ s.published.props \in KeyRows(V, K)
  BY <1>1, StoreParts
<1>3. r \in KeyProperties(V, K)
  BY <1>2 DEF KeyRows, Found
<1>4. Revived(s, p) = [s EXCEPT !.props = props, !.torn = torn]
  BY DEF Revived
<1> HIDE DEF r
<1>5. /\ props \in KeyRows(V, K)
      /\ \A q \in Props : props[q] = IF q = p THEN r ELSE s.props[q]
  BY <1>2, <1>3 DEF KeyRows
<1>6. torn \/ Matching(props, s.keyOf)
  <2> SUFFICES ASSUME ~torn
               PROVE  Matching(props, s.keyOf)
    OBVIOUS
  <2>1. Matching(s.props, s.keyOf)
    BY DEF KeysGood
  <2>2. CASE p \in Existing(s)
    <3>1. r = s.props[p]
      BY <2>2 DEF r, Found, Existing
    <3> QED BY <1>5, <2>1, <3>1 DEF Matching
  <2>3. CASE p \notin Existing(s)
    <3>1. r.keys = {} /\ \A k \in PropertyKeys : k \notin s.props[p].keys
      BY <2>1, <2>3 DEF Existing, Matching
    <3> QED BY <1>5, <2>1, <3>1 DEF Matching
  <2> QED BY <2>2, <2>3
<1> HIDE DEF props, torn
<1>7. /\ Revived(s, p) \in KeyStores(V, K)
      /\ Revived(s, p).props = props /\ Revived(s, p).keyOf = s.keyOf
      /\ Revived(s, p).torn = torn /\ Revived(s, p).published = s.published
  BY <1>1, <1>2, <1>4, <1>5 DEF KeyStores
<1>8. p \in Existing(Revived(s, p))
  BY <1>5, <1>7 DEF Existing, r
<1>9. KeysGood(Revived(s, p))
  BY <1>6, <1>7, DraftGood
<1> QED BY <1>8, <1>9

\* Nor has the status of the object type.
LEMMA ActiveGood ==
  ASSUME NEW s, KeysGood(s)
  PROVE  KeysGood([s EXCEPT !.active = ~@])
<1> DEFINE other == ~s.active
           t == [s EXCEPT !.active = other]
<1>1. PICK V, K : s \in KeyStores(V, K)
  BY DEF KeysGood
<1>2. /\ s.props \in KeyRows(V, K) /\ s.keyOf \in KeyNames
      /\ other \in BOOLEAN /\ s.torn \in BOOLEAN
  BY <1>1, StoreParts
<1> HIDE DEF other
<1>3. /\ t \in KeyStores(V, K) /\ t.props = s.props /\ t.keyOf = s.keyOf
      /\ t.torn = s.torn /\ t.published = s.published
  BY <1>1, <1>2 DEF KeyStores
<1> HIDE DEF t
<1>4. KeysGood(t)
  BY <1>3, DraftGood DEF KeysGood
<1> QED BY <1>4 DEF t, other

\* Without its changes the draft shows what is published.
LEMMA DraftDiscardGood ==
  ASSUME NEW s, KeysGood(s)
  PROVE  KeysGood(DraftDiscard(s))
<1>1. PICK V, K : s \in KeyStores(V, K)
  BY DEF KeysGood
<1>2. /\ s.published.props \in KeyRows(V, K) /\ s.published.keyOf \in KeyNames
      /\ s.published.active \in BOOLEAN /\ s.torn \in BOOLEAN
  BY <1>1, StoreParts
<1>3. LET t == DraftDiscard(s)
      IN  /\ t \in KeyStores(V, K) /\ t.props = s.published.props
          /\ t.keyOf = s.published.keyOf /\ t.published = s.published
  BY <1>1, <1>2 DEF KeyStores, DraftDiscard
<1> HIDE DEF DraftDiscard
<1> QED BY <1>3, DraftGood DEF KeysGood

\* The change of a property alone.
LEMMA PropertyDiscardGood ==
  ASSUME NEW s, KeysGood(s), NEW p \in Props
  PROVE  KeysGood(PropertyDiscard(s, p))
<1> DEFINE r == s.published.props[p]
           props == [s.props EXCEPT ![p] = r]
           torn == s.torn \/ s.props[p].keys # r.keys
<1>1. PICK V, K : s \in KeyStores(V, K)
  BY DEF KeysGood
<1>2. /\ s.props \in KeyRows(V, K) /\ s.keyOf \in KeyNames
      /\ s.active \in BOOLEAN /\ torn \in BOOLEAN /\ s.published.props \in KeyRows(V, K)
  BY <1>1, StoreParts
<1>3. r \in KeyProperties(V, K) /\ \A k \in PropertyKeys : k \in r.keys => r.there
  BY <1>2 DEF KeyRows, KeysGood, Matching
<1>4. PropertyDiscard(s, p) = [s EXCEPT !.props = props, !.torn = torn]
  BY DEF PropertyDiscard
<1> HIDE DEF r
<1>5. /\ props \in KeyRows(V, K)
      /\ \A q \in Props : props[q] = IF q = p THEN r ELSE s.props[q]
  BY <1>2, <1>3 DEF KeyRows
<1>6. torn \/ Matching(props, s.keyOf)
  BY <1>3, <1>5 DEF KeysGood, Matching
<1> HIDE DEF props, torn
<1>7. LET t == PropertyDiscard(s, p)
      IN  /\ t \in KeyStores(V, K) /\ t.props = props /\ t.keyOf = s.keyOf
          /\ t.torn = torn /\ t.published = s.published
  BY <1>1, <1>2, <1>4, <1>5 DEF KeyStores
<1> QED
  BY <1>6, <1>7, DraftGood

\* The change of the object type alone.
LEMMA ObjectTypeDiscardGood ==
  ASSUME NEW s, KeysGood(s)
  PROVE  KeysGood(ObjectTypeDiscard(s))
<1> DEFINE torn == s.torn \/ s.keyOf # s.published.keyOf
<1>1. PICK V, K : s \in KeyStores(V, K)
  BY DEF KeysGood
<1>2. /\ s.props \in KeyRows(V, K) /\ s.published.keyOf \in KeyNames
      /\ s.published.active \in BOOLEAN /\ torn \in BOOLEAN
  BY <1>1, StoreParts
<1>3. ObjectTypeDiscard(s) = [s EXCEPT !.keyOf = s.published.keyOf,
                                       !.active = s.published.active, !.torn = torn]
  BY DEF ObjectTypeDiscard
<1>4. torn \/ Matching(s.props, s.published.keyOf)
  BY DEF KeysGood
<1> HIDE DEF torn
<1>5. LET t == ObjectTypeDiscard(s)
      IN  /\ t \in KeyStores(V, K) /\ t.props = s.props /\ t.keyOf = s.published.keyOf
          /\ t.torn = torn /\ t.published = s.published
  BY <1>1, <1>2, <1>3 DEF KeyStores
<1> QED BY <1>4, <1>5, DraftGood

-----------------------------------------------------------------------------
(* The behaviours of the page. *)

\* At first the draft has taken nothing away from what is published.
LEMMA KeysInitially == PageInit => KeysIInv
<1> SUFFICES ASSUME PageInit PROVE KeysIInv
  OBVIOUS
<1> DEFINE Property(keyOf, p) == [there |-> TRUE, status |-> "experimental",
                                  keys |-> {key \in PropertyKeys : keyOf[key] = p}]
<1>1. PICK rows \in SUBSET Props :
        \E keyOf \in [PropertyKeys -> IF rows = {} THEN {None} ELSE rows] :
          server = [props |-> [p \in Props |-> Property(keyOf, p)],
                    keyOf |-> keyOf, active |-> FALSE, torn |-> FALSE,
                    published |->
                      [props |-> [p \in Props |-> IF p \in rows THEN Property(keyOf, p)
                                                  ELSE Gone],
                       keyOf |-> keyOf, active |-> FALSE]]
  BY DEF PageInit
<1>2. PICK keyOf \in [PropertyKeys -> IF rows = {} THEN {None} ELSE rows] :
          server = [props |-> [p \in Props |-> Property(keyOf, p)],
                    keyOf |-> keyOf, active |-> FALSE, torn |-> FALSE,
                    published |->
                      [props |-> [p \in Props |-> IF p \in rows THEN Property(keyOf, p)
                                                  ELSE Gone],
                       keyOf |-> keyOf, active |-> FALSE]]
  BY <1>1
<1> DEFINE props == [p \in Props |-> Property(keyOf, p)]
           known == [p \in Props |-> IF p \in rows THEN Property(keyOf, p) ELSE Gone]
           V == {"experimental"}
           K == PropertyKeys
<1>3. \A p : Property(keyOf, p) \in KeyProperties(V, K)
  BY DEF KeyProperties
<1>4. Gone \in KeyProperties(V, K) /\ Gone.keys = {}
  BY DEF KeyProperties, Gone
<1>5. keyOf \in KeyNames
  BY DEF KeyNames
<1>6. Matching(props, keyOf) /\ Matching(known, keyOf)
  <2> SUFFICES ASSUME NEW key \in PropertyKeys, NEW p \in Props
               PROVE  /\ key \in props[p].keys <=> keyOf[key] = p
                      /\ key \in props[p].keys => props[p].there
                      /\ key \in known[p].keys <=> keyOf[key] = p
                      /\ key \in known[p].keys => known[p].there
    BY DEF Matching
  <2>1. keyOf[key] = p => p \in rows
    BY PropertyNoneAssumption
  <2> QED BY <1>4, <2>1
<1>7. props \in KeyRows(V, K) /\ known \in KeyRows(V, K)
  <2> HIDE DEF Property, V, K
  <2> QED BY <1>3, <1>4 DEF KeyRows
<1>8. server = [props |-> props, keyOf |-> keyOf, active |-> FALSE, torn |-> FALSE,
                published |-> [props |-> known, keyOf |-> keyOf, active |-> FALSE]]
  BY <1>2
<1> HIDE DEF props, known, Property, V, K
<1>9. server \in KeyStores(V, K)
  BY <1>5, <1>7, <1>8 DEF KeyStores
<1> QED
  BY <1>6, <1>8, <1>9 DEF KeysIInv, KeysGood

\* One property is updated.
LEMMA UpdatedGood ==
  ASSUME NEW s, KeysGood(s), NEW p \in Props, NEW c, UpdateAllowed(s, p, c)
  PROVE  KeysGood(Updated(s, p, c))
<1> DEFINE t == Revived(s, p)
<1>1. KeysGood(t) /\ p \in Existing(t)
  BY RevivedGood DEF UpdateAllowed
<1> HIDE DEF t
<1>2. /\ KeysGood(WithStatus(t, {p}, c.value))
      /\ KeysGood(WithKey(t, p, c.key)) /\ KeysGood(WithoutKey(t, p, c.key))
  BY <1>1, WithStatusGood, WithKeyGood, WithoutKeyGood
<1>3. Updated(s, p, c) \in {WithStatus(t, {p}, c.value), WithKey(t, p, c.key),
                            WithoutKey(t, p, c.key), t}
  BY DEF Updated, t
<1> QED BY <1>1, <1>2, <1>3

\* A request is carried out.
LEMMA KeysServed ==
  ASSUME KeysIInv, NEW i, PropertyServe(i)
  PROVE  KeysIInv'
<1> DEFINE c == calls[i]
<1>1. CASE server' = server
  BY <1>1 DEF KeysIInv
<1>2. CASE server' = WithStatus(server, c.rids, c.value)
  BY <1>2, WithStatusGood DEF KeysIInv
<1>3. CASE \E p \in Props : UpdateAllowed(server, p, c) /\ server' = Updated(server, p, c)
  BY <1>3, UpdatedGood DEF KeysIInv
<1>4. CASE server' = WithoutProps(server, c.rids)
  BY <1>4, WithoutPropsGood DEF KeysIInv
<1> QED
  BY <1>1, <1>2, <1>3, <1>4 DEF PropertyServe

\* So are the requests of other pages.
LEMMA KeysElsewhere ==
  ASSUME KeysIInv, NEW p, PropertyElsewhere(p)
  PROVE  KeysIInv'
BY WithStatusGood, WithKeyGood, WithoutKeyGood, WithoutPropsGood, ActiveGood
DEF PropertyElsewhere, KeysIInv

\* And what is discarded there.
LEMMA KeysDiscarded ==
  ASSUME KeysIInv, DiscardElsewhere
  PROVE  KeysIInv'
BY DraftDiscardGood, PropertyDiscardGood, ObjectTypeDiscardGood
DEF DiscardElsewhere, KeysIInv

\* Other steps leave the server alone.
LEMMA OthersLeaveServer ==
  ASSUME PageNext, ~ \E i \in 1..MaxCalls : PropertyServe(i),
         ~ \E p \in Props : PropertyElsewhere(p), ~DiscardElsewhere
  PROVE  server' = server
BY DEF PageNext, RowSelect, RowClick, PageRefresh, RowsDeselect, BatchVisibility, BatchDelete,
       RowDrag, BatchStatus, PanelStatus, PanelRename, PanelRenameApi, PanelMapColumn,
       PanelVisibility, PanelKey, PanelDelete, PanelClose, BatchDone, PanelDeleted,
       PageAnswered, PanelAsk

\* Whatever is asked for, by panels that are out of date, by batches and by other
\* pages: a property has a key just if its object type names it, and a property
\* that has a key exists, unless a change was taken back alone.
THEOREM KeysMatch == PageSpec => []KeysIInv
<1>1. KeysIInv /\ [PageNext \/ \E i \in 1..MaxCalls : Refuse(i) \/ LoseAnswer(i)]_vars
        => KeysIInv'
  <2> SUFFICES ASSUME KeysIInv,
                      [PageNext \/ \E i \in 1..MaxCalls : Refuse(i) \/ LoseAnswer(i)]_vars
               PROVE  KeysIInv'
    OBVIOUS
  <2>1. CASE \E i \in 1..MaxCalls : PropertyServe(i)
    BY <2>1, KeysServed
  <2>2. CASE \E p \in Props : PropertyElsewhere(p)
    BY <2>2, KeysElsewhere
  <2>3. CASE DiscardElsewhere
    BY <2>3, KeysDiscarded
  <2>4. CASE server' = server
    BY <2>4 DEF KeysIInv
  <2>5. CASE UNCHANGED vars \/ \E i \in 1..MaxCalls : Refuse(i) \/ LoseAnswer(i)
    BY <2>4, <2>5 DEF vars, Refuse, LoseAnswer
  <2> QED BY <2>1, <2>2, <2>3, <2>4, <2>5, OthersLeaveServer
<1> QED BY <1>1, KeysInitially, PTL DEF PageSpec

\* An object type has at most one property for each key, and its own record of
\* the key names just that property, which exists, unless a late update brought a
\* deleted property back with the keys it had as published, or one of the two changes
\* that a key is set or unset by was discarded alone.
THEOREM RecordsAgree == PageSpec => []KeysAgree
<1>1. KeysIInv => KeysAgree
  BY MatchingAgrees DEF KeysIInv, KeysAgree
<1> QED BY <1>1, KeysMatch, PTL

-----------------------------------------------------------------------------
(***************************************************************************)
(* The detail pages: a field sends what the user has typed since it took   *)
(* the value that it shows, or that value without the blanks around it.    *)
(***************************************************************************)

DetailFields == {"kind", "page", "at", "shown", "editing", "draft", "typed", "known",
                 "deleting", "recent"}

DetailTyped ==
  /\ DetailFields \subseteq DOMAIN form
  /\ DOMAIN form.shown = Resources /\ form.at \in Resources \cup {None}

\* The text of the field has been typed last, or is what the field shows.
TypedOrShown(f) ==
  f.page = "object" /\ f.at # None => f.draft \in {f.typed, f.shown[f.at]}

\* The inductive invariant.
DetailIInv == DetailTyped /\ TypedOrShown(form) /\ CallsTyped

DetailStep == DetailNext \/ \E i \in 1..MaxCalls : Refuse(i) \/ LoseAnswer(i)

\* A field that follows what it shows.
LEMMA InlineDraftFits ==
  ASSUME NEW f, NEW g, TypedOrShown(f), f.page = g.page, f.typed = g.typed,
         DetailFields \subseteq DOMAIN g, f.draft = g.draft, f.at # None
  PROVE  LET h == InlineDraft(f, g)
         IN  /\ TypedOrShown(h) /\ DOMAIN h = DOMAIN g
             /\ \A x \in DetailFields \ {"draft", "typed"} : h[x] = g[x]
BY DEF InlineDraft, Taken, TypedOrShown, DetailFields

\* The form, whatever the handlers do.
LEMMA DetailFormStep ==
  ASSUME DetailTyped, TypedOrShown(form), [DetailStep]_vars
  PROVE  DetailTyped' /\ TypedOrShown(form')
<1> USE DEF DetailTyped, DetailFields
<1> DEFINE Goal == DetailTyped' /\ TypedOrShown(form')
<1> SUFFICES Goal
  OBVIOUS
<1>1. CASE UNCHANGED form
  BY <1>1
<1>2. CASE InlineEdit \/ InlineCancel
  BY <1>2 DEF InlineEdit, InlineCancel, Taken, TypedOrShown
<1>3. ASSUME NEW text, InlineType(text)
      PROVE  Goal
  BY <1>3 DEF InlineType, TypedOrShown
<1>4. CASE InlineSave
  BY <1>4 DEF InlineSave, Taken, TypedOrShown
<1>5. CASE (\E text \in Texts : LinkFieldType(text)) \/ LinkFieldFocus \/ LinkFieldBlur
  BY <1>5 DEF LinkFieldType, LinkFieldFocus, LinkFieldBlur, TypedOrShown, OnDetail
<1>6. ASSUME NEW r \in Resources, DetailVisit(r)
      PROVE  Goal
  <2> DEFINE g == Visited(form, r)
  <2>1. /\ form' = InlineDraft(form, g) /\ form.at # None
    BY <1>6 DEF DetailVisit, OnDetail
  <2>2. /\ DetailFields \subseteq DOMAIN g /\ g.page = form.page /\ g.typed = form.typed
        /\ g.draft = form.draft /\ g.at = r /\ g.shown = form.shown
    BY DEF Visited
  <2> HIDE DEF g
  <2> QED BY <2>1, <2>2, InlineDraftFits
<1>7. ASSUME NEW r \in Resources, RecentClick(r)
      PROVE  Goal
  BY <1>7 DEF RecentClick, Visited, Taken, TypedOrShown
<1>8. ASSUME NEW r \in Resources, DetailLoads(r)
      PROVE  Goal
  <2> DEFINE g == [form EXCEPT !.shown[r] = server.name[r],
                     !.known = IF r \in server.active THEN @ \cup {r} ELSE @ \ {r}]
  <2>1. form' = IF r = form.at THEN InlineDraft(form, g) ELSE g
    BY <1>8 DEF DetailLoads
  <2>2. /\ DetailFields \subseteq DOMAIN g /\ g.page = form.page /\ g.typed = form.typed
        /\ g.draft = form.draft /\ g.at = form.at /\ DOMAIN g.shown = Resources
        /\ \A q \in Resources : q # r => g.shown[q] = form.shown[q]
    OBVIOUS
  <2> HIDE DEF g
  <2>3. CASE r = form.at /\ form.at # None
    BY <2>1, <2>2, <2>3, InlineDraftFits
  <2>4. CASE r # form.at
    BY <2>1, <2>2, <2>4 DEF TypedOrShown
  <2>5. CASE r = form.at /\ form.at = None
    <3>1. form' = g
      BY <2>1, <2>2, <2>5 DEF InlineDraft
    <3> QED BY <2>1, <2>2, <2>5, <3>1 DEF TypedOrShown
  <2> QED BY <2>3, <2>4, <2>5
<1>9. CASE DetailLeave \/ DeleteAsk \/ DeleteCancel
  BY <1>9 DEF DetailLeave, DeleteAsk, DeleteCancel, TypedOrShown
<1>10. ASSUME NEW i, DetailDeleted(i)
       PROVE  Goal
  BY <1>10 DEF DetailDeleted, TypedOrShown
<1> QED
  BY <1>1, <1>2, <1>3, <1>4, <1>5, <1>6, <1>7, <1>8, <1>9, <1>10
  DEF DetailStep, DetailNext, DetailStatus, DeleteObject, DeleteLink, DetailAnswered,
      DetailServe, DetailElsewhere, Refuse, LoseAnswer, vars

\* A handler is started: it is the last.
LEMMA DetailStarted ==
  ASSUME CallsTyped, NEW call, DetailStart(call), "ask" \in DOMAIN call
  PROVE  CallsTyped' /\ Last(calls') = With(call, "state", "sent")
<1>1. Start(call)
  BY DEF DetailStart
<1>2. CallsTyped' /\ calls' = Append(calls, With(call, "state", "sent"))
  BY <1>1, Started
<1>3. PICK V : calls \in Seq(V)
  BY DEF CallsTyped
<1>4. /\ Len(calls') = Len(calls) + 1
      /\ calls'[Len(calls) + 1] = With(call, "state", "sent")
  BY <1>2, <1>3
<1> QED BY <1>2, <1>4 DEF Last

\* An answer changes a handler, and starts none.
LEMMA DetailAnswer ==
  ASSUME CallsTyped, NEW i \in 1..Len(calls), NEW state, Answer(i, state)
  PROVE  CallsTyped' /\ Len(calls') = Len(calls)
<1> DEFINE call == [calls[i] EXCEPT !.state = state]
<1>1. calls' = [calls EXCEPT ![i] = call] /\ Asked(call)
  BY DEF Answer, CallsTyped, UnderWay, Asked
<1> HIDE DEF call
<1> QED BY <1>1, Changed

\* The handlers: those that are started are asked for something else than a name,
\* or for one as the field has it.
LEMMA DetailCallsStep ==
  ASSUME DetailIInv, [DetailStep]_vars
  PROVE  /\ CallsTyped'
         /\ OnDetail("object") /\ Len(calls') > Len(calls) /\ Last(calls').ask = "rename" =>
              \E text \in {form.typed, Shown} \ {None} : Last(calls').name = Trimmed(text)
<1> DEFINE Sends == OnDetail("object") /\ Len(calls') > Len(calls)
                    /\ Last(calls').ask = "rename"
           Fits == \E text \in {form.typed, Shown} \ {None} : Last(calls').name = Trimmed(text)
           Goal == CallsTyped' /\ (Sends => Fits)
<1> SUFFICES Goal
  OBVIOUS
<1>1. CallsTyped /\ Len(calls) \in Nat
  BY DEF DetailIInv, CallsTyped
<1>2. CASE UNCHANGED calls
  BY <1>1, <1>2 DEF CallsTyped, UnderWay
<1>3. CASE InlineSave /\ ~UNCHANGED calls
  <2> DEFINE name == Trimmed(form.draft)
             call == [ask |-> "rename", rid |-> form.at, name |-> name]
  <2>1. form.draft # None /\ DetailStart(call)
    BY <1>3 DEF InlineSave
  <2>2. form.draft \in {form.typed, Shown}
    BY <1>3 DEF DetailIInv, TypedOrShown, InlineSave, OnDetail, Shown
  <2>3. With(call, "state", "sent").name = name /\ "ask" \in DOMAIN call
    BY DEF With
  <2> HIDE DEF call
  <2>4. CallsTyped' /\ Last(calls').name = name
    BY <1>1, <2>1, <2>3, DetailStarted
  <2> QED BY <2>1, <2>2, <2>4
<1>4. CASE LinkFieldBlur /\ ~UNCHANGED calls
  <2> DEFINE call == [ask |-> "rename", rid |-> form.at, name |-> form.draft]
  <2>1. DetailStart(call) /\ "ask" \in DOMAIN call /\ ~OnDetail("object")
    BY <1>4 DEF LinkFieldBlur, OnDetail
  <2> HIDE DEF call
  <2> QED BY <1>1, <2>1, DetailStarted
<1>5. ASSUME NEW ask \in {"status", "delete"}, DetailStart([ask |-> ask, rid |-> form.at])
      PROVE  Goal
  <2> DEFINE call == [ask |-> ask, rid |-> form.at]
  <2>1. DetailStart(call) /\ "ask" \in DOMAIN call
    BY <1>5
  <2>2. With(call, "state", "sent").ask # "rename"
    BY DEF With
  <2> HIDE DEF call
  <2> QED BY <1>1, <2>1, <2>2, DetailStarted
<1>6. ASSUME NEW i, DetailDeleted(i) \/ DetailAnswered(i)
      PROVE  Goal
  <2>1. i \in 1..Len(calls) /\ Return(i)
    BY <1>6 DEF DetailDeleted, DetailAnswered, Waiting
  <2>2. CallsTyped' /\ Len(calls') = Len(calls) - 1
    BY <1>1, <2>1, Returned
  <2> QED BY <1>1, <2>2
<1>7. ASSUME NEW i, NEW state, i \in 1..Len(calls), Answer(i, state)
      PROVE  Goal
  <2>1. CallsTyped' /\ Len(calls') = Len(calls)
    BY <1>1, <1>7, DetailAnswer
  <2> QED BY <1>1, <2>1
<1> QED
  BY <1>2, <1>3, <1>4, <1>5, <1>6, <1>7
  DEF DetailStep, DetailNext, InlineEdit, InlineCancel, InlineType, LinkFieldType,
      LinkFieldFocus, DetailVisit, RecentClick, DetailLoads, DetailLeave, DeleteAsk,
      DeleteCancel, DetailServe, DetailStatus, DeleteObject, DeleteLink, DetailElsewhere,
      Refuse, LoseAnswer, Waiting, vars

\* A field of an object type that is left sends what the user has last typed in it since
\* it took the value that it shows, or that value, but without the blanks around it.
THEOREM InlineWritesFit == DetailSpec => InlineWritesTyped
<1>1. DetailInit => DetailIInv
  <2> SUFFICES ASSUME DetailInit PROVE DetailIInv
    OBVIOUS
  <2>1. PICK names \in [Resources -> Texts], page \in {"object", "link"}, r \in Resources :
          form = DetailDefault(page, r, names)
    BY DEF DetailInit
  <2>2. calls \in Seq({}) /\ UnderWay = {}
    BY DEF DetailInit, UnderWay
  <2>3. DetailTyped /\ TypedOrShown(form)
    BY <2>1 DEF DetailDefault, DetailTyped, DetailFields, TypedOrShown
  <2> QED BY <2>2, <2>3 DEF DetailIInv, CallsTyped
<1>2. DetailIInv /\ [DetailStep]_vars => DetailIInv'
  BY DetailFormStep, DetailCallsStep DEF DetailIInv
<1>3. DetailIInv /\ [DetailStep]_vars =>
        [(OnDetail("object") /\ Len(calls') > Len(calls) /\ Last(calls').ask = "rename") =>
           \E text \in {form.typed, Shown} \ {None} : Last(calls').name = Trimmed(text)]_vars
  BY DetailCallsStep
<1> QED BY <1>1, <1>2, <1>3, PTL DEF DetailSpec, DetailStep, InlineWritesTyped

-----------------------------------------------------------------------------
(* The search bar: the results that take the page's place fit its words. *)

SearchFields == {"kind", "input", "query", "mode", "type", "timer"}

\* The inductive invariant: the words in the bar, if there are any, are those of
\* the query, or of the pause that is going to make them the query.  A pause that
\* goes on when the search has been left is begun anew with the next words.
SearchIInv ==
  /\ SearchFields \subseteq DOMAIN form
  /\ form.input # Blank =>
       IF form.timer = None THEN form.query = form.input ELSE form.timer = form.input

\* The bar, whatever is typed and left.
LEMMA SearchStep ==
  ASSUME SearchIInv, [SearchNext]_vars
  PROVE  SearchIInv'
<1> USE DEF SearchIInv, SearchFields
<1>1. ASSUME NEW words \in Words, SearchChange(words)
      PROVE  SearchIInv'
  <2>1. words # None
    BY SearchNoneAssumption
  <2> QED BY <1>1, <2>1 DEF SearchChange, SearchLeft
<1>2. CASE SearchTimer
  BY <1>2 DEF SearchTimer
<1>3. CASE SearchFocus \/ \E type \in SearchTypes : SearchChooseType(type)
  BY <1>3 DEF SearchFocus, SearchChooseType
<1>4. CASE SearchClear \/ SearchEscape \/ SearchChooseResult
  BY <1>4 DEF SearchClear, SearchEscape, SearchChooseResult, SearchLeft
<1>5. CASE UNCHANGED vars
  BY <1>5 DEF vars
<1> QED BY <1>1, <1>2, <1>3, <1>4, <1>5 DEF SearchNext

\* When the pause is over, the results that take the page's place are those of the
\* words in the bar.
THEOREM ResultsFit == SearchSpec => []ResultsFitTheBar
<1>1. SearchInit => SearchIInv
  BY DEF SearchInit, SearchDefault, SearchIInv, SearchFields
<1>2. SearchIInv => ResultsFitTheBar
  BY DEF SearchIInv, ResultsFitTheBar
<1> QED BY <1>1, <1>2, SearchStep, PTL DEF SearchSpec

-----------------------------------------------------------------------------
(***************************************************************************)
(* A change that the user was told to be discarded is not listed, for any  *)
(* number of changes, edits and handlers at a time.  What was discarded has an*)
(* identifier that no change of the draft has and none will get: identifiers*)
(* are given once, and merging keeps the one of the change that is merged  *)
(* into.                                                                   *)
(***************************************************************************)

ChangeIds(changes) == {c.id : c \in changes}

\* Changes have identifiers below next, each its own.
Identified(changes, next) ==
  /\ \A c \in changes : {"id", "named"} \subseteq DOMAIN c /\ c.id \in Nat /\ c.id < next
  /\ \A c, d \in changes : c.id = d.id => c = d

\* Identifiers that have been given and are those of no change of the draft.
PastId(ids, draft) == \A id \in ids : id \in Nat /\ id < draft.next /\ id \notin ChangeIds(draft.changes)

SaveTyped ==
  /\ CallsTyped
  /\ {"kind", "open", "shown", "fetching", "fetched", "unloaded", "gone"} \subseteq DOMAIN form
  /\ {"published", "changes", "next"} \subseteq DOMAIN server

DraftIdentified == server.next \in Nat /\ Identified(server.changes, server.next)

\* A discard that has been carried out.
Discarded(call) == call.ask \in {"discard", "discardAll"} /\ call.state = "done"

AnswersPast == \A call \in UnderWay : Discarded(call) => PastId(call.ids, server)

\* What was loaded after the last discard that the user was told of.
FormPast ==
  /\ PastId(form.gone, server)
  /\ form.fetched # None => ChangeIds(form.fetched) \cap form.gone = {}
  /\ ~form.fetching /\ ~form.unloaded => ChangeIds(form.shown) \cap form.gone = {}

\* The inductive invariant.
SaveIInv == SaveTyped /\ DraftIdentified /\ AnswersPast /\ FormPast

-----------------------------------------------------------------------------
(* The draft. *)

\* Merging a change into the draft gives the next identifier to at most one
\* change, and every other keeps its own.
LEMMA CollapsedIdentified ==
  ASSUME NEW changes, NEW next \in Nat, Identified(changes, next), NEW edit,
         edit \in Edits(server)
  PROVE  LET new == With(edit, "id", next)
         IN  /\ Identified(Collapsed(changes, new), next + 1)
             /\ ChangeIds(Collapsed(changes, new)) \subseteq ChangeIds(changes) \cup {next}
<1> DEFINE new == With(edit, "id", next)
           old == On(changes, new.on)
           Merged(c) == IF new.type = "UPDATE" /\ c.type # "DELETE"
                        THEN {[c EXCEPT !.named = @ \/ new.named]}
                        ELSE IF c.type = "CREATE" THEN {}
                        ELSE {new}
           merged == Collapsed(changes, new)
<1>1. new.id = next /\ {"id", "named"} \subseteq DOMAIN new
  BY DEF With, Edits
<1>2. merged = IF old = {} THEN changes \cup {new}
               ELSE (changes \ old) \cup UNION {Merged(c) : c \in old}
  BY DEF Collapsed
<1>3. old \subseteq changes
  BY DEF On
<1>4. ASSUME NEW c \in changes
      PROVE  LET d == [c EXCEPT !.named = @ \/ new.named]
             IN  {"id", "named"} \subseteq DOMAIN d /\ d.id = c.id
  BY DEF Identified
<1> DEFINE Kept(c) == IF c \in old THEN [c EXCEPT !.named = @ \/ new.named] ELSE c
<1>5. ASSUME NEW c \in changes
      PROVE  {"id", "named"} \subseteq DOMAIN Kept(c) /\ Kept(c).id = c.id
  BY <1>4 DEF Identified
<1>6. ASSUME NEW d \in merged, d # new
      PROVE  \E c \in changes : d = Kept(c)
  <2> HIDE DEF new, old, merged
  <2>1. CASE d \in changes \ old
    BY <2>1
  <2>2. CASE d \notin changes \ old
    <3>1. PICK c \in old : d \in Merged(c)
      BY <1>2, <1>6, <2>2
    <3>2. d = [c EXCEPT !.named = @ \/ new.named]
      BY <1>6, <3>1
    <3> QED BY <1>3, <3>1, <3>2
  <2> QED BY <2>1, <2>2
<1> HIDE DEF new, old, merged, Kept
<1>7. \A c \in changes : c.id \in Nat /\ c.id < next
  BY DEF Identified
<1>8. \A d \in merged : {"id", "named"} \subseteq DOMAIN d /\ d.id \in Nat /\ d.id < next + 1
  BY <1>1, <1>5, <1>6, <1>7
<1>9. ASSUME NEW d \in merged, NEW e \in merged, d.id = e.id
      PROVE  d = e
  <2>1. ASSUME NEW g \in merged, g # new
        PROVE  g.id # new.id
    BY <1>1, <1>5, <1>6, <1>7, <2>1
  <2>2. CASE d # new /\ e # new
    <3>1. PICK b \in changes : d = Kept(b)
      BY <1>6, <2>2
    <3>2. PICK c \in changes : e = Kept(c)
      BY <1>6, <2>2
    <3>3. b = c
      BY <1>5, <1>9, <3>1, <3>2 DEF Identified
    <3> QED BY <3>1, <3>2, <3>3
  <2> QED BY <1>9, <2>1, <2>2
<1>10. ChangeIds(merged) \subseteq ChangeIds(changes) \cup {next}
  BY <1>1, <1>5, <1>6 DEF ChangeIds
<1> QED BY <1>8, <1>9, <1>10 DEF Identified, new, merged

\* What is discarded is past: no change that stays has the identifier of one that
\* goes.
LEMMA GonePast ==
  ASSUME DraftIdentified, NEW gone, gone \subseteq server.changes,
         {"published", "changes", "next"} \subseteq DOMAIN server,
         server' = [server EXCEPT !.changes = @ \ gone]
  PROVE  PastId(ChangeIds(gone), server') /\ DraftIdentified'
<1>1. server'.next = server.next /\ server'.changes = server.changes \ gone
  OBVIOUS
<1> QED BY <1>1 DEF PastId, ChangeIds, DraftIdentified, Identified

\* What is past stays past when the draft has fewer identifiers of its own than
\* before, or new ones.
LEMMA PastStays ==
  ASSUME server.next \in Nat, server'.next \in Nat, server.next <= server'.next,
         \A id \in ChangeIds(server'.changes) : id \in ChangeIds(server.changes) \/ id = server.next,
         NEW ids, PastId(ids, server)
  PROVE  PastId(ids, server')
BY DEF PastId

-----------------------------------------------------------------------------
(* The steps. *)

\* A step that changes nothing but the draft, at most by one identifier.
LEMMA SaveDraftStep ==
  ASSUME SaveIInv,
         \/ \E edit \in Edits(server) : server' = Drafted(server, edit)
         \/ server' = SavePublishedDraft(server)
         \/ \E gone \in SUBSET server.changes :
              server' = [server EXCEPT !.changes = @ \ gone]
  PROVE  /\ {"published", "changes", "next"} \subseteq DOMAIN server'
         /\ DraftIdentified'
         /\ \A ids : PastId(ids, server) => PastId(ids, server')
<1> USE DEF SaveIInv, SaveTyped
<1> DEFINE next == server.next
<1>1. {"published", "changes", "next"} \subseteq DOMAIN server'
  BY DEF Drafted, SavePublishedDraft
<1>2. /\ server'.next \in Nat /\ server.next <= server'.next
      /\ Identified(server'.changes, server'.next)
      /\ \A id \in ChangeIds(server'.changes) : id \in ChangeIds(server.changes) \/ id = server.next
  <2>1. CASE \E edit \in Edits(server) : server' = Drafted(server, edit)
    <3>1. PICK edit \in Edits(server) : server' = Drafted(server, edit)
      BY <2>1
    <3>2. /\ server'.changes = Collapsed(server.changes, With(edit, "id", server.next))
          /\ server'.next = server.next + 1
      BY <3>1 DEF Drafted
    <3>3. server.next \in Nat /\ Identified(server.changes, server.next)
      BY DEF DraftIdentified
    <3>4. /\ Identified(server'.changes, server.next + 1)
          /\ ChangeIds(server'.changes) \subseteq ChangeIds(server.changes) \cup {server.next}
      BY <3>1, <3>2, <3>3, CollapsedIdentified
    <3> QED BY <3>2, <3>3, <3>4
  <2>2. CASE server' = SavePublishedDraft(server)
    <3>1. server'.changes = {} /\ server'.next = server.next
      BY <2>2 DEF SavePublishedDraft
    <3> QED BY <3>1 DEF DraftIdentified, Identified, ChangeIds
  <2>3. CASE \E gone \in SUBSET server.changes :
               server' = [server EXCEPT !.changes = @ \ gone]
    <3>1. server'.changes \subseteq server.changes /\ server'.next = server.next
      BY <2>3
    <3> QED BY <3>1 DEF DraftIdentified, Identified, ChangeIds
  <2> QED BY <2>1, <2>2, <2>3
<1>3. \A ids : PastId(ids, server) => PastId(ids, server')
  BY <1>2, PastStays DEF DraftIdentified
<1> QED BY <1>1, <1>2, <1>3 DEF DraftIdentified

\* The form keeps what it promises when the draft changes.
LEMMA FormStays ==
  ASSUME FormPast, UNCHANGED form, \A ids : PastId(ids, server) => PastId(ids, server')
  PROVE  FormPast'
BY DEF FormPast

\* The page in the beginning.
LEMMA SaveInitially == SaveInit => SaveIInv
<1> SUFFICES ASSUME SaveInit
             PROVE  SaveIInv
  OBVIOUS
<1>1. calls \in Seq({}) /\ UnderWay = {}
  BY DEF SaveInit, UnderWay
<1>2. SaveTyped
  BY <1>1 DEF SaveInit, SaveTyped, SaveDefault, CallsTyped
<1>3. DraftIdentified
  BY DEF SaveInit, DraftIdentified, Identified
<1>4. AnswersPast
  BY <1>1 DEF AnswersPast
<1>5. FormPast
  <2>1. form.gone = {} /\ form.fetched = None /\ form.shown = {}
    BY DEF SaveInit, SaveDefault
  <2> QED BY <2>1 DEF FormPast, PastId, ChangeIds
<1> QED BY <1>2, <1>3, <1>4, <1>5 DEF SaveIInv

\* A handler is started, for something that no discard has been carried out for.
LEMMA SaveStarted ==
  ASSUME SaveIInv, NEW call, Start(call), {"ask"} \subseteq DOMAIN call, UNCHANGED <<form, server>>
  PROVE  SaveIInv'
<1>1. /\ CallsTyped'
      /\ UnderWay' = UnderWay \cup {With(call, "state", "sent")}
  BY Started DEF SaveIInv, SaveTyped
<1>2. With(call, "state", "sent").state = "sent"
  BY DEF With
<1>3. AnswersPast'
  BY <1>1, <1>2 DEF SaveIInv, AnswersPast, Discarded
<1> QED BY <1>1, <1>3 DEF SaveIInv, SaveTyped, DraftIdentified, FormPast

\* A handler returns.
LEMMA SaveReturned ==
  ASSUME SaveIInv, NEW i \in 1..Len(calls), Return(i), UNCHANGED server,
         {"kind", "open", "shown", "fetching", "fetched", "unloaded", "gone"}
           \subseteq DOMAIN form',
         FormPast'
  PROVE  SaveIInv'
<1>1. CallsTyped' /\ UnderWay' \subseteq UnderWay
  BY Returned DEF SaveIInv, SaveTyped
<1> QED BY <1>1 DEF SaveIInv, SaveTyped, DraftIdentified, AnswersPast

\* A handler's request has an answer.
LEMMA SaveAnswered ==
  ASSUME SaveIInv, NEW i \in 1..Len(calls), NEW call, Asked(call),
         calls' = [calls EXCEPT ![i] = call], UNCHANGED form,
         {"published", "changes", "next"} \subseteq DOMAIN server', DraftIdentified',
         \A ids : PastId(ids, server) => PastId(ids, server'),
         Discarded(call) => PastId(call.ids, server')
  PROVE  SaveIInv'
<1>1. CallsTyped' /\ UnderWay' \subseteq UnderWay \cup {call}
  BY Changed DEF SaveIInv, SaveTyped
<1>2. AnswersPast'
  BY <1>1 DEF SaveIInv, AnswersPast
<1>3. FormPast'
  BY FormStays DEF SaveIInv
<1> QED BY <1>1, <1>2, <1>3 DEF SaveIInv, SaveTyped

\* What is answered is as it was, but for its state.
LEMMA AnsweredCall ==
  ASSUME CallsTyped, NEW i \in 1..Len(calls), NEW state, Answer(i, state)
  PROVE  LET call == [calls[i] EXCEPT !.state = state]
         IN  /\ calls' = [calls EXCEPT ![i] = call]
             /\ Asked(call) /\ call.ask = calls[i].ask /\ call.state = state
<1>1. Asked(calls[i])
  BY DEF CallsTyped, UnderWay
<1>2. i \in DOMAIN calls
  BY DEF CallsTyped
<1> QED BY <1>1, <1>2 DEF Answer, Asked

\* Every step preserves the invariant.
LEMMA SaveStep ==
  SaveIInv /\ [SaveNext \/ \E i \in 1..MaxCalls : Refuse(i) \/ LoseAnswer(i)]_vars => SaveIInv'
<1> SUFFICES ASSUME SaveIInv,
                    [SaveNext \/ \E i \in 1..MaxCalls : Refuse(i) \/ LoseAnswer(i)]_vars
             PROVE  SaveIInv'
  OBVIOUS
<1> USE DEF SaveTyped
<1>a. {"kind", "open", "shown", "fetching", "fetched", "unloaded", "gone"} \subseteq DOMAIN form
  BY DEF SaveIInv
<1>b. ASSUME NEW i, NEW state, Waiting(i, state)
      PROVE  i \in 1..Len(calls) /\ calls[i] \in UnderWay /\ Asked(calls[i])
  BY <1>b DEF Waiting, UnderWay, CallsTyped, SaveIInv
\* The draft and the handlers stay as they are.
<1>c. ASSUME UNCHANGED <<calls, server>>,
             {"kind", "open", "shown", "fetching", "fetched", "unloaded", "gone"}
               \subseteq DOMAIN form',
             FormPast'
      PROVE  SaveIInv'
  BY <1>c DEF SaveIInv, DraftIdentified, AnswersPast, CallsTyped, UnderWay
\* Only whether the dialog is open is different.
<1>d. ASSUME NEW open, form' = [form EXCEPT !.open = open], UNCHANGED server
      PROVE  /\ {"kind", "open", "shown", "fetching", "fetched", "unloaded", "gone"}
                  \subseteq DOMAIN form'
             /\ FormPast'
  BY <1>a, <1>d DEF SaveIInv, FormPast
\* The changes are being loaded again, and the user has been told of some more
\* that are discarded.
<1>e. ASSUME NEW open, NEW ids, PastId(ids, server), UNCHANGED server,
             form' = [form EXCEPT !.fetching = TRUE, !.fetched = None,
                                  !.open = open, !.gone = @ \cup ids]
      PROVE  /\ {"kind", "open", "shown", "fetching", "fetched", "unloaded", "gone"}
                  \subseteq DOMAIN form'
             /\ FormPast'
  <2>1. /\ form'.fetching = TRUE /\ form'.fetched = None
        /\ form'.gone = form.gone \cup ids
    BY <1>a, <1>e
  <2> QED BY <1>a, <1>e, <2>1 DEF SaveIInv, FormPast, PastId
<1>f. PastId({}, server)
  BY DEF PastId
<1>1. CASE SaveOpen
  BY <1>1, <1>c, <1>d DEF SaveOpen
<1>2. CASE SaveClose
  BY <1>2, <1>c, <1>d DEF SaveClose
<1>3. CASE SaveAll
  BY <1>3, SaveStarted DEF SaveAll
<1>4. CASE DiscardAll
  BY <1>4, SaveStarted DEF DiscardAll
<1>5. CASE SaveEdit
  BY <1>5, SaveStarted DEF SaveEdit
<1>6. CASE SaveFetch
  <2>1. form' = [form EXCEPT !.fetching = TRUE, !.fetched = server.changes]
    BY <1>6 DEF SaveFetch
  <2>2. form'.fetching = TRUE /\ form'.fetched = server.changes /\ form'.gone = form.gone
    BY <1>a, <2>1
  <2>3. FormPast'
    BY <1>6, <2>2 DEF SaveFetch, SaveIInv, FormPast, PastId, ChangeIds
  <2> QED BY <1>6, <1>a, <1>c, <2>1, <2>3 DEF SaveFetch
<1>7. CASE SaveLoaded
  <2>1. form' = [form EXCEPT !.shown = form.fetched, !.fetching = FALSE,
                             !.fetched = None, !.unloaded = FALSE]
    BY <1>7 DEF SaveLoaded
  <2>2. /\ form'.shown = form.fetched /\ form'.fetched = None /\ form'.gone = form.gone
    BY <1>a, <2>1
  <2>3. FormPast'
    BY <1>7, <2>2 DEF SaveLoaded, SaveIInv, FormPast
  <2> QED BY <1>7, <1>a, <1>c, <2>1, <2>3 DEF SaveLoaded
<1>8. CASE SaveFetchFails
  <2>1. form' = [form EXCEPT !.fetching = FALSE, !.fetched = None, !.unloaded = TRUE]
    BY <1>8 DEF SaveFetchFails
  <2>2. form'.unloaded = TRUE /\ form'.fetched = None /\ form'.gone = form.gone
    BY <1>a, <2>1
  <2>3. FormPast'
    BY <1>8, <2>2 DEF SaveFetchFails, SaveIInv, FormPast
  <2> QED BY <1>8, <1>a, <1>c, <2>1, <2>3 DEF SaveFetchFails
<1>9. CASE SaveElsewhere
  <2>1. UNCHANGED <<form, calls>>
    BY <1>9 DEF SaveElsewhere
  <2>2. \/ \E edit \in Edits(server) : server' = Drafted(server, edit)
        \/ server' = SavePublishedDraft(server)
        \/ \E gone \in SUBSET server.changes :
             server' = [server EXCEPT !.changes = @ \ gone]
    <3>1. server.changes \ server.changes = {}
      OBVIOUS
    <3> QED BY <1>9, <3>1 DEF SaveElsewhere
  <2>3. /\ {"published", "changes", "next"} \subseteq DOMAIN server'
        /\ DraftIdentified'
        /\ \A ids : PastId(ids, server) => PastId(ids, server')
    BY <2>2, SaveDraftStep
  <2>4. FormPast'
    BY <2>1, <2>3, FormStays DEF SaveIInv
  <2> QED BY <2>1, <2>3, <2>4 DEF SaveIInv, AnswersPast, CallsTyped, UnderWay
<1>10. ASSUME NEW id \in 1..MaxChanges, DiscardChange(id)
       PROVE  SaveIInv'
  BY <1>10, SaveStarted DEF DiscardChange
<1>11. ASSUME NEW i \in 1..MaxCalls, SaveAllDone(i)
       PROVE  SaveIInv'
  <2>1. form' = [form EXCEPT !.fetching = TRUE, !.fetched = None,
                             !.open = FALSE, !.gone = @ \cup {}]
    BY <1>11, <1>a DEF SaveAllDone, SaveReloading
  <2> QED BY <1>11, <1>b, <1>e, <1>f, <2>1, SaveReturned DEF SaveAllDone
<1>12. ASSUME NEW i \in 1..MaxCalls, DiscardAllDone(i)
       PROVE  SaveIInv'
  <2>1. \E open : form' = [form EXCEPT !.fetching = TRUE, !.fetched = None,
                                       !.open = open, !.gone = @ \cup calls[i].ids]
    BY <1>12, <1>a DEF DiscardAllDone, SaveReloading
  <2>2. PastId(calls[i].ids, server)
    BY <1>12, <1>b DEF DiscardAllDone, Waiting, SaveIInv, AnswersPast, Discarded
  <2> QED BY <1>12, <1>b, <1>e, <2>1, <2>2, SaveReturned DEF DiscardAllDone
<1>13. ASSUME NEW i \in 1..MaxCalls, DiscardChangeDone(i)
       PROVE  SaveIInv'
  <2>1. form' = [form EXCEPT !.fetching = TRUE, !.fetched = None,
                             !.open = form.open, !.gone = @ \cup calls[i].ids]
    BY <1>13, <1>a DEF DiscardChangeDone, SaveReloading
  <2>2. PastId(calls[i].ids, server)
    BY <1>13, <1>b DEF DiscardChangeDone, Waiting, SaveIInv, AnswersPast, Discarded
  <2> QED BY <1>13, <1>b, <1>e, <2>1, <2>2, SaveReturned DEF DiscardChangeDone
<1>14. ASSUME NEW i \in 1..MaxCalls, SaveEdited(i)
       PROVE  SaveIInv'
  <2>1. CASE UNCHANGED form
    BY <1>14, <1>a, <1>b, <2>1, SaveReturned DEF SaveEdited, SaveIInv, FormPast
  <2>2. CASE form' = SaveReloading
    <3>1. form' = [form EXCEPT !.fetching = TRUE, !.fetched = None,
                               !.open = form.open, !.gone = @ \cup {}]
      BY <2>2, <1>a DEF SaveReloading
    <3> QED BY <1>14, <1>b, <1>e, <1>f, <3>1, SaveReturned DEF SaveEdited
  <2> QED BY <1>14, <2>1, <2>2 DEF SaveEdited
<1>15. ASSUME NEW i \in 1..MaxCalls, SaveFailed(i)
       PROVE  SaveIInv'
  BY <1>15, <1>a, <1>b, SaveReturned DEF SaveFailed, SaveIInv, FormPast
<1>16. ASSUME NEW i \in 1..MaxCalls, SaveServe(i)
       PROVE  SaveIInv'
  <2> USE <1>16 DEF SaveServe
  <2>1. i \in 1..Len(calls) /\ UNCHANGED form /\ Asked(calls[i])
    BY <1>b
  <2>2. CASE calls[i].ask = "publish"
    <3>1. server' = SavePublishedDraft(server) /\ Answer(i, "done")
      BY <2>2
    <3>2. /\ {"published", "changes", "next"} \subseteq DOMAIN server'
          /\ DraftIdentified'
          /\ \A ids : PastId(ids, server) => PastId(ids, server')
      BY <3>1, SaveDraftStep
    <3> DEFINE call == [calls[i] EXCEPT !.state = "done"]
    <3>3. calls' = [calls EXCEPT ![i] = call] /\ Asked(call) /\ ~Discarded(call)
      BY <2>1, <2>2, <3>1, AnsweredCall DEF SaveIInv, Discarded
    <3> HIDE DEF call, SaveServe
    <3> QED BY <2>1, <3>2, <3>3, SaveAnswered
  <2>3. CASE calls[i].ask = "edit"
    <3>1. (\E edit \in Edits(server) : server' = Drafted(server, edit)) /\ Answer(i, "done")
      BY <2>3
    <3>2. /\ {"published", "changes", "next"} \subseteq DOMAIN server'
          /\ DraftIdentified'
          /\ \A ids : PastId(ids, server) => PastId(ids, server')
      BY <3>1, SaveDraftStep
    <3> DEFINE call == [calls[i] EXCEPT !.state = "done"]
    <3>3. calls' = [calls EXCEPT ![i] = call] /\ Asked(call) /\ ~Discarded(call)
      BY <2>1, <2>3, <3>1, AnsweredCall DEF SaveIInv, Discarded
    <3> HIDE DEF call, SaveServe
    <3> QED BY <2>1, <3>2, <3>3, SaveAnswered
  <2>4. CASE calls[i].ask \notin {"publish", "edit"}
    <3>1. PICK gone \in SUBSET server.changes :
            /\ server' = [server EXCEPT !.changes = @ \ gone]
            /\ calls' = [calls EXCEPT ![i] =
                 With([@ EXCEPT !.state = "done"], "ids", {c.id : c \in gone})]
      BY <2>4 DEF DiscardSets
    <3> DEFINE call == With([calls[i] EXCEPT !.state = "done"], "ids", ChangeIds(gone))
    <3>2. calls' = [calls EXCEPT ![i] = call]
      BY <2>1, <3>1 DEF ChangeIds
    <3>3. Asked(call) /\ call.ids = ChangeIds(gone)
      BY <2>1 DEF With, Asked
    <3>4. /\ {"published", "changes", "next"} \subseteq DOMAIN server'
          /\ DraftIdentified'
          /\ \A ids : PastId(ids, server) => PastId(ids, server')
      BY <3>1, SaveDraftStep
    <3>5. PastId(ChangeIds(gone), server')
      BY <3>1, GonePast DEF SaveIInv
    <3> HIDE DEF call, SaveServe
    <3> QED BY <2>1, <3>2, <3>3, <3>4, <3>5, SaveAnswered
  <2> QED BY <2>2, <2>3, <2>4
<1>17. ASSUME NEW i \in 1..MaxCalls, Refuse(i) \/ LoseAnswer(i)
       PROVE  SaveIInv'
  <2>1. /\ i \in 1..Len(calls) /\ Answer(i, "failed") /\ UNCHANGED <<form, server>>
    BY <1>17, <1>b DEF Refuse, LoseAnswer
  <2> DEFINE call == [calls[i] EXCEPT !.state = "failed"]
  <2>2. calls' = [calls EXCEPT ![i] = call] /\ Asked(call) /\ ~Discarded(call)
    BY <2>1, AnsweredCall DEF SaveIInv, Discarded
  <2>3. /\ {"published", "changes", "next"} \subseteq DOMAIN server'
        /\ DraftIdentified'
        /\ \A ids : PastId(ids, server) => PastId(ids, server')
    BY <2>1 DEF SaveIInv, DraftIdentified
  <2> HIDE DEF call
  <2> QED BY <2>1, <2>2, <2>3, SaveAnswered
<1>18. CASE UNCHANGED vars
  BY <1>18, <1>a, <1>c DEF vars, SaveIInv, FormPast
<1> QED
  BY <1>1, <1>2, <1>3, <1>4, <1>5, <1>6, <1>7, <1>8, <1>9, <1>10, <1>11, <1>12, <1>13,
     <1>14, <1>15, <1>16, <1>17, <1>18 DEF SaveNext

-----------------------------------------------------------------------------
(* The theorem. *)

\* A change that the user was told to be discarded is not listed, as soon as no
\* load is under way and the last one succeeded: every discard has the list loaded
\* again, and no later change has the identifier of one that was discarded.
THEOREM DiscardedStayHidden == SaveSpec => []DiscardedNotShown
<1>1. SaveIInv => DiscardedNotShown
  BY DEF SaveIInv, FormPast, DiscardedNotShown, ChangeIds
<1> QED BY <1>1, SaveInitially, SaveStep, PTL DEF SaveSpec

-----------------------------------------------------------------------------
(***************************************************************************)
(* What the dialog of an application calls created has been created, for any*)
(* number of items and handlers at a time.  A result that the server has   *)
(* answered stays true: what has been created is not deleted, neither by   *)
(* another user's application, which only a blueprint without a created item*)
(* allows, nor by an item that is tried again.                             *)
(***************************************************************************)

ReviewFormFields == {"kind", "loaded", "fetching", "fetched", "dialog", "blocked", "result", "skipped"}
ReviewServerFields == {"status", "decision", "created"}

ReviewTyped ==
  /\ CallsTyped
  /\ ReviewFormFields \subseteq DOMAIN form
  /\ ReviewServerFields \subseteq DOMAIN server

ReviewAsks == {"decide", "edit", "batch", "discard", "precheck", "apply", "retry"}

\* What a handler knows to be created has been created.
CallTrue(call, created) ==
  /\ Asked(call) /\ call.ask \in ReviewAsks
  /\ call.ask = "apply" /\ call.state = "done" =>
       "result" \in DOMAIN call /\ Created(call.result) \subseteq created
  /\ call.ask = "retry" =>
       /\ {"items", "result"} \subseteq DOMAIN call
       /\ \E k : call.items = {k}
       /\ Created(call.result) \subseteq created
       /\ call.state = "done" =>
            "created" \in DOMAIN call /\ (call.created => call.items \subseteq created)

CallsTrue == \A call \in UnderWay : CallTrue(call, server.created)

ResultTrue == Created(form.result) \subseteq server.created

NothingBefore == server.status = "pending_review" => server.created = {}

\* The inductive invariant.
ReviewIInv == ReviewTyped /\ CallsTrue /\ ResultTrue /\ NothingBefore

-----------------------------------------------------------------------------

\* What is true stays true when more is created.
LEMMA TrueStays ==
  ASSUME NEW call, NEW created, NEW more, created \subseteq more, CallTrue(call, created)
  PROVE  CallTrue(call, more)
BY DEF CallTrue

\* A handler whose request is refused, or that is not shown any more, knows no
\* more than before.
LEMMA FailedTrue ==
  ASSUME NEW call, NEW created, CallTrue(call, created)
  PROVE  /\ CallTrue([call EXCEPT !.state = "failed"], created)
         /\ CallTrue([call EXCEPT !.shown = FALSE], created)
BY DEF CallTrue, Asked

\* The page in the beginning.
LEMMA ReviewInitially == ReviewInit => ReviewIInv
<1> SUFFICES ASSUME ReviewInit
             PROVE  ReviewIInv
  OBVIOUS
<1>1. calls \in Seq({}) /\ UnderWay = {}
  BY DEF ReviewInit, UnderWay
<1>2. ReviewTyped
  BY <1>1 DEF ReviewInit, ReviewTyped, ReviewDefault, CallsTyped, ReviewFormFields, ReviewServerFields
<1>3. ResultTrue
  <2>1. form.result = <<>>
    BY DEF ReviewInit, ReviewDefault
  <2>2. DOMAIN form.result = {}
    BY <2>1
  <2> QED BY <2>2 DEF ResultTrue, Created
<1> QED BY <1>1, <1>2, <1>3 DEF ReviewIInv, CallsTrue, NothingBefore, ReviewInit

\* A handler is started.
LEMMA ReviewStarted ==
  ASSUME ReviewIInv, NEW call, ReviewStart(call), {"ask"} \subseteq DOMAIN call,
         call.ask \in ReviewAsks,
         call.ask = "retry" =>
           /\ {"items", "result"} \subseteq DOMAIN call
           /\ \E k : call.items = {k}
           /\ Created(call.result) \subseteq server.created,
         ReviewFormFields \subseteq DOMAIN form', form'.result = form.result, UNCHANGED server
  PROVE  ReviewIInv'
<1> DEFINE asked == With(call, "shown", TRUE)
           new == With(asked, "state", "sent")
<1>1. {"ask"} \subseteq DOMAIN asked /\ Start(asked)
  BY DEF With, ReviewStart
<1>2. CallTrue(new, server.created)
  BY DEF With, CallTrue, Asked
<1> HIDE DEF asked
<1>3. CallsTyped' /\ UnderWay' = UnderWay \cup {With(asked, "state", "sent")}
  BY <1>1, Started DEF ReviewIInv, ReviewTyped
<1> QED
  BY <1>2, <1>3 DEF ReviewIInv, ReviewTyped, CallsTrue, ResultTrue, NothingBefore

\* A handler returns.
LEMMA ReviewReturned ==
  ASSUME ReviewIInv, NEW i \in 1..Len(calls), Return(i), UNCHANGED server,
         ReviewFormFields \subseteq DOMAIN form', ResultTrue'
  PROVE  ReviewIInv'
<1>1. CallsTyped' /\ UnderWay' \subseteq UnderWay
  BY Returned DEF ReviewIInv, ReviewTyped
<1> QED BY <1>1 DEF ReviewIInv, ReviewTyped, CallsTrue, NothingBefore

\* A handler's request has an answer, and more may have been created.
LEMMA ReviewAnswered ==
  ASSUME ReviewIInv, NEW i \in 1..Len(calls), NEW call,
         calls' = [calls EXCEPT ![i] = call], CallTrue(call, server'.created),
         ReviewFormFields \subseteq DOMAIN form', form'.result = form.result,
         ReviewServerFields \subseteq DOMAIN server', NothingBefore',
         server.created \subseteq server'.created
  PROVE  ReviewIInv'
<1>1. Asked(call)
  BY DEF CallTrue
<1>2. CallsTyped' /\ UnderWay' \subseteq UnderWay \cup {call}
  BY <1>1, Changed DEF ReviewIInv, ReviewTyped
<1>3. CallsTrue'
  BY <1>2, TrueStays DEF ReviewIInv, CallsTrue
<1> QED BY <1>2, <1>3 DEF ReviewIInv, ReviewTyped, ResultTrue

\* The dialog goes.
LEMMA ReviewGone ==
  ASSUME ReviewIInv, calls' = CallsOfDialogGone, UNCHANGED server,
         ReviewFormFields \subseteq DOMAIN form', form'.result = <<>>
  PROVE  ReviewIInv'
<1> DEFINE Op == [call \in UnderWay |->
                    IF call.ask \in {"precheck", "apply", "retry"}
                    THEN [call EXCEPT !.shown = FALSE] ELSE call]
<1>1. \A call \in UnderWay : CallTrue(Op[call], server.created)
  BY FailedTrue DEF ReviewIInv, CallsTrue
<1>2. calls' = [i \in 1..Len(calls) |-> Op[calls[i]]]
  BY DEF CallsOfDialogGone, UnderWay
<1>3. Op = [call \in UnderWay |-> Op[call]]
  OBVIOUS
<1> HIDE DEF Op
<1>4. \A call \in UnderWay : Asked(Op[call])
  BY <1>1 DEF CallTrue
<1>5. CallsTyped' /\ UnderWay' = {Op[call] : call \in UnderWay}
  BY <1>2, <1>3, <1>4, AllChanged DEF ReviewIInv, ReviewTyped
<1>6. CallsTrue'
  BY <1>1, <1>5 DEF CallsTrue
<1>7. ResultTrue'
  <2>1. DOMAIN form'.result = {}
    OBVIOUS
  <2> QED BY <2>1 DEF ResultTrue, Created
<1> QED BY <1>5, <1>6, <1>7 DEF ReviewIInv, ReviewTyped, NothingBefore

\* The server carries out a request.
LEMMA ReviewServed ==
  ASSUME ReviewIInv, NEW i \in 1..Len(calls), ReviewServe(i)
  PROVE  ReviewIInv'
<1> USE DEF ReviewTyped
<1>1. /\ UNCHANGED form /\ ReviewFormFields \subseteq DOMAIN form
      /\ ReviewServerFields \subseteq DOMAIN server
      /\ i \in DOMAIN calls
  <2>1. UNCHANGED form
    BY DEF ReviewServe
  <2>2. i \in DOMAIN calls
    BY DEF ReviewIInv, CallsTyped
  <2> QED BY <2>1, <2>2 DEF ReviewIInv
<1>2. CallTrue(calls[i], server.created) /\ Asked(calls[i]) /\ calls[i].ask \in ReviewAsks
  BY DEF ReviewIInv, CallsTrue, UnderWay, CallTrue
<1>3. server.status = "pending_review" => server.created = {}
  BY DEF ReviewIInv, NothingBefore
<1> DEFINE answered == [calls[i] EXCEPT !.state = "done"]
<1>4. /\ Asked(answered) /\ answered.ask = calls[i].ask /\ answered.state = "done"
      /\ \A x \in DOMAIN calls[i] : x # "state" => answered[x] = calls[i][x]
      /\ DOMAIN answered = DOMAIN calls[i]
  BY <1>2 DEF Asked
<1>5. CASE calls[i].ask \in {"decide", "edit", "batch", "discard"}
  <2>1. \/ \E decision : server' = [server EXCEPT !.decision = decision]
        \/ server' = [server EXCEPT !.status = "discarded"]
    BY <1>5 DEF ReviewServe
  <2>2. calls' = [calls EXCEPT ![i] = answered]
    BY <1>5 DEF ReviewServe, Answer
  <2>3. CallTrue(answered, server.created)
    BY <1>2, <1>4, <1>5 DEF CallTrue
  <2>4. /\ ReviewServerFields \subseteq DOMAIN server' /\ server'.created = server.created
        /\ server'.status = server.status \/ server'.status = "discarded"
    BY <1>1, <2>1 DEF ReviewServerFields
  <2>5. NothingBefore'
    BY <1>3, <2>4 DEF NothingBefore
  <2> HIDE DEF answered
  <2> QED BY <1>1, <2>2, <2>3, <2>4, <2>5, ReviewAnswered
<1>6. CASE calls[i].ask = "precheck"
  <2>1. PICK conflict : calls' = [calls EXCEPT ![i] = With(answered, "conflict", conflict)]
    BY <1>1, <1>6 DEF ReviewServe
  <2>2. UNCHANGED server
    BY <1>6 DEF ReviewServe
  <2>3. CallTrue(With(answered, "conflict", conflict), server.created)
    BY <1>2, <1>4, <1>6 DEF CallTrue, With, Asked
  <2>4. NothingBefore'
    BY <1>3, <2>2 DEF NothingBefore
  <2> HIDE DEF answered
  <2> QED BY <1>1, <2>1, <2>2, <2>3, <2>4, ReviewAnswered
<1>7. CASE calls[i].ask = "apply"
  <2>1. PICK result \in Outcomes :
          /\ calls' = [calls EXCEPT ![i] = With(answered, "result", result)]
          /\ server' = [server EXCEPT
               !.status = IF Created(result) # {} THEN "applied" ELSE @,
               !.created = @ \cup Created(result)]
    BY <1>1, <1>7 DEF ReviewServe
  <2>2. /\ ReviewServerFields \subseteq DOMAIN server'
        /\ server'.created = server.created \cup Created(result)
        /\ server'.status = IF Created(result) # {} THEN "applied" ELSE server.status
    BY <1>1, <2>1 DEF ReviewServerFields
  <2>3. CallTrue(With(answered, "result", result), server'.created)
    <3>1. /\ With(answered, "result", result).ask = "apply"
          /\ With(answered, "result", result).result = result
          /\ Asked(With(answered, "result", result))
          /\ "result" \in DOMAIN With(answered, "result", result)
      BY <1>4, <1>7 DEF With, Asked
    <3> HIDE DEF answered
    <3> QED BY <2>2, <3>1 DEF CallTrue, ReviewAsks
  <2>4. NothingBefore'
    BY <1>3, <2>2 DEF NothingBefore
  <2> HIDE DEF answered
  <2> QED BY <1>1, <2>1, <2>2, <2>3, <2>4, ReviewAnswered
<1>8. CASE calls[i].ask = "retry"
  <2>1. PICK created \in BOOLEAN :
          /\ calls' = [calls EXCEPT ![i] = With(answered, "created", created)]
          /\ server' = [server EXCEPT !.created =
               IF created THEN @ \cup calls[i].items ELSE @]
    BY <1>1, <1>8 DEF ReviewServe
  <2>2. /\ ReviewServerFields \subseteq DOMAIN server'
        /\ server'.created = IF created THEN server.created \cup calls[i].items
                             ELSE server.created
        /\ server'.status = server.status
    BY <1>1, <2>1 DEF ReviewServerFields
  <2>3. CallTrue(With(answered, "created", created), server'.created)
    <3> DEFINE new == With(answered, "created", created)
    <3>1. /\ new.ask = "retry" /\ Asked(new) /\ "created" \in DOMAIN new
          /\ new.created = created
          /\ {"items", "result"} \subseteq DOMAIN new
          /\ new.items = calls[i].items /\ new.result = calls[i].result
      BY <1>2, <1>4, <1>8 DEF With, Asked, CallTrue
    <3>2. /\ \E k : calls[i].items = {k}
          /\ Created(calls[i].result) \subseteq server.created
      BY <1>2, <1>8 DEF CallTrue
    <3> HIDE DEF new
    <3>3. new.created => new.items \subseteq server'.created
      BY <2>2, <3>1
    <3>4. server.created \subseteq server'.created
      BY <2>2
    <3>5. CallTrue(new, server'.created)
      BY <3>1, <3>2, <3>3, <3>4 DEF CallTrue, ReviewAsks
    <3> QED BY <3>5 DEF new
  <2>4. NothingBefore'
    <3>1. server.status = "applied"
      BY <1>8 DEF ReviewServe
    <3> QED BY <2>2, <3>1 DEF NothingBefore
  <2> HIDE DEF answered
  <2>5. server.created \subseteq server'.created
    BY <2>2
  <2> QED BY <1>1, <2>1, <2>2, <2>3, <2>4, <2>5, ReviewAnswered
<1> QED BY <1>2, <1>5, <1>6, <1>7, <1>8 DEF ReviewAsks

\* Every step preserves the invariant.
LEMMA ReviewStep ==
  ReviewIInv /\ [ReviewNext \/ \E i \in 1..MaxCalls : Refuse(i) \/ LoseAnswer(i)]_vars
    => ReviewIInv'
<1> SUFFICES ASSUME ReviewIInv,
                    [ReviewNext \/ \E i \in 1..MaxCalls : Refuse(i) \/ LoseAnswer(i)]_vars
             PROVE  ReviewIInv'
  OBVIOUS
<1> USE DEF ReviewTyped
<1>a. ReviewFormFields \subseteq DOMAIN form /\ ReviewServerFields \subseteq DOMAIN server /\ ResultTrue
  BY DEF ReviewIInv
<1>b. ASSUME NEW i, NEW state, Waiting(i, state)
      PROVE  i \in 1..Len(calls) /\ CallTrue(calls[i], server.created)
  BY <1>b DEF Waiting, UnderWay, ReviewIInv, CallsTrue
\* The blueprint is being loaded again; the result that is shown is true.
<1>c. ASSUME UNCHANGED server,
             \/ form' \in {form, Reloading}
             \/ \E dialog, result : /\ form' = [Reloading EXCEPT !.dialog = dialog,
                                                                 !.result = result]
                                    /\ Created(result) \subseteq server.created
      PROVE  ReviewFormFields \subseteq DOMAIN form' /\ ResultTrue'
  <2>1. \/ form'.result = form.result
        \/ Created(form'.result) \subseteq server.created
    BY <1>a, <1>c DEF Reloading, ReviewFormFields
  <2>2. ReviewFormFields \subseteq DOMAIN form'
    BY <1>a, <1>c DEF Reloading
  <2> QED BY <1>a, <1>c, <2>1, <2>2 DEF ResultTrue
\* Neither the handlers nor the result are different.
<1>d. ASSUME ReviewFormFields \subseteq DOMAIN form', form'.result = form.result,
             UNCHANGED calls, ReviewServerFields \subseteq DOMAIN server', NothingBefore',
             server.created \subseteq server'.created
      PROVE  ReviewIInv'
  <2>1. CallsTrue'
    BY <1>d, TrueStays DEF ReviewIInv, CallsTrue, UnderWay
  <2> QED BY <1>d, <2>1 DEF ReviewIInv, CallsTyped, UnderWay, ResultTrue
<1>1. ASSUME NEW k, ReviewAccept(k) \/ ReviewReject(k) \/ ReviewEditSubmit(k)
      PROVE  ReviewIInv'
  BY <1>1, <1>a, ReviewStarted DEF ReviewAccept, ReviewReject, ReviewEditSubmit, ReviewAsks
<1>2. CASE ReviewAcceptAll
  BY <1>2, <1>a, ReviewStarted DEF ReviewAcceptAll, ReviewAsks
<1>3. ASSUME NEW selected, ReviewRejectSelected(selected)
      PROVE  ReviewIInv'
  BY <1>3, <1>a, ReviewStarted DEF ReviewRejectSelected, ReviewAsks
<1>4. CASE ReviewDiscard
  BY <1>4, <1>a, ReviewStarted DEF ReviewDiscard, ReviewAsks
<1>5. ASSUME NEW i, ReviewDecided(i) \/ ReviewDiscarded(i) \/ ReviewFailed(i)
      PROVE  ReviewIInv'
  BY <1>5, <1>b, <1>c, ReviewReturned DEF ReviewDecided, ReviewDiscarded, ReviewFailed
<1>6. CASE ApplyOpen
  <2>1. ReviewFormFields \subseteq DOMAIN form' /\ form'.result = form.result
    BY <1>6, <1>a DEF ApplyOpen, ReviewFormFields
  <2> QED BY <1>6, <2>1, ReviewStarted DEF ApplyOpen, ReviewAsks
<1>7. CASE ApplyAnyway
  <2>1. ReviewFormFields \subseteq DOMAIN form' /\ form'.result = form.result
    BY <1>7, <1>a DEF ApplyAnyway, ReviewFormFields
  <2> QED BY <1>7, <2>1, ReviewStarted DEF ApplyAnyway, ReviewAsks
<1>8. ASSUME NEW i, ApplyChecked(i)
      PROVE  ReviewIInv'
  <2> DEFINE call == [ask |-> "apply", shown |-> TRUE, state |-> "sent"]
  <2>1. i \in 1..Len(calls) /\ UNCHANGED server
    BY <1>8, <1>b DEF ApplyChecked
  <2>2. \/ form' = [form EXCEPT !.dialog = "applying"]
        \/ form' = [form EXCEPT !.dialog = "conflicts",
                                !.blocked = calls[i].conflict = "dependency"]
        \/ UNCHANGED form
    BY <1>8, Zenon DEF ApplyChecked
  <2>3. ReviewFormFields \subseteq DOMAIN form' /\ form'.result = form.result
    BY <1>a, <2>2 DEF ReviewFormFields
  <2>4. CASE Return(i)
    BY <1>a, <2>1, <2>3, <2>4, ReviewReturned DEF ResultTrue
  <2>5. CASE SendNext(i, call)
    <3>1. calls' = [calls EXCEPT ![i] = call]
      <4>1. [call EXCEPT !.state = "sent"] = call
        OBVIOUS
      <4> HIDE DEF call
      <4> QED BY <2>5, <4>1 DEF SendNext
    <3>2. CallTrue(call, server'.created)
      BY DEF CallTrue, Asked, ReviewAsks
    <3>3. NothingBefore'
      BY <2>1 DEF ReviewIInv, NothingBefore
    <3> HIDE DEF call
    <3> QED BY <1>a, <2>1, <2>3, <3>1, <3>2, <3>3, ReviewAnswered
  <2> QED BY <1>8, <2>4, <2>5 DEF ApplyChecked
<1>9. ASSUME NEW i, Applied(i)
      PROVE  ReviewIInv'
  <2>1. Created(calls[i].result) \subseteq server.created
    BY <1>9, <1>b DEF Applied, Waiting, CallTrue
  <2> QED BY <1>9, <1>b, <1>c, <2>1, ReviewReturned DEF Applied
<1>10. ASSUME NEW k, ApplyRetry(k)
       PROVE  ReviewIInv'
  <2> DEFINE call == [ask |-> "retry", items |-> {k}, result |-> form.result]
  <2>1. /\ {"ask", "items", "result"} \subseteq DOMAIN call
        /\ call.ask = "retry" /\ call.items = {k} /\ call.result = form.result
    OBVIOUS
  <2>2. ReviewStart(call) /\ UNCHANGED <<form, server>>
    BY <1>10 DEF ApplyRetry
  <2> HIDE DEF call
  <2> QED BY <1>a, <2>1, <2>2, ReviewStarted DEF ResultTrue, ReviewAsks
<1>11. ASSUME NEW i, ApplyRetried(i)
       PROVE  ReviewIInv'
  <2> DEFINE k == CHOOSE k \in calls[i].items : TRUE
             result == [calls[i].result EXCEPT ![k] = "success"]
  <2>1. CASE calls[i].shown /\ calls[i].created
    <3>1. /\ k \in calls[i].items /\ calls[i].items \subseteq server.created
          /\ Created(calls[i].result) \subseteq server.created
      BY <1>11, <1>b, <2>1 DEF ApplyRetried, Waiting, CallTrue
    <3>2. Created(result) \subseteq server.created
      BY <3>1 DEF Created
    <3>3. form' = [Reloading EXCEPT !.dialog = form.dialog, !.result = result]
      BY <1>11, <1>a, <2>1 DEF ApplyRetried, Reloading, ReviewFormFields
    <3> HIDE DEF result
    <3> QED BY <1>11, <1>b, <1>c, <3>2, <3>3, ReviewReturned DEF ApplyRetried
  <2>2. CASE ~(calls[i].shown /\ calls[i].created)
    BY <1>11, <1>b, <1>c, <2>2, ReviewReturned DEF ApplyRetried
  <2> QED BY <2>1, <2>2
<1>12. ASSUME NEW k, ApplySkip(k)
       PROVE  ReviewIInv'
  <2>1. ReviewFormFields \subseteq DOMAIN form' /\ form'.result = form.result
    BY <1>12, <1>a DEF ApplySkip, ReviewFormFields
  <2> QED BY <1>12, <1>a, <1>d, <2>1 DEF ApplySkip, ReviewIInv, NothingBefore
<1>13. CASE ApplyClose
  <2>1. ReviewFormFields \subseteq DOMAIN form' /\ form'.result = <<>>
    BY <1>13, <1>a DEF ApplyClose, DialogGone, ReviewFormFields
  <2> QED BY <1>13, <2>1, ReviewGone DEF ApplyClose
<1>14. CASE ReviewFetch \/ ReviewFetchFails
  <2>1. ReviewFormFields \subseteq DOMAIN form' /\ form'.result = form.result
    BY <1>14, <1>a DEF ReviewFetch, ReviewFetchFails, ReviewFormFields
  <2> QED
    BY <1>14, <1>a, <1>d, <2>1 DEF ReviewFetch, ReviewFetchFails, ReviewIInv, NothingBefore
<1>15. CASE ReviewLoaded
  <2> DEFINE loaded == [form EXCEPT !.loaded = form.fetched, !.fetching = FALSE,
                                    !.fetched = None]
  <2>1. ReviewFormFields \subseteq DOMAIN loaded /\ loaded.result = form.result
    BY <1>a DEF ReviewFormFields
  <2>2. UNCHANGED server
    BY <1>15 DEF ReviewLoaded
  <2>3. CASE form' = loaded /\ UNCHANGED calls
    BY <1>a, <1>d, <2>1, <2>2, <2>3 DEF ReviewIInv, NothingBefore
  <2>4. CASE form' = DialogGone(loaded) /\ calls' = CallsOfDialogGone
    <3> HIDE DEF loaded
    <3>1. ReviewFormFields \subseteq DOMAIN form' /\ form'.result = <<>>
      BY <2>1, <2>4 DEF DialogGone, ReviewFormFields
    <3> QED BY <2>2, <2>4, <3>1, ReviewGone
  <2> QED BY <1>15, <2>3, <2>4 DEF ReviewLoaded
<1>16. CASE ReviewElsewhere
  <2>1. server.status = "pending_review" /\ server.created = {} /\ UNCHANGED <<form, calls>>
    BY <1>16 DEF ReviewElsewhere, ReviewIInv, NothingBefore
  <2>2. \/ \E decision : server' = [server EXCEPT !.decision = decision]
        \/ server' = [server EXCEPT !.status = "discarded"]
        \/ \E created : server' = [server EXCEPT !.status = "applied", !.created = created]
    <3>1. ASSUME NEW k, NEW verdict, server' = [server EXCEPT !.decision[k] = verdict]
          PROVE  \E decision : server' = [server EXCEPT !.decision = decision]
      BY <3>1
    <3> QED BY <1>16, <3>1 DEF ReviewElsewhere
  <2>3. /\ ReviewServerFields \subseteq DOMAIN server'
        /\ server'.status = "pending_review" => server'.created = {}
    BY <1>a, <2>1, <2>2 DEF ReviewServerFields
  <2> QED BY <1>a, <1>d, <2>1, <2>3 DEF NothingBefore
<1>17. ASSUME NEW i, ReviewServe(i)
       PROVE  ReviewIInv'
  BY <1>17, <1>b, ReviewServed DEF ReviewServe
<1>18. ASSUME NEW i, Refuse(i) \/ LoseAnswer(i)
       PROVE  ReviewIInv'
  <2>1. i \in 1..Len(calls) /\ Answer(i, "failed") /\ UNCHANGED <<form, server>>
    BY <1>18, <1>b DEF Refuse, LoseAnswer
  <2> DEFINE call == [calls[i] EXCEPT !.state = "failed"]
  <2>2. calls' = [calls EXCEPT ![i] = call]
    BY <2>1 DEF Answer, CallsTyped, ReviewIInv
  <2>3. CallTrue(call, server'.created)
    BY <1>18, <1>b, <2>1, FailedTrue DEF Refuse, LoseAnswer
  <2>4. NothingBefore'
    BY <2>1 DEF ReviewIInv, NothingBefore
  <2> HIDE DEF call
  <2> QED BY <1>a, <2>1, <2>2, <2>3, <2>4, ReviewAnswered
<1>19. CASE UNCHANGED vars
  BY <1>19, <1>a, <1>d DEF vars, ReviewIInv, NothingBefore
<1> QED
  BY <1>1, <1>2, <1>3, <1>4, <1>5, <1>6, <1>7, <1>8, <1>9, <1>10, <1>11, <1>12, <1>13,
     <1>14, <1>15, <1>16, <1>17, <1>18, <1>19 DEF ReviewNext

-----------------------------------------------------------------------------
(* The theorem. *)

\* What the dialog of an application calls created has been created, although
\* answers come late, into a dialog that has been closed and opened again.
THEOREM ResultsTrue == ReviewSpec => []ResultIsTrue
<1>1. ReviewIInv => ResultIsTrue
  BY DEF ReviewIInv, ResultTrue, ResultIsTrue
<1> QED BY <1>1, ReviewInitially, ReviewStep, PTL DEF ReviewSpec
===============================================================================
