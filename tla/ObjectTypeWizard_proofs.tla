----------------------- MODULE ObjectTypeWizard_proofs ------------------------
(***************************************************************************)
(* Proof that the wizard for object types leaves the beginning of a form   *)
(* wherever it stops, and tells the user what it made, for any number of   *)
(* properties, keys and handlers under way.  All that a handler asks for is*)
(* flattened out of the requests for each property, so the proof goes by   *)
(* induction over the properties; the server holds for a handler what it has*)
(* asked for so far, and no two handlers create the same object type.      *)
(***************************************************************************)
EXTENDS ObjectTypeWizard, Screen_proofs, WellFoundedInduction

-----------------------------------------------------------------------------
(* Sequences. *)

\* Induction over the natural numbers, for sets of them.
LEMMA SetInduction ==
  ASSUME NEW S, 0 \in S, \A n \in Nat : n \in S => n + 1 \in S
  PROVE  Nat \subseteq S
<1> DEFINE R == {ss \in Nat \X Nat : ss[1] < ss[2]}
           T == Nat \ S
<1> SUFFICES ASSUME T # {} PROVE FALSE
  OBVIOUS
<1>1. IsWellFoundedOn(R, Nat)
  BY NatLessThanWellFounded DEF OpToRel
<1>2. T \subseteq Nat
  OBVIOUS
<1> HIDE DEF R, T
<1>3. PICK m \in T : \A z \in T : ~ (<<z, m>> \in R)
  BY <1>1, <1>2, WFMin
<1>4. m \in Nat /\ m # 0 /\ m - 1 \in Nat /\ m = (m - 1) + 1
  BY <1>3 DEF T
<1>5. m - 1 \in T
  BY <1>3, <1>4 DEF T
<1>6. <<m - 1, m>> \in R
  BY <1>4 DEF R
<1> QED BY <1>3, <1>5, <1>6

\* What FlattenSeq computes: one sequence after another is put behind those before.
LEMMA Flattened ==
  ASSUME NEW V, NEW s \in Seq(Seq(V)), Len(s) # 0
  PROVE  \E f \in [1..Len(s) -> Seq(V)] :
           /\ f[1] = s[1]
           /\ \A i \in 1..Len(s) : i # 1 => f[i] = f[i - 1] \o s[i]
           /\ FlattenSeq(s) = f[Len(s)]
<1> DEFINE Flat(f, n) == /\ f \in [1..n -> Seq(V)] /\ f[1] = s[1]
                         /\ \A i \in 1..n : i # 1 => f[i] = f[i - 1] \o s[i]
           S == {n \in Nat : n + 1 <= Len(s) => \E f : Flat(f, n + 1)}
<1>1. Len(s) \in Nat /\ \A i \in 1..Len(s) : s[i] \in Seq(V)
  OBVIOUS
<1>2. 0 \in S
  <2>1. Flat([i \in 1..1 |-> s[1]], 1)
    BY <1>1
  <2>2. \E f : Flat(f, 0 + 1)
    <3> HIDE DEF Flat
    <3>1. 0 + 1 = 1
      OBVIOUS
    <3> QED BY <2>1, <3>1, Zenon
  <2> HIDE DEF Flat
  <2> QED BY <2>2
<1>3. ASSUME NEW n \in Nat, n \in S
      PROVE  n + 1 \in S
  <2>0. SUFFICES ASSUME n + 2 <= Len(s) PROVE \E f : Flat(f, n + 2)
    <3> HIDE DEF Flat
    <3>1. (n + 1) + 1 = n + 2
      OBVIOUS
    <3> QED BY <3>1
  <2>1. PICK f : Flat(f, n + 1)
    <3> HIDE DEF Flat
    <3> QED BY <1>1, <1>3, <2>0
  <2> DEFINE g == [i \in 1..n + 2 |-> IF i = n + 2 THEN f[n + 1] \o s[n + 2] ELSE f[i]]
  <2>2. f[n + 1] \in Seq(V) /\ s[n + 2] \in Seq(V)
    BY <1>1, <2>0, <2>1
  <2>3. f[n + 1] \o s[n + 2] \in Seq(V)
    BY <2>2
  <2>4. ASSUME NEW i \in 1..n + 2
        PROVE  g[i] \in Seq(V)
    BY <2>1, <2>3
  <2>5. g[1] = s[1]
    BY <2>1
  <2>6. ASSUME NEW i \in 1..n + 2, i # 1
        PROVE  g[i] = g[i - 1] \o s[i]
    <3>1. CASE i = n + 2
      <4>1. g[i] = f[n + 1] \o s[i] /\ g[i - 1] = f[n + 1]
        <5>1. i - 1 = n + 1 /\ i - 1 \in 1..n + 2 /\ i - 1 # n + 2
          BY <3>1
        <5> QED BY <3>1, <5>1
      <4> QED BY <3>1, <4>1
    <3>2. CASE i # n + 2
      <4>1. i \in 1..n + 1 /\ i - 1 \in 1..n + 1
        BY <2>6, <3>2
      <4>2. g[i] = f[i] /\ g[i - 1] = f[i - 1]
        BY <4>1
      <4> QED BY <2>1, <2>6, <4>1, <4>2
    <3> QED BY <3>1, <3>2
  <2>7. g = [i \in 1..n + 2 |-> g[i]]
    OBVIOUS
  <2> HIDE DEF g
  <2> QED BY <2>4, <2>5, <2>6, <2>7
<1> HIDE DEF S
<1>4. Nat \subseteq S
  BY <1>2, <1>3, SetInduction
<1>5. PICK f : Flat(f, Len(s))
  <2>1. Len(s) - 1 \in S /\ (Len(s) - 1) + 1 = Len(s)
    BY <1>1, <1>4
  <2> HIDE DEF Flat
  <2> QED BY <1>1, <2>1 DEF S
<1> DEFINE Def(g) == g = [i \in 1..Len(s) |-> IF i = 1 THEN s[i] ELSE g[i - 1] \o s[i]]
           h == CHOOSE g : Def(g)
<1>6. Def(f)
  BY <1>1, <1>5
<1>7. Def(h)
  BY <1>6
<1>8. FlattenSeq(s) = h[Len(s)]
  BY DEF FlattenSeq
<1> DEFINE A == {n \in Nat : n + 1 <= Len(s) => h[n + 1] = f[n + 1]}
<1>9. /\ h[1] = s[1] /\ h = [i \in 1..Len(s) |-> h[i]]
      /\ \A i \in 1..Len(s) : i # 1 => h[i] = h[i - 1] \o s[i]
  <2> HIDE DEF h
  <2>1. h = [i \in 1..Len(s) |-> IF i = 1 THEN s[i] ELSE h[i - 1] \o s[i]]
    BY <1>7
  <2> HIDE DEF Def, Flat
  <2>2. \A i \in 1..Len(s) : h[i] = IF i = 1 THEN s[i] ELSE h[i - 1] \o s[i]
    BY <2>1, Zenon
  <2>3. h = [i \in 1..Len(s) |-> h[i]]
    BY <2>1, <2>2, Zenon
  <2>4. 1 \in 1..Len(s)
    BY <1>1
  <2>5. h[1] = s[1]
    BY <2>2, <2>4, Zenon
  <2>6. \A i \in 1..Len(s) : i # 1 => h[i] = h[i - 1] \o s[i]
    BY <2>2, Zenon
  <2> QED BY <2>3, <2>5, <2>6
<1> HIDE DEF h
<1>10. 0 \in A
  BY <1>1, <1>5, <1>9
<1>11. ASSUME NEW n \in Nat, n \in A PROVE n + 1 \in A
  <2> SUFFICES ASSUME n + 2 <= Len(s) PROVE h[n + 2] = f[n + 2]
    OBVIOUS
  <2>1. n + 2 \in 1..Len(s) /\ n + 2 # 1 /\ (n + 2) - 1 = n + 1 /\ n + 1 <= Len(s)
    BY <1>1
  <2>2. h[n + 1] = f[n + 1]
    BY <1>11, <2>1
  <2>3. h[n + 2] = h[n + 1] \o s[n + 2] /\ f[n + 2] = f[n + 1] \o s[n + 2]
    BY <1>5, <1>9, <2>1
  <2> QED BY <2>2, <2>3
<1>12. Nat \subseteq A
  <2> HIDE DEF A
  <2> QED BY <1>10, <1>11, SetInduction
<1>13. h[Len(s)] = f[Len(s)]
  <2>1. Len(s) - 1 \in A /\ (Len(s) - 1) + 1 = Len(s)
    <3> HIDE DEF A
    <3> QED BY <1>1, <1>12
  <2> QED BY <1>1, <2>1
<1> QED BY <1>5, <1>8, <1>13

-----------------------------------------------------------------------------
(* What is asked for. *)

\* One request: what it is for, and for which property.
WizardAsks == {"object", "property", "primary", "title"} \X Nat

\* Wherever a sequence of requests stops, it holds no property without those
\* before it, and no key without its property.
StandsAt(made, n) ==
  /\ made[n][1] = "object" => n = 1
  /\ made[n][1] = "property" =>
       \A k \in 1..made[n][2] - 1 : <<"property", k>> \in {made[j] : j \in 1..n - 1}
  /\ made[n][1] \notin {"object", "property"} => n > 1 /\ made[n - 1][2] = made[n][2]

Beginning(made) == made \in Seq(WizardAsks) /\ \A n \in 1..Len(made) : StandsAt(made, n)

\* Stopping earlier leaves a beginning as well.
LEMMA PrefixBegins ==
  ASSUME NEW made, Beginning(made), NEW m \in 0..Len(made)
  PROVE  Beginning(SubSeq(made, 1, m)) /\ Len(SubSeq(made, 1, m)) = m
<1> DEFINE p == SubSeq(made, 1, m)
<1>1. made \in Seq(WizardAsks) /\ Len(made) \in Nat
  BY DEF Beginning
<1> HIDE DEF p
<1>2. p \in Seq(WizardAsks) /\ Len(p) = m /\ \A n \in 1..m : p[n] = made[n]
  BY <1>1 DEF p
<1>3. ASSUME NEW n \in 1..m
      PROVE  StandsAt(p, n)
  <2>1. StandsAt(made, n)
    BY <1>1 DEF Beginning
  <2>2. p[n] = made[n] /\ (n > 1 => p[n - 1] = made[n - 1])
    BY <1>1, <1>2
  <2>3. {p[j] : j \in 1..n - 1} = {made[j] : j \in 1..n - 1}
    <3>1. \A j \in 1..n - 1 : p[j] = made[j]
      BY <1>1, <1>2
    <3> QED BY <3>1
  <2> QED BY <2>1, <2>2, <2>3 DEF StandsAt
<1>4. Beginning(p)
  BY <1>2, <1>3 DEF Beginning
<1> QED BY <1>2, <1>4 DEF p

\* What is asked for one property.
LEMMA RowRequestsAre ==
  ASSUME NEW rows, NEW k \in Nat
  PROVE  LET q == WizardRowRequests(rows, k)
         IN  /\ q \in Seq(WizardAsks) /\ Len(q) > 0
             /\ q[1] = <<"property", k>>
             /\ \A j \in 1..Len(q) : q[j][2] = k /\ (j # 1 => q[j][1] \notin {"object", "property"})
<1> DEFINE q == WizardRowRequests(rows, k)
           Rest(t) == /\ t \in Seq(WizardAsks)
                      /\ \A j \in 1..Len(t) : t[j][2] = k /\ t[j][1] \notin {"object", "property"}
           key(x) == IF x \in rows[k].keys THEN <<<<x, k>>>> ELSE <<>>
<1>1. Rest(<<>>)
  OBVIOUS
<1>2. ASSUME NEW x \in {"primary", "title"}
      PROVE  Rest(<<<<x, k>>>>)
  <2> DEFINE t == <<<<x, k>>>>
  <2>1. <<x, k>> \in WizardAsks /\ <<x, k>>[1] = x /\ <<x, k>>[2] = k
    BY DEF WizardAsks
  <2>2. t \in Seq(WizardAsks) /\ Len(t) = 1 /\ t[1] = <<x, k>>
    BY <2>1
  <2> HIDE DEF t
  <2>3. \A j \in 1..Len(t) : j = 1
    BY <2>2
  <2> QED BY <2>1, <2>2, <2>3 DEF t
<1>3. ASSUME NEW t, NEW u, Rest(t), Rest(u)
      PROVE  Rest(t \o u)
  <2>1. /\ t \in Seq(WizardAsks) /\ u \in Seq(WizardAsks) /\ Len(t) \in Nat /\ Len(u) \in Nat
    BY <1>3
  <2>2. /\ t \o u \in Seq(WizardAsks) /\ Len(t \o u) = Len(t) + Len(u)
        /\ \A j \in 1..Len(t) : (t \o u)[j] = t[j]
        /\ \A j \in 1..Len(u) : (t \o u)[Len(t) + j] = u[j]
    BY <2>1
  <2>3. ASSUME NEW j \in 1..Len(t \o u), j > Len(t)
        PROVE  j - Len(t) \in 1..Len(u) /\ Len(t) + (j - Len(t)) = j
    BY <2>1, <2>2, <2>3
  <2>4. ASSUME NEW j \in 1..Len(t \o u)
        PROVE  (t \o u)[j][2] = k /\ (t \o u)[j][1] \notin {"object", "property"}
    <3>1. CASE j > Len(t)
      <4>1. (t \o u)[j] = u[j - Len(t)]
        BY <2>2, <2>3, <3>1
      <4> QED BY <1>3, <2>3, <3>1, <4>1
    <3>2. CASE ~(j > Len(t))
      <4>1. j \in 1..Len(t)
        BY <2>1, <2>2, <3>2
      <4> QED BY <1>3, <2>2, <4>1
    <3> QED BY <3>1, <3>2
  <2> QED BY <2>2, <2>4
<1>4. q = (<<<<"property", k>>>> \o key("primary")) \o key("title")
  BY DEF WizardRowRequests
<1> HIDE DEF q, Rest
<1>5. Rest(key("primary")) /\ Rest(key("title"))
  BY <1>1, <1>2
<1> HIDE DEF key
<1> DEFINE rest == key("primary") \o key("title")
           first == <<<<"property", k>>>>
<1>6. Rest(rest)
  BY <1>3, <1>5
<1>7. first \in Seq(WizardAsks) /\ Len(first) = 1 /\ first[1] = <<"property", k>>
  BY DEF WizardAsks
<1>8. q = first \o rest
  <2>1. key("primary") \in Seq(WizardAsks) /\ key("title") \in Seq(WizardAsks)
    BY <1>5 DEF Rest
  <2> HIDE DEF first
  <2>2. (first \o key("primary")) \o key("title") = first \o (key("primary") \o key("title"))
    BY <1>7, <2>1, ConcatAssociative
  <2> QED BY <1>4, <2>2 DEF first
<1> HIDE DEF first, rest
<1>9. /\ rest \in Seq(WizardAsks) /\ Len(rest) \in Nat
      /\ \A j \in 1..Len(rest) : rest[j][2] = k /\ rest[j][1] \notin {"object", "property"}
  BY <1>6 DEF Rest
<1>10. /\ q \in Seq(WizardAsks) /\ Len(q) = 1 + Len(rest) /\ q[1] = <<"property", k>>
       /\ \A j \in 1..Len(rest) : q[1 + j] = rest[j]
  <2>1. /\ first \o rest \in Seq(WizardAsks) /\ Len(first \o rest) = Len(first) + Len(rest)
        /\ \A j \in 1..Len(first) + Len(rest) :
             (first \o rest)[j] = IF j <= Len(first) THEN first[j] ELSE rest[j - Len(first)]
    BY <1>7, <1>9, ConcatProperties, Zenon
  <2>2. 1 \in 1..Len(first) + Len(rest) /\ 1 <= Len(first)
    BY <1>7, <1>9
  <2>3. (first \o rest)[1] = first[1]
    BY <2>1, <2>2
  <2>4. \A j \in 1..Len(rest) : (first \o rest)[1 + j] = rest[j]
    <3>1. \A j \in 1..Len(rest) : /\ 1 + j \in 1..Len(first) + Len(rest)
                                  /\ ~(1 + j <= Len(first)) /\ (1 + j) - Len(first) = j
      BY <1>7, <1>9
    <3> QED BY <2>1, <3>1
  <2> QED BY <1>7, <1>8, <2>1, <2>3, <2>4
<1>11. ASSUME NEW j \in 1..Len(q)
       PROVE  q[j][2] = k /\ (j # 1 => q[j][1] \notin {"object", "property"})
  <2>1. CASE j = 1
    <3>1. q[j] = <<"property", k>>
      BY <1>10, <2>1
    <3> QED BY <2>1, <3>1
  <2>2. CASE j # 1
    <3>1. j - 1 \in 1..Len(rest) /\ 1 + (j - 1) = j
      BY <1>9, <1>10, <2>2
    <3>2. q[j] = rest[j - 1]
      BY <1>10, <3>1
    <3> QED BY <1>9, <3>1, <3>2
  <2> QED BY <2>1, <2>2
<1>12. Len(q) > 0
  BY <1>9, <1>10
<1> QED BY <1>10, <1>11, <1>12 DEF q

\* A beginning that has the first m properties.
Reaches(made, m) ==
  /\ Beginning(made) /\ Len(made) > 0
  /\ \A k \in 1..m : <<"property", k>> \in {made[j] : j \in 1..Len(made)}

\* The requests for one more property go on with it.
LEMMA GoesOnBeginning ==
  ASSUME NEW rows, NEW m \in Nat, NEW made, Reaches(made, m)
  PROVE  Reaches(made \o WizardRowRequests(rows, m + 1), m + 1)
<1> DEFINE q == WizardRowRequests(rows, m + 1)
           more == made \o q
<1>1. made \in Seq(WizardAsks) /\ Len(made) \in Nat /\ Len(made) > 0
  BY DEF Reaches, Beginning
<1>2. m + 1 \in Nat
  OBVIOUS
<1>3. /\ q \in Seq(WizardAsks) /\ Len(q) > 0
      /\ q[1] = <<"property", m + 1>>
      /\ \A j \in 1..Len(q) : q[j][2] = m + 1 /\ (j # 1 => q[j][1] \notin {"object", "property"})
  <2> HIDE DEF q
  <2> QED BY <1>2, RowRequestsAre DEF q
<1> HIDE DEF q
<1>4. Len(q) \in Nat
  BY <1>3
<1>5. /\ more \in Seq(WizardAsks) /\ Len(more) = Len(made) + Len(q)
      /\ \A n \in 1..Len(made) : more[n] = made[n]
      /\ \A n \in 1..Len(q) : more[Len(made) + n] = q[n]
  BY <1>1, <1>3, <1>4
<1> HIDE DEF more
<1>6. ASSUME NEW n \in 1..Len(made)
      PROVE  StandsAt(more, n)
  <2>1. StandsAt(made, n)
    BY DEF Reaches, Beginning
  <2>2. more[n] = made[n] /\ (n > 1 => more[n - 1] = made[n - 1])
    BY <1>1, <1>5
  <2>3. {more[j] : j \in 1..n - 1} = {made[j] : j \in 1..n - 1}
    <3>1. \A j \in 1..n - 1 : more[j] = made[j]
      BY <1>1, <1>5
    <3> QED BY <3>1
  <2> QED BY <2>1, <2>2, <2>3 DEF StandsAt
<1>7. StandsAt(more, Len(made) + 1)
  <2>1. more[Len(made) + 1] = <<"property", m + 1>>
    BY <1>3, <1>4, <1>5
  <2>2. ASSUME NEW k \in 1..m
        PROVE  <<"property", k>> \in {more[j] : j \in 1..Len(made)}
    BY <1>5 DEF Reaches
  <2>3. (Len(made) + 1) - 1 = Len(made) /\ (m + 1) - 1 = m
    BY <1>1
  <2>4. more[Len(made) + 1][1] = "property" /\ more[Len(made) + 1][2] = m + 1
    BY <2>1
  <2> QED BY <2>2, <2>3, <2>4 DEF StandsAt
<1>8. ASSUME NEW n \in 2..Len(q)
      PROVE  StandsAt(more, Len(made) + n)
  <2>1. n \in 1..Len(q) /\ n - 1 \in 1..Len(q) /\ n # 1
    BY <1>4
  <2>2. more[Len(made) + n] = q[n] /\ more[Len(made) + (n - 1)] = q[n - 1]
    BY <1>5, <2>1
  <2>3. Len(made) + (n - 1) = (Len(made) + n) - 1 /\ Len(made) + n > 1
    BY <1>1, <1>4
  <2>4. /\ more[Len(made) + n][1] \notin {"object", "property"}
        /\ more[Len(made) + n][2] = more[(Len(made) + n) - 1][2]
    BY <1>3, <2>1, <2>2, <2>3
  <2> QED BY <2>3, <2>4 DEF StandsAt
<1>9. Beginning(more)
  <2>1. ASSUME NEW n \in 1..Len(more), n > Len(made) + 1
        PROVE  StandsAt(more, n)
    <3>1. n - Len(made) \in 2..Len(q) /\ Len(made) + (n - Len(made)) = n
      BY <1>1, <1>4, <1>5, <2>1
    <3> QED BY <1>8, <3>1
  <2>2. \A n \in 1..Len(more) : n \in 1..Len(made) \/ n = Len(made) + 1 \/ n > Len(made) + 1
    BY <1>1, <1>4, <1>5
  <2> QED BY <1>5, <1>6, <1>7, <2>1, <2>2 DEF Beginning
<1>10. ASSUME NEW k \in 1..m + 1
       PROVE  <<"property", k>> \in {more[j] : j \in 1..Len(more)}
  <2>1. CASE k = m + 1
    <3>1. Len(made) + 1 \in 1..Len(more) /\ more[Len(made) + 1] = <<"property", m + 1>>
      BY <1>1, <1>3, <1>4, <1>5
    <3> QED BY <2>1, <3>1
  <2>2. CASE k # m + 1
    <3>1. k \in 1..m
      BY <2>2
    <3>2. PICK j \in 1..Len(made) : <<"property", k>> = made[j]
      BY <3>1 DEF Reaches
    <3>3. j \in 1..Len(more)
      BY <1>1, <1>4, <1>5
    <3>4. more[j] = made[j]
      BY <1>5
    <3> QED BY <3>2, <3>3, <3>4
  <2> QED BY <2>1, <2>2
<1>11. Len(more) > 0
  BY <1>1, <1>4, <1>5
<1>12. Reaches(more, m + 1)
  BY <1>9, <1>10, <1>11 DEF Reaches
<1> QED BY <1>12 DEF more, q

\* All that is asked for is such a sequence, for any number of properties.
LEMMA RequestsBegin ==
  ASSUME NEW V, NEW rows \in Seq(V)
  PROVE  Beginning(WizardRequests(rows)) /\ Len(WizardRequests(rows)) > 0
<1> DEFINE head == <<<<"object", 0>>>>
           s == [k \in 1..Len(rows) |-> WizardRowRequests(rows, k)]
<1>1. Len(rows) \in Nat
  OBVIOUS
<1>2. s \in Seq(Seq(WizardAsks)) /\ Len(s) = Len(rows)
  <2>1. \A k \in 1..Len(rows) : k \in Nat /\ WizardRowRequests(rows, k) \in Seq(WizardAsks)
    <3>1. \A k \in 1..Len(rows) : k \in Nat
      BY <1>1
    <3> QED BY <3>1, RowRequestsAre
  <2>2. s \in [1..Len(rows) -> Seq(WizardAsks)]
    BY <2>1
  <2> HIDE DEF s
  <2> QED BY <1>1, <2>2
<1>3. Reaches(head, 0)
  <2>1. head \in Seq(WizardAsks) /\ Len(head) = 1 /\ head[1] = <<"object", 0>>
    BY DEF WizardAsks
  <2> HIDE DEF head
  <2>2. head[1][1] = "object"
    BY <2>1
  <2>3. StandsAt(head, 1)
    BY <2>2 DEF StandsAt
  <2> QED BY <2>1, <2>3 DEF Reaches, Beginning
<1>4. WizardRequests(rows) = head \o FlattenSeq(s)
  BY DEF WizardRequests
<1>5. head \in Seq(WizardAsks)
  BY DEF WizardAsks
<1>6. \A k \in 1..Len(rows) : s[k] = WizardRowRequests(rows, k)
  OBVIOUS
<1> HIDE DEF head, s
<1>7. CASE Len(rows) = 0
  <2>1. FlattenSeq(s) = s /\ s = <<>>
    BY <1>2, <1>7 DEF FlattenSeq
  <2>2. WizardRequests(rows) = head
    BY <1>4, <1>5, <2>1
  <2> QED BY <1>3, <2>2 DEF Reaches
<1>8. CASE Len(rows) # 0
  <2>1. PICK f \in [1..Len(s) -> Seq(WizardAsks)] :
          /\ f[1] = s[1]
          /\ \A i \in 1..Len(s) : i # 1 => f[i] = f[i - 1] \o s[i]
          /\ FlattenSeq(s) = f[Len(s)]
    <3>1. Len(s) # 0
      BY <1>2, <1>8
    <3> QED BY <1>2, <3>1, Flattened
  <2> DEFINE S == {n \in Nat : n + 1 <= Len(rows) => Reaches(head \o f[n + 1], n + 1)}
  <2>2. 0 \in S
    <3>1. 1 \in 1..Len(rows) /\ 0 + 1 = 1
      BY <1>1, <1>8
    <3>2. f[1] = WizardRowRequests(rows, 0 + 1)
      BY <1>6, <2>1, <3>1
    <3>3. Reaches(head \o f[1], 0 + 1)
      BY <1>3, <3>2, GoesOnBeginning
    <3> QED BY <3>1, <3>3
  <2>3. ASSUME NEW n \in Nat, n \in S
        PROVE  n + 1 \in S
    <3>1. SUFFICES ASSUME n + 2 <= Len(rows) PROVE Reaches(head \o f[n + 2], n + 2)
      <4>1. (n + 1) + 1 = n + 2
        OBVIOUS
      <4> QED BY <4>1
    <3>2. /\ n + 1 \in Nat /\ n + 2 = (n + 1) + 1 /\ n + 2 # 1 /\ (n + 2) - 1 = n + 1
          /\ n + 1 <= Len(rows) /\ n + 1 \in 1..Len(rows) /\ n + 2 \in 1..Len(rows)
      BY <1>1, <3>1
    <3>3. Reaches(head \o f[n + 1], n + 1)
      BY <2>3, <3>2
    <3>4. f[n + 2] = f[n + 1] \o WizardRowRequests(rows, n + 2)
      BY <1>2, <1>6, <2>1, <3>2
    <3>5. f[n + 1] \in Seq(WizardAsks)
      BY <1>2, <2>1, <3>2
    <3> DEFINE u == WizardRowRequests(rows, n + 2)
    <3>6. u \in Seq(WizardAsks)
      <4>1. n + 2 \in Nat
        OBVIOUS
      <4> QED BY <4>1, RowRequestsAre
    <3>7. head \o f[n + 2] = (head \o f[n + 1]) \o u
      <4> HIDE DEF u
      <4>1. (head \o f[n + 1]) \o u = head \o (f[n + 1] \o u)
        <5> DEFINE v == f[n + 1]
                   T == WizardAsks
        <5>1. head \in Seq(T) /\ v \in Seq(T) /\ u \in Seq(T)
          BY <1>5, <3>5, <3>6
        <5> HIDE DEF v, T
        <5>2. (head \o v) \o u = head \o (v \o u)
          BY <5>1, ConcatAssociative
        <5> QED BY <5>2 DEF v
      <4>2. f[n + 2] = f[n + 1] \o u
        BY <3>4 DEF u
      <4> QED BY <4>1, <4>2
    <3>8. Reaches((head \o f[n + 1]) \o WizardRowRequests(rows, (n + 1) + 1), (n + 1) + 1)
      BY <3>2, <3>3, GoesOnBeginning
    <3> QED BY <3>2, <3>7, <3>8
  <2> HIDE DEF S
  <2>4. Nat \subseteq S
    BY <2>2, <2>3, SetInduction
  <2>5. Len(rows) - 1 \in S /\ (Len(rows) - 1) + 1 = Len(rows)
    BY <1>1, <1>8, <2>4
  <2>6. Reaches(head \o f[Len(rows)], Len(rows))
    BY <1>1, <2>5 DEF S
  <2> QED BY <1>2, <1>4, <2>1, <2>6 DEF Reaches
<1> QED BY <1>7, <1>8

WizardFields ==
  {"kind", "open", "step", "dataset", "entered", "rows", "mapped", "creating", "said"}

WizardTyped ==
  /\ WizardFields \subseteq DOMAIN form /\ form.kind = "object type"
  /\ \E V : form.rows \in Seq(V)

\* What the server has made are beginnings.
MadeFits == server \in Seq(Seq(WizardAsks)) /\ \A r \in 1..Len(server) : Beginning(server[r])

\* What a handler asks for is a beginning as a whole; until it has been told of a
\* failure, the server has made for it what it has asked for, less the request
\* under way.
WizardCallFits(call, made) ==
  /\ {"button", "asks", "at", "rid"} \subseteq DOMAIN call
  /\ Beginning(call.asks) /\ call.at \in 1..Len(call.asks)
  /\ call.rid \in 0..Len(made)
  /\ call.state = "sent" /\ call.at = 1 => call.rid = 0
  /\ call.state = "sent" /\ call.at # 1 =>
       call.rid # 0 /\ made[call.rid] = SubSeq(call.asks, 1, call.at - 1)
  /\ call.state = "done" =>
       call.rid # 0 /\ made[call.rid] = SubSeq(call.asks, 1, call.at)

\* No two handlers create the same object type.
OnTheirOwn(s) ==
  \A j, k \in 1..Len(s) : s[j].rid # 0 /\ s[j].rid = s[k].rid => j = k

WizardCallsFit ==
  /\ CallsTyped /\ OnTheirOwn(calls)
  /\ \A j \in 1..Len(calls) : WizardCallFits(calls[j], server)

\* The inductive invariant.
WizardIInv == WizardTyped /\ MadeFits /\ WizardCallsFit

-----------------------------------------------------------------------------
\* A handler changes, or the server makes something for it and for no other.
LEMMA WizardChanged ==
  ASSUME WizardCallsFit, NEW i \in 1..Len(calls), NEW call, calls' = [calls EXCEPT ![i] = call],
         Asked(call), WizardCallFits(call, server'),
         call.rid = calls[i].rid \/ call.rid = Len(server) + 1,
         Len(server) \in Nat,
         Len(server) <= Len(server'), Len(server') \in Nat,
         \A r \in 1..Len(server) : r # calls[i].rid => server'[r] = server[r]
  PROVE  WizardCallsFit'
<1>1. /\ CallsTyped /\ OnTheirOwn(calls)
      /\ \A j \in 1..Len(calls) : WizardCallFits(calls[j], server)
  BY DEF WizardCallsFit
<1>2. /\ CallsTyped' /\ Len(calls') = Len(calls) /\ calls'[i] = call
      /\ \A k \in 1..Len(calls) : k # i => calls'[k] = calls[k]
  BY <1>1, Changed
<1>3. ASSUME NEW j \in 1..Len(calls), j # i
      PROVE  WizardCallFits(calls[j], server') /\ (calls[j].rid # 0 => calls[j].rid # call.rid)
  <2>1. WizardCallFits(calls[j], server)
    BY <1>1
  <2>2. calls[j].rid \in 0..Len(server) /\ calls[j].rid \in 0..Len(server')
    BY <2>1 DEF WizardCallFits
  <2>3. calls[j].rid # 0 => calls[j].rid # calls[i].rid
    BY <1>1, <1>3 DEF OnTheirOwn
  <2>4. calls[j].rid # 0 => server'[calls[j].rid] = server[calls[j].rid]
    BY <2>2, <2>3
  <2>5. WizardCallFits(calls[j], server')
    BY <2>1, <2>2, <2>4 DEF WizardCallFits
  <2> QED BY <2>2, <2>3, <2>5
<1>4. OnTheirOwn(calls')
  <2> SUFFICES ASSUME NEW j \in 1..Len(calls), NEW k \in 1..Len(calls),
                      calls'[j].rid # 0, calls'[j].rid = calls'[k].rid, j # k
               PROVE  FALSE
    BY <1>2 DEF OnTheirOwn
  <2>1. CASE j = i
    BY <1>2, <1>3, <2>1
  <2>2. CASE k = i
    BY <1>2, <1>3, <2>2
  <2>3. CASE j # i /\ k # i
    BY <1>1, <1>2, <2>3 DEF OnTheirOwn
  <2> QED BY <2>1, <2>2, <2>3
<1>5. \A j \in 1..Len(calls') : WizardCallFits(calls'[j], server')
  BY <1>2, <1>3
<1> QED BY <1>2, <1>4, <1>5 DEF WizardCallsFit

\* A handler is started: it has created nothing yet.
LEMMA WizardStarted ==
  ASSUME WizardCallsFit, WizardTyped, NEW button, Start(WizardCall(button)), UNCHANGED server,
         Len(server) \in Nat
  PROVE  WizardCallsFit' /\ Len(calls) \in Nat /\ Len(calls') = Len(calls) + 1
<1> DEFINE c == WizardCall(button)
           new == With(c, "state", "sent")
<1>1. /\ CallsTyped /\ OnTheirOwn(calls)
      /\ \A j \in 1..Len(calls) : WizardCallFits(calls[j], server)
  BY DEF WizardCallsFit
<1>2. /\ {"ask", "button", "asks", "at", "rid"} \subseteq DOMAIN c
      /\ c.asks = WizardRequests(form.rows) /\ c.at = 1 /\ c.rid = 0
  BY DEF WizardCall
<1>3. Beginning(c.asks) /\ Len(c.asks) > 0
  BY <1>2, RequestsBegin DEF WizardTyped
<1> HIDE DEF c
<1>4. CallsTyped' /\ calls' = Append(calls, new)
  <2>1. {"ask"} \subseteq DOMAIN c /\ Start(c)
    BY <1>2 DEF c
  <2> QED BY <1>1, <2>1, Started
<1>5. /\ new.state = "sent" /\ new.asks = c.asks /\ new.at = c.at /\ new.rid = c.rid
      /\ {"button", "asks", "at", "rid"} \subseteq DOMAIN new
  BY <1>2 DEF With
<1> HIDE DEF new
<1>6. WizardCallFits(new, server)
  <2>1. Len(c.asks) \in Nat
    BY <1>3 DEF Beginning
  <2>2. new.at \in 1..Len(new.asks) /\ new.rid \in 0..Len(server)
    BY <1>2, <1>3, <1>5, <2>1
  <2> QED BY <1>2, <1>3, <1>5, <2>2 DEF WizardCallFits
<1>7. /\ Len(calls) \in Nat /\ Len(calls') = Len(calls) + 1
      /\ calls'[Len(calls) + 1] = new
      /\ \A k \in 1..Len(calls) : calls'[k] = calls[k]
  BY <1>1, <1>4 DEF CallsTyped
<1>8. ASSUME NEW j \in 1..Len(calls')
      PROVE  j \in 1..Len(calls) \/ j = Len(calls) + 1
  BY <1>7
<1>9. OnTheirOwn(calls')
  <2> SUFFICES ASSUME NEW j \in 1..Len(calls'), NEW k \in 1..Len(calls'),
                      calls'[j].rid # 0, calls'[j].rid = calls'[k].rid
               PROVE  j = k
    BY DEF OnTheirOwn
  <2>1. j \in 1..Len(calls) /\ k \in 1..Len(calls)
    BY <1>2, <1>5, <1>7, <1>8
  <2> QED BY <1>1, <1>7, <2>1 DEF OnTheirOwn
<1>10. \A j \in 1..Len(calls') : WizardCallFits(calls'[j], server')
  BY <1>1, <1>6, <1>7, <1>8
<1> QED BY <1>4, <1>7, <1>9, <1>10 DEF WizardCallsFit

\* A handler returns.
LEMMA WizardReturned ==
  ASSUME WizardCallsFit, NEW i \in 1..Len(calls), Return(i), UNCHANGED server
  PROVE  WizardCallsFit' /\ Len(calls) \in Nat /\ Len(calls') = Len(calls) - 1
<1>1. /\ CallsTyped /\ OnTheirOwn(calls)
      /\ \A j \in 1..Len(calls) : WizardCallFits(calls[j], server)
  BY DEF WizardCallsFit
<1>2. /\ CallsTyped' /\ Len(calls') = Len(calls) - 1
      /\ \A k \in 1..Len(calls') : calls'[k] = calls[IF k < i THEN k ELSE k + 1]
      /\ Len(calls) \in Nat
  BY <1>1, Returned DEF CallsTyped
<1> DEFINE Was(k) == IF k < i THEN k ELSE k + 1
<1>3. /\ \A k \in 1..Len(calls') : Was(k) \in 1..Len(calls)
      /\ \A j, k \in 1..Len(calls') : Was(j) = Was(k) => j = k
  BY <1>2
<1>4. \A k \in 1..Len(calls') : calls'[k] = calls[Was(k)]
  BY <1>2
<1> HIDE DEF Was
<1>5. OnTheirOwn(calls')
  BY <1>1, <1>3, <1>4 DEF OnTheirOwn
<1>6. \A k \in 1..Len(calls') : WizardCallFits(calls'[k], server')
  BY <1>1, <1>3, <1>4
<1> QED BY <1>2, <1>5, <1>6 DEF WizardCallsFit

\* The wizard in the beginning.
LEMMA WizardStart == ASSUME WizardInit PROVE WizardIInv
<1>1. WizardTyped
  <2>1. <<>> \in Seq({})
    OBVIOUS
  <2> QED BY <2>1 DEF WizardInit, WizardDefault, WizardTyped, WizardFields
<1>2. MadeFits /\ WizardCallsFit
  <2>1. calls = <<>> /\ server = <<>> /\ calls \in Seq({})
    BY DEF WizardInit
  <2> QED BY <2>1 DEF MadeFits, WizardCallsFit, CallsTyped, OnTheirOwn, UnderWay
<1> QED BY <1>1, <1>2 DEF WizardIInv

\* What the store is reset to is a form.
LEMMA ResetTyped ==
  ASSUME NEW creating, NEW said,
         form' = [WizardDefault EXCEPT !.creating = creating, !.said = said]
  PROVE  WizardTyped'
<1>1. <<>> \in Seq({})
  OBVIOUS
<1> QED BY <1>1 DEF WizardDefault, WizardTyped, WizardFields

-----------------------------------------------------------------------------
(* What the actions keep. *)

\* The user edits the form; nothing is under way because of it.
LEMMA EditTyped ==
  ASSUME WizardTyped,
         \/ WizardOpen \/ WizardNextStep \/ WizardBack \/ WizardSelectDataset
         \/ WizardEnterMetadata \/ WizardChooseActions \/ WizardMapColumns
         \/ \E valid \in BOOLEAN : WizardAddRow(valid)
         \/ \E k \in 1..MaxRows : WizardRemoveRow(k)
         \/ \E k \in 1..MaxRows, valid \in BOOLEAN : WizardRenameRow(k, valid)
         \/ \E key \in Keys, k \in 0..MaxRows : WizardChooseKey(key, k)
         \/ WizardClose
  PROVE  WizardTyped' /\ UNCHANGED <<calls, server>>
<1>1. PICK V : form.rows \in Seq(V)
  BY DEF WizardTyped
<1>2. WizardFields \subseteq DOMAIN form /\ form.kind = "object type"
  BY DEF WizardTyped
<1>3. \/ WizardOpen \/ WizardNextStep \/ WizardBack \/ WizardSelectDataset
      \/ WizardEnterMetadata \/ WizardChooseActions
      => WizardTyped' /\ UNCHANGED <<calls, server>>
  <2>1. \/ WizardOpen \/ WizardNextStep \/ WizardBack \/ WizardSelectDataset
        \/ WizardEnterMetadata \/ WizardChooseActions
        => /\ UNCHANGED <<calls, server>>
           /\ form'.rows = form.rows /\ form'.kind = form.kind /\ DOMAIN form' = DOMAIN form
    BY <1>2 DEF WizardOpen, WizardNextStep, WizardBack, WizardSelectDataset,
                WizardEnterMetadata, WizardChooseActions, WizardFields
  <2> QED BY <1>1, <1>2, <2>1 DEF WizardTyped
<1>4. ASSUME NEW rows, NEW W, rows \in Seq(W), form'.rows = rows,
             form'.kind = form.kind, DOMAIN form' = DOMAIN form
      PROVE  WizardTyped'
  BY <1>2, <1>4 DEF WizardTyped
<1>5. CASE WizardMapColumns
  <2>1. /\ UNCHANGED <<calls, server>>
        /\ form'.rows = <<[valid |-> TRUE, keys |-> {}]>>
        /\ form'.kind = form.kind /\ DOMAIN form' = DOMAIN form
    BY <1>2, <1>5 DEF WizardMapColumns, WizardFields
  <2>2. <<[valid |-> TRUE, keys |-> {}]>> \in Seq({[valid |-> TRUE, keys |-> {}]})
    OBVIOUS
  <2> QED BY <1>4, <2>1, <2>2
<1>6. CASE \E valid \in BOOLEAN : WizardAddRow(valid)
  <2>1. PICK valid \in BOOLEAN : WizardAddRow(valid)
    BY <1>6
  <2> DEFINE row == [valid |-> valid, keys |-> {}]
  <2>2. /\ UNCHANGED <<calls, server>> /\ form'.rows = Append(form.rows, row)
        /\ form'.kind = form.kind /\ DOMAIN form' = DOMAIN form
    BY <1>2, <2>1 DEF WizardAddRow, WizardFields
  <2> HIDE DEF row
  <2>3. Append(form.rows, row) \in Seq(V \cup {row})
    BY <1>1
  <2> QED BY <1>4, <2>2, <2>3
<1>7. CASE \E k \in 1..MaxRows : WizardRemoveRow(k)
  <2>1. PICK k \in 1..MaxRows : WizardRemoveRow(k)
    BY <1>7
  <2>2. /\ UNCHANGED <<calls, server>> /\ form'.rows = RemoveAt(form.rows, k)
        /\ form'.kind = form.kind /\ DOMAIN form' = DOMAIN form /\ k \in 1..Len(form.rows)
    BY <1>2, <2>1 DEF WizardRemoveRow, WizardFields
  <2>3. RemoveAt(form.rows, k) \in Seq(V)
    BY <1>1, <2>2, Removed
  <2> QED BY <1>4, <2>2, <2>3
<1>8. CASE \E k \in 1..MaxRows, valid \in BOOLEAN : WizardRenameRow(k, valid)
  <2>1. PICK k \in 1..MaxRows, valid \in BOOLEAN : WizardRenameRow(k, valid)
    BY <1>8
  <2> DEFINE row == [form.rows[k] EXCEPT !.valid = valid]
  <2>2. /\ UNCHANGED <<calls, server>> /\ form'.rows = [form.rows EXCEPT ![k] = row]
        /\ form'.kind = form.kind /\ DOMAIN form' = DOMAIN form /\ k \in 1..Len(form.rows)
    BY <1>2, <2>1 DEF WizardRenameRow, WizardFields
  <2> HIDE DEF row
  <2>3. [form.rows EXCEPT ![k] = row] \in Seq(V \cup {row})
    BY <1>1, <2>2
  <2> QED BY <1>4, <2>2, <2>3
<1>9. CASE \E key \in Keys, k \in 0..MaxRows : WizardChooseKey(key, k)
  <2>1. PICK key \in Keys, k \in 0..MaxRows : WizardChooseKey(key, k)
    BY <1>9
  <2> DEFINE rows == WizardWithKey(form.rows, key, k)
             W == {rows[j] : j \in 1..Len(form.rows)}
  <2>2. /\ UNCHANGED <<calls, server>> /\ form'.rows = rows
        /\ form'.kind = form.kind /\ DOMAIN form' = DOMAIN form
    BY <1>2, <2>1 DEF WizardChooseKey, WizardFields
  <2>3. rows = [j \in 1..Len(form.rows) |-> rows[j]]
    BY DEF WizardWithKey
  <2>4. Len(form.rows) \in Nat
    BY <1>1
  <2> HIDE DEF rows
  <2>5. rows \in [1..Len(form.rows) -> W]
    BY <2>3
  <2> HIDE DEF W
  <2>6. rows \in Seq(W)
    BY <2>4, <2>5
  <2> QED BY <1>4, <2>2, <2>6
<1>10. CASE WizardClose
  <2>1. form' = [WizardDefault EXCEPT !.creating = form.creating, !.said = form.said]
    BY <1>10 DEF WizardClose, WizardReset
  <2> QED BY <1>10, <2>1, ResetTyped DEF WizardClose
<1> QED BY <1>3, <1>5, <1>6, <1>7, <1>8, <1>9, <1>10

\* A handler is started by either button.
LEMMA CreateFits ==
  ASSUME WizardIInv, WizardCreate \/ WizardCloseCreating
  PROVE  WizardIInv' /\ Len(calls) \in Nat /\ Len(calls') = Len(calls) + 1
<1>1. PICK button : /\ Start(WizardCall(button)) /\ UNCHANGED server
                    /\ form' = [form EXCEPT !.creating = TRUE]
  BY DEF WizardCreate, WizardCloseCreating
<1>2. WizardTyped /\ MadeFits /\ WizardCallsFit /\ Len(server) \in Nat
  BY DEF WizardIInv, MadeFits
<1>3. WizardCallsFit' /\ Len(calls) \in Nat /\ Len(calls') = Len(calls) + 1
  BY <1>1, <1>2, WizardStarted
<1>4. WizardTyped'
  <2>1. form'.rows = form.rows /\ form'.kind = form.kind /\ DOMAIN form' = DOMAIN form
    BY <1>1, <1>2 DEF WizardTyped, WizardFields
  <2> QED BY <1>2, <2>1 DEF WizardTyped
<1> QED BY <1>1, <1>2, <1>3, <1>4 DEF WizardIInv, MadeFits

\* The server carries out a request.
LEMMA ServeFits ==
  ASSUME WizardIInv, NEW i, WizardServe(i)
  PROVE  WizardIInv' /\ Len(calls') = Len(calls)
<1>1. WizardTyped /\ MadeFits /\ WizardCallsFit /\ CallsTyped
  BY DEF WizardIInv, WizardCallsFit
<1>2. i \in 1..Len(calls) /\ calls[i].state = "sent" /\ UNCHANGED form
  BY DEF WizardServe, WizardCalled, Waiting
<1> DEFINE c == calls[i]
<1>3. WizardCallFits(c, server) /\ Asked(c)
  BY <1>1, <1>2 DEF WizardCallsFit, CallsTyped, UnderWay
<1>4. /\ c.asks \in Seq(WizardAsks) /\ c.at \in 1..Len(c.asks) /\ Len(c.asks) \in Nat
      /\ c.state = "sent" /\ Beginning(c.asks)
      /\ {"button", "asks", "at", "rid", "ask", "state"} \subseteq DOMAIN c
  BY <1>2, <1>3 DEF WizardCallFits, Beginning, Asked
<1>5. Len(server) \in Nat /\ server \in Seq(Seq(WizardAsks))
  BY <1>1 DEF MadeFits
<1>6. CASE c.at = 1
  <2> DEFINE first == <<c.asks[1]>>
             new == [[c EXCEPT !.state = "done"] EXCEPT !.rid = Len(server) + 1]
  <2>1. c.asks[1] \in WizardAsks
    BY <1>4, <1>6
  <2>2. first = SubSeq(c.asks, 1, 1) /\ first \in Seq(WizardAsks)
    BY <1>4, <1>6, <2>1
  <2>3. Beginning(first)
    <3>1. 1 \in 0..Len(c.asks)
      BY <1>4, <1>6
    <3>2. Beginning(SubSeq(c.asks, 1, 1))
      BY <1>4, <3>1, PrefixBegins
    <3> QED BY <2>2, <3>2
  <2>4. /\ server' = Append(server, first)
        /\ calls' = [calls EXCEPT ![i].state = "done", ![i].rid = Len(server')]
    BY <1>6 DEF WizardServe
  <2> HIDE DEF first
  <2>5. /\ Len(server') = Len(server) + 1 /\ server'[Len(server) + 1] = first
        /\ server' \in Seq(Seq(WizardAsks))
        /\ \A r \in 1..Len(server) : server'[r] = server[r]
    BY <1>5, <2>2, <2>4
  <2>6. MadeFits'
    <3>1. \A r \in 1..Len(server') : r \in 1..Len(server) \/ r = Len(server) + 1
      BY <1>5, <2>5
    <3> QED BY <1>1, <2>3, <2>5, <3>1 DEF MadeFits
  <2>7. calls' = [calls EXCEPT ![i] = new]
    <3>1. Len(server') = Len(server) + 1
      BY <2>5
    <3> QED BY <1>1, <1>2, <1>4, <2>4, <3>1 DEF CallsTyped
  <2>8. /\ new.state = "done" /\ new.asks = c.asks /\ new.at = c.at /\ new.rid = Len(server) + 1
        /\ DOMAIN new = DOMAIN c
    BY <1>4
  <2> HIDE DEF new
  <2>9. WizardCallFits(new, server')
    <3>1. new.rid \in 0..Len(server') /\ new.rid # 0
      BY <1>5, <2>5, <2>8
    <3>2. server'[new.rid] = SubSeq(new.asks, 1, new.at)
      BY <1>6, <2>2, <2>5, <2>8 DEF first
    <3> QED BY <1>4, <2>8, <3>1, <3>2 DEF WizardCallFits
  <2>10. WizardCallsFit'
    <3>1. Asked(new)
      BY <1>4, <2>8 DEF Asked
    <3>2. Len(server) <= Len(server') /\ Len(server') \in Nat
      BY <1>5, <2>5
    <3> QED BY <1>1, <1>2, <1>5, <2>5, <2>7, <2>8, <2>9, <3>1, <3>2, WizardChanged
  <2>11. Len(calls') = Len(calls)
    BY <1>1, <2>7 DEF CallsTyped
  <2> QED BY <1>1, <1>2, <2>6, <2>10, <2>11 DEF WizardIInv, WizardTyped
<1>7. CASE c.at # 1
  <2> DEFINE made == server[c.rid]
             longer == Append(made, c.asks[c.at])
             new == [c EXCEPT !.state = "done"]
  <2>1. /\ c.rid \in 1..Len(server) /\ c.at - 1 \in 0..Len(c.asks)
        /\ made = SubSeq(c.asks, 1, c.at - 1)
    BY <1>3, <1>4, <1>5, <1>7 DEF WizardCallFits
  <2>2. longer = SubSeq(c.asks, 1, c.at)
    <3> DEFINE shorter == SubSeq(c.asks, 1, c.at - 1)
               whole == SubSeq(c.asks, 1, c.at)
    <3>1. /\ shorter \in Seq(WizardAsks) /\ Len(shorter) = c.at - 1
          /\ \A n \in 1..c.at - 1 : shorter[n] = c.asks[n]
      BY <1>4, <2>1
    <3>2. /\ whole \in Seq(WizardAsks) /\ Len(whole) = c.at
          /\ \A n \in 1..c.at : whole[n] = c.asks[n]
      BY <1>4
    <3>3. c.asks[c.at] \in WizardAsks
      BY <1>4
    <3> HIDE DEF shorter, whole
    <3> DEFINE one == Append(shorter, c.asks[c.at])
    <3>4. /\ one \in Seq(WizardAsks) /\ Len(one) = c.at
          /\ \A n \in 1..c.at - 1 : one[n] = shorter[n]
          /\ one[c.at] = c.asks[c.at]
      BY <1>4, <3>1, <3>3
    <3> HIDE DEF one
    <3>5. ASSUME NEW n \in 1..c.at
          PROVE  one[n] = whole[n]
      <4>1. n \in 1..c.at - 1 \/ n = c.at
        BY <1>4
      <4> QED BY <3>1, <3>2, <3>4, <4>1
    <3>6. one = whole
      BY <3>2, <3>4, <3>5, SeqEqual
    <3> QED BY <2>1, <3>6 DEF one, shorter, whole
  <2>3. Beginning(longer)
    <3>1. c.at \in 0..Len(c.asks)
      BY <1>4
    <3>2. Beginning(SubSeq(c.asks, 1, c.at))
      BY <1>4, <3>1, PrefixBegins
    <3> QED BY <2>2, <3>2
  <2>4. server' = [server EXCEPT ![c.rid] = longer] /\ calls' = [calls EXCEPT ![i].state = "done"]
    BY <1>7 DEF WizardServe, Answer
  <2> HIDE DEF longer, made
  <2>5. longer \in Seq(WizardAsks)
    BY <2>3 DEF Beginning
  <2>6. /\ server' \in Seq(Seq(WizardAsks)) /\ Len(server') = Len(server)
        /\ server'[c.rid] = longer
        /\ \A r \in 1..Len(server) : r # c.rid => server'[r] = server[r]
    BY <1>5, <2>1, <2>4, <2>5
  <2>7. MadeFits'
    BY <1>1, <2>3, <2>6 DEF MadeFits
  <2>8. calls' = [calls EXCEPT ![i] = new]
    BY <2>4
  <2>9. /\ new.state = "done" /\ new.asks = c.asks /\ new.at = c.at /\ new.rid = c.rid
        /\ DOMAIN new = DOMAIN c
    BY <1>4
  <2> HIDE DEF new
  <2>10. WizardCallFits(new, server')
    <3>1. new.rid \in 0..Len(server') /\ new.rid # 0
      BY <1>5, <2>1, <2>6, <2>9
    <3>2. server'[new.rid] = SubSeq(new.asks, 1, new.at)
      BY <2>2, <2>6, <2>9
    <3> QED BY <1>4, <2>9, <3>1, <3>2 DEF WizardCallFits
  <2>11. WizardCallsFit'
    <3>1. Asked(new)
      BY <1>4, <2>9 DEF Asked
    <3>2. Len(server) <= Len(server') /\ Len(server') \in Nat
      BY <1>5, <2>6
    <3> QED BY <1>1, <1>2, <1>5, <2>6, <2>8, <2>9, <2>10, <3>1, <3>2, WizardChanged
  <2>12. Len(calls') = Len(calls)
    BY <1>1, <2>8 DEF CallsTyped
  <2> QED BY <1>1, <1>2, <2>7, <2>11, <2>12 DEF WizardIInv, WizardTyped
<1> QED BY <1>6, <1>7

\* The next request is sent, or one fails.
LEMMA GoesOnFits ==
  ASSUME WizardIInv, NEW i, WizardNextRequest(i) \/ Refuse(i) \/ LoseAnswer(i)
  PROVE  WizardIInv' /\ Len(calls') = Len(calls)
<1>1. WizardTyped /\ MadeFits /\ WizardCallsFit /\ CallsTyped /\ Len(server) \in Nat
  BY DEF WizardIInv, WizardCallsFit, MadeFits
<1>2. i \in 1..Len(calls) /\ UNCHANGED <<form, server>>
  BY DEF WizardNextRequest, WizardCalled, Waiting, Refuse, LoseAnswer
<1> DEFINE c == calls[i]
<1>3. WizardCallFits(c, server) /\ Asked(c)
  BY <1>1, <1>2 DEF WizardCallsFit, CallsTyped, UnderWay
<1>4. /\ c.at \in 1..Len(c.asks) /\ Len(c.asks) \in Nat
      /\ {"button", "asks", "at", "rid", "ask", "state"} \subseteq DOMAIN c
  BY <1>2, <1>3 DEF WizardCallFits, Beginning, Asked
<1>5. ASSUME NEW new, calls' = [calls EXCEPT ![i] = new], DOMAIN new = DOMAIN c,
             new.rid = c.rid, WizardCallFits(new, server)
      PROVE  WizardIInv' /\ Len(calls') = Len(calls)
  <2>1. Asked(new)
    BY <1>4, <1>5 DEF Asked
  <2>2. WizardCallFits(new, server')
    BY <1>2, <1>5
  <2>3. /\ Len(server) <= Len(server') /\ Len(server') \in Nat
        /\ \A r \in 1..Len(server) : r # c.rid => server'[r] = server[r]
    BY <1>1, <1>2
  <2>4. WizardCallsFit'
    BY <1>1, <1>2, <1>5, <2>1, <2>2, <2>3, WizardChanged
  <2>5. Len(calls') = Len(calls)
    BY <1>1, <1>5 DEF CallsTyped
  <2> QED BY <1>1, <1>2, <2>4, <2>5 DEF WizardIInv, WizardTyped, MadeFits
<1>6. CASE WizardNextRequest(i)
  <2> DEFINE new == [[c EXCEPT !.at = @ + 1] EXCEPT !.state = "sent"]
  <2>1. /\ c.state = "done" /\ c.at < Len(c.asks)
        /\ calls' = [calls EXCEPT ![i] = [[calls[i] EXCEPT !.at = @ + 1] EXCEPT !.state = "sent"]]
    BY <1>6 DEF WizardNextRequest, WizardCalled, Waiting, SendNext
  <2>2. calls' = [calls EXCEPT ![i] = new]
    BY <2>1
  <2>3. /\ new.state = "sent" /\ new.asks = c.asks /\ new.at = c.at + 1 /\ new.rid = c.rid
        /\ DOMAIN new = DOMAIN c
    BY <1>4
  <2> HIDE DEF new
  <2>4. new.at \in 1..Len(new.asks) /\ new.at # 1 /\ new.at - 1 = c.at
    BY <1>4, <2>1, <2>3
  <2>5. WizardCallFits(new, server)
    BY <1>3, <1>4, <2>1, <2>3, <2>4 DEF WizardCallFits
  <2> QED BY <1>5, <2>2, <2>3, <2>5
<1>7. CASE Refuse(i) \/ LoseAnswer(i)
  <2> DEFINE new == [c EXCEPT !.state = "failed"]
  <2>1. calls' = [calls EXCEPT ![i] = new]
    BY <1>7 DEF Refuse, LoseAnswer, Answer
  <2>2. /\ new.state = "failed" /\ new.asks = c.asks /\ new.at = c.at /\ new.rid = c.rid
        /\ DOMAIN new = DOMAIN c
    BY <1>4
  <2> HIDE DEF new
  <2>3. WizardCallFits(new, server)
    BY <1>3, <1>4, <2>2 DEF WizardCallFits
  <2> QED BY <1>5, <2>1, <2>2, <2>3
<1> QED BY <1>6, <1>7

\* A handler returns.
LEMMA ReturnFits ==
  ASSUME WizardIInv, NEW i, WizardReturn(i)
  PROVE  /\ WizardIInv' /\ i \in 1..Len(calls) /\ Return(i)
         /\ Len(calls) \in Nat /\ Len(calls') = Len(calls) - 1
<1>1. WizardTyped /\ MadeFits /\ WizardCallsFit
  BY DEF WizardIInv
<1>2. i \in 1..Len(calls) /\ Return(i) /\ UNCHANGED server
  BY DEF WizardReturn, WizardEndWhole, WizardEndPartial, WizardFail, WizardCalled, Waiting
<1>3. WizardCallsFit' /\ Len(calls) \in Nat /\ Len(calls') = Len(calls) - 1
  BY <1>1, <1>2, WizardReturned
<1>4. WizardTyped'
  <2>1. CASE \E said : form' = [WizardReset(form) EXCEPT !.creating = FALSE, !.said = said]
    <3>1. PICK said : form' = [WizardReset(form) EXCEPT !.creating = FALSE, !.said = said]
      BY <2>1
    <3>2. form' = [WizardDefault EXCEPT !.creating = FALSE, !.said = said]
      BY <3>1 DEF WizardReset, WizardDefault
    <3> QED BY <3>2, ResetTyped
  <2>2. CASE form' = [WizardReset(form) EXCEPT !.creating = FALSE]
    <3>1. form' = [WizardDefault EXCEPT !.creating = FALSE, !.said = form.said]
      BY <2>2 DEF WizardReset, WizardDefault
    <3> QED BY <3>1, ResetTyped
  <2>3. CASE form' = [form EXCEPT !.creating = FALSE, !.said = "error"]
    <3>1. form'.rows = form.rows /\ form'.kind = form.kind /\ DOMAIN form' = DOMAIN form
      BY <1>1, <2>3 DEF WizardTyped, WizardFields
    <3> QED BY <1>1, <3>1 DEF WizardTyped
  <2>4. CASE WizardEndWhole(i)
    <3> DEFINE said == IF calls[i].button = "create" THEN "success" ELSE form.said
    <3>1. form' = [WizardReset(form) EXCEPT !.creating = FALSE, !.said = said]
      BY <2>4 DEF WizardEndWhole, WizardReset, WizardDefault
    <3> QED BY <2>1, <3>1
  <2> QED BY <2>1, <2>2, <2>3, <2>4 DEF WizardReturn, WizardEndPartial, WizardFail
<1> QED BY <1>1, <1>2, <1>3, <1>4 DEF WizardIInv, MadeFits

\* What a step does to the handlers: none returns unless one of them does.
LEMMA WizardStep ==
  ASSUME WizardIInv, WizardNext \/ \E i \in 1..MaxCalls : Refuse(i) \/ LoseAnswer(i)
  PROVE  /\ WizardIInv' /\ Len(calls) \in Nat
         /\ Len(calls') >= Len(calls) \/ \E i \in 1..MaxCalls : WizardReturn(i)
<1>1. Len(calls) \in Nat
  BY DEF WizardIInv, WizardCallsFit, CallsTyped
<1> DEFINE Edits == \/ WizardOpen \/ WizardNextStep \/ WizardBack \/ WizardSelectDataset
                    \/ WizardEnterMetadata \/ WizardChooseActions \/ WizardMapColumns
                    \/ \E valid \in BOOLEAN : WizardAddRow(valid)
                    \/ \E k \in 1..MaxRows : WizardRemoveRow(k)
                    \/ \E k \in 1..MaxRows, valid \in BOOLEAN : WizardRenameRow(k, valid)
                    \/ \E key \in Keys, k \in 0..MaxRows : WizardChooseKey(key, k)
                    \/ WizardClose
<1>2. CASE Edits
  <2>1. WizardTyped' /\ UNCHANGED <<calls, server>>
    BY <1>2, EditTyped DEF WizardIInv
  <2>2. MadeFits'
    BY <2>1 DEF WizardIInv, MadeFits
  <2>3. WizardCallsFit'
    BY <2>1 DEF WizardIInv, WizardCallsFit, CallsTyped, UnderWay
  <2> QED BY <1>1, <2>1, <2>2, <2>3 DEF WizardIInv
<1>3. CASE WizardCreate \/ WizardCloseCreating
  BY <1>1, <1>3, CreateFits
<1>4. ASSUME NEW i \in 1..MaxCalls, WizardServe(i)
      PROVE  WizardIInv' /\ Len(calls') >= Len(calls)
  BY <1>1, <1>4, ServeFits
<1>5. ASSUME NEW i \in 1..MaxCalls, WizardNextRequest(i) \/ Refuse(i) \/ LoseAnswer(i)
      PROVE  WizardIInv' /\ Len(calls') >= Len(calls)
  BY <1>1, <1>5, GoesOnFits
<1>6. ASSUME NEW i \in 1..MaxCalls, WizardReturn(i)
      PROVE  WizardIInv'
  BY <1>6, ReturnFits
<1>7. \/ Edits \/ WizardCreate \/ WizardCloseCreating
      \/ \E i \in 1..MaxCalls : \/ WizardServe(i) \/ WizardNextRequest(i) \/ Refuse(i) \/ LoseAnswer(i)
                                \/ WizardReturn(i)
  BY DEF WizardNext, WizardReturn
<1> HIDE DEF Edits
<1> QED BY <1>1, <1>2, <1>3, <1>4, <1>5, <1>6, <1>7

\* Nothing happens.
LEMMA WizardStutters == ASSUME WizardIInv, UNCHANGED vars PROVE WizardIInv'
BY DEF vars, WizardIInv, WizardTyped, MadeFits, WizardCallsFit, CallsTyped, UnderWay

\* The inductive invariant, for any number of properties, keys and handlers:
\* handlers that ask for the beginning of a form, one after another, each for an
\* object type of its own.
THEOREM WizardFits == WizardSpec => []WizardIInv
<1>1. WizardInit => WizardIInv
  BY WizardStart
<1>2. WizardIInv /\ [WizardNext \/ \E i \in 1..MaxCalls : Refuse(i) \/ LoseAnswer(i)]_vars => WizardIInv'
  BY WizardStep, WizardStutters
<1> QED BY <1>1, <1>2, PTL DEF WizardSpec

\* Wherever a creation stops, what the server holds is the beginning of a form.
THEOREM CreationsBegin == WizardSpec => []WizardLeavesABeginning
<1>1. WizardIInv => WizardLeavesABeginning
  <2> SUFFICES ASSUME WizardIInv, NEW r \in 1..Len(server), NEW n \in 1..MaxRows * 3 + 1,
                      n <= Len(server[r])
               PROVE  LET made == server[r]
                          Before(m) == {made[j] : j \in 1..m - 1}
                      IN  CASE made[n][1] = "object"   -> n = 1
                            [] made[n][1] = "property" ->
                                 \A k \in 1..made[n][2] - 1 : <<"property", k>> \in Before(n)
                            [] OTHER -> made[n - 1][2] = made[n][2]
    BY DEF WizardLeavesABeginning
  <2>1. Beginning(server[r])
    BY DEF WizardIInv, MadeFits
  <2>2. n \in 1..Len(server[r])
    BY <2>1 DEF Beginning
  <2>3. StandsAt(server[r], n)
    BY <2>1, <2>2 DEF Beginning
  <2>4. CASE server[r][n][1] = "object"
    BY <2>3, <2>4 DEF StandsAt
  <2>5. CASE server[r][n][1] = "property"
    BY <2>3, <2>5 DEF StandsAt
  <2>6. CASE server[r][n][1] \notin {"object", "property"}
    BY <2>3, <2>6 DEF StandsAt
  <2> QED BY <2>4, <2>5, <2>6
<1> QED BY <1>1, WizardFits, PTL

\* Which element has been taken away, up to equals.
LEMMA SameRemoved ==
  ASSUME NEW V, NEW s \in Seq(V), NEW i \in 1..Len(s), NEW j \in 1..Len(s), i <= j,
         RemoveAt(s, i) = RemoveAt(s, j)
  PROVE  s[i] = s[j]
<1>1. Len(s) \in Nat
  OBVIOUS
<1>2. ASSUME NEW k \in i..j - 1
      PROVE  s[k + 1] = s[k]
  <2>1. k \in 1..Len(s) - 1 /\ ~(k < i) /\ k < j
    BY <1>1, <1>2
  <2>2. RemoveAt(s, i)[k] = s[IF k < i THEN k ELSE k + 1]
    BY <2>1, Removed, Zenon
  <2>3. RemoveAt(s, j)[k] = s[IF k < j THEN k ELSE k + 1]
    BY <2>1, Removed, Zenon
  <2> QED BY <2>1, <2>2, <2>3
<1> DEFINE S == {n \in Nat : i + n <= j => s[i + n] = s[i]}
<1>3. 0 \in S
  BY <1>1
<1>4. ASSUME NEW n \in Nat, n \in S
      PROVE  n + 1 \in S
  <2>1. SUFFICES ASSUME i + (n + 1) <= j PROVE s[i + (n + 1)] = s[i]
    OBVIOUS
  <2>2. i + n <= j /\ i + n \in i..j - 1 /\ i + (n + 1) = (i + n) + 1
    BY <1>1, <2>1
  <2>3. s[i + n] = s[i]
    BY <1>4, <2>2
  <2> QED BY <1>2, <2>2, <2>3
<1> HIDE DEF S
<1>5. Nat \subseteq S
  BY <1>3, <1>4, SetInduction
<1>6. j - i \in S /\ i + (j - i) = j
  BY <1>1, <1>5
<1> QED BY <1>1, <1>6 DEF S

\* When a handler returns it announces success only if everything has been
\* created, and what it knows to be half done is reported.
THEOREM WizardTells == WizardSpec => WizardTellsWhatItMade
<1> DEFINE Tells == \A i \in 1..Len(calls) :
       (form.kind = "object type" /\ calls' = RemoveAt(calls, i)) =>
         LET c == calls[i]
             whole == c.rid # 0 /\ server[c.rid] = c.asks
         IN /\ form'.said = "success" /\ form.said # "success" => whole
            /\ c.at > 1 /\ ~whole => form'.said = "partial"
<1>1. ASSUME WizardIInv, WizardNext \/ \E i \in 1..MaxCalls : Refuse(i) \/ LoseAnswer(i)
      PROVE  Tells
  <2> SUFFICES ASSUME NEW i \in 1..Len(calls), calls' = RemoveAt(calls, i)
               PROVE  LET c == calls[i]
                          whole == c.rid # 0 /\ server[c.rid] = c.asks
                      IN /\ form'.said = "success" /\ form.said # "success" => whole
                         /\ c.at > 1 /\ ~whole => form'.said = "partial"
    OBVIOUS
  <2>1. PICK V : calls \in Seq(V)
    BY <1>1 DEF WizardIInv, WizardCallsFit, CallsTyped
  <2>2. Len(calls) \in Nat /\ Len(calls') = Len(calls) - 1
    BY <2>1, Removed
  <2>3. PICK j \in 1..MaxCalls : WizardReturn(j)
    BY <1>1, <2>2, WizardStep
  <2>4. j \in 1..Len(calls) /\ calls' = RemoveAt(calls, j)
    BY <1>1, <2>3, ReturnFits DEF Return
  <2>5. calls[i] = calls[j]
    <3>1. i <= j \/ j <= i
      BY <2>2, <2>4
    <3> QED BY <2>1, <2>4, <3>1, SameRemoved
  <2> DEFINE c == calls[j]
             whole == c.rid # 0 /\ server[c.rid] = c.asks
  <2>6. WizardCallFits(c, server) /\ WizardTyped
    BY <1>1, <2>4 DEF WizardIInv, WizardCallsFit
  <2>7. CASE WizardEndWhole(j)
    <3>1. c.state = "done" /\ c.at = Len(c.asks)
      BY <2>7 DEF WizardEndWhole, WizardCalled, Waiting
    <3>2. c.asks \in Seq(WizardAsks)
      BY <2>6 DEF WizardCallFits, Beginning
    <3>3. SubSeq(c.asks, 1, Len(c.asks)) = c.asks
      BY <3>2
    <3>4. whole
      BY <2>6, <3>1, <3>3 DEF WizardCallFits
    <3> QED BY <2>5, <3>4
  <2>8. CASE WizardEndPartial(j)
    <3>1. form'.said = "partial"
      BY <2>8 DEF WizardEndPartial, WizardReset, WizardDefault
    <3> QED BY <3>1
  <2>9. CASE WizardFail(j)
    <3>1. c.at = 1
      BY <2>9 DEF WizardFail
    <3>2. form'.said = form.said \/ form'.said = "error"
      BY <2>6, <2>9 DEF WizardFail, WizardReset, WizardDefault, WizardTyped, WizardFields
    <3> QED BY <2>5, <3>1, <3>2
  <2> QED BY <2>3, <2>7, <2>8, <2>9 DEF WizardReturn
<1>2. ASSUME WizardIInv, UNCHANGED vars
      PROVE  Tells \/ UNCHANGED vars
  BY <1>2
<1>3. WizardIInv /\ [WizardNext \/ \E i \in 1..MaxCalls : Refuse(i) \/ LoseAnswer(i)]_vars => [Tells]_vars
  BY <1>1
<1> HIDE DEF Tells
<1>4. WizardSpec => [][Tells]_vars
  BY <1>3, WizardFits, PTL DEF WizardSpec
<1> QED BY <1>4 DEF Tells, WizardTellsWhatItMade
===============================================================================
