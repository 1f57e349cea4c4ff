--------------------------- MODULE Screen_proofs ---------------------------
(***************************************************************************)
(* What the actions of Screen do to the handlers under way, for the proofs *)
(* about dialogs and pages.                                                *)
(***************************************************************************)
EXTENDS Screen, SequenceTheorems, TLAPS

\* The handlers under way: what holds of each of them does not depend on their
\* order.
UnderWay == {calls[k] : k \in 1..Len(calls)}

\* Each has been asked for something and is in some state.
Asked(call) == {"ask", "state"} \subseteq DOMAIN call

CallsTyped == (\E V : calls \in Seq(V)) /\ \A call \in UnderWay : Asked(call)

\* A sequence without its i-th element.
LEMMA Removed ==
  ASSUME NEW V, NEW s \in Seq(V), NEW i \in 1..Len(s)
  PROVE  /\ RemoveAt(s, i) \in Seq(V) /\ Len(RemoveAt(s, i)) = Len(s) - 1
         /\ \A k \in 1..Len(s) - 1 : RemoveAt(s, i)[k] = s[IF k < i THEN k ELSE k + 1]
<1>1. Len(s) \in Nat
  OBVIOUS
<1> DEFINE front == SubSeq(s, 1, i - 1)
           back == SubSeq(s, i + 1, Len(s))
<1>2. RemoveAt(s, i) = front \o back
  BY DEF RemoveAt
<1>3. /\ front \in Seq(V) /\ Len(front) = i - 1
      /\ \A k \in 1..i - 1 : front[k] = s[k]
  BY <1>1
<1>4. /\ back \in Seq(V) /\ Len(back) = Len(s) - i
      /\ \A k \in 1..Len(s) - i : back[k] = s[k + i]
  BY <1>1
<1> HIDE DEF front, back
<1>5. RemoveAt(s, i) \in Seq(V) /\ Len(RemoveAt(s, i)) = Len(s) - 1
  BY <1>1, <1>2, <1>3, <1>4
<1>6. ASSUME NEW k \in 1..Len(s) - 1, k < i
      PROVE  RemoveAt(s, i)[k] = s[k]
  BY <1>1, <1>2, <1>3, <1>4, <1>6
<1>7. ASSUME NEW k \in 1..Len(s) - 1, ~(k < i)
      PROVE  RemoveAt(s, i)[k] = s[k + 1]
  <2>1. k - (i - 1) \in 1..Len(s) - i
    BY <1>1, <1>7
  <2>2. RemoveAt(s, i)[k] = back[k - (i - 1)]
    BY <1>1, <1>2, <1>3, <1>4, <1>7
  <2>3. back[k - (i - 1)] = s[k - (i - 1) + i]
    BY <1>4, <2>1
  <2>4. k - (i - 1) + i = k + 1
    BY <1>1
  <2> QED BY <2>2, <2>3, <2>4
<1> QED BY <1>5, <1>6, <1>7

\* A handler is started: one more is under way.
LEMMA Started ==
  ASSUME CallsTyped, NEW call, Start(call), {"ask"} \subseteq DOMAIN call
  PROVE  /\ CallsTyped'
         /\ UnderWay' = UnderWay \cup {With(call, "state", "sent")}
         /\ calls' = Append(calls, With(call, "state", "sent"))
<1> DEFINE new == With(call, "state", "sent")
<1>1. PICK V : calls \in Seq(V)
  BY DEF CallsTyped
<1>2. calls' = Append(calls, new)
  BY DEF Start
<1>3. Asked(new)
  <2>1. DOMAIN new = DOMAIN call \cup {"state"}
    BY DEF With
  <2> QED BY <2>1 DEF Asked
<1> HIDE DEF new
<1>4. calls' \in Seq(V \cup {new})
  BY <1>1, <1>2
<1>5. /\ Len(calls) \in Nat /\ Len(calls') = Len(calls) + 1
      /\ calls'[Len(calls) + 1] = new
      /\ \A k \in 1..Len(calls) : calls'[k] = calls[k]
  BY <1>1, <1>2
<1>6. UnderWay' = UnderWay \cup {new}
  <2>1. 1..Len(calls') = (1..Len(calls)) \cup {Len(calls) + 1}
    BY <1>5
  <2> QED BY <1>5, <2>1 DEF UnderWay
<1> QED BY <1>2, <1>3, <1>4, <1>6 DEF CallsTyped, new

\* A handler changes: it takes the place of what it was.
LEMMA Changed ==
  ASSUME CallsTyped, NEW i \in 1..Len(calls), NEW call, Asked(call),
         calls' = [calls EXCEPT ![i] = call]
  PROVE  /\ CallsTyped'
         /\ UnderWay' \subseteq UnderWay \cup {call}
         /\ call \in UnderWay' /\ UnderWay \subseteq UnderWay' \cup {calls[i]}
         /\ Len(calls') = Len(calls) /\ calls'[i] = call
         /\ \A k \in 1..Len(calls) : k # i => calls'[k] = calls[k]
<1>1. PICK V : calls \in Seq(V)
  BY DEF CallsTyped
<1>2. calls' \in Seq(V \cup {call}) /\ Len(calls') = Len(calls)
  BY <1>1
<1>3. calls'[i] = call /\ \A k \in 1..Len(calls) : k # i => calls'[k] = calls[k]
  BY <1>1
<1>4. /\ UnderWay' \subseteq UnderWay \cup {call}
      /\ call \in UnderWay' /\ UnderWay \subseteq UnderWay' \cup {calls[i]}
  BY <1>2, <1>3 DEF UnderWay
<1>5. CallsTyped'
  BY <1>2, <1>4 DEF CallsTyped
<1> QED BY <1>2, <1>3, <1>4, <1>5

\* A handler returns: the others stay.
LEMMA Returned ==
  ASSUME CallsTyped, NEW i \in 1..Len(calls), Return(i)
  PROVE  /\ CallsTyped' /\ UnderWay' \subseteq UnderWay
         /\ UnderWay \subseteq UnderWay' \cup {calls[i]}
         /\ Len(calls') = Len(calls) - 1
         /\ \A k \in 1..Len(calls') : calls'[k] = calls[IF k < i THEN k ELSE k + 1]
<1>1. PICK V : calls \in Seq(V)
  BY DEF CallsTyped
<1>2. /\ Len(calls) \in Nat /\ calls' \in Seq(V) /\ Len(calls') = Len(calls) - 1
      /\ \A k \in 1..Len(calls') : calls'[k] = calls[IF k < i THEN k ELSE k + 1]
  <2>1. /\ RemoveAt(calls, i) \in Seq(V) /\ Len(RemoveAt(calls, i)) = Len(calls) - 1
        /\ \A k \in 1..Len(calls) - 1 :
             RemoveAt(calls, i)[k] = calls[IF k < i THEN k ELSE k + 1]
    BY <1>1, Removed, Zenon
  <2>2. Len(calls) \in Nat
    BY <1>1
  <2> QED BY <2>1, <2>2 DEF Return
<1>3. UnderWay' \subseteq UnderWay
  <2>1. \A k \in 1..Len(calls') : (IF k < i THEN k ELSE k + 1) \in 1..Len(calls)
    BY <1>2
  <2> QED BY <1>2, <2>1 DEF UnderWay
<1>4. ASSUME NEW j \in 1..Len(calls), j # i
      PROVE  calls[j] \in UnderWay'
  <2> DEFINE k == IF j < i THEN j ELSE j - 1
  <2>1. k \in 1..Len(calls') /\ (IF k < i THEN k ELSE k + 1) = j
    BY <1>2, <1>4
  <2> HIDE DEF k
  <2>2. calls'[k] = calls[j]
    BY <1>2, <2>1
  <2> QED BY <2>1, <2>2 DEF UnderWay
<1>5. UnderWay \subseteq UnderWay' \cup {calls[i]}
  BY <1>4 DEF UnderWay
<1> QED BY <1>2, <1>3, <1>5 DEF CallsTyped

\* All handlers under way change at once.
LEMMA AllChanged ==
  ASSUME CallsTyped, NEW Op, Op = [call \in UnderWay |-> Op[call]],
         \A call \in UnderWay : Asked(Op[call]),
         calls' = [i \in 1..Len(calls) |-> Op[calls[i]]]
  PROVE  /\ CallsTyped'
         /\ UnderWay' = {Op[call] : call \in UnderWay}
<1>1. Len(calls) \in Nat /\ \A i \in 1..Len(calls) : calls[i] \in UnderWay
  BY DEF CallsTyped, UnderWay
<1>2. calls' \in Seq({Op[call] : call \in UnderWay}) /\ Len(calls') = Len(calls)
  <2>1. \A i \in 1..Len(calls) : Op[calls[i]] \in {Op[call] : call \in UnderWay}
    BY <1>1
  <2> DEFINE V == {Op[call] : call \in UnderWay}
  <2>2. calls' \in [1..Len(calls) -> V]
    BY <2>1
  <2> HIDE DEF V
  <2> QED BY <1>1, <2>2
<1>3. UnderWay' = {Op[call] : call \in UnderWay}
  BY <1>2 DEF UnderWay
<1> QED BY <1>2, <1>3 DEF CallsTyped
=============================================================================
