--------------------------- MODULE SequenceFacts ---------------------------
(* The range of a sequence that is used as a queue or as a channel: what      *)
(* Append, Head, Tail and SubSeq do to it.                                    *)
EXTENDS SequencesExt, Integers, TLAPS

(* Appending adds one element to the range.                                   *)
LEMMA ToSetAppend ==
    ASSUME NEW S, NEW s \in Seq(S), NEW e \in S
    PROVE  ToSet(Append(s, e)) = ToSet(s) \cup {e}
<1>1. /\ DOMAIN Append(s, e) = 1..(Len(s) + 1)
      /\ DOMAIN s = 1..Len(s)
      /\ \A i \in 1..Len(s) : Append(s, e)[i] = s[i]
      /\ Append(s, e)[Len(s) + 1] = e
  OBVIOUS
<1>2. 1..(Len(s) + 1) = (1..Len(s)) \cup {Len(s) + 1}
  OBVIOUS
<1> QED BY <1>1, <1>2 DEF ToSet

(* Taking the front leaves at least the other elements.                       *)
LEMMA ToSetHeadTail ==
    ASSUME NEW S, NEW s \in Seq(S), s # <<>>
    PROVE  /\ ToSet(s) = {Head(s)} \cup ToSet(Tail(s))
           /\ Head(s) \in S
           /\ Tail(s) \in Seq(S)
           /\ Len(Tail(s)) = Len(s) - 1
<1>1. /\ Len(s) \in Nat \ {0}
      /\ DOMAIN s = 1..Len(s)
      /\ DOMAIN Tail(s) = 1..(Len(s) - 1)
      /\ Head(s) = s[1]
      /\ \A i \in 1..(Len(s) - 1) : Tail(s)[i] = s[i + 1]
  OBVIOUS
<1>2. ASSUME NEW x \in ToSet(s), x # s[1]
      PROVE  x \in ToSet(Tail(s))
  <2>1. PICK i \in 1..Len(s) : x = s[i]
    BY <1>1, <1>2 DEF ToSet
  <2>2. i - 1 \in 1..(Len(s) - 1) /\ Tail(s)[i - 1] = x
    BY <1>1, <1>2, <2>1
  <2> QED BY <1>1, <2>2 DEF ToSet
<1>3. ASSUME NEW x \in ToSet(Tail(s))
      PROVE  x \in ToSet(s)
  <2>1. PICK i \in 1..(Len(s) - 1) : x = Tail(s)[i]
    BY <1>1, <1>3 DEF ToSet
  <2>2. i + 1 \in 1..Len(s) /\ s[i + 1] = x
    BY <1>1, <2>1
  <2> QED BY <1>1, <2>2 DEF ToSet
<1>4. s[1] \in ToSet(s)
  BY <1>1 DEF ToSet
<1>5. ToSet(s) = {Head(s)} \cup ToSet(Tail(s))
  BY <1>1, <1>2, <1>3, <1>4
<1>6. Head(s) \in S /\ Tail(s) \in Seq(S) /\ Len(Tail(s)) = Len(s) - 1
  OBVIOUS
<1> QED BY <1>5, <1>6

LEMMA ToSetEmpty == ToSet(<<>>) = {}
  BY DEF ToSet

(* A prefix has no element of its own.                                        *)
LEMMA ToSetPrefix ==
    ASSUME NEW S, NEW s \in Seq(S), NEW i \in 0..Len(s)
    PROVE  /\ SubSeq(s, 1, i) \in Seq(S)
           /\ ToSet(SubSeq(s, 1, i)) \subseteq ToSet(s)
<1>1. /\ Len(s) \in Nat
      /\ DOMAIN s = 1..Len(s)
      /\ SubSeq(s, 1, i) \in Seq(S)
      /\ DOMAIN SubSeq(s, 1, i) = 1..i
      /\ \A k \in 1..i : SubSeq(s, 1, i)[k] = s[k]
  OBVIOUS
<1>2. ASSUME NEW x \in ToSet(SubSeq(s, 1, i))
      PROVE  x \in ToSet(s)
  <2>1. PICK k \in 1..i : x = SubSeq(s, 1, i)[k]
    BY <1>1, <1>2 DEF ToSet
  <2>2. k \in 1..Len(s) /\ x = s[k]
    BY <1>1, <2>1
  <2> QED BY <1>1, <2>2 DEF ToSet
<1> QED BY <1>1, <1>2

(* The elements of a sequence over a set are members of that set.             *)
LEMMA ToSetOfSeq ==
    ASSUME NEW S, NEW s \in Seq(S)
    PROVE  ToSet(s) \subseteq S
  BY DEF ToSet

(* Appending what is not there yet repeats nothing.                           *)
LEMMA AppendDistinct ==
    ASSUME NEW S, NEW s \in Seq(S), NEW e \in S, NEW t, t = Append(s, e), e \notin ToSet(s),
           \A i, k \in DOMAIN s : s[i] = s[k] => i = k
    PROVE  \A i, k \in DOMAIN t : t[i] = t[k] => i = k
<1>1. /\ DOMAIN t = 1..(Len(s) + 1) /\ DOMAIN s = 1..Len(s) /\ Len(s) \in Nat
      /\ \A i \in 1..Len(s) : t[i] = s[i]
      /\ t[Len(s) + 1] = e
  OBVIOUS
<1>2. \A i \in 1..Len(s) : s[i] # e
  BY <1>1 DEF ToSet
<1>3. \A i \in DOMAIN t : i \in 1..Len(s) \/ i = Len(s) + 1
  BY <1>1
<1> QED BY <1>1, <1>2, <1>3
=============================================================================
