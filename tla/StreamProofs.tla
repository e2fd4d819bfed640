---------------------------- MODULE StreamProofs ----------------------------
(* Proofs about Stream: its types, that ReadPacket stays in step with the     *)
(* writers as long as no frames are mixed up, and that a connection           *)
(* implements PacketChannel.                                                  *)
EXTENDS Stream, SequenceTheorems, TLAPS

Byte(n, k) == [no |-> n, at |-> k]

FrameOf(i) == FrameLen(begun[log[i].no])

LastByte == log[Len(log)]

(* What a frame's rest without a beginning cannot be: a first byte.           *)
StrayLate == \A i \in 1..Len(log) : log[i].no = 0 => log[i].at > 1

TypeInv == TypeOK /\ StrayLate

(* The log is one complete frame after the other, the last one perhaps not    *)
(* complete yet.                                                              *)
Follows(i) == log[i + 1] = IF log[i].at < FrameOf(i) THEN Byte(log[i].no, log[i].at + 1)
                                                     ELSE Byte(log[i].no + 1, 1)
Frames ==
    /\ \A i \in 1..Len(log) : log[i].no >= 1 /\ log[i].at >= 1 /\ log[i].at <= FrameOf(i)
    /\ Len(log) > 0 => log[1] = Byte(1, 1)
    /\ \A i \in 1..(Len(log) - 1) : Follows(i)
    /\ Len(log) = 0 => Len(begun) = 0
    /\ Len(log) > 0 => LastByte.no = Len(begun)

(* A writer in the middle of a frame wrote the last byte, and without one the *)
(* last byte completes its frame.                                             *)
Ends ==
    open => /\ \A w \in Writer : Midway(w) => /\ Len(log) > 0
                                              /\ frame[w] = Len(begun)
                                              /\ off[w] = LastByte.at
                                              /\ Head(todo[w]) = begun[Len(begun)]
            /\ (\A w \in Writer : ~Midway(w)) /\ Len(log) > 0 => LastByte.at = FrameOf(Len(log))

(* ReadPacket has returned the first frames and is in the next one.           *)
InStep ==
    /\ Len(got) <= Len(begun) /\ \A i \in 1..Len(got) : got[i] = begun[i]
    /\ rd = 0 => have = 0 /\ Len(got) = 0
    /\ \A k \in 1..have : log[rd - have + k] = Byte(Len(got) + 1, k)
    /\ have = 0 /\ rd > 0 => Len(got) > 0 /\ log[rd] = Byte(Len(got), FrameLen(begun[Len(got)]))
    /\ open /\ have >= Header => total = TotalLen(begun[Len(got) + 1]) /\ have < End
    /\ ~open => Len(got) < Len(begun) /\ begun[Len(got) + 1] \in Oversize

StreamInv == ~mixed => Frames /\ Ends /\ InStep

-----------------------------------------------------------------------------
(* Concatenation, with the second sequence counted from its own beginning.    *)
LEMMA Longer ==
    ASSUME NEW S, NEW s \in Seq(S), NEW f \in Seq(S)
    PROVE  /\ s \o f \in Seq(S)
           /\ Len(s \o f) = Len(s) + Len(f)
           /\ \A i \in 1..Len(s) : (s \o f)[i] = s[i]
           /\ \A i \in (Len(s) + 1)..(Len(s) + Len(f)) : (s \o f)[i] = f[i - Len(s)]
<1>1. Len(s) \in Nat /\ Len(f) \in Nat
  BY LenProperties
<1>2. /\ s \o f \in Seq(S)
      /\ Len(s \o f) = Len(s) + Len(f)
      /\ \A i \in 1..(Len(s) + Len(f)) : (s \o f)[i] = IF i <= Len(s) THEN s[i] ELSE f[i - Len(s)]
  BY ConcatProperties
<1>3. \A i \in 1..Len(s) : (s \o f)[i] = s[i]
  BY <1>1, <1>2
<1>4. ASSUME NEW i \in (Len(s) + 1)..(Len(s) + Len(f))
      PROVE  (s \o f)[i] = f[i - Len(s)]
  <2>1. i \in 1..(Len(s) + Len(f)) /\ ~(i <= Len(s))
    BY <1>1
  <2> QED BY <1>2, <2>1
<1> QED BY <1>2, <1>3, <1>4

(* A sequence over a set is one over a larger set.                            *)
LEMMA LogGrows ==
    ASSUME NEW b \in Nat, NEW s \in Seq([no : 0..b, at : Nat])
    PROVE  s \in Seq([no : 0..(b + 1), at : Nat])
<1>1. [no : 0..b, at : Nat] \subseteq [no : 0..(b + 1), at : Nat]
  OBVIOUS
<1> QED BY <1>1, SeqMonotonic

-----------------------------------------------------------------------------
(* What Send(w) writes: bytes of which frame, and how many.                   *)
Num(w) == IF Midway(w) THEN frame[w] ELSE Len(begun) + 1
Piece(w) == Least(FrameLen(Head(todo[w])) - off[w], Capacity - (Len(log) - rd))

LEMMA SendFacts ==
    ASSUME TypeOK, NEW w \in Writer, Send(w)
    PROVE  /\ Head(todo[w]) \in Packet /\ Tail(todo[w]) \in Seq(Packet)
           /\ off[w] \in Nat /\ FrameLen(Head(todo[w])) \in Nat
           /\ Piece(w) \in Nat \ {0} /\ Piece(w) <= FrameLen(Head(todo[w])) - off[w]
           /\ begun' \in Seq(Packet) /\ Len(begun) \in Nat /\ Len(begun') \in Nat
           /\ Num(w) \in 0..Len(begun')
           /\ Midway(w) => begun' = begun
           /\ ~Midway(w) => Len(begun') = Len(begun) + 1 /\ begun'[Len(begun) + 1] = Head(todo[w])
           /\ \A i \in 1..Len(begun) : begun'[i] = begun[i]
           /\ log' \in Seq([no : 0..Len(begun'), at : Nat])
           /\ Len(log) \in Nat
           /\ Len(log') = Len(log) + Piece(w)
           /\ \A i \in 1..Len(log) : log'[i] = log[i]
           /\ \A i \in (Len(log) + 1)..(Len(log) + Piece(w)) :
                 log'[i] = Byte(Num(w), off[w] + (i - Len(log)))
<1> DEFINE p == Head(todo[w])
<1>1. /\ todo[w] \in Seq(Packet) /\ todo[w] # <<>>
      /\ off[w] \in Nat /\ frame[w] \in 0..Len(begun)
      /\ begun \in Seq(Packet) /\ log \in Seq([no : 0..Len(begun), at : Nat])
      /\ rd \in 0..Len(log)
      /\ off[w] > 0 => off[w] < FrameLen(p)
  BY DEF TypeOK, Send, Midway
<1>2. p \in Packet /\ Tail(todo[w]) \in Seq(Packet)
  BY <1>1
<1>3. FrameLen(p) \in Nat \ {0}
  BY <1>2, StreamAssumption DEF FrameLen
<1>4. Len(begun) \in Nat /\ Len(log) \in Nat
  BY <1>1, LenProperties
<1>5. Piece(w) \in Nat \ {0} /\ Piece(w) <= FrameLen(p) - off[w]
  <2>1. Piece(w) > 0
    BY DEF Send, Piece
  <2>2. FrameLen(p) - off[w] \in Int /\ Capacity - (Len(log) - rd) \in Int
    BY <1>1, <1>3, <1>4, StreamAssumption
  <2> QED BY <2>1, <2>2 DEF Piece, Least
<1>6. log' = log \o [i \in 1..Piece(w) |-> [no |-> Num(w), at |-> off[w] + i]]
  BY DEF Send, Piece, Num
<1>7. begun' = IF Midway(w) THEN begun ELSE Append(begun, p)
  BY DEF Send
<1>8. /\ begun' \in Seq(Packet) /\ Len(begun') \in Nat
      /\ Midway(w) => begun' = begun
      /\ ~Midway(w) => Len(begun') = Len(begun) + 1 /\ begun'[Len(begun) + 1] = p
      /\ \A i \in 1..Len(begun) : begun'[i] = begun[i]
  BY <1>1, <1>2, <1>4, <1>7, AppendProperties
<1>9. Num(w) \in 0..Len(begun')
  BY <1>1, <1>4, <1>8 DEF Num
<1>10. log \in Seq([no : 0..Len(begun'), at : Nat])
  <2>1. CASE Midway(w)
    BY <1>1, <1>8, <2>1
  <2>2. CASE ~Midway(w)
    <3>1. log \in Seq([no : 0..(Len(begun) + 1), at : Nat])
      BY <1>1, <1>4, LogGrows
    <3> QED BY <1>8, <2>2, <3>1
  <2> QED BY <2>1, <2>2
<1>11. /\ log' \in Seq([no : 0..Len(begun'), at : Nat])
       /\ Len(log') = Len(log) + Piece(w)
       /\ \A i \in 1..Len(log) : log'[i] = log[i]
       /\ \A i \in (Len(log) + 1)..(Len(log) + Piece(w)) :
             log'[i] = Byte(Num(w), off[w] + (i - Len(log)))
  <2> DEFINE S == [no : 0..Len(begun'), at : Nat]
  <2>1. PICK f \in Seq(S) :
             /\ Len(f) = Piece(w) /\ log' = log \o f
             /\ \A i \in 1..Piece(w) : f[i] = Byte(Num(w), off[w] + i)
    <3> DEFINE g == [i \in 1..Piece(w) |-> [no |-> Num(w), at |-> off[w] + i]]
    <3>1. g \in Seq(S) /\ Len(g) = Piece(w)
      <4>1. g \in [1..Piece(w) -> S]
        BY <1>1, <1>5, <1>9
      <4> HIDE DEF g, S
      <4> QED BY <1>5, <4>1
    <3>2. \A i \in 1..Piece(w) : g[i] = Byte(Num(w), off[w] + i)
      BY DEF Byte
    <3>3. log' = log \o g
      BY <1>6
    <3> HIDE DEF g, S
    <3> QED BY <3>1, <3>2, <3>3
  <2>2. \A i \in 1..Piece(w) : f[i] = Byte(Num(w), off[w] + i)
    BY <2>1
  <2>3. log' = log \o f /\ log \in Seq(S) /\ Len(f) = Piece(w)
    BY <1>10, <2>1
  <2> HIDE DEF S
  <2>4. /\ log' \in Seq(S)
        /\ Len(log') = Len(log) + Piece(w)
        /\ \A i \in 1..Len(log) : log'[i] = log[i]
        /\ \A i \in (Len(log) + 1)..(Len(log) + Piece(w)) : log'[i] = f[i - Len(log)]
    <3>1. f \in Seq(S) /\ log \in Seq(S)
      BY <2>1, <2>3
    <3>2. /\ log \o f \in Seq(S)
          /\ Len(log \o f) = Len(log) + Len(f)
          /\ \A i \in 1..Len(log) : (log \o f)[i] = log[i]
          /\ \A i \in (Len(log) + 1)..(Len(log) + Len(f)) : (log \o f)[i] = f[i - Len(log)]
      BY <3>1, Longer, Zenon
    <3>3. log' = log \o f /\ Len(f) = Piece(w)
      BY <2>3
    <3> QED BY <3>2, <3>3, Zenon
  <2>5. ASSUME NEW i \in (Len(log) + 1)..(Len(log) + Piece(w))
        PROVE  log'[i] = Byte(Num(w), off[w] + (i - Len(log)))
    <3>1. i - Len(log) \in 1..Piece(w)
      BY <1>4, <1>5
    <3> QED BY <2>2, <2>4, <3>1
  <2> QED BY <2>4, <2>5 DEF S
<1> QED BY <1>1, <1>2, <1>3, <1>4, <1>5, <1>8, <1>9, <1>11

(* Types hold in the beginning, and a stray rest of a frame is not there yet. *)
LEMMA TypeInit == Init => TypeInv
<1> SUFFICES ASSUME Init PROVE TypeInv
  OBVIOUS
<1>1. log = <<>> /\ begun = <<>> /\ Len(log) = 0 /\ Len(begun) = 0
  BY DEF Init
<1>2. todo \in [Writer -> Seq(Packet)]
  BY StreamAssumption DEF Init
<1>3. /\ frame \in [Writer -> 0..Len(begun)] /\ off \in [Writer -> Nat]
      /\ \A w \in Writer : ~(off[w] > 0)
      /\ log \in Seq([no : 0..Len(begun), at : Nat])
      /\ rd \in 0..Len(log) /\ have \in 0..rd
  BY <1>1 DEF Init
<1>4. TypeOK
  <2>1. /\ total = 0 /\ open = TRUE /\ mixed = FALSE /\ mode \in Modes
        /\ renewals = MaxRenewals /\ got = <<>>
    BY DEF Init
  <2>2. MaxLen \in Nat /\ MaxRenewals \in Nat
    BY StreamAssumption
  <2>3. /\ begun \in Seq(Packet) /\ got \in Seq(Packet \cup {Garbage})
        /\ total \in Nat /\ (open => total <= MaxLen)
        /\ open \in BOOLEAN /\ mixed \in BOOLEAN
        /\ renewals \in 0..MaxRenewals
    <3>1. begun \in Seq(Packet) /\ got \in Seq(Packet \cup {Garbage})
      BY <1>1, <2>1
    <3>2. total \in Nat /\ (open => total <= MaxLen) /\ renewals \in 0..MaxRenewals
      BY <2>1, <2>2
    <3>3. open \in BOOLEAN /\ mixed \in BOOLEAN
      BY <2>1
    <3> QED BY <3>1, <3>2, <3>3
  <2> QED BY <1>2, <1>3, <2>1, <2>3 DEF TypeOK, Midway
<1> QED BY <1>1, <1>4 DEF TypeInv, StrayLate

LEMMA SendTypes ==
    ASSUME TypeInv, NEW w \in Writer, Send(w)
    PROVE  TypeInv'
<1> USE DEF TypeInv
<1> DEFINE p == Head(todo[w])
<1>1. /\ p \in Packet /\ Tail(todo[w]) \in Seq(Packet)
      /\ off[w] \in Nat /\ FrameLen(p) \in Nat
      /\ Piece(w) \in Nat \ {0} /\ Piece(w) <= FrameLen(p) - off[w]
      /\ begun' \in Seq(Packet) /\ Len(begun) \in Nat /\ Len(begun') \in Nat
      /\ Len(begun) <= Len(begun')
      /\ Num(w) \in 0..Len(begun')
      /\ log' \in Seq([no : 0..Len(begun'), at : Nat])
      /\ Len(log) \in Nat
      /\ Len(log') = Len(log) + Piece(w)
      /\ \A i \in 1..Len(log) : log'[i] = log[i]
      /\ \A i \in (Len(log) + 1)..(Len(log) + Piece(w)) :
            log'[i] = Byte(Num(w), off[w] + (i - Len(log)))
  <2>1. /\ Len(begun') = Len(begun) \/ Len(begun') = Len(begun) + 1
        /\ Len(begun) \in Nat
    BY SendFacts
  <2>2. Len(begun) <= Len(begun')
    BY <2>1
  <2> QED BY <2>2, SendFacts, Zenon
<1>2. \/ /\ Piece(w) = FrameLen(p) - off[w]
         /\ todo' = [todo EXCEPT ![w] = Tail(@)]
         /\ off' = [off EXCEPT ![w] = 0]
         /\ frame' = [frame EXCEPT ![w] = 0]
      \/ /\ Piece(w) # FrameLen(p) - off[w]
         /\ todo' = todo
         /\ off' = [off EXCEPT ![w] = @ + Piece(w)]
         /\ frame' = [frame EXCEPT ![w] = Num(w)]
  BY DEF Send, Piece, Num
<1>3. /\ todo \in [Writer -> Seq(Packet)] /\ off \in [Writer -> Nat]
      /\ frame \in [Writer -> 0..Len(begun)]
      /\ \A v \in Writer : off[v] > 0 => todo[v] # <<>> /\ off[v] < FrameLen(Head(todo[v]))
      /\ todo[w] # <<>>
  BY DEF TypeOK, Send, Midway
<1>4. todo' \in [Writer -> Seq(Packet)] /\ off' \in [Writer -> Nat]
  <2>1. Tail(todo[w]) \in Seq(Packet) /\ off[w] + Piece(w) \in Nat
    BY <1>1
  <2>2. todo' = todo \/ todo' = [todo EXCEPT ![w] = Tail(todo[w])]
    BY <1>2
  <2>3. off' = [off EXCEPT ![w] = 0] \/ off' = [off EXCEPT ![w] = off[w] + Piece(w)]
    BY <1>2
  <2>4. todo' \in [Writer -> Seq(Packet)]
    BY <1>3, <2>1, <2>2
  <2>5. off' \in [Writer -> Nat]
    <3> DEFINE sum == off[w] + Piece(w)
    <3>1. sum \in Nat /\ 0 \in Nat /\ off \in [Writer -> Nat]
      BY <1>3, <2>1
    <3>2. off' = [off EXCEPT ![w] = 0] \/ off' = [off EXCEPT ![w] = sum]
      BY <2>3
    <3> HIDE DEF sum
    <3> QED BY <3>1, <3>2
  <2> QED BY <2>4, <2>5
<1>5. frame' \in [Writer -> 0..Len(begun')]
  <2>1. Num(w) \in 0..Len(begun') /\ 0 \in 0..Len(begun')
    BY <1>1
  <2>2. frame \in [Writer -> 0..Len(begun')]
    <3>1. \A i \in 0..Len(begun) : i \in 0..Len(begun')
      BY <1>1
    <3> QED BY <1>3, <3>1
  <2> QED BY <1>2, <2>1, <2>2
<1>6. ASSUME NEW v \in Writer, off'[v] > 0
      PROVE  todo'[v] # <<>> /\ off'[v] < FrameLen(Head(todo'[v]))
  <2>1. CASE v = w
    <3>1. off'[w] > 0
      BY <1>6, <2>1
    <3>2. todo' = todo /\ off'[w] = off[w] + Piece(w) /\ Piece(w) # FrameLen(p) - off[w]
      BY <1>2, <1>3, <3>1
    <3>3. off[w] + Piece(w) < FrameLen(p)
      <4>1. /\ off[w] \in Nat /\ FrameLen(p) \in Nat /\ Piece(w) \in Nat
            /\ Piece(w) <= FrameLen(p) - off[w] /\ Piece(w) # FrameLen(p) - off[w]
        BY <1>1, <3>2
      <4> HIDE DEF p
      <4> QED BY <4>1
    <3> QED BY <1>3, <2>1, <3>2, <3>3
  <2>2. CASE v # w
    BY <1>2, <1>3, <1>6, <2>2
  <2> QED BY <2>1, <2>2
<1>7. /\ mode' \in Modes /\ rd' \in 0..Len(log') /\ have' \in 0..rd' /\ total' \in Nat
      /\ (open' => total' <= MaxLen) /\ got' \in Seq(Packet \cup {Garbage})
      /\ open' \in BOOLEAN /\ mixed' \in BOOLEAN /\ renewals' \in 0..MaxRenewals
  <2>1. /\ mode \in Modes /\ rd \in 0..Len(log) /\ have \in 0..rd /\ total \in Nat
        /\ (open => total <= MaxLen) /\ got \in Seq(Packet \cup {Garbage})
        /\ open \in BOOLEAN /\ mixed \in BOOLEAN /\ renewals \in 0..MaxRenewals
    BY DEF TypeOK
  <2>2. /\ mode' = mode /\ rd' = rd /\ have' = have /\ total' = total /\ got' = got
        /\ open' = open /\ renewals' = renewals
        /\ mixed' = (mixed \/ \E v \in Writer \ {w} : Midway(v))
    BY DEF Send, readVars
  <2>3. mixed' \in BOOLEAN
    BY <2>1, <2>2
  <2> QED BY <1>1, <2>1, <2>2, <2>3
<1>8. StrayLate'
  <2>1. SUFFICES ASSUME NEW i \in 1..Len(log'), log'[i].no = 0
                 PROVE  log'[i].at > 1
    BY DEF StrayLate
  <2>2. CASE i <= Len(log)
    <3>1. i \in 1..Len(log)
      <4>1. Len(log) \in Nat /\ Piece(w) \in Nat /\ i \in 1..(Len(log) + Piece(w))
        BY <1>1, <2>1
      <4> QED BY <2>2, <4>1
    <3>2. log'[i] = log[i]
      BY <1>1, <3>1
    <3> QED BY <2>1, <3>1, <3>2 DEF StrayLate
  <2>3. CASE ~(i <= Len(log))
    <3>1. i \in (Len(log) + 1)..(Len(log) + Piece(w))
      BY <1>1, <2>1, <2>3
    <3>2. log'[i] = Byte(Num(w), off[w] + (i - Len(log)))
      BY <1>1, <3>1
    <3>3. Num(w) = 0 /\ log'[i].at = off[w] + (i - Len(log))
      BY <2>1, <3>2 DEF Byte
    <3>4. off[w] > 0
      BY <1>1, <3>3 DEF Num, Midway
    <3>5. i - Len(log) > 0 /\ i - Len(log) \in Int /\ off[w] \in Nat
      BY <1>1, <3>1
    <3> HIDE DEF p
    <3> QED BY <3>3, <3>4, <3>5
  <2> QED BY <2>2, <2>3
<1>9. TypeOK'
  BY <1>1, <1>4, <1>5, <1>6, <1>7 DEF TypeOK, Midway
<1> QED BY <1>8, <1>9

(* Bytes that look like the beginning of a frame are of a frame that began.   *)
LEMMA StraightIsBegun ==
    ASSUME TypeInv, Reading, NEW n \in 1..(have + 1), Straight(n)
    PROVE  log[rd + 1].no \in 1..Len(begun) /\ begun[log[rd + 1].no] \in Packet
<1> USE DEF TypeInv
<1>1. /\ begun \in Seq(Packet) /\ log \in Seq([no : 0..Len(begun), at : Nat])
      /\ rd \in Nat /\ have \in Nat /\ have <= rd /\ rd < Len(log)
  BY DEF TypeOK, Reading
<1>2. Len(begun) \in Nat /\ Len(log) \in Nat
  BY <1>1, LenProperties
<1> DEFINE j == rd + 2 - n
<1>3. j \in 1..Len(log) /\ rd + 1 \in 1..Len(log) /\ rd + 1 - n + 1 = j /\ 1 \in 1..n
  BY <1>1, <1>2
<1> HIDE DEF j
<1>4. log[j] = [no |-> log[rd + 1].no, at |-> 1]
  BY <1>3 DEF Straight
<1>5. log[rd + 1] \in [no : 0..Len(begun), at : Nat]
  BY <1>1, <1>3, ElementOfSeq
<1>6. log[j].no = log[rd + 1].no /\ log[j].at = 1
  BY <1>4
<1>7. log[rd + 1].no # 0
  BY <1>3, <1>6 DEF StrayLate
<1>8. log[rd + 1].no \in 1..Len(begun)
  BY <1>2, <1>5, <1>7
<1> QED BY <1>1, <1>8, ElementOfSeq

LEMMA SendFailsTypes ==
    ASSUME TypeInv, NEW w \in Writer, SendFails(w)
    PROVE  TypeInv'
<1> USE DEF TypeInv
<1>1. /\ todo \in [Writer -> Seq(Packet)] /\ off \in [Writer -> Nat]
      /\ frame \in [Writer -> 0..Len(begun)] /\ todo[w] # <<>>
      /\ \A v \in Writer : off[v] > 0 => todo[v] # <<>> /\ off[v] < FrameLen(Head(todo[v]))
  BY DEF TypeOK, SendFails, Midway
<1>2. /\ todo' = [todo EXCEPT ![w] = Tail(@)]
      /\ off' = [off EXCEPT ![w] = 0]
      /\ frame' = [frame EXCEPT ![w] = 0]
      /\ UNCHANGED <<mode, begun, log, rd, have, total, got, open, mixed, renewals>>
  BY DEF SendFails, readVars
<1>3. Tail(todo[w]) \in Seq(Packet) /\ 0 \in 0..Len(begun)
  <2>1. begun \in Seq(Packet)
    BY DEF TypeOK
  <2> QED BY <1>1, <2>1, LenProperties
<1>4. /\ todo' \in [Writer -> Seq(Packet)] /\ off' \in [Writer -> Nat]
      /\ frame' \in [Writer -> 0..Len(begun)]
  BY <1>1, <1>2, <1>3
<1>5. ASSUME NEW v \in Writer, off'[v] > 0
      PROVE  todo'[v] # <<>> /\ off'[v] < FrameLen(Head(todo'[v]))
  BY <1>1, <1>2, <1>5
<1>6. TypeOK'
  BY <1>2, <1>4, <1>5 DEF TypeOK, Midway
<1>7. StrayLate'
  BY <1>2 DEF StrayLate
<1> QED BY <1>6, <1>7

LEMMA RenewTypes ==
    ASSUME TypeInv, Renew
    PROVE  TypeInv'
<1> USE DEF TypeInv
<1> DEFINE cut(w) == Midway(w) /\ w \notin Rereader
<1>1. /\ todo \in [Writer -> Seq(Packet)] /\ off \in [Writer -> Nat]
      /\ \A v \in Writer : off[v] > 0 => todo[v] # <<>> /\ off[v] < FrameLen(Head(todo[v]))
      /\ mode \in Modes /\ renewals \in 0..MaxRenewals
  BY DEF TypeOK, Midway
<1>2. /\ todo' = [w \in Writer |-> IF cut(w) THEN Tail(todo[w]) ELSE todo[w]]
      /\ off' = [w \in Writer |-> IF cut(w) THEN 0 ELSE off[w]]
      /\ frame' = [w \in Writer |-> 0]
      /\ begun' = <<>> /\ log' = <<>> /\ rd' = 0
      /\ have' = 0 /\ total' = 0 /\ got' = <<>> /\ open' = TRUE
      /\ mixed' = \E w \in Rereader : Midway(w)
      /\ renewals' = renewals - 1 /\ renewals > 0 /\ mode' = mode
  BY DEF Renew
<1>3. \A v \in Writer : cut(v) => Tail(todo[v]) \in Seq(Packet)
  BY <1>1 DEF Midway
<1> HIDE DEF cut
<1>4. todo' \in [Writer -> Seq(Packet)] /\ off' \in [Writer -> Nat]
  BY <1>1, <1>2, <1>3
<1>5. ASSUME NEW v \in Writer, off'[v] > 0
      PROVE  todo'[v] # <<>> /\ off'[v] < FrameLen(Head(todo'[v]))
  <2>1. ~cut(v)
    BY <1>2, <1>5
  <2>2. todo'[v] = todo[v] /\ off'[v] = off[v]
    BY <1>2, <2>1
  <2> QED BY <1>1, <1>5, <2>2
<1>6. Len(log') = 0 /\ Len(begun') = 0
  BY <1>2
<1>7. frame' \in [Writer -> 0..Len(begun')]
  BY <1>2, <1>6
<1>8. begun' \in Seq(Packet) /\ log' \in Seq([no : 0..Len(begun'), at : Nat])
      /\ got' \in Seq(Packet \cup {Garbage})
  BY <1>2
<1>9. /\ mode' \in Modes /\ renewals' \in 0..MaxRenewals
      /\ rd' \in 0..Len(log') /\ have' \in 0..rd' /\ total' \in Nat
      /\ (open' => total' <= MaxLen)
  <2>1. MaxLen \in Nat /\ MaxRenewals \in Nat
    BY StreamAssumption
  <2> QED BY <1>1, <1>2, <1>6, <2>1
<1>10. open' \in BOOLEAN /\ mixed' \in BOOLEAN
  BY <1>2
<1>11. TypeOK'
  BY <1>4, <1>5, <1>7, <1>8, <1>9, <1>10 DEF TypeOK, Midway
<1>12. StrayLate'
  BY <1>6 DEF StrayLate
<1> QED BY <1>11, <1>12

LEMMA ReadTypes ==
    ASSUME TypeInv, ReadStep
    PROVE  TypeInv'
<1> USE DEF TypeInv
<1>1. /\ rd \in Nat /\ have \in Nat /\ have <= rd /\ rd < Len(log)
      /\ log \in Seq([no : 0..Len(begun), at : Nat]) /\ begun \in Seq(Packet)
      /\ total \in Nat /\ (open => total <= MaxLen)
      /\ got \in Seq(Packet \cup {Garbage}) /\ open
      /\ open \in BOOLEAN
  BY DEF TypeOK, ReadStep, ReadByte, ReadLength, FinishFrame, Reading
<1>2. Len(log) \in Nat /\ Header \in Nat \ {0} /\ MaxLen \in Nat
  BY <1>1, LenProperties, StreamAssumption
<1>3. UNCHANGED <<mode, todo, frame, off, begun, log, mixed, renewals>> /\ rd' = rd + 1
  BY DEF ReadStep, ReadByte, ReadLength, FinishFrame, writeVars
<1>4. Reading
  BY DEF ReadStep, ReadByte, ReadLength, FinishFrame
<1>5. /\ have' \in 0..rd' /\ total' \in Nat /\ (open' => total' <= MaxLen)
      /\ got' \in Seq(Packet \cup {Garbage}) /\ open' \in BOOLEAN
  <2>1. CASE ReadByte
    <3>1. have' = have + 1 /\ total' = total /\ got' = got /\ open' = open
      BY <2>1 DEF ReadByte
    <3> QED BY <1>1, <1>3, <3>1
  <2>2. CASE ReadLength
    <3>1. /\ have' = have + 1 /\ have + 1 = Header /\ got' = got
          /\ open' = InLimits(total')
          /\ \/ Straight(Header) /\ total' = TotalLen(begun[log[rd + 1].no])
             \/ total' \in Garbled
      BY <2>2 DEF ReadLength
    <3>2. total' \in Nat
      <4>1. CASE Straight(Header) /\ total' = TotalLen(begun[log[rd + 1].no])
        <5>1. Header \in 1..(have + 1)
          BY <1>1, <1>2, <3>1
        <5>2. begun[log[rd + 1].no] \in Packet
          BY <1>4, <4>1, <5>1, StraightIsBegun
        <5> QED BY <4>1, <5>2, StreamAssumption DEF TotalLen
      <4>2. CASE total' \in Garbled
        BY <4>2, StreamAssumption
      <4> QED BY <3>1, <4>1, <4>2
    <3>3. open' => total' <= MaxLen
      BY <3>1 DEF InLimits
    <3>4. open' \in BOOLEAN
      BY <3>1 DEF InLimits
    <3>5. have' \in 0..rd'
      BY <1>1, <1>3, <3>1
    <3>6. got' \in Seq(Packet \cup {Garbage})
      BY <1>1, <3>1
    <3> QED BY <3>2, <3>3, <3>4, <3>5, <3>6
  <2>3. CASE FinishFrame
    <3>1. /\ have + 1 = End /\ have >= Header
          /\ have' = 0 /\ total' = 0 /\ open' = open
          /\ got' = Append(got, IF Straight(End) THEN begun[log[rd + 1].no] ELSE Garbage)
      BY <2>3 DEF FinishFrame
    <3>2. ASSUME Straight(End) PROVE begun[log[rd + 1].no] \in Packet
      <4>1. have + 1 \in 1..(have + 1)
        BY <1>1
      <4>2. End \in 1..(have + 1)
        BY <3>1, <4>1
      <4> QED BY <1>4, <3>2, <4>2, StraightIsBegun
    <3> DEFINE g == IF Straight(End) THEN begun[log[rd + 1].no] ELSE Garbage
    <3>3. g \in Packet \cup {Garbage}
      BY <3>2
    <3>4. got' = Append(got, g)
      BY <3>1
    <3> HIDE DEF g
    <3>5. got' \in Seq(Packet \cup {Garbage})
      BY <1>1, <3>3, <3>4, AppendProperties
    <3>6. have' \in 0..rd' /\ total' \in Nat /\ (open' => total' <= MaxLen)
      BY <1>1, <1>2, <1>3, <3>1
    <3> QED BY <1>1, <3>1, <3>5, <3>6
  <2> QED BY <2>1, <2>2, <2>3 DEF ReadStep
<1>6. rd' \in 0..Len(log')
  BY <1>1, <1>2, <1>3
<1>7. TypeOK'
  BY <1>3, <1>5, <1>6 DEF TypeOK, Midway
<1>8. StrayLate'
  BY <1>3 DEF StrayLate
<1> QED BY <1>7, <1>8

LEMMA TypeStep == TypeInv /\ [Next]_vars => TypeInv'
<1> SUFFICES ASSUME TypeInv, [Next]_vars PROVE TypeInv'
  OBVIOUS
<1>1. CASE \E w \in Writer : WriteStep(w)
  BY <1>1, SendTypes, SendFailsTypes DEF WriteStep
<1>2. CASE ReadStep
  BY <1>2, ReadTypes
<1>3. CASE Renew
  BY <1>3, RenewTypes
<1>4. CASE UNCHANGED vars
  BY <1>4 DEF TypeInv, TypeOK, StrayLate, Midway, vars, writeVars, readVars
<1> QED BY <1>1, <1>2, <1>3, <1>4 DEF Next

(* Lengths and offsets stay in their ranges: the length that ReadPacket       *)
(* accepts is within MAX_PAYLOAD_SIZE, no loop around Send runs past its frame. *)
THEOREM TypeCorrect == Safety => []TypeOK
<1>1. Safety => []TypeInv
  BY TypeInit, TypeStep, PTL DEF Safety
<1>2. TypeInv => TypeOK
  BY DEF TypeInv
<1> QED BY <1>1, <1>2, PTL

-----------------------------------------------------------------------------
(* The bytes of the log and the packets they belong to.                       *)
LEMMA Bytes ==
    ASSUME TypeOK
    PROVE  /\ Len(log) \in Nat /\ Len(begun) \in Nat /\ Len(got) \in Nat
           /\ \A i \in 1..Len(log) : /\ log[i].no \in 0..Len(begun) /\ log[i].at \in Nat
                                     /\ log[i] = Byte(log[i].no, log[i].at)
           /\ \A i \in 1..Len(begun) : begun[i] \in Packet
<1>1. /\ log \in Seq([no : 0..Len(begun), at : Nat]) /\ begun \in Seq(Packet)
      /\ got \in Seq(Packet \cup {Garbage})
  BY DEF TypeOK
<1>2. \A i \in 1..Len(log) : log[i] \in [no : 0..Len(begun), at : Nat]
  BY <1>1, ElementOfSeq
<1>3. \A i \in 1..Len(begun) : begun[i] \in Packet
  BY <1>1, ElementOfSeq
<1>4. Len(log) \in Nat /\ Len(begun) \in Nat /\ Len(got) \in Nat
  BY <1>1, LenProperties
<1> QED BY <1>2, <1>3, <1>4 DEF Byte

(* What Send(w) adds to an orderly log: bytes of the newest frame, which is   *)
(* Head(todo[w]) and goes on where the log ends.                              *)
LEMMA SendJoins ==
    ASSUME TypeInv, Frames, Ends, NEW w \in Writer, Send(w),
           \A v \in Writer \ {w} : ~Midway(v)
    PROVE  /\ Num(w) = Len(begun') /\ Num(w) >= 1 /\ begun'[Num(w)] = Head(todo[w])
           /\ Len(log) = 0 => Num(w) = 1 /\ off[w] = 0
           /\ Len(log) > 0 => Byte(Num(w), off[w] + 1) =
                                IF LastByte.at < FrameOf(Len(log))
                                THEN Byte(LastByte.no, LastByte.at + 1)
                                ELSE Byte(LastByte.no + 1, 1)
<1> USE DEF TypeInv
<1> DEFINE p == Head(todo[w])
<1>1. /\ off[w] \in Nat /\ Len(begun) \in Nat /\ Len(log) \in Nat
      /\ Midway(w) => begun' = begun
      /\ ~Midway(w) => Len(begun') = Len(begun) + 1 /\ begun'[Len(begun) + 1] = p
  BY SendFacts
<1>2. Midway(w) => off[w] < FrameLen(p)
  BY DEF TypeOK
<1>3. open
  BY DEF Send
<1>4. CASE Midway(w)
  <2>1. /\ Len(log) > 0 /\ frame[w] = Len(begun) /\ off[w] = LastByte.at
        /\ p = begun[Len(begun)] /\ LastByte.no = Len(begun)
    BY <1>3, <1>4 DEF Ends, Frames
  <2>2. Num(w) = Len(begun') /\ begun'[Num(w)] = p /\ Num(w) = LastByte.no
    BY <1>1, <1>4, <2>1 DEF Num
  <2>3. FrameOf(Len(log)) = FrameLen(p)
    BY <2>1 DEF FrameOf, LastByte
  <2>4. Num(w) >= 1
    <3>1. LastByte.no >= 1
      BY <1>1, <2>1 DEF Frames, LastByte
    <3> QED BY <2>2, <3>1
  <2> QED BY <1>1, <1>2, <1>4, <2>1, <2>2, <2>3, <2>4
<1>5. CASE ~Midway(w)
  <2>1. Num(w) = Len(begun) + 1 /\ Num(w) = Len(begun') /\ begun'[Num(w)] = p
    BY <1>1, <1>5 DEF Num
  <2>2. off[w] = 0
    BY <1>1, <1>5 DEF Midway
  <2>3. Len(log) = 0 => Len(begun) = 0
    BY DEF Frames
  <2>4. ASSUME Len(log) > 0
        PROVE  ~(LastByte.at < FrameOf(Len(log))) /\ LastByte.no = Len(begun)
    <3>1. LastByte.at = FrameOf(Len(log)) /\ LastByte.no = Len(begun)
      BY <1>3, <1>5, <2>4 DEF Ends, Frames
    <3>2. LastByte.at \in Nat
      BY <1>1, <2>4, Bytes DEF LastByte
    <3> QED BY <3>1, <3>2
  <2> QED BY <1>1, <2>1, <2>2, <2>3, <2>4
<1> QED BY <1>4, <1>5

LEMMA SendFrames ==
    ASSUME TypeInv, Frames, Ends, NEW w \in Writer, Send(w),
           \A v \in Writer \ {w} : ~Midway(v)
    PROVE  Frames'
<1> USE DEF TypeInv
<1> DEFINE p == Head(todo[w])
           F(i) == FrameLen(begun'[log'[i].no])
<1>1. /\ off[w] \in Nat /\ FrameLen(p) \in Nat
      /\ Piece(w) \in Nat \ {0} /\ Piece(w) <= FrameLen(p) - off[w]
      /\ Len(begun) \in Nat /\ Len(log) \in Nat /\ Len(log') = Len(log) + Piece(w)
  BY SendFacts
<1>2. \A i \in 1..Len(begun) : begun'[i] = begun[i]
  BY SendFacts
<1>3. \A i \in 1..Len(log) : log'[i] = log[i]
  BY SendFacts
<1>4. \A i \in (Len(log) + 1)..(Len(log) + Piece(w)) : log'[i] = Byte(Num(w), off[w] + (i - Len(log)))
  BY SendFacts
<1>5. /\ Num(w) = Len(begun') /\ Num(w) >= 1 /\ begun'[Num(w)] = p
      /\ Len(log) = 0 => Num(w) = 1 /\ off[w] = 0
  BY SendJoins
<1>6. Len(log) > 0 => Byte(Num(w), off[w] + 1) = IF LastByte.at < FrameOf(Len(log))
                                                 THEN Byte(LastByte.no, LastByte.at + 1)
                                                 ELSE Byte(LastByte.no + 1, 1)
  BY SendJoins
<1>7. ASSUME NEW i \in 1..Len(log)
      PROVE  /\ F(i) = FrameOf(i)
             /\ log'[i].no >= 1 /\ log'[i].at >= 1 /\ log'[i].at <= F(i)
  <2>1. log[i].no \in 1..Len(begun)
    <3>1. log[i].no \in 0..Len(begun) /\ log[i].no >= 1
      BY Bytes DEF Frames
    <3> QED BY <1>1, <3>1
  <2>2. F(i) = FrameOf(i)
    BY <1>2, <1>3, <2>1 DEF FrameOf
  <2> QED BY <1>3, <2>2 DEF Frames
<1>8. ASSUME NEW i \in (Len(log) + 1)..(Len(log) + Piece(w))
      PROVE  /\ F(i) = FrameLen(p)
             /\ log'[i].no = Num(w) /\ log'[i].at = off[w] + (i - Len(log))
             /\ log'[i].at >= 1 /\ log'[i].at <= F(i)
  <2>1. log'[i].no = Num(w) /\ log'[i].at = off[w] + (i - Len(log))
    <3>1. log'[i] = Byte(Num(w), off[w] + (i - Len(log)))
      BY <1>4
    <3> QED BY <3>1 DEF Byte
  <2>2. F(i) = FrameLen(p)
    BY <1>5, <2>1
  <2> HIDE DEF F, p
  <2>3. i - Len(log) >= 1 /\ i - Len(log) <= Piece(w) /\ i - Len(log) \in Int
    BY <1>1
  <2> QED BY <1>1, <2>1, <2>2, <2>3
<1> HIDE DEF F, p
<1>9. ASSUME NEW i \in 1..Len(log')
      PROVE  log'[i].no >= 1 /\ log'[i].at >= 1 /\ log'[i].at <= F(i)
  <2>1. CASE i <= Len(log)
    <3>1. i \in 1..Len(log)
      BY <1>1, <2>1
    <3> QED BY <1>7, <3>1
  <2>2. CASE ~(i <= Len(log))
    <3>1. i \in (Len(log) + 1)..(Len(log) + Piece(w))
      BY <1>1, <2>2
    <3> QED BY <1>5, <1>8, <3>1
  <2> QED BY <2>1, <2>2
<1>10. Len(log) + 1 \in (Len(log) + 1)..(Len(log) + Piece(w))
       /\ (Len(log) + 1) - Len(log) = 1
  BY <1>1
<1>11. log'[Len(log) + 1] = Byte(Num(w), off[w] + 1)
  BY <1>4, <1>10
<1>12. log'[1] = Byte(1, 1)
  <2>1. CASE Len(log) = 0
    BY <1>5, <1>11, <2>1
  <2>2. CASE Len(log) > 0
    <3>1. 1 \in 1..Len(log) /\ log[1] = Byte(1, 1)
      BY <1>1, <2>2 DEF Frames
    <3> QED BY <1>3, <3>1
  <2> QED BY <1>1, <2>1, <2>2
<1>13. ASSUME NEW i \in 1..(Len(log') - 1)
       PROVE  log'[i + 1] = IF log'[i].at < F(i) THEN Byte(log'[i].no, log'[i].at + 1)
                                                 ELSE Byte(log'[i].no + 1, 1)
  <2>1. CASE i < Len(log)
    <3>1. i \in 1..(Len(log) - 1) /\ i \in 1..Len(log) /\ i + 1 \in 1..Len(log)
      BY <1>1, <2>1
    <3>2. log[i + 1] = IF log[i].at < FrameOf(i) THEN Byte(log[i].no, log[i].at + 1)
                                                 ELSE Byte(log[i].no + 1, 1)
      BY <3>1 DEF Frames, Follows
    <3>3. F(i) = FrameOf(i) /\ log'[i] = log[i] /\ log'[i + 1] = log[i + 1]
      BY <1>3, <1>7, <3>1
    <3> QED BY <3>2, <3>3
  <2>2. CASE i = Len(log)
    <3>1. i \in 1..Len(log) /\ Len(log) > 0
      BY <1>1, <2>2
    <3>2. F(i) = FrameOf(i) /\ log'[i] = log[i]
      BY <1>3, <1>7, <3>1
    <3> QED BY <1>6, <1>11, <2>2, <3>1, <3>2 DEF LastByte
  <2>3. CASE i > Len(log)
    <3>1. /\ i \in (Len(log) + 1)..(Len(log) + Piece(w))
          /\ i + 1 \in (Len(log) + 1)..(Len(log) + Piece(w))
          /\ i < Len(log) + Piece(w)
      BY <1>1, <2>3
    <3>2. /\ log'[i].no = Num(w) /\ log'[i].at = off[w] + (i - Len(log)) /\ F(i) = FrameLen(p)
          /\ log'[i + 1] = Byte(Num(w), off[w] + ((i + 1) - Len(log)))
      BY <1>4, <1>8, <3>1
    <3>3. off[w] + (i - Len(log)) < FrameLen(p)
      BY <1>1, <3>1, SMTT(20)
    <3>4. off[w] + ((i + 1) - Len(log)) = (off[w] + (i - Len(log))) + 1
      BY <1>1, <3>1
    <3> QED BY <3>2, <3>3, <3>4
  <2> QED BY <1>1, <2>1, <2>2, <2>3
<1>14. Len(log') > 0 /\ log'[Len(log')].no = Len(begun')
  <2>1. Len(log') \in (Len(log) + 1)..(Len(log) + Piece(w)) /\ Len(log') > 0
    BY <1>1
  <2> QED BY <1>5, <1>8, <2>1
<1>15. ~(Len(log') = 0)
  BY <1>1
<1> QED BY <1>9, <1>12, <1>13, <1>14, <1>15 DEF Frames, Follows, FrameOf, LastByte, F

LEMMA SendEnds ==
    ASSUME TypeInv, Frames, Ends, NEW w \in Writer, Send(w),
           \A v \in Writer \ {w} : ~Midway(v)
    PROVE  Ends'
<1> USE DEF TypeInv
<1> DEFINE p == Head(todo[w])
<1>1. /\ off[w] \in Nat /\ FrameLen(p) \in Nat
      /\ Piece(w) \in Nat \ {0} /\ Piece(w) <= FrameLen(p) - off[w]
      /\ Len(log) \in Nat /\ Len(log') = Len(log) + Piece(w)
  BY SendFacts
<1>2. \A i \in (Len(log) + 1)..(Len(log) + Piece(w)) : log'[i] = Byte(Num(w), off[w] + (i - Len(log)))
  BY SendFacts
<1>3. Num(w) = Len(begun') /\ begun'[Num(w)] = p
  BY SendJoins
<1>4. log'[Len(log')] = Byte(Num(w), off[w] + Piece(w)) /\ Len(log') > 0
  <2>1. /\ Len(log') \in (Len(log) + 1)..(Len(log) + Piece(w)) /\ Len(log') > 0
        /\ Len(log') - Len(log) = Piece(w)
    BY <1>1
  <2> QED BY <1>2, <2>1
<1>5. LastByte'.no = Num(w) /\ LastByte'.at = off[w] + Piece(w)
  BY <1>4 DEF LastByte, Byte
<1>6. \/ /\ Piece(w) = FrameLen(p) - off[w]
         /\ off' = [off EXCEPT ![w] = 0]
      \/ /\ Piece(w) # FrameLen(p) - off[w]
         /\ todo' = todo
         /\ off' = [off EXCEPT ![w] = @ + Piece(w)]
         /\ frame' = [frame EXCEPT ![w] = Num(w)]
  BY DEF Send, Piece, Num
<1>7. off \in [Writer -> Nat] /\ frame \in [Writer -> 0..Len(begun)]
  BY DEF TypeOK
<1>8. ASSUME NEW v \in Writer, Midway(v)'
      PROVE  /\ frame'[v] = Len(begun') /\ off'[v] = LastByte'.at
             /\ Head(todo'[v]) = begun'[Len(begun')]
  <2>1. v = w
    <3>1. ASSUME v # w PROVE FALSE
      <4>1. off'[v] = off[v] /\ ~(off[v] > 0)
        BY <1>6, <1>7, <3>1 DEF Midway
      <4> QED BY <1>8, <4>1 DEF Midway
    <3> QED BY <3>1
  <2>2. todo' = todo /\ off'[w] = off[w] + Piece(w) /\ frame'[w] = Num(w)
    <3>1. off'[w] > 0
      BY <1>8, <2>1 DEF Midway
    <3> QED BY <1>6, <1>7, <3>1
  <2> QED BY <1>3, <1>5, <2>1, <2>2
<1>9. ASSUME \A v \in Writer : ~Midway(v)'
      PROVE  LastByte'.at = FrameOf(Len(log))'
  <2>1. ~(off'[w] > 0)
    BY <1>9 DEF Midway
  <2>2. Piece(w) = FrameLen(p) - off[w]
    <3>1. ASSUME off' = [off EXCEPT ![w] = @ + Piece(w)] PROVE FALSE
      <4>1. off'[w] = off[w] + Piece(w)
        BY <1>7, <3>1
      <4> QED BY <1>1, <2>1, <4>1
    <3> QED BY <1>6, <3>1
  <2>3. LastByte'.at = FrameLen(p)
    <3> HIDE DEF p
    <3>1. off[w] + Piece(w) = FrameLen(p)
      BY <1>1, <2>2
    <3> QED BY <1>5, <3>1
  <2> QED BY <1>3, <1>5, <2>3 DEF FrameOf, LastByte
<1> QED BY <1>4, <1>8, <1>9 DEF Ends

LEMMA SendInStep ==
    ASSUME TypeInv, InStep, NEW w \in Writer, Send(w)
    PROVE  InStep'
<1> USE DEF TypeInv
<1>1. /\ Len(begun) \in Nat /\ Len(begun') \in Nat /\ Len(begun) <= Len(begun')
      /\ Len(log) \in Nat /\ Len(got) \in Nat
  <2>1. Len(begun') = Len(begun) \/ Len(begun') = Len(begun) + 1
    BY SendFacts
  <2> QED BY <2>1, SendFacts, Bytes
<1>2. \A i \in 1..Len(begun) : begun'[i] = begun[i]
  BY SendFacts
<1>3. \A i \in 1..Len(log) : log'[i] = log[i]
  BY SendFacts
<1>4. open /\ UNCHANGED <<rd, have, total, got, open>>
  BY DEF Send, readVars
<1>5. rd \in 0..Len(log) /\ have \in 0..rd /\ Header \in Nat \ {0}
  BY StreamAssumption DEF TypeOK
<1>6. /\ Len(got) <= Len(begun) /\ \A i \in 1..Len(got) : got[i] = begun[i]
      /\ rd = 0 => have = 0 /\ Len(got) = 0
      /\ \A k \in 1..have : log[rd - have + k] = Byte(Len(got) + 1, k)
      /\ have = 0 /\ rd > 0 => Len(got) > 0 /\ log[rd] = Byte(Len(got), FrameLen(begun[Len(got)]))
      /\ open /\ have >= Header => total = TotalLen(begun[Len(got) + 1]) /\ have < End
  BY DEF InStep
<1>7. Len(got) <= Len(begun') /\ \A i \in 1..Len(got) : got[i] = begun'[i]
  BY <1>1, <1>2, <1>6
<1>8. \A k \in 1..have : log'[rd - have + k] = Byte(Len(got) + 1, k)
  <2>1. \A k \in 1..have : rd - have + k \in 1..Len(log)
    BY <1>1, <1>5
  <2> QED BY <1>3, <1>6, <2>1
<1>9. have = 0 /\ rd > 0 => log'[rd] = Byte(Len(got), FrameLen(begun'[Len(got)]))
  <2>1. ASSUME have = 0, rd > 0
        PROVE  rd \in 1..Len(log) /\ Len(got) \in 1..Len(begun)
    BY <1>1, <1>5, <1>6, <2>1
  <2> QED BY <1>2, <1>3, <1>6, <2>1
<1>10. have >= Header => total = TotalLen(begun'[Len(got) + 1])
  <2>1. ASSUME have >= Header
        PROVE  Len(got) + 1 \in 1..Len(begun)
    <3>1. 1 \in 1..have /\ rd - have + 1 \in 1..Len(log)
      BY <1>1, <1>5, <2>1
    <3>2. log[rd - have + 1].no = Len(got) + 1
      <4>1. log[rd - have + 1] = Byte(Len(got) + 1, 1)
        BY <1>6, <3>1
      <4> QED BY <4>1 DEF Byte
    <3>3. log[rd - have + 1].no \in 0..Len(begun)
      BY <3>1, Bytes
    <3> QED BY <1>1, <3>2, <3>3
  <2> QED BY <1>2, <1>4, <1>6, <2>1
<1> QED BY <1>4, <1>6, <1>7, <1>8, <1>9, <1>10 DEF InStep, End

-----------------------------------------------------------------------------
(* The byte that ReadPacket takes next is the one it needs.                   *)
LEMMA NextByte ==
    ASSUME TypeInv, Frames, InStep, Reading
    PROVE  /\ log[rd + 1] = Byte(Len(got) + 1, have + 1)
           /\ Len(got) + 1 \in 1..Len(begun) /\ begun[Len(got) + 1] \in Packet
           /\ \A k \in 1..(have + 1) : log[rd - have + k] = Byte(Len(got) + 1, k)
<1> USE DEF TypeInv
<1>1. /\ rd \in Nat /\ have \in Nat /\ have <= rd /\ rd < Len(log)
      /\ Len(log) \in Nat /\ Len(begun) \in Nat /\ Len(got) \in Nat
      /\ open /\ Header \in Nat \ {0} /\ total \in Nat
  BY Bytes, StreamAssumption DEF TypeOK, Reading
<1>2. /\ rd = 0 => have = 0 /\ Len(got) = 0
      /\ \A k \in 1..have : log[rd - have + k] = Byte(Len(got) + 1, k)
      /\ have = 0 /\ rd > 0 => Len(got) > 0 /\ log[rd] = Byte(Len(got), FrameLen(begun[Len(got)]))
      /\ open /\ have >= Header => total = TotalLen(begun[Len(got) + 1]) /\ have < End
  BY DEF InStep
<1>3. rd > 0 => log[rd + 1] = IF log[rd].at < FrameOf(rd) THEN Byte(log[rd].no, log[rd].at + 1)
                                                          ELSE Byte(log[rd].no + 1, 1)
  <2>1. rd > 0 => rd \in 1..(Len(log) - 1)
    BY <1>1
  <2> QED BY <2>1 DEF Frames, Follows
<1>4. log[rd + 1] = Byte(Len(got) + 1, have + 1)
  <2>1. CASE rd = 0
    BY <1>1, <1>2, <2>1 DEF Frames
  <2>2. CASE rd > 0 /\ have = 0
    <3>1. /\ log[rd].no = Len(got) /\ log[rd].at = FrameLen(begun[Len(got)])
          /\ FrameOf(rd) = FrameLen(begun[Len(got)])
      BY <1>2, <2>2 DEF Byte, FrameOf
    <3>2. log[rd].at \in Nat
      <4>1. rd \in 1..Len(log)
        BY <1>1, <2>2
      <4> QED BY <4>1, Bytes
    <3>3. ~(log[rd].at < FrameOf(rd))
      BY <3>1, <3>2
    <3> QED BY <1>3, <2>2, <3>1, <3>3
  <2>3. CASE rd > 0 /\ have > 0
    <3>1. have \in 1..have /\ rd - have + have = rd /\ rd \in 1..Len(log)
      BY <1>1, <2>3
    <3>2. log[rd] = Byte(Len(got) + 1, have)
      BY <1>2, <3>1
    <3>3. /\ log[rd].no = Len(got) + 1 /\ log[rd].at = have
          /\ FrameOf(rd) = FrameLen(begun[Len(got) + 1])
      BY <3>2 DEF Byte, FrameOf
    <3>4. Len(got) + 1 \in 1..Len(begun)
      <4>1. log[rd].no \in 0..Len(begun)
        BY <3>1, Bytes
      <4> QED BY <1>1, <3>3, <4>1
    <3>5. Size[begun[Len(got) + 1]] \in Nat
      <4>1. begun[Len(got) + 1] \in Packet
        BY <3>4, Bytes
      <4> QED BY <4>1, StreamAssumption
    <3>6. have < FrameOf(rd)
      <4>1. CASE have >= Header
        <5>1. have < Header + TotalLen(begun[Len(got) + 1])
          BY <1>1, <1>2, <4>1 DEF End
        <5> QED BY <1>1, <3>3, <3>5, <5>1 DEF TotalLen, FrameLen
      <4>2. CASE ~(have >= Header)
        BY <1>1, <3>3, <3>5, <4>2 DEF FrameLen
      <4> QED BY <4>1, <4>2
    <3> QED BY <1>3, <2>3, <3>3, <3>6
  <2> QED BY <1>1, <2>1, <2>2, <2>3
<1>5. Len(got) + 1 \in 1..Len(begun)
  <2>1. rd + 1 \in 1..Len(log)
    BY <1>1
  <2>2. log[rd + 1].no \in 0..Len(begun) /\ log[rd + 1].no = Len(got) + 1
    <3>1. log[rd + 1].no = Len(got) + 1
      BY <1>4 DEF Byte
    <3> QED BY <2>1, <3>1, Bytes
  <2> QED BY <1>1, <2>2
<1>6. ASSUME NEW k \in 1..(have + 1)
      PROVE  log[rd - have + k] = Byte(Len(got) + 1, k)
  <2>1. k \in 1..have \/ (k = have + 1 /\ rd - have + k = rd + 1)
    BY <1>1
  <2> QED BY <1>2, <1>4, <2>1
<1> QED BY <1>4, <1>5, <1>6, Bytes

(* So what ReadPacket has is the beginning of one frame.                      *)
LEMMA InStepIsStraight ==
    ASSUME TypeInv, Frames, InStep, Reading
    PROVE  Straight(have + 1) /\ log[rd + 1].no = Len(got) + 1
<1>1. rd \in Nat /\ have \in Nat
  BY DEF TypeInv, TypeOK
<1>2. log[rd + 1].no = Len(got) + 1
  <2>1. log[rd + 1] = Byte(Len(got) + 1, have + 1)
    BY NextByte
  <2> QED BY <2>1 DEF Byte
<1>3. ASSUME NEW i \in 1..(have + 1)
      PROVE  log[rd + 1 - (have + 1) + i] = [no |-> log[rd + 1].no, at |-> i]
  <2>1. rd + 1 - (have + 1) + i = rd - have + i
    BY <1>1
  <2>2. log[rd - have + i] = Byte(Len(got) + 1, i)
    BY NextByte
  <2> QED BY <1>2, <2>1, <2>2 DEF Byte
<1> QED BY <1>2, <1>3 DEF Straight

LEMMA ReadInStep ==
    ASSUME TypeInv, Frames, InStep, ReadStep
    PROVE  InStep'
<1> USE DEF TypeInv
<1>1. Reading /\ rd' = rd + 1 /\ UNCHANGED <<begun, log>>
  BY DEF ReadStep, ReadByte, ReadLength, FinishFrame
<1>2. /\ rd \in Nat /\ have \in Nat /\ have <= rd /\ open /\ total \in Nat
      /\ Header \in Nat \ {0} /\ Len(got) \in Nat /\ Len(begun) \in Nat
      /\ got \in Seq(Packet \cup {Garbage}) /\ (open => total <= MaxLen) /\ MaxLen \in Nat
  BY <1>1, Bytes, StreamAssumption DEF TypeOK, Reading
<1>3. /\ Len(got) + 1 \in 1..Len(begun) /\ begun[Len(got) + 1] \in Packet
      /\ \A k \in 1..(have + 1) : log[rd - have + k] = Byte(Len(got) + 1, k)
      /\ log[rd + 1] = Byte(Len(got) + 1, have + 1)
  BY <1>1, NextByte
<1>4. Straight(have + 1) /\ log[rd + 1].no = Len(got) + 1
  BY <1>1, InStepIsStraight
<1>5. Size[begun[Len(got) + 1]] \in Nat
  BY <1>3, StreamAssumption
<1>6. /\ \A i \in 1..Len(got) : got[i] = begun[i]
      /\ have >= Header => total = TotalLen(begun[Len(got) + 1]) /\ have < End
  BY <1>2 DEF InStep
<1>7. CASE have' = have + 1 /\ got' = got
  <2>1. ~(rd' = 0) /\ ~(have' = 0) /\ rd' - have' = rd - have
    BY <1>1, <1>2, <1>7
  <2>2. \A k \in 1..have' : log'[rd' - have' + k] = Byte(Len(got') + 1, k)
    BY <1>1, <1>3, <1>7, <2>1
  <2>3. /\ open' /\ have' >= Header => /\ total' = TotalLen(begun[Len(got) + 1])
                                       /\ have' < Header + total'
        /\ ~open' => begun[Len(got) + 1] \in Oversize
    <3>1. CASE ReadByte
      <4>1. /\ open' = open /\ total' = total
            /\ have + 1 < Header \/ (have >= Header /\ have + 1 < Header + total)
        BY <3>1 DEF ReadByte, End
      <4> QED BY <1>2, <1>6, <1>7, <4>1
    <3>2. CASE ReadLength
      <4>1. /\ have + 1 = Header /\ open' = InLimits(total')
            /\ Straight(Header) => total' = TotalLen(begun[log[rd + 1].no])
        BY <3>2 DEF ReadLength
      <4>2. total' = TotalLen(begun[Len(got) + 1])
        BY <1>4, <4>1
      <4>3. total' \in Nat /\ total' >= 1
        BY <1>5, <4>2 DEF TotalLen
      <4>4. have' < Header + total'
        <5>1. have' = Header /\ Header \in Nat
          BY <1>2, <1>7, <4>1
        <5>2. \A h, t \in Nat : t >= 1 => h < h + t
          OBVIOUS
        <5>3. Header < Header + total'
          BY <4>3, <5>1, <5>2
        <5> QED BY <5>1, <5>3
      <4>5. ~open' => total' > MaxLen
        <5>1. open' <=> total' >= 1 /\ total' <= MaxLen
          BY <4>1 DEF InLimits
        <5>2. MaxLen \in Nat
          BY <1>2
        <5> QED BY <4>3, <5>1, <5>2
      <4> QED BY <1>3, <4>2, <4>4, <4>5 DEF Oversize
    <3>3. CASE FinishFrame
      <4>1. have' = 0
        BY <3>3 DEF FinishFrame
      <4> QED BY <2>1, <4>1
    <3> QED BY <3>1, <3>2, <3>3 DEF ReadStep
  <2>4. Len(got') <= Len(begun') /\ Len(got') < Len(begun')
    BY <1>1, <1>2, <1>3, <1>7
  <2> QED BY <1>1, <1>6, <1>7, <2>1, <2>2, <2>3, <2>4 DEF InStep, End
<1>8. CASE FinishFrame
  <2>1. /\ have >= Header /\ have + 1 = End /\ have' = 0 /\ open' = open
        /\ got' = Append(got, IF Straight(End) THEN begun[log[rd + 1].no] ELSE Garbage)
    BY <1>8 DEF FinishFrame
  <2>2. got' = Append(got, begun[Len(got) + 1])
    BY <1>4, <2>1
  <2>3. /\ Len(got') = Len(got) + 1
        /\ \A i \in 1..Len(got) : got'[i] = got[i]
        /\ got'[Len(got) + 1] = begun[Len(got) + 1]
    BY <1>2, <1>3, <2>2, AppendProperties
  <2>4. \A i \in 1..Len(got') : got'[i] = begun[i]
    <3>1. \A i \in 1..Len(got') : i \in 1..Len(got) \/ i = Len(got) + 1
      BY <1>2, <2>3
    <3> QED BY <1>6, <2>3, <3>1
  <2>5. have + 1 = FrameLen(begun[Len(got) + 1])
    <3>1. have + 1 = Header + TotalLen(begun[Len(got) + 1])
      BY <1>6, <2>1 DEF End
    <3> QED BY <1>2, <1>5, <3>1 DEF TotalLen, FrameLen
  <2>6. log'[rd'] = Byte(Len(got'), FrameLen(begun'[Len(got')]))
    BY <1>1, <1>3, <2>3, <2>5
  <2>7. /\ ~(rd' = 0) /\ Len(got') > 0 /\ Len(got') <= Len(begun')
        /\ ~(have' >= Header) /\ open' /\ 1..have' = {}
    BY <1>1, <1>2, <1>3, <2>1, <2>3
  <2> QED BY <1>1, <2>1, <2>4, <2>6, <2>7 DEF InStep
<1>9. (have' = have + 1 /\ got' = got) \/ FinishFrame
  BY DEF ReadStep, ReadByte, ReadLength
<1> QED BY <1>7, <1>8, <1>9

-----------------------------------------------------------------------------
LEMMA StreamInit == Init => StreamInv
<1> SUFFICES ASSUME Init PROVE Frames /\ Ends /\ InStep
  BY DEF StreamInv
<1>1. /\ Len(log) = 0 /\ Len(begun) = 0 /\ Len(got) = 0 /\ rd = 0 /\ have = 0 /\ open
      /\ off = [w \in Writer |-> 0] /\ Header \in Nat \ {0}
  BY StreamAssumption DEF Init
<1>2. Frames
  BY <1>1 DEF Frames
<1>3. Ends
  BY <1>1 DEF Ends, Midway
<1>4. InStep
  BY <1>1 DEF InStep
<1> QED BY <1>2, <1>3, <1>4

LEMMA RenewStream ==
    ASSUME TypeInv, Renew, ~mixed'
    PROVE  Frames' /\ Ends' /\ InStep'
<1> USE DEF TypeInv
<1>1. /\ log' = <<>> /\ begun' = <<>> /\ got' = <<>> /\ rd' = 0 /\ have' = 0 /\ open' = TRUE
      /\ mixed' = \E w \in Rereader : Midway(w)
      /\ \A w \in Writer : off'[w] = IF Midway(w) /\ w \notin Rereader THEN 0 ELSE off[w]
  BY DEF Renew
<1>2. Len(log') = 0 /\ Len(begun') = 0 /\ Len(got') = 0 /\ Header \in Nat \ {0}
  BY <1>1, StreamAssumption
<1>3. \A w \in Writer : ~Midway(w)'
  BY <1>1 DEF Midway
<1>4. Frames'
  BY <1>2 DEF Frames
<1>5. Ends'
  BY <1>2, <1>3 DEF Ends
<1>6. InStep'
  BY <1>1, <1>2 DEF InStep
<1> QED BY <1>4, <1>5, <1>6

LEMMA StreamStep == TypeInv /\ StreamInv /\ [Next]_vars => StreamInv'
<1> SUFFICES ASSUME TypeInv, StreamInv, [Next]_vars, ~mixed'
             PROVE  Frames' /\ Ends' /\ InStep'
  BY DEF StreamInv
<1>1. ASSUME NEW w \in Writer, Send(w) PROVE Frames' /\ Ends' /\ InStep'
  <2>1. ~mixed /\ \A v \in Writer \ {w} : ~Midway(v)
    BY <1>1 DEF Send
  <2> QED BY <1>1, <2>1, SendFrames, SendEnds, SendInStep DEF StreamInv
<1>2. ASSUME NEW w \in Writer, SendFails(w) PROVE Frames' /\ Ends' /\ InStep'
  <2>1. ~open /\ UNCHANGED <<begun, log, rd, have, total, got, open, mixed>>
    BY <1>2 DEF SendFails, readVars
  <2>2. Frames /\ InStep
    BY <2>1 DEF StreamInv
  <2>3. Frames'
    BY <2>1, <2>2 DEF Frames, Follows, FrameOf, LastByte
  <2>4. InStep'
    BY <2>1, <2>2 DEF InStep, End
  <2>5. Ends'
    BY <2>1 DEF Ends
  <2> QED BY <2>3, <2>4, <2>5
<1>3. CASE ReadStep
  <2>1. UNCHANGED <<todo, frame, off, begun, log, mixed>> /\ open
    BY <1>3 DEF ReadStep, ReadByte, ReadLength, FinishFrame, Reading, writeVars
  <2>2. Frames /\ Ends /\ InStep
    BY <2>1 DEF StreamInv
  <2>3. Frames'
    BY <2>1, <2>2 DEF Frames, Follows, FrameOf, LastByte
  <2>4. Ends'
    BY <2>1, <2>2 DEF Ends, Midway, FrameOf, LastByte
  <2>5. InStep'
    BY <1>3, <2>2, ReadInStep
  <2> QED BY <2>3, <2>4, <2>5
<1>4. CASE Renew
  BY <1>4, RenewStream
<1>5. CASE UNCHANGED vars
  <2>1. UNCHANGED <<todo, frame, off, begun, log, rd, have, total, got, open, mixed>>
    BY <1>5 DEF vars, writeVars, readVars
  <2>2. Frames /\ Ends /\ InStep
    BY <2>1 DEF StreamInv
  <2>3. Frames'
    BY <2>1, <2>2 DEF Frames, Follows, FrameOf, LastByte
  <2>4. Ends'
    BY <2>1, <2>2 DEF Ends, Midway, FrameOf, LastByte
  <2>5. InStep'
    BY <2>1, <2>2 DEF InStep, End
  <2> QED BY <2>3, <2>4, <2>5
<1> QED BY <1>1, <1>2, <1>3, <1>4, <1>5 DEF Next, WriteStep

LEMMA Invariant == Safety => [](TypeInv /\ StreamInv)
<1>1. Init => TypeInv /\ StreamInv
  BY TypeInit, StreamInit
<1>2. TypeInv /\ StreamInv /\ [Next]_vars => TypeInv' /\ StreamInv'
  BY TypeStep, StreamStep
<1> QED BY <1>1, <1>2, PTL DEF Safety

(* As long as no frames are mixed up ReadPacket returns what was sent, and    *)
(* gives up only on a packet over the limit.                                  *)
THEOREM FramesAreWhole == Safety => []DamageHasCause
<1>1. TypeInv /\ StreamInv => DamageHasCause
  <2> SUFFICES ASSUME TypeInv, StreamInv, ~mixed
               PROVE  /\ Len(got) <= Len(begun) /\ \A i \in DOMAIN got : got[i] = begun[i]
                      /\ ~open => Len(got) < Len(begun) /\ begun[Len(got) + 1] \in Oversize
    BY DEF DamageHasCause
  <2>1. InStep
    BY DEF StreamInv
  <2>2. DOMAIN got = 1..Len(got)
    BY LenProperties DEF TypeInv, TypeOK
  <2> QED BY <2>1, <2>2 DEF InStep
<1> QED BY <1>1, Invariant, PTL

-----------------------------------------------------------------------------
(* Every step of the writers and the reader is one of PacketChannel.          *)
LEMMA SendRefines ==
    ASSUME TypeInv, NEW w \in Writer, Send(w)
    PROVE  Channel!Next \/ UNCHANGED Channel!vars
<1> DEFINE tears == \E v \in Writer \ {w} : Midway(v)
<1>1. /\ mixed' = (mixed \/ tears) /\ mixed \in BOOLEAN /\ mode' = mode /\ got' = got /\ open' = open
      /\ mode = "client" => ~tears
  BY DEF Send, MayWrite, readVars, TypeInv, TypeOK
<1>2. mixed' = mixed \/ (~(mode = "client") /\ mixed' = TRUE)
  BY <1>1
<1>3. CASE Midway(w)
  <2>1. begun' = begun
    BY <1>3 DEF Send
  <2>2. CASE mixed' = mixed
    BY <1>1, <2>1, <2>2 DEF Channel!vars
  <2>3. CASE mixed' # mixed
    <3>1. Channel!Tear
      BY <1>1, <1>2, <2>1, <2>3 DEF Channel!Tear
    <3> QED BY <3>1 DEF Channel!Next
  <2> QED BY <2>2, <2>3
<1>4. CASE ~Midway(w)
  <2>1. begun' = Append(begun, Head(todo[w]))
    BY <1>4 DEF Send
  <2>2. Head(todo[w]) \in Packet
    BY SendFacts DEF TypeInv
  <2>3. Channel!Submit(Head(todo[w]))
    BY <1>1, <1>2, <2>1 DEF Channel!Submit, Channel!MayTear
  <2> QED BY <2>2, <2>3 DEF Channel!Next
<1> QED BY <1>3, <1>4

LEMMA ReadRefines ==
    ASSUME TypeInv, StreamInv, ReadStep
    PROVE  Channel!Next \/ UNCHANGED Channel!vars
<1>1. UNCHANGED <<mode, begun, mixed>> /\ open /\ open = TRUE /\ Reading
  BY DEF ReadStep, ReadByte, ReadLength, FinishFrame, Reading, TypeInv, TypeOK
<1>2. ASSUME ~mixed
      PROVE  /\ Straight(have + 1) /\ log[rd + 1].no = Len(got) + 1
             /\ Len(got) < Len(begun) /\ begun[Len(got) + 1] \in Packet
  <2>1. Frames /\ InStep
    BY <1>2 DEF StreamInv
  <2>2. Len(got) + 1 \in 1..Len(begun) /\ begun[Len(got) + 1] \in Packet
    BY <1>1, <2>1, NextByte
  <2>3. Len(got) \in Nat /\ Len(begun) \in Nat
    BY Bytes DEF TypeInv
  <2>4. Len(got) < Len(begun)
    BY <2>2, <2>3
  <2> QED BY <1>1, <2>1, <2>2, <2>4, InStepIsStraight
<1>3. CASE ReadByte
  BY <1>1, <1>3 DEF ReadByte, Channel!vars
<1>4. CASE ReadLength
  <2>1. /\ have + 1 = Header /\ open' = InLimits(total') /\ got' = got
        /\ Straight(Header) => total' = TotalLen(begun[log[rd + 1].no])
    BY <1>4 DEF ReadLength
  <2>2. CASE open'
    <3>1. open' = open
      BY <1>1, <2>1, <2>2 DEF InLimits
    <3> QED BY <1>1, <2>1, <3>1 DEF Channel!vars
  <2>3. CASE ~open' /\ mixed
    <3>1. open' = FALSE
      BY <2>1, <2>3 DEF InLimits
    <3>2. Channel!Misread
      BY <1>1, <2>1, <2>3, <3>1 DEF Channel!Misread
    <3> QED BY <3>2 DEF Channel!Next
  <2>4. CASE ~open' /\ ~mixed
    <3>1. open' = FALSE
      BY <2>1, <2>4 DEF InLimits
    <3>2. total' = TotalLen(begun[Len(got) + 1])
      BY <1>2, <2>1, <2>4
    <3>3. begun[Len(got) + 1] \in Oversize
      <4>1. Size[begun[Len(got) + 1]] \in Nat /\ MaxLen \in Nat
        BY <1>2, <2>4, StreamAssumption
      <4>2. ~(total' >= 1 /\ total' <= MaxLen)
        BY <2>1, <3>1 DEF InLimits
      <4>3. total' > MaxLen
        BY <3>2, <4>1, <4>2 DEF TotalLen
      <4> QED BY <1>2, <2>4, <3>2, <4>3 DEF Oversize
    <3>4. Channel!Refuse
      BY <1>1, <1>2, <2>1, <2>4, <3>1, <3>3 DEF Channel!Refuse, Channel!Pending, Channel!NextUp
    <3> QED BY <3>4 DEF Channel!Next
  <2> QED BY <2>2, <2>3, <2>4
<1>5. CASE FinishFrame
  <2>1. /\ have >= Header /\ have + 1 = End /\ open' = open
        /\ got' = Append(got, IF Straight(End) THEN begun[log[rd + 1].no] ELSE Garbage)
    BY <1>5 DEF FinishFrame
  <2>2. CASE mixed
    <3> DEFINE g == IF Straight(End) THEN begun[log[rd + 1].no] ELSE Garbage
    <3>1. g \in Packet \cup {Garbage}
      <4>1. ASSUME Straight(End) PROVE begun[log[rd + 1].no] \in Packet
        <5>1. have + 1 \in 1..(have + 1)
          <6>1. have \in Nat
            BY DEF TypeInv, TypeOK
          <6> QED BY <6>1
        <5> QED BY <1>1, <2>1, <4>1, <5>1, StraightIsBegun
      <4> QED BY <4>1
    <3>2. got' = Append(got, g)
      BY <2>1
    <3> HIDE DEF g
    <3>3. Channel!Misread
      BY <1>1, <2>1, <2>2, <3>1, <3>2 DEF Channel!Misread
    <3> QED BY <3>3 DEF Channel!Next
  <2>3. CASE ~mixed
    <3>1. got' = Append(got, begun[Len(got) + 1])
      BY <1>2, <2>1, <2>3
    <3>2. begun[Len(got) + 1] \notin Oversize
      <4>1. total = TotalLen(begun[Len(got) + 1]) /\ total <= MaxLen /\ total \in Nat
        BY <1>1, <2>1, <2>3 DEF StreamInv, InStep, TypeInv, TypeOK
      <4> QED BY <4>1, StreamAssumption DEF Oversize
    <3>3. Channel!Deliver
      BY <1>1, <1>2, <2>1, <2>3, <3>1, <3>2 DEF Channel!Deliver, Channel!Pending, Channel!NextUp
    <3> QED BY <3>3 DEF Channel!Next
  <2> QED BY <2>2, <2>3
<1> QED BY <1>3, <1>4, <1>5 DEF ReadStep

LEMMA StepRefines ==
    TypeInv /\ StreamInv /\ [Next]_vars => [Channel!Next]_(Channel!vars)
<1> SUFFICES ASSUME TypeInv, StreamInv, [Next]_vars
             PROVE  Channel!Next \/ UNCHANGED Channel!vars
  OBVIOUS
<1>1. ASSUME NEW w \in Writer, SendFails(w) PROVE UNCHANGED Channel!vars
  BY <1>1 DEF SendFails, readVars, Channel!vars
<1>2. ASSUME Renew PROVE Channel!Next
  <2>1. mode' = mode /\ mode = "peer" /\ mixed' \in BOOLEAN
        /\ begun' = <<>> /\ got' = <<>> /\ open' = TRUE
    BY <1>2 DEF Renew
  <2>2. Channel!Renew
    BY <2>1 DEF Channel!Renew
  <2> QED BY <2>2 DEF Channel!Next
<1>3. ASSUME UNCHANGED vars PROVE UNCHANGED Channel!vars
  BY <1>3 DEF vars, readVars, Channel!vars
<1> QED BY <1>1, <1>2, <1>3, SendRefines, ReadRefines DEF Next, WriteStep

(* A connection is a channel of whole packets: for clients always, for the    *)
(* link of two servers until unlocked writers tear it.                        *)
THEOREM StreamIsPacketChannel == Safety => Channel!Safety
<1>1. Init => Channel!Init
  BY DEF Init, Channel!Init
<1> QED BY <1>1, StepRefines, Invariant, PTL DEF Safety, Channel!Safety

=============================================================================
