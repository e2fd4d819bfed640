------------------------------- MODULE Stream -------------------------------
(* Packets on one TCP connection: Serialize, the loops around Send, and       *)
(* ReadPacket.                                                                *)
(*                                                                            *)
(* The connection of a client is written by ClientSession::SendPacket, which  *)
(* holds m_sessionMutex for the whole frame.  The link of two servers is      *)
(* written without a lock: by SendAll on a socket looked up once, and by the  *)
(* loops of BroadcastS2S and HeartbeatLoop, which look the socket up again    *)
(* for every piece of a frame.  A frame is Header bytes of length, one of     *)
(* type and the payload; a byte is known by the frame it belongs to and its   *)
(* place there.  log is all that the connection ever accepted; what is under  *)
(* way and what ReadPacket has of the current frame are stretches of it.      *)
EXTENDS Integers, Sequences, FiniteSets

CONSTANTS Writer,      \* threads that write to the connection
          Packet, Size,   \* Size[p]: length of p's payload
          Header,      \* bytes of the length field
          MaxLen,      \* MAX_PAYLOAD_SIZE
          Capacity,    \* bytes that fit between the two programs
          Garbled,     \* what a mixed up length field may say
          Garbage,     \* a packet that nobody sent
          Jobs,        \* what the writers will send: a set of [Writer -> Seq(Packet)]
          Rereader,    \* writers that look the socket up for every piece
          Modes, MaxRenewals

ASSUME StreamAssumption ==
    /\ Size \in [Packet -> Nat]
    /\ Header \in Nat \ {0} /\ MaxLen \in Nat /\ Capacity \in Nat
    /\ Garbled \subseteq Nat
    /\ Garbage \notin Packet
    /\ \A j \in Jobs : j \in [Writer -> Seq(Packet)]
    /\ Rereader \subseteq Writer
    /\ Modes \subseteq {"client", "peer"}
    /\ MaxRenewals \in Nat

VARIABLES mode,     \* "client": SendPacket, "peer": the unlocked loops
          todo,     \* todo[w]: packets w is sending or will send
          frame,    \* frame[w]: number of the frame w is in the middle of, on this connection
          off,      \* off[w]: bytes of it that were accepted
          begun,    \* the packets whose frames were begun
          log,      \* the bytes accepted, [no, at] for byte at of frame no
          rd,       \* how many of them ReadPacket has taken
          have,     \* how many of those belong to the frame it is reading
          total,    \* totalLen, 0 while it is unknown
          got,      \* the packets it returned
          open,     \* it did not return false
          mixed,    \* frames were mixed up on this connection
          renewals

writeVars == <<todo, frame, off>>
readVars == <<have, total, got, open>>
vars == <<mode, writeVars, begun, log, rd, readVars, mixed, renewals>>

Init == /\ mode \in Modes
        /\ todo \in Jobs
        /\ frame = [w \in Writer |-> 0]
        /\ off = [w \in Writer |-> 0]
        /\ begun = <<>> /\ log = <<>> /\ rd = 0
        /\ have = 0 /\ total = 0 /\ got = <<>> /\ open = TRUE
        /\ mixed = FALSE
        /\ renewals = MaxRenewals

Least(a, b) == IF a < b THEN a ELSE b

\* Serialize: totalLen, without a look at the limit.
TotalLen(p) == 1 + Size[p]

FrameLen(p) == Header + 1 + Size[p]

-----------------------------------------------------------------------------
(* The writers.                                                               *)
Midway(w) == off[w] > 0

NeverWaits(w) == TRUE             \* mutant: SendPacket without m_sessionMutex

\* m_sessionMutex is held from the first byte of a frame to the last.
MayWrite(w) == mode = "client" => \A v \in Writer \ {w} : ~Midway(v)

\* One Send: as many bytes as there is room for.  With none left the loop
\* sleeps 5 ms and tries again.
Send(w) ==
    LET p == Head(todo[w])
        left == FrameLen(p) - off[w]
        k == Least(left, Capacity - (Len(log) - rd))
        n == IF Midway(w) THEN frame[w] ELSE Len(begun) + 1
    IN
    /\ todo[w] # <<>> /\ open
    /\ MayWrite(w)
    /\ k > 0
    /\ log' = log \o [i \in 1..k |-> [no |-> n, at |-> off[w] + i]]
    /\ begun' = IF Midway(w) THEN begun ELSE Append(begun, p)
    /\ IF k = left
       THEN /\ todo' = [todo EXCEPT ![w] = Tail(@)]
            /\ off' = [off EXCEPT ![w] = 0]
            /\ frame' = [frame EXCEPT ![w] = 0]
       ELSE /\ off' = [off EXCEPT ![w] = @ + k]
            /\ frame' = [frame EXCEPT ![w] = n]
            /\ UNCHANGED todo
    /\ mixed' = (mixed \/ \E v \in Writer \ {w} : Midway(v))
    /\ UNCHANGED <<mode, rd, readVars, renewals>>

\* The reader gave the connection up and closed it.
SendFails(w) ==
    /\ todo[w] # <<>> /\ ~open
    /\ todo' = [todo EXCEPT ![w] = Tail(@)]
    /\ off' = [off EXCEPT ![w] = 0]
    /\ frame' = [frame EXCEPT ![w] = 0]
    /\ UNCHANGED <<mode, begun, log, rd, readVars, mixed, renewals>>

\* RegisterPeerSocket with another socket.  A loop that looks the socket up
\* again sends the rest of its frame there; SendAll on the old one fails.
Renew ==
    LET cutOff(w) == Midway(w) /\ w \notin Rereader IN
    /\ mode = "peer" /\ renewals > 0
    /\ renewals' = renewals - 1
    /\ todo' = [w \in Writer |-> IF cutOff(w) THEN Tail(todo[w]) ELSE todo[w]]
    /\ off' = [w \in Writer |-> IF cutOff(w) THEN 0 ELSE off[w]]
    /\ frame' = [w \in Writer |-> 0]
    /\ begun' = <<>> /\ log' = <<>> /\ rd' = 0
    /\ have' = 0 /\ total' = 0 /\ got' = <<>> /\ open' = TRUE
    /\ mixed' = \E w \in Rereader : Midway(w)
    /\ UNCHANGED mode

-----------------------------------------------------------------------------
(* ReadPacket.  RecvAll takes what there is; byte by byte is no different.    *)
\* The n bytes taken last and the next one are the beginning of one frame.
Straight(n) == \A i \in 1..n : log[rd + 1 - n + i] = [no |-> log[rd + 1].no, at |-> i]

Reading == open /\ rd < Len(log)

EndPastType == Header + 1 + total   \* mutant: the payload is as long as totalLen says

End == Header + total               \* payloadLen is totalLen - 1

ReadByte ==
    /\ Reading
    /\ have + 1 < Header \/ (have >= Header /\ have + 1 < End)
    /\ rd' = rd + 1
    /\ have' = have + 1
    /\ UNCHANGED <<mode, writeVars, begun, log, total, got, open, mixed, renewals>>

AcceptsAny(len) == len >= 1       \* mutant: no limit on the length

InLimits(len) == len >= 1 /\ len <= MaxLen

\* The last byte of the length field.
ReadLength ==
    /\ Reading
    /\ have + 1 = Header
    /\ total' \in IF Straight(Header) THEN {TotalLen(begun[log[rd + 1].no])} ELSE Garbled
    /\ open' = InLimits(total')
    /\ rd' = rd + 1
    /\ have' = have + 1
    /\ UNCHANGED <<mode, writeVars, begun, log, got, mixed, renewals>>

\* The last byte of the frame.
FinishFrame ==
    /\ Reading
    /\ have >= Header /\ have + 1 = End
    /\ rd' = rd + 1
    /\ have' = 0 /\ total' = 0
    /\ got' = Append(got, IF Straight(End) THEN begun[log[rd + 1].no] ELSE Garbage)
    /\ UNCHANGED <<mode, writeVars, begun, log, open, mixed, renewals>>

-----------------------------------------------------------------------------
WriteStep(w) == Send(w) \/ SendFails(w)
ReadStep == ReadByte \/ ReadLength \/ FinishFrame

Next == (\E w \in Writer : WriteStep(w)) \/ ReadStep \/ Renew

Safety == Init /\ [][Next]_vars

(* Writers try again until they are through and the reader reads on.          *)
Spec == Safety /\ WF_vars(ReadStep) /\ \A w \in Writer : WF_vars(WriteStep(w))
-----------------------------------------------------------------------------
(* Types and sizes: ReadPacket allocates no more than the limit, no writer is *)
(* past the end of its frame.                                                 *)
TypeOK ==
    /\ mode \in Modes
    /\ todo \in [Writer -> Seq(Packet)]
    /\ off \in [Writer -> Nat] /\ frame \in [Writer -> 0..Len(begun)]
    /\ \A w \in Writer : Midway(w) => todo[w] # <<>> /\ off[w] < FrameLen(Head(todo[w]))
    /\ begun \in Seq(Packet)
    /\ log \in Seq([no : 0..Len(begun), at : Nat])
    /\ rd \in 0..Len(log) /\ have \in 0..rd
    /\ total \in Nat /\ (open => total <= MaxLen)
    /\ got \in Seq(Packet \cup {Garbage})
    /\ open \in BOOLEAN /\ mixed \in BOOLEAN
    /\ renewals \in 0..MaxRenewals

(* Without two writers in the middle of a frame at once, or a frame continued *)
(* on another socket, ReadPacket returns what was sent and in that order, and *)
(* it gives up only on a payload of MAX_PAYLOAD_SIZE or more.                 *)
Oversize == {p \in Packet : TotalLen(p) > MaxLen}
DamageHasCause ==
    ~mixed => /\ Len(got) <= Len(begun) /\ \A i \in DOMAIN got : got[i] = begun[i]
              /\ ~open => Len(got) < Len(begun) /\ begun[Len(got) + 1] \in Oversize

(* A connection is a channel of whole packets: with SendPacket always, for    *)
(* the link of two servers until two unlocked writers meet in mid-frame.      *)
Channel == INSTANCE PacketChannel WITH
              exclusive <- (mode = "client"), sent <- begun, torn <- mixed
ImplementsPacketChannel == Channel!Spec

=============================================================================
