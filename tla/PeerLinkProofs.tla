--------------------------- MODULE PeerLinkProofs ---------------------------
(* Proof that PeerLink keeps its types: with them, that a thread holds a      *)
(* socket exactly from dialling or promotion to the handshake.                *)
EXTENDS PeerLink, SequenceTheorems, TLAPS

Holding == {"bind", "refresh", "confirm", "greet"}
Without == {"idle", "connect", "look", "ping", "close", "unset"}

\* TypeOK, but for frame and for what the network and the pools hold.
NodeTypes ==
    /\ sock \in [Server -> Conn \cup {NoConn}]
    /\ up \in [Server -> BOOLEAN]
    /\ age \in [Server -> 0..DeathAge]
    /\ sess \in [Server -> SUBSET Conn]
    /\ shut \subseteq Conn \X Server
    /\ cut \subseteq Conn
    /\ rest \in [Server -> 0..DialPeriod]
    /\ faults \in Nat /\ dials \in Nat \cup {Unlimited}

WireTypes == wire \in [Conn -> [Server -> Seq(Kind)]]
PoolTypes == pool \in [Server -> Seq(Task)]
FrameTypes == frame \in [Server -> [Thread -> Frame]]

LEMMA TypeParts == TypeOK <=> NodeTypes /\ WireTypes /\ PoolTypes /\ FrameTypes
  BY DEF TypeOK, NodeTypes, WireTypes, PoolTypes, FrameTypes

LEMMA Threads == Listener \in Thread /\ Heartbeat \in Thread /\ Connector \in Thread /\ Worker \subseteq Thread
  BY DEF Thread

-----------------------------------------------------------------------------
(* Frames: a thread's label decides whether it holds a socket.                *)
LEMMA FrameParts ==
    /\ \A f \in Frame : \/ f.pc \in Holding /\ f.conn \in Conn
                        \/ f.pc \in Without /\ f.conn = NoConn
    /\ \A f \in Frame, l \in Holding : f.pc \in Holding => [f EXCEPT !.pc = l] \in Frame
    /\ \A f \in Frame, l \in Without : f.pc \in Without => [f EXCEPT !.pc = l] \in Frame
    /\ \A l \in Holding, c \in Conn : [pc |-> l, conn |-> c] \in Frame
    /\ \A l \in Without : [pc |-> l, conn |-> NoConn] \in Frame
    /\ Idle \in Frame
<1>1. \A f \in Frame : \/ f.pc \in Holding /\ f.conn \in Conn
                       \/ f.pc \in Without /\ f.conn = NoConn
  BY DEF Frame, Holding, Without
<1>2. ASSUME NEW f \in Frame, NEW l \in Holding, f.pc \in Holding PROVE [f EXCEPT !.pc = l] \in Frame
  BY <1>2 DEF Frame, Holding
<1>3. ASSUME NEW f \in Frame, NEW l \in Without, f.pc \in Without PROVE [f EXCEPT !.pc = l] \in Frame
  BY <1>3 DEF Frame, Without
<1>4. \A l \in Holding, c \in Conn : [pc |-> l, conn |-> c] \in Frame
  BY DEF Frame, Holding
<1>5. \A l \in Without : [pc |-> l, conn |-> NoConn] \in Frame
  BY DEF Frame, Without
<1>6. Idle \in Frame
  BY DEF Idle, Frame
<1> QED BY <1>1, <1>2, <1>3, <1>4, <1>5, <1>6

(* One thread gets another frame, or another label of the same sort.          *)
LEMMA MovesTypes ==
    ASSUME FrameTypes, NEW n \in Server, NEW t \in Thread, NEW f \in Frame, Moves(n, t, f)
    PROVE  FrameTypes'
  BY DEF FrameTypes, Moves

LEMMA GoesTypes ==
    ASSUME FrameTypes, NEW n \in Server, NEW t \in Thread, NEW l, Goes(n, t, l),
           \/ l \in Holding /\ frame[n][t].pc \in Holding
           \/ l \in Without /\ frame[n][t].pc \in Without
    PROVE  FrameTypes'
<1> DEFINE f == [frame[n][t] EXCEPT !.pc = l]
<1>1. frame[n][t] \in Frame
  BY DEF FrameTypes
<1>2. f \in Frame
  BY <1>1, FrameParts
<1>3. frame' = [frame EXCEPT ![n][t] = f]
  BY DEF Goes
<1> HIDE DEF f
<1> QED BY <1>2, <1>3 DEF FrameTypes

LEMMA FrameStep ==
    ASSUME FrameTypes, PoolTypes, Next
    PROVE  FrameTypes'
<1> USE Threads
<1>1. \A l \in {"bind", "refresh", "confirm", "greet"} : l \in Holding
  BY DEF Holding
<1>2. \A l \in {"idle", "connect", "look", "ping", "close", "unset"} : l \in Without
  BY DEF Without
<1>3. Idle \in Frame /\ \A c \in Conn : [pc |-> "bind", conn |-> c] \in Frame
  BY <1>1, FrameParts
<1>4. ASSUME UNCHANGED frame PROVE FrameTypes'
  BY <1>4 DEF FrameTypes
<1>5. ASSUME NEW n \in Server, ConnectorStep(n) PROVE FrameTypes'
  <2>1. CASE StartRound(n)
    <3>1. UNCHANGED frame \/ (Goes(n, Connector, "connect") /\ frame[n][Connector].pc = "idle")
      BY <2>1 DEF StartRound, At
    <3> QED BY <1>2, <1>4, <3>1, GoesTypes
  <2>2. CASE Connect(n)
    <3>1. \E c \in Conn : Free(c)
      BY <2>2 DEF Connect
    <3>2. (CHOOSE x \in Conn : Free(x)) \in Conn
      BY <3>1
    <3>3. Moves(n, Connector, [pc |-> "bind", conn |-> CHOOSE x \in Conn : Free(x)])
      BY <2>2 DEF Connect
    <3> QED BY <1>3, <3>2, <3>3, MovesTypes
  <2>3. CASE ConnectFails(n) \/ Greet(n)
    BY <1>3, <2>3, MovesTypes DEF ConnectFails, Greet
  <2> QED BY <1>5, <2>1, <2>2, <2>3 DEF ConnectorStep
<1>6. ASSUME NEW n \in Server, HeartbeatStep(n) PROVE FrameTypes'
  <2>1. \E l \in {"idle", "close", "ping"} :
           Goes(n, Heartbeat, l) /\ frame[n][Heartbeat].pc \in {"look", "ping"}
    BY <1>6 DEF HeartbeatStep, Look, Ping, PingFails, At
  <2> QED BY <1>2, <2>1, GoesTypes
<1>7. ASSUME NEW n \in Server, NEW c \in Conn,
             ReadSession(n, c) \/ SessionEof(n, c) \/ ReadPeer(n, c) \/ PeerEof(n, c)
      PROVE  FrameTypes'
  <2>1. UNCHANGED frame \/ (Goes(n, Listener, "close") /\ frame[n][Listener].pc = "idle")
    BY <1>7 DEF ReadSession, SessionEof, ReadPeer, PeerEof, Listening, At
  <2> QED BY <1>2, <1>4, <2>1, GoesTypes
<1>8. ASSUME NEW n \in Server, NEW w \in Worker, WorkerStep(n, w) PROVE FrameTypes'
  <2>1. CASE StartPromotion(n, w)
    <3>1. Head(pool[n]) \in Task
      BY <2>1 DEF StartPromotion, Started, PoolTypes
    <3>2. /\ Head(pool[n]).conn \in Conn
          /\ Moves(n, w, [pc |-> "bind", conn |-> Head(pool[n]).conn])
      BY <2>1, <3>1 DEF StartPromotion, Task
    <3> QED BY <1>3, <3>2, MovesTypes
  <2>2. CASE Refuse(n, w) \/ HandleServerPacket(n, w)
    BY <1>4, <2>2 DEF Refuse, HandleServerPacket
  <2> QED BY <1>8, <2>1, <2>2 DEF WorkerStep
<1>9. ASSUME NEW n \in Server, NEW t \in Thread, ThreadStep(n, t) PROVE FrameTypes'
  <2>1. CASE Bind(n, t)
    BY <1>1, <2>1, GoesTypes DEF Bind, At
  <2>2. CASE Refresh(n, t)
    BY <1>1, <2>2, GoesTypes DEF Refresh, At
  <2>3. CASE Confirm(n, t)
    <3>1. Moves(n, t, Idle) \/ (Goes(n, t, "greet") /\ frame[n][t].pc = "confirm")
      BY <2>3 DEF Confirm, Proceeds, At
    <3> QED BY <1>1, <1>3, <3>1, MovesTypes, GoesTypes
  <2>4. CASE CloseSock(n, t) \/ Unset(n, t)
    <3>1. \E l \in {"idle", "unset"} : Goes(n, t, l) /\ frame[n][t].pc \in {"close", "unset"}
      BY <2>4 DEF CloseSock, Unset, At
    <3> QED BY <1>2, <3>1, GoesTypes
  <2> QED BY <1>9, <2>1, <2>2, <2>3, <2>4 DEF ThreadStep, RegisterStep, DisconnectStep
<1>10. CASE Beat
  <2>1. frame' = [n \in Server |-> IF At(n, Heartbeat, "idle")
                                   THEN [frame[n] EXCEPT ![Heartbeat].pc = "look"] ELSE frame[n]]
    BY <1>10 DEF Beat
  <2>2. ASSUME NEW n \in Server, At(n, Heartbeat, "idle")
        PROVE  [frame[n] EXCEPT ![Heartbeat].pc = "look"] \in [Thread -> Frame]
    <3> DEFINE f == [frame[n][Heartbeat] EXCEPT !.pc = "look"]
    <3>1. frame[n] \in [Thread -> Frame]
      BY DEF FrameTypes
    <3>2. f \in Frame
      BY <1>2, <2>2, <3>1, FrameParts DEF At
    <3>3. [frame[n] EXCEPT ![Heartbeat].pc = "look"] = [frame[n] EXCEPT ![Heartbeat] = f]
      OBVIOUS
    <3> HIDE DEF f
    <3> QED BY <3>1, <3>2, <3>3
  <2> QED BY <2>1, <2>2 DEF FrameTypes
<1>11. ASSUME NEW c \in Conn, NetCut(c) PROVE FrameTypes'
  BY <1>4, <1>11 DEF NetCut
<1> QED BY <1>5, <1>6, <1>7, <1>8, <1>9, <1>10, <1>11 DEF Next, ReadStep

-----------------------------------------------------------------------------
(* Packets: one is added at the end or taken from the front.                  *)
LEMMA PutTypes ==
    ASSUME WireTypes, NEW n \in Server, NEW c \in Conn, NEW k \in Kind
    PROVE  Put(n, c, k) \in [Conn -> [Server -> Seq(Kind)]]
<1>1. Other[n] \in Server
  BY LinkAssumption
<1> DEFINE s == Append(wire[c][Other[n]], k)
<1>2. wire[c][Other[n]] \in Seq(Kind)
  BY <1>1 DEF WireTypes
<1>3. s \in Seq(Kind)
  BY <1>2, AppendProperties
<1>4. Put(n, c, k) = wire \/ Put(n, c, k) = [wire EXCEPT ![c][Other[n]] = s]
  BY DEF Put
<1> HIDE DEF s
<1> DEFINE row == [wire[c] EXCEPT ![Other[n]] = s]
<1>5. row \in [Server -> Seq(Kind)]
  BY <1>3 DEF WireTypes
<1>6. [wire EXCEPT ![c][Other[n]] = s] = [wire EXCEPT ![c] = row]
  OBVIOUS
<1> HIDE DEF row
<1> QED BY <1>4, <1>5, <1>6 DEF WireTypes

LEMMA TakeTypes ==
    ASSUME WireTypes, PoolTypes, NEW n \in Server, NEW c \in Conn, NEW task \in Task,
           wire[c][n] # <<>>, Take(n, c, task)
    PROVE  WireTypes' /\ PoolTypes'
<1> DEFINE s == Tail(wire[c][n])
           p == Append(pool[n], task)
<1>1. wire[c][n] \in Seq(Kind) /\ pool[n] \in Seq(Task)
  BY DEF WireTypes, PoolTypes
<1>2. s \in Seq(Kind) /\ p \in Seq(Task)
  BY <1>1, AppendProperties, HeadTailProperties
<1>3. wire' = [wire EXCEPT ![c][n] = s] /\ pool' = [pool EXCEPT ![n] = p]
  BY DEF Take
<1> HIDE DEF s, p
<1> QED BY <1>2, <1>3 DEF WireTypes, PoolTypes

LEMMA StartedTypes ==
    ASSUME PoolTypes, NEW n \in Server, NEW w \in Worker, Started(n, w)
    PROVE  PoolTypes' /\ Head(pool[n]) \in Task
<1> DEFINE p == Tail(pool[n])
<1>1. pool[n] \in Seq(Task) /\ pool[n] # <<>> /\ pool' = [pool EXCEPT ![n] = p]
  BY DEF Started, PoolTypes
<1>2. p \in Seq(Task) /\ Head(pool[n]) \in Task
  BY <1>1, HeadTailProperties
<1> HIDE DEF p
<1> QED BY <1>1, <1>2 DEF PoolTypes

LEMMA TrafficStep ==
    ASSUME NodeTypes, WireTypes, PoolTypes, FrameTypes, Next
    PROVE  WireTypes' /\ PoolTypes'
<1>1. ASSUME UNCHANGED <<wire, pool>> PROVE WireTypes' /\ PoolTypes'
  BY <1>1 DEF WireTypes, PoolTypes
<1>2. ASSUME NEW n \in Server, ConnectorStep(n) PROVE WireTypes' /\ PoolTypes'
  <2>1. CASE StartRound(n) \/ ConnectFails(n)
    BY <1>1, <2>1 DEF StartRound, ConnectFails, connVars
  <2>2. CASE Connect(n)
    <3> DEFINE c == CHOOSE x \in Conn : Free(x)
    <3>1. wire' = [wire EXCEPT ![c] = [k \in Server |-> <<>>]] /\ pool' = pool
      BY <2>2 DEF Connect
    <3>2. [k \in Server |-> <<>>] \in [Server -> Seq(Kind)]
      OBVIOUS
    <3> HIDE DEF c
    <3> QED BY <3>1, <3>2 DEF WireTypes, PoolTypes
  <2>3. CASE Greet(n)
    <3> DEFINE c == frame[n][Connector].conn
    <3>1. c \in Conn
      <4>1. frame[n][Connector] \in Frame /\ frame[n][Connector].pc = "greet"
        BY <2>3, Threads DEF Greet, At, FrameTypes
      <4> QED BY <4>1, FrameParts DEF Without
    <3>2. wire' = wire \/ wire' = Put(n, c, "hello")
      BY <2>3 DEF Greet, Handshake
    <3>3. pool' = pool /\ "hello" \in Kind
      BY <2>3 DEF Greet, Kind
    <3> HIDE DEF c
    <3>4. Put(n, c, "hello") \in [Conn -> [Server -> Seq(Kind)]]
      BY <3>1, <3>3, PutTypes
    <3> QED BY <3>2, <3>3, <3>4 DEF WireTypes, PoolTypes
  <2> QED BY <1>2, <2>1, <2>2, <2>3 DEF ConnectorStep
<1>3. ASSUME NEW n \in Server, HeartbeatStep(n) PROVE WireTypes' /\ PoolTypes'
  <2>1. /\ pool' = pool
        /\ wire' = wire \/ (sock[n] # NoConn /\ wire' = Put(n, sock[n], "ping"))
    BY <1>3 DEF HeartbeatStep, Look, Ping, PingFails, connVars
  <2>2. sock[n] # NoConn => sock[n] \in Conn
    BY DEF NodeTypes
  <2>3. "ping" \in Kind
    BY DEF Kind
  <2> QED BY <2>1, <2>2, <2>3, PutTypes DEF WireTypes, PoolTypes
<1>4. ASSUME NEW n \in Server, NEW c \in Conn,
             ReadSession(n, c) \/ SessionEof(n, c) \/ ReadPeer(n, c) \/ PeerEof(n, c)
      PROVE  WireTypes' /\ PoolTypes'
  <2>1. CASE ReadSession(n, c)
    <3>1. PICK k \in {"hello", "other"} : Take(n, c, [kind |-> k, conn |-> c])
      BY <2>1 DEF ReadSession
    <3>2. [kind |-> k, conn |-> c] \in Task
      BY DEF Task, Kind
    <3>3. wire[c][n] # <<>>
      BY <2>1 DEF ReadSession
    <3> QED BY <3>1, <3>2, <3>3, TakeTypes
  <2>2. CASE ReadPeer(n, c)
    <3>1. wire[c][n] # <<>> /\ Take(n, c, [kind |-> Head(wire[c][n]), conn |-> NoConn])
      BY <2>2 DEF ReadPeer
    <3>2. wire[c][n] \in Seq(Kind)
      BY DEF WireTypes
    <3>3. Head(wire[c][n]) \in Kind
      BY <3>1, <3>2, HeadTailProperties
    <3>4. [kind |-> Head(wire[c][n]), conn |-> NoConn] \in Task
      BY <3>3 DEF Task
    <3> QED BY <3>1, <3>4, TakeTypes
  <2>3. CASE SessionEof(n, c) \/ PeerEof(n, c)
    BY <1>1, <2>3 DEF SessionEof, PeerEof, connVars
  <2> QED BY <1>4, <2>1, <2>2, <2>3
<1>5. ASSUME NEW n \in Server, NEW w \in Worker, WorkerStep(n, w) PROVE WireTypes' /\ PoolTypes'
  <2>1. Started(n, w)
    BY <1>5 DEF WorkerStep, StartPromotion, Refuse, HandleServerPacket
  <2>2. PoolTypes' /\ Head(pool[n]) \in Task
    BY <2>1, StartedTypes
  <2>3. Head(pool[n]).conn # NoConn => Head(pool[n]).conn \in Conn
    BY <2>2 DEF Task
  <2>4. sock[n] # NoConn => sock[n] \in Conn
    BY DEF NodeTypes
  <2>5. \/ wire' = wire
        \/ Head(pool[n]).conn # NoConn /\ wire' = Put(n, Head(pool[n]).conn, "other")
        \/ sock[n] # NoConn /\ wire' = Put(n, sock[n], "ack")
    BY <1>5 DEF WorkerStep, StartPromotion, Refuse, HandleServerPacket, Answer
  <2>6. "other" \in Kind /\ "ack" \in Kind
    BY DEF Kind
  <2> QED BY <2>2, <2>3, <2>4, <2>5, <2>6, PutTypes DEF WireTypes
<1>6. ASSUME NEW n \in Server, NEW t \in Thread, ThreadStep(n, t) PROVE WireTypes' /\ PoolTypes'
  BY <1>1, <1>6 DEF ThreadStep, RegisterStep, DisconnectStep, Bind, Refresh, Confirm, CloseSock, Unset, connVars
<1>7. CASE Beat
  BY <1>1, <1>7 DEF Beat, connVars
<1>8. ASSUME NEW c \in Conn, NetCut(c) PROVE WireTypes' /\ PoolTypes'
  <2>1. wire' = [wire EXCEPT ![c] = [n \in Server |-> <<>>]] /\ pool' = pool
    BY <1>8 DEF NetCut
  <2>2. [n \in Server |-> <<>>] \in [Server -> Seq(Kind)]
    OBVIOUS
  <2> QED BY <2>1, <2>2 DEF WireTypes, PoolTypes
<1> QED BY <1>2, <1>3, <1>4, <1>5, <1>6, <1>7, <1>8 DEF Next, ReadStep

-----------------------------------------------------------------------------
LEMMA NodeStep ==
    ASSUME NodeTypes, PoolTypes, FrameTypes, Next
    PROVE  NodeTypes'
<1> USE DEF NodeTypes, nodeVars, connVars, netVars
<1>0. 0 \in 0..DialPeriod /\ DialPeriod \in 0..DialPeriod /\ 0 \in 0..DeathAge
  BY DEF DialPeriod, DeathAge
<1>1. ASSUME UNCHANGED <<sock, up, age, sess, shut, cut, rest, faults, dials>> PROVE NodeTypes'
  BY <1>1
<1>2. ASSUME NEW n \in Server, ConnectorStep(n) PROVE NodeTypes'
  <2>1. CASE StartRound(n) \/ Greet(n)
    BY <1>0, <2>1 DEF StartRound, Greet
  <2>2. CASE Connect(n)
    <3> DEFINE c == CHOOSE x \in Conn : Free(x)
    <3>1. c \in Conn /\ Other[n] \in Server
      BY <2>2, LinkAssumption DEF Connect
    <3>2. /\ sess' = [sess EXCEPT ![Other[n]] = @ \cup {c}]
          /\ shut' = {e \in shut : e[1] # c} /\ cut' = cut \ {c}
          /\ UNCHANGED <<sock, up, age, rest, faults>>
      BY <2>2 DEF Connect
    <3>3. dials' \in Nat \cup {Unlimited}
      BY <2>2 DEF Connect
    <3> HIDE DEF c
    <3>4. sess' \in [Server -> SUBSET Conn]
      BY <3>1, <3>2
    <3> QED BY <3>2, <3>3, <3>4
  <2>3. CASE ConnectFails(n)
    BY <1>0, <2>3 DEF ConnectFails
  <2> QED BY <1>2, <2>1, <2>2, <2>3 DEF ConnectorStep
<1>3. ASSUME NEW n \in Server, HeartbeatStep(n) PROVE NodeTypes'
  BY <1>1, <1>3 DEF HeartbeatStep, Look, Ping, PingFails
<1>4. ASSUME NEW n \in Server, NEW c \in Conn,
             ReadSession(n, c) \/ SessionEof(n, c) \/ ReadPeer(n, c) \/ PeerEof(n, c)
      PROVE  NodeTypes'
  <2>1. UNCHANGED <<sock, up, age, shut, cut, rest, faults, dials>>
        /\ (sess' = sess \/ sess' = [sess EXCEPT ![n] = @ \ {c}])
    BY <1>4 DEF ReadSession, SessionEof, ReadPeer, PeerEof
  <2>2. sess' \in [Server -> SUBSET Conn]
    BY <2>1
  <2> QED BY <2>1, <2>2
<1>5. ASSUME NEW n \in Server, NEW w \in Worker, WorkerStep(n, w) PROVE NodeTypes'
  <2>1. CASE StartPromotion(n, w)
    <3>1. /\ sess' = [sess EXCEPT ![n] = @ \ {Head(pool[n]).conn}]
          /\ UNCHANGED <<sock, up, age, shut, cut, rest, faults, dials>>
      BY <2>1 DEF StartPromotion
    <3>2. sess' \in [Server -> SUBSET Conn]
      BY <3>1
    <3> QED BY <3>1, <3>2
  <2>2. CASE Refuse(n, w)
    BY <1>1, <2>2 DEF Refuse
  <2>3. CASE HandleServerPacket(n, w)
    BY <1>0, <2>3 DEF HandleServerPacket, AgeAfter
  <2> QED BY <1>5, <2>1, <2>2, <2>3 DEF WorkerStep
<1>6. ASSUME NEW n \in Server, NEW t \in Thread, ThreadStep(n, t) PROVE NodeTypes'
  <2>1. CASE Bind(n, t)
    <3>1. frame[n][t].conn \in Conn
      <4>1. frame[n][t] \in Frame /\ frame[n][t].pc = "bind"
        BY <2>1 DEF Bind, At, FrameTypes
      <4> QED BY <4>1, FrameParts DEF Without
    <3> QED BY <2>1, <3>1 DEF Bind
  <2>2. CASE Refresh(n, t) \/ Confirm(n, t)
    BY <1>0, <2>2 DEF Refresh, Confirm
  <2>3. CASE CloseSock(n, t)
    <3>1. /\ shut' = shut \/ (sock[n] # NoConn /\ shut' = shut \cup {<<sock[n], n>>})
          /\ UNCHANGED <<sock, up, age, sess, cut, rest, faults, dials>>
      BY <2>3 DEF CloseSock
    <3>2. shut' \subseteq Conn \X Server
      BY <3>1
    <3> QED BY <3>1, <3>2
  <2>4. CASE Unset(n, t)
    BY <2>4 DEF Unset, UnregisterPeerSocket
  <2> QED BY <1>6, <2>1, <2>2, <2>3, <2>4 DEF ThreadStep, RegisterStep, DisconnectStep
<1>7. CASE Beat
  <2>1. /\ age' = [n \in Server |-> Older(age[n])]
        /\ rest' = [n \in Server |-> IF rest[n] = 0 THEN 0 ELSE rest[n] - 1]
        /\ UNCHANGED <<sock, up, sess, shut, cut, faults, dials>>
    BY <1>7 DEF Beat
  <2>2. \A n \in Server : Older(age[n]) \in 0..DeathAge
    BY DEF Older, DeathAge
  <2>3. \A n \in Server : (IF rest[n] = 0 THEN 0 ELSE rest[n] - 1) \in 0..DialPeriod
    BY DEF DialPeriod
  <2>4. age' \in [Server -> 0..DeathAge] /\ rest' \in [Server -> 0..DialPeriod]
    BY <2>1, <2>2, <2>3
  <2> QED BY <2>1, <2>4
<1>8. ASSUME NEW c \in Conn, NetCut(c) PROVE NodeTypes'
  <2>1. /\ faults' \in Nat /\ cut' \subseteq Conn
        /\ UNCHANGED <<sock, up, age, sess, shut, rest, dials>>
    BY <1>8 DEF NetCut
  <2> QED BY <2>1
<1> QED BY <1>2, <1>3, <1>4, <1>5, <1>6, <1>7, <1>8 DEF Next, ReadStep

LEMMA TypeInit == Init => TypeOK
<1> SUFFICES ASSUME Init PROVE TypeOK
  OBVIOUS
<1>1. NodeTypes
  <2>1. PICK s \in Starts : rest = s.rest /\ faults = s.faults /\ dials = s.dials
    BY DEF Init
  <2>2. s \in [rest : [Server -> 0..DialPeriod], faults : Nat, dials : Nat \cup {Unlimited}]
    BY LinkAssumption
  <2>3. rest \in [Server -> 0..DialPeriod] /\ faults \in Nat /\ dials \in Nat \cup {Unlimited}
    BY <2>1, <2>2
  <2>4. 0 \in 0..DeathAge
    BY DEF DeathAge
  <2> QED BY <2>3, <2>4 DEF Init, NodeTypes
<1>2. WireTypes /\ PoolTypes
  BY DEF Init, WireTypes, PoolTypes
<1>3. FrameTypes
  BY FrameParts DEF Init, FrameTypes
<1> QED BY <1>1, <1>2, <1>3, TypeParts

(* Whatever the two servers dial, promote, lose and give up, a thread holds a *)
(* socket exactly while it registers and greets with it, and the registered   *)
(* socket is a connection or none.                                            *)
THEOREM TypeCorrect == Safety => []TypeOK
<1>1. TypeOK /\ [Next]_vars => TypeOK'
  <2> SUFFICES ASSUME TypeOK, [Next]_vars PROVE TypeOK'
    OBVIOUS
  <2>1. NodeTypes /\ WireTypes /\ PoolTypes /\ FrameTypes
    BY TypeParts
  <2>2. CASE Next
    <3>1. NodeTypes' /\ WireTypes' /\ PoolTypes' /\ FrameTypes'
      BY <2>1, <2>2, NodeStep, TrafficStep, FrameStep
    <3> QED BY <3>1 DEF TypeOK, NodeTypes, WireTypes, PoolTypes, FrameTypes
  <2>3. CASE UNCHANGED vars
    BY <2>3 DEF TypeOK, vars, nodeVars, connVars, netVars
  <2> QED BY <2>2, <2>3
<1> QED BY <1>1, TypeInit, PTL DEF Safety

=============================================================================
