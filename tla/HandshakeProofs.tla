-------------------------- MODULE HandshakeProofs --------------------------
(* Proofs about PeerLink: that the two servers agree on their connection, and *)
(* that the heartbeat gives up no healthy one.  Both rest on what is under    *)
(* way for a connection between Connect and the promotion at the other end.   *)
EXTENDS PeerLinkProofs, SequenceFacts

LEMMA Pairs ==
    /\ \A n \in Server : Other[n] \in Server /\ Other[n] # n /\ Other[Other[n]] = n
    /\ NoConn \notin Conn
    /\ Connector \notin Worker /\ Heartbeat \notin Worker /\ Listener \notin Worker
  BY LinkAssumption

-----------------------------------------------------------------------------
(* What a step does to each part of the state.                                *)
Dials(n, c) ==
    /\ Free(c)
    /\ sess' = [sess EXCEPT ![Other[n]] = @ \cup {c}]
    /\ wire' = [wire EXCEPT ![c] = [k \in Server |-> <<>>]]
    /\ shut' = {e \in shut : e[1] # c}
    /\ cut' = cut \ {c}
    /\ frame' = [frame EXCEPT ![n][Connector] = [pc |-> "bind", conn |-> c]]
    /\ UNCHANGED <<sock, up, age, pool>>

Dialled(c) == \E n \in Server : Dials(n, c)

LEMMA ConnectDials ==
    ASSUME NEW n \in Server, Connect(n)
    PROVE  \E c \in Conn : Dials(n, c)
<1> DEFINE c == CHOOSE x \in Conn : Free(x)
<1>1. c \in Conn /\ Free(c)
  BY DEF Connect
<1>2. /\ sess' = [sess EXCEPT ![Other[n]] = @ \cup {c}]
      /\ wire' = [wire EXCEPT ![c] = [k \in Server |-> <<>>]]
      /\ shut' = {e \in shut : e[1] # c}
      /\ cut' = cut \ {c}
      /\ Moves(n, Connector, [pc |-> "bind", conn |-> c])
      /\ UNCHANGED <<nodeVars, pool>>
  BY DEF Connect
<1> HIDE DEF c
<1> QED BY <1>1, <1>2 DEF Dials, Moves, nodeVars

(* Nothing refers to a connection that is dialled.                            *)
LEMMA DialledIsFree ==
    ASSUME PoolTypes, NEW c \in Conn, Free(c), NEW k \in Server
    PROVE  /\ sock[k] # c /\ c \notin sess[k]
           /\ \A t \in Thread : frame[k][t].conn # c
           /\ \A j \in ToSet(pool[k]) : j.conn # c
  BY DEF Free, Held, PoolTypes, ToSet

Moved(k, t) ==
    \/ t = Connector /\ (StartRound(k) \/ Connect(k) \/ ConnectFails(k) \/ Greet(k))
    \/ t = Heartbeat /\ (Look(k) \/ Ping(k) \/ PingFails(k))
    \/ t = Heartbeat /\ Beat /\ At(k, t, "idle")
    \/ t = Listener /\ \E c \in Conn : PeerEof(k, c)
    \/ t \in Worker /\ StartPromotion(k, t)
    \/ Bind(k, t) \/ Refresh(k, t) \/ Confirm(k, t) \/ CloseSock(k, t) \/ Unset(k, t)

(* A frame changes by a step of its thread, or when a beat wakes the          *)
(* heartbeat.                                                                 *)
LEMMA MoverIsOwn ==
    ASSUME FrameTypes, Next, NEW k \in Server, NEW t \in Thread
    PROVE  frame'[k][t] = frame[k][t] \/ Moved(k, t)
<1> USE Threads
<1>1. ASSUME NEW n \in Server, NEW x \in Thread, NEW f, Moves(n, x, f), n # k \/ x # t
      PROVE  frame'[k][t] = frame[k][t]
  BY <1>1 DEF Moves, FrameTypes
<1>2. ASSUME NEW n \in Server, NEW x \in Thread, NEW l, Goes(n, x, l), n # k \/ x # t
      PROVE  frame'[k][t] = frame[k][t]
  BY <1>2 DEF Goes, FrameTypes
<1>3. ASSUME NEW n \in Server, ConnectorStep(n), n # k \/ t # Connector
      PROVE  frame'[k][t] = frame[k][t]
  <2>1. UNCHANGED frame \/ Goes(n, Connector, "connect") \/ \E f : Moves(n, Connector, f)
    BY <1>3 DEF ConnectorStep, StartRound, Connect, ConnectFails, Greet
  <2> QED BY <1>1, <1>2, <1>3, <2>1
<1>4. ASSUME NEW n \in Server, HeartbeatStep(n), n # k \/ t # Heartbeat
      PROVE  frame'[k][t] = frame[k][t]
  <2>1. \E l : Goes(n, Heartbeat, l)
    BY <1>4 DEF HeartbeatStep, Look, Ping, PingFails
  <2> QED BY <1>2, <1>4, <2>1
<1>5. ASSUME NEW n \in Server, NEW c \in Conn,
             ReadSession(n, c) \/ SessionEof(n, c) \/ ReadPeer(n, c) \/ PeerEof(n, c),
             ~(PeerEof(n, c) /\ n = k /\ t = Listener)
      PROVE  frame'[k][t] = frame[k][t]
  <2>1. UNCHANGED frame \/ (Goes(n, Listener, "close") /\ PeerEof(n, c))
    BY <1>5 DEF ReadSession, SessionEof, ReadPeer, PeerEof
  <2> QED BY <1>2, <1>5, <2>1
<1>6. ASSUME NEW n \in Server, NEW w \in Worker, WorkerStep(n, w), ~(StartPromotion(n, w) /\ n = k /\ w = t)
      PROVE  frame'[k][t] = frame[k][t]
  <2>1. UNCHANGED frame \/ (StartPromotion(n, w) /\ \E f : Moves(n, w, f))
    BY <1>6 DEF WorkerStep, StartPromotion, Refuse, HandleServerPacket
  <2> QED BY <1>1, <1>6, <2>1
<1>7. ASSUME NEW n \in Server, NEW x \in Thread, ThreadStep(n, x), n # k \/ x # t
      PROVE  frame'[k][t] = frame[k][t]
  <2>1. (\E l : Goes(n, x, l)) \/ \E f : Moves(n, x, f)
    BY <1>7 DEF ThreadStep, RegisterStep, DisconnectStep, Bind, Refresh, Confirm, Proceeds, CloseSock, Unset
  <2> QED BY <1>1, <1>2, <1>7, <2>1
<1>8. ASSUME Beat, ~(t = Heartbeat /\ At(k, t, "idle"))
      PROVE  frame'[k][t] = frame[k][t]
  <2>1. frame'[k] = IF At(k, Heartbeat, "idle") THEN [frame[k] EXCEPT ![Heartbeat].pc = "look"] ELSE frame[k]
    BY <1>8 DEF Beat
  <2> QED BY <1>8, <2>1 DEF FrameTypes, At
<1>9. ASSUME NEW c \in Conn, NetCut(c) PROVE frame'[k][t] = frame[k][t]
  BY <1>9 DEF NetCut
<1>a. CASE \E n \in Server : ConnectorStep(n) \/ HeartbeatStep(n)
  BY <1>a, <1>3, <1>4 DEF Moved, ConnectorStep, HeartbeatStep
<1>b. CASE \E n \in Server : ReadStep(n)
  BY <1>b, <1>5 DEF Moved, ReadStep
<1>c. CASE \E n \in Server : \E w \in Worker : WorkerStep(n, w)
  BY <1>c, <1>6 DEF Moved
<1>d. CASE \E n \in Server : \E x \in Thread : ThreadStep(n, x)
  BY <1>d, <1>7 DEF Moved, ThreadStep, RegisterStep, DisconnectStep
<1>e. CASE Beat
  BY <1>e, <1>8 DEF Moved
<1> QED BY <1>9, <1>a, <1>b, <1>c, <1>d, <1>e DEF Next

(* How a thread comes by a socket: the connector dials, a worker promotes.    *)
LEMMA HolderEffect ==
    ASSUME FrameTypes, Next, NEW k \in Server, NEW t \in Thread
    PROVE  \/ frame'[k][t].conn = NoConn
           \/ /\ frame'[k][t].conn = frame[k][t].conn
              /\ frame'[k][t].pc = "bind" => frame[k][t].pc = "bind"
           \/ t = Connector /\ \E c \in Conn : Dials(k, c) /\ frame'[k][t] = [pc |-> "bind", conn |-> c]
           \/ t \in Worker /\ StartPromotion(k, t) /\ frame'[k][t] = [pc |-> "bind", conn |-> Head(pool[k]).conn]
<1>1. ASSUME NEW l, Goes(k, t, l), l # "bind"
      PROVE  frame'[k][t].conn = frame[k][t].conn /\ frame'[k][t].pc # "bind"
  <2>1. frame[k][t] \in Frame
    BY DEF FrameTypes
  <2>2. frame'[k][t] = [frame[k][t] EXCEPT !.pc = l]
    BY <1>1 DEF Goes, FrameTypes
  <2> QED BY <1>1, <2>1, <2>2 DEF Frame
<1>2. ASSUME NEW f, Moves(k, t, f) PROVE frame'[k][t] = f
  BY <1>2 DEF Moves, FrameTypes
<1>3. Idle.conn = NoConn
  BY DEF Idle
<1>4. CASE t = Connector /\ (StartRound(k) \/ ConnectFails(k) \/ Greet(k))
  <2>1. UNCHANGED frame \/ Goes(k, t, "connect") \/ Moves(k, t, Idle)
    BY <1>4 DEF StartRound, ConnectFails, Greet
  <2> QED BY <1>1, <1>2, <1>3, <2>1
<1>5. CASE t = Connector /\ Connect(k)
  <2>1. PICK c \in Conn : Dials(k, c)
    BY <1>5, ConnectDials
  <2>2. frame'[k][t] = [pc |-> "bind", conn |-> c]
    BY <1>5, <2>1 DEF Dials, FrameTypes
  <2> QED BY <1>5, <2>1, <2>2
<1>6. CASE t = Heartbeat /\ (Look(k) \/ Ping(k) \/ PingFails(k))
  <2>1. \E l : Goes(k, t, l) /\ l # "bind"
    BY <1>6 DEF Look, Ping, PingFails
  <2> QED BY <1>1, <2>1
<1>7. CASE t = Heartbeat /\ Beat /\ At(k, t, "idle")
  <2>1. frame'[k] = [frame[k] EXCEPT ![t].pc = "look"]
    BY <1>7 DEF Beat
  <2>2. frame'[k][t] = [frame[k][t] EXCEPT !.pc = "look"] /\ frame[k][t] \in Frame
    BY <2>1 DEF FrameTypes
  <2> QED BY <2>2 DEF Frame
<1>8. CASE t = Listener /\ \E c \in Conn : PeerEof(k, c)
  BY <1>1, <1>8 DEF PeerEof
<1>9. CASE t \in Worker /\ StartPromotion(k, t)
  BY <1>2, <1>9 DEF StartPromotion
<1>a. CASE Bind(k, t) \/ Refresh(k, t) \/ CloseSock(k, t) \/ Unset(k, t)
  <2>1. \E l : Goes(k, t, l) /\ l # "bind"
    BY <1>a DEF Bind, Refresh, CloseSock, Unset
  <2> QED BY <1>1, <2>1
<1>b. CASE Confirm(k, t)
  <2>1. Goes(k, t, "greet") \/ Moves(k, t, Idle)
    BY <1>b DEF Confirm, Proceeds
  <2> QED BY <1>1, <1>2, <1>3, <2>1
<1> QED BY <1>4, <1>5, <1>6, <1>7, <1>8, <1>9, <1>a, <1>b, MoverIsOwn DEF Moved

(* What a thread is about to do it does itself.                               *)
LEMMA LabelKept ==
    ASSUME FrameTypes, Next, NEW k \in Server, NEW t \in Thread
    PROVE  /\ At(k, t, "refresh") => At(k, t, "refresh")' \/ Refresh(k, t)
           /\ At(k, t, "unset") => At(k, t, "unset")' \/ Unset(k, t)
           /\ t = Heartbeat /\ At(k, t, "look") => At(k, t, "look")' \/ Look(k)
           /\ t = Heartbeat /\ At(k, t, "ping") => At(k, t, "ping")' \/ Ping(k) \/ PingFails(k)
<1>1. frame'[k][t] = frame[k][t] \/ Moved(k, t)
  BY MoverIsOwn
<1>2. frame'[k][t] = frame[k][t] => \A l : At(k, t, l) => At(k, t, l)'
  BY DEF At
<1>3. Moved(k, t) => \/ At(k, t, "idle") \/ At(k, t, "connect") \/ At(k, t, "greet")
                     \/ At(k, t, "bind") \/ At(k, t, "confirm") \/ At(k, t, "close")
                     \/ t = Heartbeat /\ (Look(k) \/ Ping(k) \/ PingFails(k))
                     \/ Refresh(k, t) \/ Unset(k, t)
  BY DEF Moved, StartRound, Connect, ConnectFails, Greet, PeerEof, Listening,
         StartPromotion, Started, Bind, Confirm, CloseSock
<1>4. /\ Look(k) => At(k, Heartbeat, "look")
      /\ Ping(k) \/ PingFails(k) => At(k, Heartbeat, "ping")
      /\ Refresh(k, t) => At(k, t, "refresh")
      /\ Unset(k, t) => At(k, t, "unset")
  BY DEF Look, Ping, PingFails, Refresh, Unset
<1> HIDE DEF Moved
<1> QED BY <1>1, <1>2, <1>3, <1>4 DEF At

(* The ServerNode: a socket is registered by Bind and given up by Unset.      *)
LEMMA NodeEffect ==
    ASSUME NodeTypes, Next, NEW k \in Server
    PROVE  \/ sock'[k] = NoConn
           \/ \E t \in Thread : Bind(k, t)
           \/ sock'[k] = sock[k] /\ (up'[k] = up[k] \/ (up'[k] /\ \E t \in Thread : Confirm(k, t)))
<1> USE DEF nodeVars, NodeTypes
<1>1. ASSUME UNCHANGED <<sock, up>>
      PROVE  sock'[k] = sock[k] /\ up'[k] = up[k]
  BY <1>1
<1>2. CASE \E n \in Server : ConnectorStep(n) \/ HeartbeatStep(n)
  BY <1>2 DEF ConnectorStep, StartRound, Connect, ConnectFails, Greet, HeartbeatStep, Look, Ping, PingFails
<1>3. CASE \E n \in Server : ReadStep(n)
  BY <1>3 DEF ReadStep, ReadSession, SessionEof, ReadPeer, PeerEof
<1>4. CASE \E n \in Server : \E w \in Worker : WorkerStep(n, w)
  BY <1>4 DEF WorkerStep, StartPromotion, Refuse, HandleServerPacket
<1>5. ASSUME NEW n \in Server, NEW t \in Thread, ThreadStep(n, t)
      PROVE  \/ sock'[k] = NoConn
             \/ \E x \in Thread : Bind(k, x)
             \/ sock'[k] = sock[k] /\ (up'[k] = up[k] \/ (up'[k] /\ \E x \in Thread : Confirm(k, x)))
  <2>1. CASE Bind(n, t)
    BY <2>1 DEF Bind
  <2>2. CASE Refresh(n, t) \/ CloseSock(n, t)
    BY <2>2 DEF Refresh, CloseSock
  <2>3. CASE Confirm(n, t)
    <3>1. CASE n = k
      <4>1. sock'[k] = sock[k] /\ up'[k]
        BY <2>3, <3>1 DEF Confirm
      <4> QED BY <2>3, <3>1, <4>1
    <3>2. CASE n # k
      BY <2>3, <3>2 DEF Confirm
    <3> QED BY <3>1, <3>2
  <2>4. CASE Unset(n, t)
    BY <2>4 DEF Unset, UnregisterPeerSocket
  <2> QED BY <1>5, <2>1, <2>2, <2>3, <2>4 DEF ThreadStep, RegisterStep, DisconnectStep
<1>6. CASE Beat \/ \E c \in Conn : NetCut(c)
  BY <1>6 DEF Beat, NetCut
<1> QED BY <1>2, <1>3, <1>4, <1>5, <1>6 DEF Next

(* Only a beat makes a time stamp older.                                      *)
LEMMA AgeEffect ==
    ASSUME NodeTypes, FrameTypes, Next, ~Beat, NEW k \in Server
    PROVE  /\ age'[k] = age[k] \/ age'[k] = 0
           /\ \A t \in Thread : Refresh(k, t) \/ Confirm(k, t) => age'[k] = 0
<1> USE DEF nodeVars, NodeTypes
<1>1. ASSUME NEW t \in Thread, Refresh(k, t) \/ Confirm(k, t) PROVE age'[k] = 0
  BY <1>1 DEF Refresh, Confirm
<1>2. CASE \E n \in Server : ConnectorStep(n) \/ HeartbeatStep(n)
  BY <1>1, <1>2 DEF ConnectorStep, StartRound, Connect, ConnectFails, Greet, HeartbeatStep, Look, Ping, PingFails
<1>3. CASE \E n \in Server : ReadStep(n)
  BY <1>1, <1>3 DEF ReadStep, ReadSession, SessionEof, ReadPeer, PeerEof
<1>4. CASE \E n \in Server : \E w \in Worker : WorkerStep(n, w)
  BY <1>1, <1>4 DEF WorkerStep, StartPromotion, Refuse, HandleServerPacket, AgeAfter
<1>5. CASE \E n \in Server : \E t \in Thread : ThreadStep(n, t)
  BY <1>1, <1>5 DEF ThreadStep, RegisterStep, DisconnectStep, Bind, Refresh, Confirm, CloseSock, Unset
<1>6. CASE \E c \in Conn : NetCut(c)
  BY <1>1, <1>6 DEF NetCut
<1> QED BY <1>1, <1>2, <1>3, <1>4, <1>5, <1>6 DEF Next

(* A session is added when its connection is dialled.                         *)
LEMMA SessionEffect ==
    ASSUME NodeTypes, Next, NEW k \in Server
    PROVE  /\ \A e \in sess'[k] : e \in sess[k] \/ Dials(Other[k], e)
           /\ \A w \in Worker : StartPromotion(k, w) => Head(pool[k]).conn \notin sess'[k]
<1> USE DEF connVars, NodeTypes
<1>7. ASSUME NEW w \in Worker, StartPromotion(k, w) PROVE Head(pool[k]).conn \notin sess'[k]
  BY <1>7 DEF StartPromotion
<1> SUFFICES ASSUME NEW c \in sess'[k], c \notin sess[k] PROVE Dials(Other[k], c)
  BY <1>7
<1>1. ASSUME NEW n \in Server, Connect(n)
      PROVE  Dials(Other[k], c)
  <2>1. PICK d \in Conn : Dials(n, d)
    BY <1>1, ConnectDials
  <2>2. Other[n] = k /\ c = d
    BY <1>1, <2>1, Pairs DEF Dials
  <2> QED BY <2>1, <2>2, Pairs
<1>2. CASE \E n \in Server : ConnectorStep(n) \/ HeartbeatStep(n)
  BY <1>1, <1>2 DEF ConnectorStep, StartRound, ConnectFails, Greet, HeartbeatStep, Look, Ping, PingFails
<1>3. CASE \E n \in Server : ReadStep(n)
  BY <1>3 DEF ReadStep, ReadSession, SessionEof, ReadPeer, PeerEof
<1>4. CASE \E n \in Server : \E w \in Worker : WorkerStep(n, w)
  BY <1>4 DEF WorkerStep, StartPromotion, Refuse, HandleServerPacket
<1>5. CASE \E n \in Server : \E t \in Thread : ThreadStep(n, t)
  BY <1>5 DEF ThreadStep, RegisterStep, DisconnectStep, Bind, Refresh, Confirm, CloseSock, Unset
<1>6. CASE Beat \/ \E d \in Conn : NetCut(d)
  BY <1>6 DEF Beat, NetCut
<1> QED BY <1>2, <1>3, <1>4, <1>5, <1>6 DEF Next, ConnectorStep

(* Ends stay closed and cuts cut until the connection is dialled again.       *)
LEMMA EndEffect ==
    ASSUME NodeTypes, Next, NEW k \in Server, NEW c \in Conn
    PROVE  /\ <<c, k>> \in shut' => <<c, k>> \in shut \/ (sock[k] = c /\ \E t \in Thread : CloseSock(k, t))
           /\ <<c, k>> \in shut => <<c, k>> \in shut' \/ Dialled(c)
           /\ c \in cut => c \in cut' \/ Dialled(c)
<1> USE DEF connVars, NodeTypes
<1>1. CASE \E n \in Server : Connect(n)
  <2>1. PICK n \in Server, d \in Conn : Dials(n, d)
    BY <1>1, ConnectDials
  <2> QED BY <2>1 DEF Dials, Dialled
<1>2. CASE \E n \in Server : StartRound(n) \/ ConnectFails(n) \/ Greet(n) \/ HeartbeatStep(n)
  BY <1>2 DEF StartRound, ConnectFails, Greet, HeartbeatStep, Look, Ping, PingFails
<1>3. CASE \E n \in Server : ReadStep(n)
  BY <1>3 DEF ReadStep, ReadSession, SessionEof, ReadPeer, PeerEof
<1>4. CASE \E n \in Server : \E w \in Worker : WorkerStep(n, w)
  BY <1>4 DEF WorkerStep, StartPromotion, Refuse, HandleServerPacket
<1>5. CASE \E n \in Server : \E t \in Thread : ThreadStep(n, t)
  BY <1>5 DEF ThreadStep, RegisterStep, DisconnectStep, Bind, Refresh, Confirm, CloseSock, Unset
<1>6. CASE Beat \/ \E d \in Conn : NetCut(d)
  BY <1>6 DEF Beat, NetCut
<1> QED BY <1>1, <1>2, <1>3, <1>4, <1>5, <1>6 DEF Next, ConnectorStep

(* A packet arrives at the end of the connection's other direction, or        *)
(* nowhere.                                                                   *)
LEMMA PutEffect ==
    ASSUME WireTypes, NEW n \in Server, NEW c \in Conn, NEW x, NEW d \in Conn, NEW k \in Server
    PROVE  /\ \/ Put(n, c, x)[d][k] = wire[d][k]
              \/ d = c /\ k = Other[n] /\ Put(n, c, x)[d][k] = Append(wire[d][k], x)
           /\ Alive(Other[n], c) /\ c \notin cut => Put(n, c, x)[c][Other[n]] = Append(wire[c][Other[n]], x)
<1>1. Other[n] \in Server
  BY Pairs
<1> DEFINE p == [wire EXCEPT ![c][Other[n]] = Append(@, x)]
<1>2. /\ p[c][Other[n]] = Append(wire[c][Other[n]], x)
      /\ d # c \/ k # Other[n] => p[d][k] = wire[d][k]
  BY <1>1 DEF WireTypes
<1>3. Put(n, c, x) = IF Alive(Other[n], c) /\ c \notin cut THEN p ELSE wire
  BY DEF Put
<1> HIDE DEF p
<1> QED BY <1>2, <1>3

Answers == {"ping", "ack", "other"}

WireStep(d, k) ==
    \/ wire'[d][k] = wire[d][k]
    \/ \E x \in Answers : wire'[d][k] = Append(wire[d][k], x)
    \/ Greet(Other[k]) /\ frame[Other[k]][Connector].conn = d /\ wire'[d][k] = Append(wire[d][k], "hello")
    \/ wire[d][k] # <<>> /\ wire'[d][k] = Tail(wire[d][k]) /\ (ReadSession(k, d) \/ ReadPeer(k, d))
    \/ wire'[d][k] = <<>> /\ (NetCut(d) \/ Dialled(d))

(* What happens to the packets that server k will read from connection d.     *)
LEMMA WireEffect ==
    ASSUME NodeTypes, WireTypes, PoolTypes, FrameTypes, Next, NEW d \in Conn, NEW k \in Server
    PROVE  WireStep(d, k)
<1>1. ASSUME UNCHANGED wire PROVE WireStep(d, k)
  BY <1>1 DEF WireStep
<1>2. ASSUME NEW n \in Server, NEW c \in Conn, NEW x \in Answers, wire' = Put(n, c, x)
      PROVE  WireStep(d, k)
  BY <1>2, PutEffect DEF WireStep
<1>3. ASSUME NEW n \in Server, NEW c \in Conn, NEW task, Take(n, c, task), wire[c][n] # <<>>,
             ReadSession(n, c) \/ ReadPeer(n, c)
      PROVE  WireStep(d, k)
  <2>1. CASE c = d /\ n = k
    <3>1. wire'[d][k] = Tail(wire[d][k])
      BY <1>3, <2>1 DEF Take, WireTypes
    <3> QED BY <1>3, <2>1, <3>1 DEF WireStep
  <2>2. CASE c # d \/ n # k
    <3>1. wire'[d][k] = wire[d][k]
      BY <1>3, <2>2 DEF Take, WireTypes
    <3> QED BY <3>1 DEF WireStep
  <2> QED BY <2>1, <2>2
<1>4. ASSUME NEW n \in Server, ConnectorStep(n) PROVE WireStep(d, k)
  <2>1. CASE StartRound(n) \/ ConnectFails(n)
    BY <1>1, <2>1 DEF StartRound, ConnectFails, connVars
  <2>2. CASE Connect(n)
    <3>1. PICK c \in Conn : Dials(n, c)
      BY <2>2, ConnectDials
    <3>2. wire'[d][k] = IF c = d THEN <<>> ELSE wire[d][k]
      BY <3>1 DEF Dials, WireTypes
    <3> QED BY <3>1, <3>2 DEF WireStep, Dialled
  <2>3. CASE Greet(n)
    <3> DEFINE c == frame[n][Connector].conn
    <3>1. c \in Conn
      <4>1. frame[n][Connector] \in Frame /\ frame[n][Connector].pc = "greet"
        BY <2>3, Threads DEF Greet, At, FrameTypes
      <4> QED BY <4>1, FrameParts DEF Without
    <3>2. wire' = wire \/ wire' = Put(n, c, "hello")
      BY <2>3 DEF Greet, Handshake
    <3>3. CASE wire' = Put(n, c, "hello")
      <4>1. \/ wire'[d][k] = wire[d][k]
            \/ d = c /\ k = Other[n] /\ wire'[d][k] = Append(wire[d][k], "hello")
        BY <3>1, <3>3, PutEffect
      <4> QED BY <2>3, <4>1, Pairs DEF WireStep
    <3> QED BY <1>1, <3>2, <3>3
  <2> QED BY <1>4, <2>1, <2>2, <2>3 DEF ConnectorStep
<1>5. ASSUME NEW n \in Server, HeartbeatStep(n) PROVE WireStep(d, k)
  <2>1. wire' = wire \/ (sock[n] \in Conn /\ wire' = Put(n, sock[n], "ping"))
    BY <1>5 DEF HeartbeatStep, Look, Ping, PingFails, connVars, NodeTypes
  <2> QED BY <1>1, <1>2, <2>1 DEF Answers
<1>6. ASSUME NEW n \in Server, NEW c \in Conn,
             ReadSession(n, c) \/ SessionEof(n, c) \/ ReadPeer(n, c) \/ PeerEof(n, c)
      PROVE  WireStep(d, k)
  <2>1. CASE ReadSession(n, c) \/ ReadPeer(n, c)
    BY <1>3, <2>1 DEF ReadSession, ReadPeer
  <2>2. CASE SessionEof(n, c) \/ PeerEof(n, c)
    BY <1>1, <2>2 DEF SessionEof, PeerEof, connVars
  <2> QED BY <1>6, <2>1, <2>2
<1>7. ASSUME NEW n \in Server, NEW w \in Worker, WorkerStep(n, w) PROVE WireStep(d, k)
  <2>1. Started(n, w)
    BY <1>7 DEF WorkerStep, StartPromotion, Refuse, HandleServerPacket
  <2>2. Head(pool[n]) \in Task
    BY <2>1, StartedTypes
  <2>3. Head(pool[n]).conn # NoConn => Head(pool[n]).conn \in Conn
    BY <2>2 DEF Task
  <2>4. sock[n] # NoConn => sock[n] \in Conn
    BY DEF NodeTypes
  <2>5. \/ wire' = wire
        \/ Head(pool[n]).conn # NoConn /\ wire' = Put(n, Head(pool[n]).conn, "other")
        \/ sock[n] # NoConn /\ wire' = Put(n, sock[n], "ack")
    BY <1>7 DEF WorkerStep, StartPromotion, Refuse, HandleServerPacket, Answer
  <2> QED BY <1>1, <1>2, <2>3, <2>4, <2>5 DEF Answers
<1>8. ASSUME NEW n \in Server, NEW t \in Thread, ThreadStep(n, t) PROVE WireStep(d, k)
  BY <1>1, <1>8 DEF ThreadStep, RegisterStep, DisconnectStep, Bind, Refresh, Confirm, CloseSock, Unset, connVars
<1>9. CASE Beat
  BY <1>1, <1>9 DEF Beat, connVars
<1>a. ASSUME NEW c \in Conn, NetCut(c) PROVE WireStep(d, k)
  <2>1. wire'[d][k] = IF c = d THEN <<>> ELSE wire[d][k]
    BY <1>a DEF NetCut, WireTypes
  <2> QED BY <1>a, <2>1 DEF WireStep
<1> QED BY <1>4, <1>5, <1>6, <1>7, <1>8, <1>9, <1>a DEF Next, ReadStep

PoolStep(k) ==
    \/ pool'[k] = pool[k]
    \/ \E c \in Conn : /\ ReadSession(k, c)
                       /\ pool'[k] = Append(pool[k], [kind |-> IF Head(wire[c][k]) = "hello" THEN "hello" ELSE "other",
                                                      conn |-> c])
    \/ \E c \in Conn : /\ ReadPeer(k, c)
                       /\ pool'[k] = Append(pool[k], [kind |-> Head(wire[c][k]), conn |-> NoConn])
    \/ \E w \in Worker : /\ pool[k] # <<>> /\ pool'[k] = Tail(pool[k])
                         /\ StartPromotion(k, w) \/ Refuse(k, w) \/ HandleServerPacket(k, w)

(* What happens to the tasks of server k.                                     *)
LEMMA PoolEffect ==
    ASSUME PoolTypes, Next, NEW k \in Server
    PROVE  PoolStep(k)
<1>1. ASSUME UNCHANGED pool PROVE PoolStep(k)
  BY <1>1 DEF PoolStep
<1>2. CASE \E n \in Server : ConnectorStep(n) \/ HeartbeatStep(n)
  BY <1>1, <1>2 DEF ConnectorStep, StartRound, Connect, ConnectFails, Greet, HeartbeatStep, Look, Ping, PingFails
<1>3. ASSUME NEW n \in Server, ReadStep(n), n # k PROVE PoolStep(k)
  <2>1. pool'[k] = pool[k]
    BY <1>3 DEF ReadStep, ReadSession, SessionEof, ReadPeer, PeerEof, Take, PoolTypes
  <2> QED BY <2>1 DEF PoolStep
<1>4. CASE ReadStep(k)
  <2>1. PICK c \in Conn : ReadSession(k, c) \/ SessionEof(k, c) \/ ReadPeer(k, c) \/ PeerEof(k, c)
    BY <1>4 DEF ReadStep
  <2>2. CASE ReadSession(k, c) \/ ReadPeer(k, c)
    <3>1. ASSUME NEW task, Take(k, c, task) PROVE pool'[k] = Append(pool[k], task)
      BY <3>1 DEF Take, PoolTypes
    <3>2. \/ ReadSession(k, c) /\ Take(k, c, [kind |-> IF Head(wire[c][k]) = "hello" THEN "hello" ELSE "other", conn |-> c])
          \/ ReadPeer(k, c) /\ Take(k, c, [kind |-> Head(wire[c][k]), conn |-> NoConn])
      BY <2>2 DEF ReadSession, ReadPeer
    <3> QED BY <3>1, <3>2 DEF PoolStep
  <2>3. CASE SessionEof(k, c) \/ PeerEof(k, c)
    BY <1>1, <2>3 DEF SessionEof, PeerEof
  <2> QED BY <2>1, <2>2, <2>3
<1>5. ASSUME NEW n \in Server, NEW w \in Worker, WorkerStep(n, w) PROVE PoolStep(k)
  <2>1. pool' = [pool EXCEPT ![n] = Tail(@)] /\ pool[n] # <<>>
    BY <1>5 DEF WorkerStep, StartPromotion, Refuse, HandleServerPacket, Started
  <2>2. CASE n = k
    <3>1. pool[k] # <<>> /\ pool'[k] = Tail(pool[k])
      BY <2>1, <2>2 DEF PoolTypes
    <3> QED BY <1>5, <2>2, <3>1 DEF PoolStep, WorkerStep
  <2>3. CASE n # k
    BY <2>1, <2>3 DEF PoolTypes, PoolStep
  <2> QED BY <2>2, <2>3
<1>6. CASE \E n \in Server : \E t \in Thread : ThreadStep(n, t)
  BY <1>1, <1>6 DEF ThreadStep, RegisterStep, DisconnectStep, Bind, Refresh, Confirm, CloseSock, Unset
<1>7. CASE Beat \/ \E c \in Conn : NetCut(c)
  BY <1>1, <1>7 DEF Beat, NetCut
<1> QED BY <1>2, <1>3, <1>4, <1>5, <1>6, <1>7 DEF Next

(* The same for one packet and one task.                                      *)
LEMMA PacketEffect ==
    ASSUME NodeTypes, WireTypes, PoolTypes, FrameTypes, Next,
           NEW c \in Conn, NEW k \in Server, NEW x \in Kind
    PROVE  /\ x \in ToSet(wire'[c][k]) => \/ x \in ToSet(wire[c][k])
                                          \/ x \in Answers
                                          \/ x = "hello" /\ Greet(Other[k]) /\ frame[Other[k]][Connector].conn = c
           /\ x \in ToSet(wire[c][k]) => \/ x \in ToSet(wire'[c][k])
                                         \/ NetCut(c) \/ Dialled(c)
                                         \/ x = Head(wire[c][k]) /\ (ReadSession(k, c) \/ ReadPeer(k, c))
<1>0. wire[c][k] \in Seq(Kind) /\ Answers \subseteq Kind /\ "hello" \in Kind
  BY DEF WireTypes, Answers, Kind
<1>1. CASE wire'[c][k] = wire[c][k]
  BY <1>1
<1>2. ASSUME NEW y \in Answers, wire'[c][k] = Append(wire[c][k], y)
      PROVE  ToSet(wire'[c][k]) = ToSet(wire[c][k]) \cup {y}
  BY <1>0, <1>2, ToSetAppend
<1>3. CASE Greet(Other[k]) /\ frame[Other[k]][Connector].conn = c /\ wire'[c][k] = Append(wire[c][k], "hello")
  <2>1. ToSet(wire'[c][k]) = ToSet(wire[c][k]) \cup {"hello"}
    BY <1>0, <1>3, ToSetAppend
  <2> QED BY <1>3, <2>1
<1>4. CASE wire[c][k] # <<>> /\ wire'[c][k] = Tail(wire[c][k]) /\ (ReadSession(k, c) \/ ReadPeer(k, c))
  <2>1. ToSet(wire[c][k]) = {Head(wire[c][k])} \cup ToSet(wire'[c][k])
    BY <1>0, <1>4, ToSetHeadTail
  <2> QED BY <1>4, <2>1
<1>5. CASE wire'[c][k] = <<>> /\ (NetCut(c) \/ Dialled(c))
  BY <1>5, ToSetEmpty
<1> QED BY <1>1, <1>2, <1>3, <1>4, <1>5, WireEffect DEF WireStep

LEMMA TaskEffect ==
    ASSUME NodeTypes, WireTypes, PoolTypes, Next, NEW k \in Server, NEW j \in Task
    PROVE  /\ j \in ToSet(pool'[k]) =>
                 \/ j \in ToSet(pool[k])
                 \/ j.conn = NoConn
                 \/ j.kind = "other"
                 \/ \E c \in Conn : ReadSession(k, c) /\ Head(wire[c][k]) = "hello" /\ j.kind = "hello" /\ j.conn = c
           /\ j \in ToSet(pool[k]) =>
                 \/ j \in ToSet(pool'[k])
                 \/ \E w \in Worker : /\ j = Head(pool[k])
                                      /\ StartPromotion(k, w) \/ Refuse(k, w) \/ HandleServerPacket(k, w)
<1>0. pool[k] \in Seq(Task)
  BY DEF PoolTypes
<1>1. CASE pool'[k] = pool[k]
  BY <1>1
<1>2. ASSUME NEW c \in Conn, ReadSession(k, c),
             pool'[k] = Append(pool[k], [kind |-> IF Head(wire[c][k]) = "hello" THEN "hello" ELSE "other", conn |-> c])
      PROVE  \E e \in Task : /\ ToSet(pool'[k]) = ToSet(pool[k]) \cup {e}
                             /\ e.conn = c /\ e.kind = IF Head(wire[c][k]) = "hello" THEN "hello" ELSE "other"
  <2> DEFINE e == [kind |-> IF Head(wire[c][k]) = "hello" THEN "hello" ELSE "other", conn |-> c]
  <2>1. e \in Task
    BY DEF Task, Kind
  <2>2. ToSet(pool'[k]) = ToSet(pool[k]) \cup {e}
    BY <1>0, <1>2, <2>1, ToSetAppend
  <2> QED BY <2>1, <2>2
<1>3. ASSUME NEW c \in Conn, ReadPeer(k, c), pool'[k] = Append(pool[k], [kind |-> Head(wire[c][k]), conn |-> NoConn])
      PROVE  \E e \in Task : ToSet(pool'[k]) = ToSet(pool[k]) \cup {e} /\ e.conn = NoConn
  <2> DEFINE e == [kind |-> Head(wire[c][k]), conn |-> NoConn]
  <2>1. wire[c][k] \in Seq(Kind) /\ wire[c][k] # <<>>
    BY <1>3 DEF WireTypes, ReadPeer
  <2>2. Head(wire[c][k]) \in Kind
    BY <2>1, HeadTailProperties
  <2>3. e \in Task
    BY <2>2 DEF Task
  <2>4. ToSet(pool'[k]) = ToSet(pool[k]) \cup {e}
    BY <1>0, <1>3, <2>3, ToSetAppend
  <2> QED BY <2>3, <2>4
<1>4. ASSUME NEW w \in Worker, pool[k] # <<>>, pool'[k] = Tail(pool[k]),
             StartPromotion(k, w) \/ Refuse(k, w) \/ HandleServerPacket(k, w)
      PROVE  ToSet(pool[k]) = {Head(pool[k])} \cup ToSet(pool'[k])
  BY <1>0, <1>4, ToSetHeadTail
<1>5. ASSUME NEW c \in Conn, ReadSession(k, c), NEW e \in Task, e.conn = c,
             e.kind = IF Head(wire[c][k]) = "hello" THEN "hello" ELSE "other"
      PROVE  e.kind = "other" \/ (Head(wire[c][k]) = "hello" /\ e.kind = "hello")
  BY <1>5
<1>6. CASE \E c \in Conn : ReadSession(k, c) /\ \E e \in Task :
              /\ ToSet(pool'[k]) = ToSet(pool[k]) \cup {e}
              /\ e.conn = c /\ e.kind = IF Head(wire[c][k]) = "hello" THEN "hello" ELSE "other"
  <2>1. PICK c \in Conn, e \in Task :
              /\ ReadSession(k, c)
              /\ ToSet(pool'[k]) = ToSet(pool[k]) \cup {e}
              /\ e.conn = c /\ e.kind = IF Head(wire[c][k]) = "hello" THEN "hello" ELSE "other"
    BY <1>6
  <2>2. CASE j = e
    BY <1>5, <2>1, <2>2
  <2>3. CASE j # e
    BY <2>1, <2>3
  <2> QED BY <2>2, <2>3
<1>7. CASE \E e \in Task : ToSet(pool'[k]) = ToSet(pool[k]) \cup {e} /\ e.conn = NoConn
  BY <1>7
<1>8. PoolStep(k)
  BY PoolEffect
<1>9. CASE \E w \in Worker : /\ pool[k] # <<>> /\ pool'[k] = Tail(pool[k])
                             /\ StartPromotion(k, w) \/ Refuse(k, w) \/ HandleServerPacket(k, w)
  BY <1>4, <1>9
<1> QED BY <1>1, <1>2, <1>3, <1>6, <1>7, <1>8, <1>9 DEF PoolStep

-----------------------------------------------------------------------------
(* The strengthening, in five parts.  First what is under way for connection  *)
(* c, from dialling to the promotion at its accepting end m.                  *)
Hello(c) == [kind |-> "hello", conn |-> c]
Dialling(n, c) == frame[n][Connector].conn = c
HelloSent(m, c) == "hello" \in ToSet(wire[c][m])
HelloWaits(m, c) == Hello(c) \in ToSet(pool[m])
Promotes(m, t, c) == frame[m][t].pc = "bind" /\ frame[m][t].conn = c

(* The socket of a session is not registered, not closed, and in nobody's     *)
(* hands; a server with a registered socket counts its peer as connected.     *)
NotInHand(m, c) == \A t \in Thread : frame[m][t].conn # c
Untouched(m, c) == sock[m] # c /\ <<c, m>> \notin shut
Exclusive == \A m \in Server, c \in Conn : c \in sess[m] => Untouched(m, c) /\ NotInHand(m, c)
Raised == \A n \in Server : sock[n] # NoConn => up[n]

(* A handshake is under way once, and only while the end that it is for was   *)
(* not registered.                                                            *)
Once(s, x) == \A i, j \in 1..Len(s) : s[i] = x /\ s[j] = x => i = j
OneDialling(m, c) == Dialling(Other[m], c) =>
    ~HelloSent(m, c) /\ ~HelloWaits(m, c) /\ NotInHand(m, c) /\ Untouched(m, c)
OneSent(m, c) == HelloSent(m, c) =>
    ~HelloWaits(m, c) /\ NotInHand(m, c) /\ Untouched(m, c) /\ Once(wire[c][m], "hello")
OneWaits(m, c) == HelloWaits(m, c) =>
    NotInHand(m, c) /\ Untouched(m, c) /\ Once(pool[m], Hello(c))
OnePromotes(m, c) == \A t \in Thread : Promotes(m, t, c) =>
    /\ ~HelloSent(m, c) /\ ~HelloWaits(m, c) /\ Untouched(m, c)
    /\ \A x \in Thread : frame[m][x].conn = c => x = t
OneHandshake == \A m \in Server, c \in Conn :
    OneDialling(m, c) /\ OneSent(m, c) /\ OneWaits(m, c) /\ OnePromotes(m, c)

(* An accepted connection will be promoted, or it is dead.                    *)
Accepted == \A m \in Server, c \in Conn : c \in sess[m] =>
    \/ Dialling(Other[m], c) \/ HelloSent(m, c) \/ HelloWaits(m, c)
    \/ c \in cut \/ ~Alive(Other[m], c)

(* Who closed a registered socket has yet to give it up.                      *)
ClosedIsLeft == \A n \in Server, c \in Conn :
    sock[n] = c /\ <<c, n>> \in shut => \E t \in Thread : At(n, t, "unset")

Types == NodeTypes /\ WireTypes /\ PoolTypes /\ FrameTypes

LEMMA HeldConn ==
    ASSUME FrameTypes, NEW k \in Server, NEW t \in Thread
    PROVE  /\ frame[k][t].conn \in Conn \cup {NoConn}
           /\ frame[k][t].pc \in Without => frame[k][t].conn = NoConn
           /\ frame[k][t].pc \in Holding => frame[k][t].conn \in Conn
<1>1. frame[k][t] \in Frame
  BY DEF FrameTypes
<1>2. Holding \cap Without = {}
  BY DEF Holding, Without
<1> QED BY <1>1, <1>2, FrameParts

LEMMA RaisedStep == ASSUME Types, Raised, Next PROVE Raised'
<1> SUFFICES ASSUME NEW n \in Server, sock'[n] # NoConn PROVE up'[n]
  BY DEF Raised
<1>1. CASE \E t \in Thread : Bind(n, t)
  BY <1>1 DEF Bind, Types, NodeTypes
<1> QED BY <1>1, NodeEffect DEF Raised, Types

(* Where a connection in a thread's hands comes from.                         *)
LEMMA InHandEffect ==
    ASSUME Types, Next, NEW m \in Server, NEW c \in Conn, NEW t \in Thread, frame'[m][t].conn = c
    PROVE  \/ frame[m][t].conn = c /\ (frame'[m][t].pc = "bind" => frame[m][t].pc = "bind")
           \/ t = Connector /\ Dials(m, c)
           \/ /\ t \in Worker /\ StartPromotion(m, t)
              /\ Head(pool[m]) = Hello(c) /\ HelloWaits(m, c)
<1>1. CASE t = Connector /\ \E d \in Conn : Dials(m, d) /\ frame'[m][t] = [pc |-> "bind", conn |-> d]
  BY <1>1
<1>2. CASE t \in Worker /\ StartPromotion(m, t) /\ frame'[m][t] = [pc |-> "bind", conn |-> Head(pool[m]).conn]
  <2>1. pool[m] \in Seq(Task) /\ pool[m] # <<>> /\ Head(pool[m]).kind = "hello" /\ Head(pool[m]).conn = c
    BY <1>2 DEF StartPromotion, Started, Types, PoolTypes
  <2>2. Head(pool[m]) \in Task /\ Head(pool[m]) \in ToSet(pool[m])
    BY <2>1, ToSetHeadTail
  <2>3. Head(pool[m]) = Hello(c)
    BY <2>1, <2>2 DEF Task, Hello
  <2> QED BY <1>2, <2>2, <2>3 DEF HelloWaits
<1> QED BY <1>1, <1>2, HolderEffect, Pairs DEF Types

(* A socket that is registered was in a thread's hands.                       *)
LEMMA SockEffect ==
    ASSUME Types, Next, NEW m \in Server, NEW c \in Conn, sock'[m] = c
    PROVE  sock[m] = c \/ \E t \in Thread : Bind(m, t) /\ Promotes(m, t, c)
<1>1. ASSUME NEW t \in Thread, Bind(m, t) PROVE Promotes(m, t, c)
  BY <1>1 DEF Bind, At, Promotes, Types, NodeTypes
<1> QED BY <1>1, NodeEffect, Pairs DEF Types

LEMMA ExclusiveStep == ASSUME Types, Exclusive, Next PROVE Exclusive'
<1> SUFFICES ASSUME NEW m \in Server, NEW c \in Conn, c \in sess'[m]
             PROVE  /\ sock'[m] # c /\ <<c, m>> \notin shut'
                    /\ \A t \in Thread : frame'[m][t].conn # c
  BY DEF Exclusive, Untouched, NotInHand
<1>1. CASE c \notin sess[m]
  <2>1. Dials(Other[m], c) /\ Other[m] \in Server /\ Other[m] # m
    BY <1>1, SessionEffect, Pairs DEF Types
  <2>2. sock[m] # c /\ \A t \in Thread : frame[m][t].conn # c
    BY <2>1, DialledIsFree DEF Dials, Types
  <2>3. frame'[m] = frame[m] /\ sock' = sock /\ <<c, m>> \notin shut'
    BY <2>1 DEF Dials, Types, FrameTypes
  <2> QED BY <2>2, <2>3
<1>2. CASE c \in sess[m]
  <2>1. sock[m] # c /\ <<c, m>> \notin shut /\ \A t \in Thread : frame[m][t].conn # c
    BY <1>2 DEF Exclusive, Untouched, NotInHand
  <2>2. sock'[m] # c
    BY <2>1, SockEffect DEF Promotes
  <2>3. <<c, m>> \notin shut'
    BY <2>1, EndEffect DEF Types
  <2>4. ASSUME NEW t \in Thread, frame'[m][t].conn = c PROVE FALSE
    <3>1. CASE Dials(m, c)
      BY <1>2, <3>1, DialledIsFree DEF Dials, Types
    <3>2. CASE t \in Worker /\ StartPromotion(m, t) /\ Head(pool[m]) = Hello(c)
      BY <3>2, SessionEffect DEF Types, Hello
    <3> QED BY <2>1, <2>4, <3>1, <3>2, InHandEffect
  <2> QED BY <2>2, <2>3, <2>4
<1> QED BY <1>1, <1>2

(* Once, and appending, and taking the front.                                 *)
LEMMA OnceAppend ==
    ASSUME NEW S, NEW s \in Seq(S), NEW e \in S, NEW x, Once(s, x), e = x => x \notin ToSet(s)
    PROVE  Once(Append(s, e), x)
<1> DEFINE a == Append(s, e)
<1>1. /\ Len(s) \in Nat /\ Len(a) = Len(s) + 1 /\ a[Len(s) + 1] = e
      /\ \A i \in 1..Len(s) : a[i] = s[i]
  OBVIOUS
<1>2. \A i \in 1..Len(s) : s[i] \in ToSet(s)
  BY DEF ToSet
<1> HIDE DEF a
<1>3. ASSUME NEW i \in 1..Len(a), NEW j \in 1..Len(a), a[i] = x, a[j] = x PROVE i = j
  <2>1. CASE i \in 1..Len(s) /\ j \in 1..Len(s)
    BY <1>1, <1>3, <2>1 DEF Once
  <2>2. CASE i = Len(s) + 1 \/ j = Len(s) + 1
    <3>1. e = x
      BY <1>1, <1>3, <2>2
    <3>2. \A k \in 1..Len(s) : a[k] # x
      BY <1>1, <1>2, <3>1
    <3> QED BY <1>1, <1>3, <3>2
  <2> QED BY <1>1, <2>1, <2>2
<1> QED BY <1>3 DEF Once, a

LEMMA OnceTail ==
    ASSUME NEW S, NEW s \in Seq(S), s # <<>>, NEW x, Once(s, x)
    PROVE  /\ Once(Tail(s), x)
           /\ Head(s) = x => x \notin ToSet(Tail(s))
<1>1. /\ Len(s) \in Nat \ {0} /\ Len(Tail(s)) = Len(s) - 1 /\ Head(s) = s[1]
      /\ DOMAIN Tail(s) = 1..(Len(s) - 1)
      /\ \A i \in 1..(Len(s) - 1) : Tail(s)[i] = s[i + 1]
  OBVIOUS
<1>2. ASSUME NEW i \in 1..(Len(s) - 1), NEW j \in 1..(Len(s) - 1), Tail(s)[i] = x, Tail(s)[j] = x
      PROVE  i = j
  <2>1. i + 1 \in 1..Len(s) /\ j + 1 \in 1..Len(s) /\ s[i + 1] = x /\ s[j + 1] = x
    BY <1>1, <1>2
  <2>2. i + 1 = j + 1
    BY <2>1 DEF Once
  <2> QED BY <2>2
<1>3. ASSUME Head(s) = x, NEW i \in 1..(Len(s) - 1), Tail(s)[i] = x PROVE FALSE
  <2>1. i + 1 \in 1..Len(s) /\ 1 \in 1..Len(s) /\ s[i + 1] = x /\ s[1] = x
    BY <1>1, <1>3
  <2>2. i + 1 = 1
    BY <2>1 DEF Once
  <2> QED BY <2>2
<1> QED BY <1>1, <1>2, <1>3 DEF Once, ToSet

LEMMA DialsEffect ==
    ASSUME Types, NEW k \in Server, NEW c \in Conn, Dials(k, c), NEW m \in Server
    PROVE  /\ wire'[c][m] = <<>> /\ ~HelloSent(m, c)' /\ ~HelloWaits(m, c)' /\ Untouched(m, c)'
           /\ \A x \in Thread : frame'[m][x].conn = c => x = Connector /\ m = k
           /\ ~Dialling(m, c) /\ ~HelloWaits(m, c) /\ NotInHand(m, c)
<1>1. /\ sock[m] # c /\ \A t \in Thread : frame[m][t].conn # c
      /\ \A j \in ToSet(pool[m]) : j.conn # c
  BY DialledIsFree DEF Dials, Types
<1>2. wire'[c][m] = <<>> /\ sock' = sock /\ pool' = pool /\ <<c, m>> \notin shut'
  BY DEF Dials, Types, WireTypes
<1>3. ~HelloSent(m, c)'
  BY <1>2, ToSetEmpty DEF HelloSent
<1>4. ~HelloWaits(m, c) /\ ~HelloWaits(m, c)'
  BY <1>1, <1>2 DEF HelloWaits, Hello
<1>5. \A x \in Thread : frame'[m][x].conn = c => x = Connector /\ m = k
  BY <1>1 DEF Dials, Types, FrameTypes
<1> QED BY <1>1, <1>2, <1>3, <1>4, <1>5, Threads DEF Untouched, Dialling, NotInHand

(* Parts of OneHandshake that a step leaves alone.                            *)
LEMMA UntouchedStep ==
    ASSUME Types, Next, NEW m \in Server, NEW c \in Conn, Untouched(m, c),
           \A t \in Thread : ~(Promotes(m, t, c) /\ Bind(m, t))
    PROVE  Untouched(m, c)'
  BY SockEffect, EndEffect DEF Untouched, Types

LEMMA NotInHandStep ==
    ASSUME Types, Next, NEW m \in Server, NEW c \in Conn, NotInHand(m, c), ~Dials(m, c), ~HelloWaits(m, c)
    PROVE  NotInHand(m, c)'
<1> SUFFICES ASSUME NEW t \in Thread, frame'[m][t].conn = c PROVE FALSE
  BY DEF NotInHand
<1> QED BY InHandEffect DEF NotInHand

LEMMA NoHelloStep ==
    ASSUME Types, Next, NEW m \in Server, NEW c \in Conn
    PROVE  /\ HelloSent(m, c)' => HelloSent(m, c) \/ (Greet(Other[m]) /\ Dialling(Other[m], c))
           /\ HelloWaits(m, c)' => \/ HelloWaits(m, c)
                                   \/ /\ ReadSession(m, c) /\ HelloSent(m, c)
                                      /\ Head(wire[c][m]) = "hello" /\ wire'[c][m] = Tail(wire[c][m])
<1>1. "hello" \in Kind /\ "hello" \notin Answers /\ Hello(c) \in Task /\ Hello(c).conn = c /\ Hello(c).kind = "hello"
  BY DEF Kind, Answers, Hello, Task
<1>2. ASSUME ReadSession(m, c), Head(wire[c][m]) = "hello"
      PROVE  HelloSent(m, c) /\ wire'[c][m] = Tail(wire[c][m])
  <2>1. wire[c][m] \in Seq(Kind) /\ wire[c][m] # <<>>
    BY <1>2 DEF ReadSession, Types, WireTypes
  <2>2. Head(wire[c][m]) \in ToSet(wire[c][m])
    BY <2>1, ToSetHeadTail
  <2> QED BY <1>2, <2>2 DEF ReadSession, Take, HelloSent, Types, WireTypes
<1>3. HelloSent(m, c)' => HelloSent(m, c) \/ (Greet(Other[m]) /\ Dialling(Other[m], c))
  BY <1>1, PacketEffect DEF HelloSent, Dialling, Types
<1>4. HelloWaits(m, c)' => HelloWaits(m, c) \/ (ReadSession(m, c) /\ Head(wire[c][m]) = "hello")
  BY <1>1, TaskEffect, Pairs DEF HelloWaits, Types
<1> QED BY <1>2, <1>3, <1>4

LEMMA DialledHandshake ==
    ASSUME Types, NEW c \in Conn, Dialled(c), NEW m \in Server
    PROVE  (OneDialling(m, c) /\ OneSent(m, c) /\ OneWaits(m, c) /\ OnePromotes(m, c))'
<1>1. PICK k \in Server : Dials(k, c)
  BY DEF Dialled
<1>2. /\ ~HelloSent(m, c)' /\ ~HelloWaits(m, c)' /\ Untouched(m, c)'
      /\ \A x \in Thread : frame'[m][x].conn = c => x = Connector /\ m = k
  BY <1>1, DialsEffect
<1>3. Dialling(Other[m], c)' => Other[m] = k
  BY <1>1, DialsEffect, Pairs, Threads DEF Dialling
<1>4. Dialling(Other[m], c)' => NotInHand(m, c)'
  BY <1>2, <1>3, Pairs DEF NotInHand
<1>5. OnePromotes(m, c)'
  BY <1>2 DEF OnePromotes, Promotes
<1> QED BY <1>2, <1>4, <1>5 DEF OneDialling, OneSent, OneWaits

LEMMA OneDiallingStep ==
    ASSUME Types, OneHandshake, Next, NEW m \in Server, NEW c \in Conn, ~Dialled(c)
    PROVE  OneDialling(m, c)'
<1> SUFFICES ASSUME Dialling(Other[m], c)'
             PROVE  ~HelloSent(m, c)' /\ ~HelloWaits(m, c)' /\ NotInHand(m, c)' /\ Untouched(m, c)'
  BY DEF OneDialling
<1>1. Dialling(Other[m], c)
  <2>1. Other[m] \in Server /\ Connector \in Thread /\ Connector \notin Worker /\ frame'[Other[m]][Connector].conn = c
    BY Pairs, Threads DEF Dialling
  <2> QED BY <2>1, InHandEffect DEF Dialling, Dialled
<1>2. ~HelloSent(m, c) /\ ~HelloWaits(m, c) /\ NotInHand(m, c) /\ Untouched(m, c)
  BY <1>1 DEF OneHandshake, OneDialling
<1>3. ~Greet(Other[m])
  <2>1. SUFFICES ASSUME Greet(Other[m]) PROVE frame'[Other[m]][Connector] = Idle
    BY Pairs DEF Dialling, Idle
  <2> QED BY <2>1, Pairs, Threads DEF Greet, Moves, Types, FrameTypes
<1>4. NotInHand(m, c)' /\ ~Dials(m, c)
  BY <1>2, NotInHandStep DEF Dialled
<1>5. Untouched(m, c)'
  BY <1>2, UntouchedStep DEF NotInHand, Promotes
<1> QED BY <1>2, <1>3, <1>4, <1>5, NoHelloStep

LEMMA OneSentStep ==
    ASSUME Types, OneHandshake, Next, NEW m \in Server, NEW c \in Conn, ~Dialled(c)
    PROVE  OneSent(m, c)'
<1> SUFFICES ASSUME HelloSent(m, c)'
             PROVE  ~HelloWaits(m, c)' /\ NotInHand(m, c)' /\ Untouched(m, c)' /\ Once(wire'[c][m], "hello")
  BY DEF OneSent
<1>0. wire[c][m] \in Seq(Kind) /\ Answers \subseteq Kind /\ "hello" \in Kind /\ "hello" \notin Answers
  BY DEF Types, WireTypes, Answers, Kind
<1>1. /\ HelloSent(m, c) \/ (Greet(Other[m]) /\ Dialling(Other[m], c))
      /\ Dialling(Other[m], c) => ~HelloSent(m, c)
  BY NoHelloStep DEF OneHandshake, OneDialling
<1>2. ~HelloWaits(m, c) /\ NotInHand(m, c) /\ Untouched(m, c)
  BY <1>1 DEF OneHandshake, OneDialling, OneSent
<1>3. Once(wire[c][m], "hello")
  <2>1. CASE HelloSent(m, c)
    BY <2>1 DEF OneHandshake, OneSent
  <2>2. CASE ~HelloSent(m, c)
    <3>1. \A i \in 1..Len(wire[c][m]) : wire[c][m][i] \in ToSet(wire[c][m])
      BY <1>0 DEF ToSet
    <3> QED BY <2>2, <3>1 DEF Once, HelloSent
  <2> QED BY <2>1, <2>2
<1>4. Once(wire'[c][m], "hello")
  <2>1. CASE \E x \in Answers : wire'[c][m] = Append(wire[c][m], x)
    BY <1>0, <1>3, <2>1, OnceAppend
  <2>2. CASE Greet(Other[m]) /\ frame[Other[m]][Connector].conn = c /\ wire'[c][m] = Append(wire[c][m], "hello")
    <3>1. "hello" \notin ToSet(wire[c][m])
      BY <1>1, <2>2 DEF HelloSent, Dialling
    <3> QED BY <1>0, <1>3, <2>2, <3>1, OnceAppend
  <2>3. CASE wire[c][m] # <<>> /\ wire'[c][m] = Tail(wire[c][m])
    BY <1>0, <1>3, <2>3, OnceTail
  <2>4. wire'[c][m] # <<>>
    BY ToSetEmpty DEF HelloSent
  <2> QED BY <1>3, <2>1, <2>2, <2>3, <2>4, WireEffect DEF WireStep, Types
<1>5. ~HelloWaits(m, c)'
  <2>1. SUFFICES ASSUME ReadSession(m, c), Head(wire[c][m]) = "hello", wire'[c][m] = Tail(wire[c][m]) PROVE FALSE
    BY <1>2, NoHelloStep
  <2>2. wire[c][m] # <<>>
    BY <2>1 DEF ReadSession
  <2> QED BY <1>0, <1>3, <2>1, <2>2, OnceTail DEF HelloSent
<1>6. NotInHand(m, c)'
  BY <1>2, NotInHandStep DEF Dialled
<1>7. Untouched(m, c)'
  BY <1>2, UntouchedStep DEF NotInHand, Promotes
<1> QED BY <1>4, <1>5, <1>6, <1>7

(* A worker that takes a handshake takes the only one.                        *)
LEMMA TakenOnce ==
    ASSUME Types, NEW m \in Server, NEW c \in Conn, NEW t \in Thread, OneWaits(m, c),
           StartPromotion(m, t), Head(pool[m]) = Hello(c)
    PROVE  Hello(c) \notin ToSet(pool'[m])
<1>1. pool[m] \in Seq(Task) /\ pool[m] # <<>> /\ pool'[m] = Tail(pool[m])
  BY DEF StartPromotion, Started, Types, PoolTypes
<1>2. HelloWaits(m, c)
  BY <1>1, ToSetHeadTail DEF HelloWaits
<1> QED BY <1>1, <1>2, OnceTail DEF OneWaits

LEMMA OneWaitsStep ==
    ASSUME Types, OneHandshake, Next, NEW m \in Server, NEW c \in Conn, ~Dialled(c)
    PROVE  OneWaits(m, c)'
<1> SUFFICES ASSUME HelloWaits(m, c)'
             PROVE  NotInHand(m, c)' /\ Untouched(m, c)' /\ Once(pool'[m], Hello(c))
  BY DEF OneWaits
<1>0. pool[m] \in Seq(Task) /\ Hello(c) \in Task /\ Hello(c).conn = c /\ Hello(c).kind = "hello"
  BY DEF Types, PoolTypes, Hello, Task, Kind
<1>1. HelloWaits(m, c) \/ HelloSent(m, c)
  BY NoHelloStep
<1>2. NotInHand(m, c) /\ Untouched(m, c) /\ (HelloSent(m, c) => ~HelloWaits(m, c)) /\ OneWaits(m, c)
  BY <1>1 DEF OneHandshake, OneSent, OneWaits
<1>3. Once(pool[m], Hello(c))
  <2>1. CASE HelloWaits(m, c)
    BY <1>2, <2>1 DEF OneWaits
  <2>2. CASE ~HelloWaits(m, c)
    <3>1. \A i \in 1..Len(pool[m]) : pool[m][i] \in ToSet(pool[m])
      BY <1>0 DEF ToSet
    <3> QED BY <2>2, <3>1 DEF Once, HelloWaits
  <2> QED BY <2>1, <2>2
<1>4. Once(pool'[m], Hello(c))
  <2>1. ASSUME NEW d \in Conn, ReadSession(m, d), NEW e \in Task, pool'[m] = Append(pool[m], e),
               e.conn = d, e.kind = "hello" => Head(wire[d][m]) = "hello"
        PROVE  Once(pool'[m], Hello(c))
    <3>1. e = Hello(c) => Hello(c) \notin ToSet(pool[m])
      <4>1. SUFFICES ASSUME e = Hello(c) PROVE ~HelloWaits(m, c)
        BY DEF HelloWaits
      <4>2. d = c /\ Head(wire[c][m]) = "hello" /\ wire[c][m] # <<>> /\ wire[c][m] \in Seq(Kind)
        BY <1>0, <2>1, <4>1 DEF ReadSession, Types, WireTypes
      <4>3. HelloSent(m, c)
        BY <4>2, ToSetHeadTail DEF HelloSent
      <4> QED BY <1>2, <4>3
    <3> QED BY <1>0, <1>3, <2>1, <3>1, OnceAppend
  <2>2. ASSUME NEW d \in Conn, ReadPeer(m, d), pool'[m] = Append(pool[m], [kind |-> Head(wire[d][m]), conn |-> NoConn])
        PROVE  Once(pool'[m], Hello(c))
    <3> DEFINE e == [kind |-> Head(wire[d][m]), conn |-> NoConn]
    <3>1. wire[d][m] \in Seq(Kind) /\ wire[d][m] # <<>>
      BY <2>2 DEF ReadPeer, Types, WireTypes
    <3>2. Head(wire[d][m]) \in Kind
      BY <3>1, ToSetHeadTail
    <3>3. e \in Task /\ e.conn = NoConn
      BY <3>2 DEF Task
    <3>4. e # Hello(c)
      BY <1>0, <3>3, Pairs
    <3> QED BY <1>0, <1>3, <2>2, <3>3, <3>4, OnceAppend
  <2>3. ASSUME pool[m] # <<>>, pool'[m] = Tail(pool[m]) PROVE Once(pool'[m], Hello(c))
    BY <1>0, <1>3, <2>3, OnceTail
  <2>4. ASSUME NEW d \in Conn PROVE
          LET e == [kind |-> IF Head(wire[d][m]) = "hello" THEN "hello" ELSE "other", conn |-> d] IN
          e \in Task /\ e.conn = d /\ (e.kind = "hello" => Head(wire[d][m]) = "hello")
    BY DEF Task, Kind
  <2>5. ASSUME NEW d \in Conn, ReadSession(m, d),
               pool'[m] = Append(pool[m], [kind |-> IF Head(wire[d][m]) = "hello" THEN "hello" ELSE "other", conn |-> d])
        PROVE  Once(pool'[m], Hello(c))
    BY <2>1, <2>4, <2>5
  <2>6. CASE pool'[m] = pool[m]
    BY <1>3, <2>6
  <2>7. PoolStep(m)
    BY PoolEffect DEF Types
  <2> QED BY <2>2, <2>3, <2>5, <2>6, <2>7 DEF PoolStep
<1>5. NotInHand(m, c)'
  <2>1. SUFFICES ASSUME NEW t \in Thread, frame'[m][t].conn = c PROVE FALSE
    BY DEF NotInHand
  <2>2. StartPromotion(m, t) /\ Head(pool[m]) = Hello(c)
    BY <1>2, <2>1, InHandEffect DEF NotInHand, Dialled
  <2> QED BY <1>2, <2>2, TakenOnce DEF HelloWaits
<1>6. Untouched(m, c)'
  BY <1>2, UntouchedStep DEF NotInHand, Promotes
<1> QED BY <1>4, <1>5, <1>6

LEMMA OnePromotesStep ==
    ASSUME Types, OneHandshake, Next, NEW m \in Server, NEW c \in Conn, ~Dialled(c)
    PROVE  OnePromotes(m, c)'
<1> SUFFICES ASSUME NEW t \in Thread, Promotes(m, t, c)'
             PROVE  /\ ~HelloSent(m, c)' /\ ~HelloWaits(m, c)' /\ Untouched(m, c)'
                    /\ \A x \in Thread : frame'[m][x].conn = c => x = t
  BY DEF OnePromotes
<1>1. frame'[m][t].pc = "bind" /\ frame'[m][t].conn = c
  BY DEF Promotes
<1>2. OneDialling(m, c) /\ OneSent(m, c) /\ OneWaits(m, c) /\ OnePromotes(m, c)
  BY DEF OneHandshake
<1>3. CASE Promotes(m, t, c)
  <2>1. /\ ~HelloSent(m, c) /\ ~HelloWaits(m, c) /\ Untouched(m, c)
        /\ \A x \in Thread : frame[m][x].conn = c => x = t
    BY <1>2, <1>3 DEF OnePromotes
  <2>2. ~Dialling(Other[m], c)
    BY <1>2, <1>3 DEF OneDialling, NotInHand, Promotes
  <2>3. ~HelloSent(m, c)' /\ ~HelloWaits(m, c)'
    BY <2>1, <2>2, NoHelloStep
  <2>4. ~Bind(m, t)
    <3>1. SUFFICES ASSUME Goes(m, t, "refresh") PROVE FALSE
      BY DEF Bind
    <3>2. frame[m][t] \in Frame /\ frame'[m][t] = [frame[m][t] EXCEPT !.pc = "refresh"]
      BY <3>1 DEF Goes, Types, FrameTypes
    <3>3. frame'[m][t].pc = "refresh"
      BY <3>2 DEF Frame
    <3> QED BY <1>1, <3>3
  <2>5. Untouched(m, c)'
    BY <2>1, <2>4, UntouchedStep DEF Promotes
  <2>6. \A x \in Thread : frame'[m][x].conn = c => x = t
    BY <2>1, InHandEffect DEF Dialled
  <2> QED BY <2>3, <2>5, <2>6
<1>4. CASE t \in Worker /\ StartPromotion(m, t) /\ Head(pool[m]) = Hello(c) /\ HelloWaits(m, c)
  <2>1. NotInHand(m, c) /\ Untouched(m, c) /\ ~HelloSent(m, c) /\ ~Dialling(Other[m], c)
    BY <1>2, <1>4 DEF OneWaits, OneSent, OneDialling
  <2>2. ~HelloSent(m, c)' /\ ~HelloWaits(m, c)'
    BY <1>2, <1>4, <2>1, NoHelloStep, TakenOnce DEF HelloWaits
  <2>3. Untouched(m, c)'
    BY <2>1, UntouchedStep DEF NotInHand, Promotes
  <2>4. \A x \in Thread : x # t => frame'[m][x] = frame[m][x]
    BY <1>4 DEF StartPromotion, Moves, Types, FrameTypes
  <2> QED BY <2>1, <2>2, <2>3, <2>4 DEF NotInHand
<1> QED BY <1>1, <1>3, <1>4, InHandEffect DEF Promotes, Dialled

LEMMA OneHandshakeStep == ASSUME Types, OneHandshake, Next PROVE OneHandshake'
<1> SUFFICES ASSUME NEW m \in Server, NEW c \in Conn
             PROVE  (OneDialling(m, c) /\ OneSent(m, c) /\ OneWaits(m, c) /\ OnePromotes(m, c))'
  BY DEF OneHandshake
<1> QED BY DialledHandshake, OneDiallingStep, OneSentStep, OneWaitsStep, OnePromotesStep

(* Nothing brings an end to life but dialling.                                *)
LEMMA AliveStep ==
    ASSUME Types, Next, NEW n \in Server, NEW c \in Conn, ~Dialled(c), Alive(n, c)'
    PROVE  Alive(n, c)
<1>1. <<c, n>> \notin shut' /\ Held(n, c)'
  BY DEF Alive
<1>2. <<c, n>> \notin shut
  BY <1>1, EndEffect DEF Types
<1> SUFFICES Held(n, c)
  BY <1>2 DEF Alive
<1>3. ASSUME NEW t \in Thread, frame[n][t].conn = c PROVE Held(n, c)
  BY <1>3 DEF Held
<1>4. ASSUME NEW j \in ToSet(pool[n]), j.conn = c PROVE Held(n, c)
  BY <1>4 DEF Held, ToSet
<1>5. CASE sock'[n] = c
  <2>1. sock[n] = c \/ \E t \in Thread : Promotes(n, t, c)
    BY <1>5, SockEffect
  <2> QED BY <1>3, <2>1 DEF Held, Promotes
<1>6. CASE c \in sess'[n]
  BY <1>6, SessionEffect, Pairs DEF Types, Dialled, Held
<1>7. ASSUME NEW t \in Thread, frame'[n][t].conn = c PROVE Held(n, c)
  <2>1. frame[n][t].conn = c \/ HelloWaits(n, c)
    BY <1>7, InHandEffect DEF Dialled
  <2> QED BY <1>3, <1>4, <2>1 DEF HelloWaits, Hello
<1>8. CASE \E i \in DOMAIN pool'[n] : pool'[n][i].conn = c
  <2>1. PICK j \in ToSet(pool'[n]) : j.conn = c
    BY <1>8 DEF ToSet
  <2>2. pool[n] \in Seq(Task)
    BY DEF Types, PoolTypes
  <2>3. CASE pool'[n] = pool[n]
    BY <1>4, <2>1, <2>3
  <2>4. ASSUME NEW d \in Conn, NEW e \in Task, e.conn = d, ReadSession(n, d), pool'[n] = Append(pool[n], e)
        PROVE  Held(n, c)
    <3>1. j \in ToSet(pool[n]) \/ j = e
      BY <2>1, <2>2, <2>4, ToSetAppend
    <3> QED BY <1>4, <2>1, <2>4, <3>1 DEF ReadSession, Held
  <2>5. ASSUME NEW e \in Task, e.conn = NoConn, pool'[n] = Append(pool[n], e)
        PROVE  Held(n, c)
    <3>1. j \in ToSet(pool[n]) \/ j = e
      BY <2>1, <2>2, <2>5, ToSetAppend
    <3> QED BY <1>4, <2>1, <2>5, <3>1, Pairs
  <2>6. ASSUME pool[n] # <<>>, pool'[n] = Tail(pool[n]) PROVE Held(n, c)
    BY <1>4, <2>1, <2>2, <2>6, ToSetHeadTail
  <2>7. ASSUME NEW d \in Conn PROVE
          LET e == [kind |-> IF Head(wire[d][n]) = "hello" THEN "hello" ELSE "other", conn |-> d] IN
          e \in Task /\ e.conn = d
    BY DEF Task, Kind
  <2>8. ASSUME NEW d \in Conn, ReadPeer(n, d) PROVE
          LET e == [kind |-> Head(wire[d][n]), conn |-> NoConn] IN e \in Task /\ e.conn = NoConn
    <3>1. wire[d][n] \in Seq(Kind) /\ wire[d][n] # <<>>
      BY <2>8 DEF ReadPeer, Types, WireTypes
    <3>2. Head(wire[d][n]) \in Kind
      BY <3>1, ToSetHeadTail
    <3> QED BY <3>2 DEF Task
  <2>9. PoolStep(n)
    BY PoolEffect DEF Types
  <2>a. CASE \E d \in Conn : /\ ReadSession(n, d)
                             /\ pool'[n] = Append(pool[n], [kind |-> IF Head(wire[d][n]) = "hello" THEN "hello" ELSE "other",
                                                            conn |-> d])
    BY <2>4, <2>7, <2>a
  <2>b. CASE \E d \in Conn : /\ ReadPeer(n, d)
                             /\ pool'[n] = Append(pool[n], [kind |-> Head(wire[d][n]), conn |-> NoConn])
    BY <2>5, <2>8, <2>b
  <2> QED BY <2>3, <2>6, <2>9, <2>a, <2>b DEF PoolStep
<1>9. sock'[n] = c \/ c \in sess'[n] \/ (\E t \in Thread : frame'[n][t].conn = c) \/ \E i \in DOMAIN pool'[n] : pool'[n][i].conn = c
  BY <1>1 DEF Held
<1> QED BY <1>5, <1>6, <1>7, <1>8, <1>9

(* The connector keeps the socket it has dialled until it has sent the        *)
(* handshake.                                                                 *)
LEMMA DiallingKept ==
    ASSUME Types, Next, NEW n \in Server, NEW c \in Conn, Dialling(n, c)
    PROVE  Dialling(n, c)' \/ Greet(n)
<1>1. Connector \in Thread /\ frame[n][Connector] \in Frame /\ frame[n][Connector].conn = c /\ Connector \notin Worker
  BY Threads, Pairs DEF Dialling, Types, FrameTypes
<1>2. frame[n][Connector].pc \notin Without
  BY <1>1, HeldConn, Pairs DEF Types
<1>3. ASSUME NEW l, Goes(n, Connector, l) PROVE Dialling(n, c)'
  <2>1. frame'[n][Connector] = [frame[n][Connector] EXCEPT !.pc = l]
    BY <1>1, <1>3 DEF Goes, Types, FrameTypes
  <2>2. frame'[n][Connector].conn = frame[n][Connector].conn
    BY <1>1, <2>1 DEF Frame
  <2> QED BY <1>1, <2>2 DEF Dialling
<1>4. Moved(n, Connector) => Greet(n) \/ Bind(n, Connector) \/ Refresh(n, Connector) \/ Confirm(n, Connector)
  BY <1>1, <1>2 DEF Moved, Without, At, StartRound, Connect, ConnectFails, Look, Ping, PingFails, PeerEof, Listening,
     StartPromotion, Started, CloseSock, Unset
<1>5. Bind(n, Connector) \/ Refresh(n, Connector) \/ Confirm(n, Connector) => \E l : Goes(n, Connector, l)
  BY DEF Bind, Refresh, Confirm, Proceeds
<1>6. frame'[n][Connector] = frame[n][Connector] => Dialling(n, c)'
  BY <1>1 DEF Dialling
<1> HIDE DEF Moved
<1> QED BY <1>1, <1>3, <1>4, <1>5, <1>6, MoverIsOwn DEF Types

LEMMA AcceptedStep ==
    ASSUME Types, Exclusive, Accepted, Next
    PROVE  Accepted'
<1> SUFFICES ASSUME NEW m \in Server, NEW c \in Conn, c \in sess'[m]
             PROVE  \/ Dialling(Other[m], c)' \/ HelloSent(m, c)' \/ HelloWaits(m, c)'
                    \/ c \in cut' \/ ~Alive(Other[m], c)'
  BY DEF Accepted
<1> DEFINE n == Other[m]
<1>0. n \in Server /\ Other[n] = m /\ Connector \in Thread
  BY Pairs, Threads
<1> HIDE DEF n
<1>1. c \in sess[m] \/ Dials(n, c)
  BY SessionEffect DEF Types, n
<1>2. CASE Dials(n, c)
  <2>1. frame'[n][Connector].conn = c
    BY <1>0, <1>2 DEF Dials, Types, FrameTypes
  <2> QED BY <2>1 DEF Dialling, n
<1>3. CASE c \in sess[m]
  <2>0. ~Dialled(c)
    BY <1>3, DialledIsFree DEF Types, Dialled, Dials
  <2>1. CASE Dialling(n, c)
    <3>1. SUFFICES ASSUME Greet(n), c \notin cut, <<c, n>> \notin shut PROVE HelloSent(m, c)'
      <4>1. Dialling(n, c)' \/ Greet(n)
        BY <1>0, <2>1, DiallingKept
      <4>2. Greet(n) => cut' = cut /\ shut' = shut
        BY DEF Greet
      <4> QED BY <3>1, <4>1, <4>2 DEF Alive, n
    <3>2. wire' = Put(n, c, "hello")
      BY <2>1, <3>1 DEF Greet, Handshake, Dialling
    <3>3. Alive(m, c)
      BY <1>3 DEF Exclusive, Untouched, Alive, Held
    <3>4. wire'[c][m] = Append(wire[c][m], "hello")
      BY <1>0, <3>1, <3>2, <3>3, PutEffect DEF Types
    <3>5. wire[c][m] \in Seq(Kind) /\ "hello" \in Kind
      BY DEF Types, WireTypes, Kind
    <3> QED BY <3>4, <3>5, ToSetAppend DEF HelloSent
  <2>2. CASE HelloSent(m, c)
    <3>1. "hello" \in Kind /\ "hello" \in ToSet(wire[c][m])
      BY <2>2 DEF Kind, HelloSent
    <3>2. "hello" \in ToSet(wire'[c][m]) \/ NetCut(c) \/ ("hello" = Head(wire[c][m]) /\ (ReadSession(m, c) \/ ReadPeer(m, c)))
      BY <2>0, <3>1, PacketEffect DEF Types
    <3>3. NetCut(c) => c \in cut'
      BY DEF NetCut
    <3>4. ~ReadPeer(m, c)
      BY <1>3 DEF ReadPeer, Watched, Exclusive, Untouched
    <3>5. ReadSession(m, c) /\ Head(wire[c][m]) = "hello" => HelloWaits(m, c)'
      <4>1. SUFFICES ASSUME ReadSession(m, c), Head(wire[c][m]) = "hello" PROVE HelloWaits(m, c)'
        OBVIOUS
      <4>2. pool[m] \in Seq(Task) /\ Hello(c) \in Task /\ pool'[m] = Append(pool[m], Hello(c))
        BY <4>1 DEF ReadSession, Take, Hello, Task, Kind, Types, PoolTypes
      <4> QED BY <4>2, ToSetAppend DEF HelloWaits
    <3> QED BY <3>2, <3>3, <3>4, <3>5 DEF HelloSent
  <2>3. CASE HelloWaits(m, c)
    <3>1. Hello(c) \in Task /\ Hello(c).conn = c /\ Hello(c).kind = "hello" /\ Hello(c) \in ToSet(pool[m])
      BY <2>3 DEF HelloWaits, Hello, Task, Kind
    <3>2. \/ Hello(c) \in ToSet(pool'[m])
          \/ \E w \in Worker : /\ Hello(c) = Head(pool[m])
                               /\ StartPromotion(m, w) \/ Refuse(m, w) \/ HandleServerPacket(m, w)
      BY <3>1, TaskEffect DEF Types
    <3>3. ASSUME NEW w \in Worker, Hello(c) = Head(pool[m]) PROVE ~StartPromotion(m, w) /\ ~Refuse(m, w) /\ ~HandleServerPacket(m, w)
      BY <3>1, <3>3, SessionEffect, Pairs DEF Types, Refuse, HandleServerPacket
    <3> QED BY <3>2, <3>3 DEF HelloWaits
  <2>4. CASE c \in cut
    BY <2>0, <2>4, EndEffect DEF Types
  <2>5. CASE ~Alive(n, c)
    BY <1>0, <2>0, <2>5, AliveStep DEF n
  <2> QED BY <1>3, <2>1, <2>2, <2>3, <2>4, <2>5 DEF Accepted, n
<1> QED BY <1>1, <1>2, <1>3

LEMMA ClosedIsLeftStep ==
    ASSUME Types, OneHandshake, Raised, ClosedIsLeft, Next
    PROVE  ClosedIsLeft'
<1> SUFFICES ASSUME NEW n \in Server, NEW c \in Conn, sock'[n] = c, <<c, n>> \in shut'
             PROVE  \E t \in Thread : At(n, t, "unset")'
  BY DEF ClosedIsLeft
<1>1. <<c, n>> \in shut \/ (sock[n] = c /\ \E t \in Thread : CloseSock(n, t))
  BY EndEffect DEF Types
<1>2. sock[n] = c
  <2>1. SUFFICES ASSUME NEW t \in Thread, Promotes(n, t, c) PROVE Untouched(n, c)
    BY <1>1, SockEffect DEF Untouched
  <2> QED BY <2>1 DEF OneHandshake, OnePromotes
<1>3. ASSUME NEW t \in Thread, CloseSock(n, t) PROVE At(n, t, "unset")'
  <2>1. up[n]
    BY <1>2, Pairs DEF Raised
  <2>2. Goes(n, t, "unset") /\ frame[n][t] \in Frame
    BY <1>3, <2>1 DEF CloseSock, Types, FrameTypes
  <2>3. frame'[n][t] = [frame[n][t] EXCEPT !.pc = "unset"]
    BY <2>2 DEF Goes, Types, FrameTypes
  <2> QED BY <2>2, <2>3 DEF At, Frame
<1>4. CASE <<c, n>> \in shut
  <2>1. PICK t \in Thread : At(n, t, "unset")
    BY <1>2, <1>4 DEF ClosedIsLeft
  <2>2. ~Unset(n, t)
    BY Pairs DEF Unset, UnregisterPeerSocket, Types, NodeTypes
  <2> QED BY <2>1, <2>2, LabelKept DEF Types
<1> QED BY <1>1, <1>3, <1>4

-----------------------------------------------------------------------------
Strong == TypeOK /\ Exclusive /\ Raised /\ OneHandshake /\ Accepted /\ ClosedIsLeft

LEMMA StrongInit == Init => Strong
<1> SUFFICES ASSUME Init PROVE Strong
  OBVIOUS
<1>1. TypeOK
  BY TypeInit
<1>2. \A m \in Server : sess[m] = {} /\ sock[m] = NoConn /\ shut = {} /\ \A t \in Thread : frame[m][t] = Idle
  BY DEF Init
<1>3. \A m \in Server, c \in Conn : wire[c][m] = <<>> /\ pool[m] = <<>>
  BY DEF Init
<1>4. Idle.conn = NoConn
  BY DEF Idle
<1>5. Exclusive /\ Accepted /\ Raised /\ ClosedIsLeft
  BY <1>2 DEF Exclusive, Accepted, Raised, ClosedIsLeft
<1>6. \A m \in Server, c \in Conn : ~HelloSent(m, c) /\ ~HelloWaits(m, c)
  BY <1>3, ToSetEmpty DEF HelloSent, HelloWaits
<1>7. \A m \in Server, c \in Conn : ~Dialling(m, c) /\ \A t \in Thread : ~Promotes(m, t, c)
  BY <1>2, <1>4, Pairs, Threads DEF Dialling, Promotes
<1>8. OneHandshake
  BY <1>6, <1>7, Pairs DEF OneHandshake, OneDialling, OneSent, OneWaits, OnePromotes
<1> QED BY <1>1, <1>5, <1>8 DEF Strong

LEMMA StrongStep == Strong /\ [Next]_vars => Strong'
<1> SUFFICES ASSUME Strong, [Next]_vars PROVE Strong'
  OBVIOUS
<1>1. Types /\ TypeOK /\ Exclusive /\ Raised /\ OneHandshake /\ Accepted /\ ClosedIsLeft
  BY TypeParts DEF Strong, Types
<1>2. CASE Next
  <2>1. TypeOK'
    BY <1>1, <1>2, NodeStep, TrafficStep, FrameStep DEF Types, TypeOK, NodeTypes, WireTypes, PoolTypes, FrameTypes
  <2>2. Exclusive' /\ Raised' /\ OneHandshake' /\ Accepted' /\ ClosedIsLeft'
    BY <1>1, <1>2, ExclusiveStep, RaisedStep, OneHandshakeStep, AcceptedStep, ClosedIsLeftStep
  <2> QED BY <2>1, <2>2 DEF Strong
<1>3. CASE UNCHANGED vars
  BY <1>1, <1>3 DEF Strong, TypeOK, Exclusive, Raised, OneHandshake, Accepted, ClosedIsLeft, vars, nodeVars, connVars, netVars,
     Untouched, NotInHand, OneDialling, OneSent, OneWaits, OnePromotes, Dialling, HelloSent, HelloWaits, Promotes, Alive, Held, At
<1> QED BY <1>2, <1>3

LEMMA SocketsAgreeNow == Strong => SocketsAgree
<1> SUFFICES ASSUME Strong, Quiet, NEW n \in Server, sock[n] # NoConn, sock[n] \notin cut
             PROVE  sock[Other[n]] = sock[n]
  BY DEF SocketsAgree
<1> DEFINE m == Other[n]
           c == sock[n]
<1>0. /\ m \in Server /\ Other[m] = n /\ c \in Conn /\ Connector \in Thread
      /\ Types /\ Raised /\ Accepted /\ ClosedIsLeft
  BY Pairs, Threads, TypeParts DEF Strong, Types, NodeTypes
<1> HIDE DEF m
<1>1. \A k \in Server : pool[k] = <<>> /\ ~Readable(k) /\ \A t \in Thread : At(k, t, "idle") /\ frame[k][t].conn = NoConn
  BY <1>0, HeldConn DEF Quiet, At, Types, Without
<1>2. <<c, n>> \notin shut
  BY <1>0, <1>1 DEF ClosedIsLeft, At
<1>3. Alive(n, c) /\ Watched(n, c)
  BY <1>0, <1>2 DEF Alive, Held, Watched, Raised
<1>4. Held(m, c)
  BY <1>0, <1>1, <1>3 DEF Readable, Ended, Alive, m
<1>5. ~HelloWaits(m, c)
  BY <1>0, <1>1, ToSetEmpty DEF HelloWaits
<1>6. ~Dialling(n, c)
  BY <1>0, <1>1, Pairs DEF Dialling
<1>7. c \notin sess[m]
  <2>1. SUFFICES ASSUME c \in sess[m] PROVE ~HelloSent(m, c)
    BY <1>0, <1>3, <1>5, <1>6 DEF Accepted
  <2>2. wire[c][m] = <<>>
    BY <1>0, <1>1, <2>1 DEF Readable
  <2> QED BY <2>2, ToSetEmpty DEF HelloSent
<1> QED BY <1>0, <1>1, <1>4, <1>7, Pairs DEF Held, m

(* PeerConnectorLoop on one side, the promotion of a session on the other:    *)
(* once all that is under way is done, a socket that one server has           *)
(* registered and the network did not cut is registered by the other one too. *)
THEOREM ServersAgree == Safety => []SocketsAgree
<1> QED BY StrongInit, StrongStep, SocketsAgreeNow, PTL DEF Safety

-----------------------------------------------------------------------------
(* The heartbeat.  Until the other end has registered a connection, no beat   *)
(* has passed since this end has: the time stamp is new, or about to be       *)
(* written.                                                                   *)
Handshaking(m, c) ==
    \/ \E t \in Thread : Promotes(m, t, c)
    \/ HelloWaits(m, c)
    \/ c \in sess[m] /\ HelloSent(m, c)
    \/ Dialling(Other[m], c)
Fresh(n) == age[n] = 0 \/ Stamping(n)
YoungLinks == \A m \in Server, c \in Conn :
    Handshaking(m, c) /\ sock[Other[m]] = c => Fresh(Other[m])

(* From then on a sign of life is under way in every beat: the heartbeat will *)
(* ping, the ping or its answer travels, or waits for a worker.               *)
Pulse(n) ==
    \/ At(n, Heartbeat, "look") \/ At(n, Heartbeat, "ping")
    \/ "ping" \in ToSet(wire[sock[n]][Other[n]])
    \/ [kind |-> "ping", conn |-> NoConn] \in ToSet(pool[Other[n]])
    \/ wire[sock[n]][n] # <<>>
    \/ \E j \in ToSet(pool[n]) : j.conn = NoConn
Heartbeats == \A n \in Server : Healthy(n) => Fresh(n) \/ (age[n] <= 1 /\ Pulse(n))

LEMMA FreshStep ==
    ASSUME Types, Next, ~Beat, NEW n \in Server, Fresh(n)
    PROVE  Fresh(n)'
<1>1. CASE age[n] = 0
  BY <1>1, AgeEffect DEF Fresh, Types
<1>2. CASE Stamping(n)
  <2>1. PICK t \in Thread : At(n, t, "refresh")
    BY <1>2 DEF Stamping
  <2>2. At(n, t, "refresh")' \/ age'[n] = 0
    BY <2>1, LabelKept, AgeEffect DEF Types
  <2> QED BY <2>2 DEF Fresh, Stamping
<1> QED BY <1>1, <1>2 DEF Fresh

LEMMA BindFresh ==
    ASSUME Types, NEW n \in Server, NEW t \in Thread, Bind(n, t)
    PROVE  Fresh(n)'
<1>1. frame[n][t] \in Frame /\ frame'[n][t] = [frame[n][t] EXCEPT !.pc = "refresh"]
  BY DEF Bind, Goes, Types, FrameTypes
<1> QED BY <1>1 DEF Frame, Fresh, Stamping, At

LEMMA HandshakingStep ==
    ASSUME Types, Next, NEW m \in Server, NEW c \in Conn, ~Dialled(c), Handshaking(m, c)'
    PROVE  Handshaking(m, c)
<1>1. ASSUME NEW t \in Thread, Promotes(m, t, c)' PROVE Handshaking(m, c)
  <2>1. frame'[m][t].conn = c /\ frame'[m][t].pc = "bind"
    BY <1>1 DEF Promotes
  <2> QED BY <2>1, InHandEffect DEF Handshaking, Promotes, Dialled
<1>2. CASE HelloWaits(m, c)'
  BY <1>2, NoHelloStep DEF Handshaking, ReadSession
<1>3. CASE c \in sess'[m] /\ HelloSent(m, c)'
  BY <1>3, NoHelloStep, SessionEffect, Pairs DEF Handshaking, Types, Dialled
<1>4. CASE Dialling(Other[m], c)'
  <2>1. Other[m] \in Server /\ Connector \in Thread /\ Connector \notin Worker /\ frame'[Other[m]][Connector].conn = c
    BY <1>4, Pairs, Threads DEF Dialling
  <2> QED BY <2>1, InHandEffect DEF Dialling, Dialled, Handshaking
<1> QED BY <1>1, <1>2, <1>3, <1>4 DEF Handshaking

LEMMA QuietHands ==
    ASSUME Types, Quiet, NEW m \in Server, NEW c \in Conn
    PROVE  ~Handshaking(m, c)
<1>1. \A k \in Server : pool[k] = <<>> /\ ~Readable(k) /\ \A t \in Thread : At(k, t, "idle") /\ frame[k][t].conn = NoConn
  BY HeldConn DEF Quiet, At, Types, Without
<1>2. ~HelloWaits(m, c) /\ ~Dialling(Other[m], c) /\ \A t \in Thread : ~Promotes(m, t, c)
  BY <1>1, ToSetEmpty, Pairs, Threads DEF HelloWaits, Dialling, Promotes
<1>3. ASSUME c \in sess[m] PROVE ~HelloSent(m, c)
  <2>1. wire[c][m] = <<>>
    BY <1>1, <1>3 DEF Readable
  <2> QED BY <2>1, ToSetEmpty DEF HelloSent
<1> QED BY <1>2, <1>3 DEF Handshaking

LEMMA YoungLinksStep ==
    ASSUME Types, YoungLinks, Next, Prompt
    PROVE  YoungLinks'
<1> SUFFICES ASSUME NEW m \in Server, NEW c \in Conn, Handshaking(m, c)', sock'[Other[m]] = c
             PROVE  Fresh(Other[m])'
  BY DEF YoungLinks
<1>0. Other[m] \in Server
  BY Pairs
<1>1. ~Dialled(c)
  <2>1. SUFFICES ASSUME NEW k \in Server, Dials(k, c) PROVE FALSE
    BY DEF Dialled
  <2> QED BY <1>0, <2>1, DialledIsFree DEF Dials, Types
<1>2. Handshaking(m, c)
  BY <1>1, HandshakingStep
<1>3. ~Beat
  BY <1>2, QuietHands DEF Beat
<1>4. sock[Other[m]] = c \/ \E t \in Thread : Bind(Other[m], t)
  BY <1>0, SockEffect
<1>5. sock[Other[m]] = c => Fresh(Other[m])
  BY <1>2 DEF YoungLinks
<1> QED BY <1>0, <1>3, <1>4, <1>5, FreshStep, BindFresh

LEMMA PutArrives ==
    ASSUME Types, NEW n \in Server, NEW m \in Server, Other[n] = m, NEW c \in Conn, NEW x \in Kind,
           Alive(m, c), c \notin cut, wire' = Put(n, c, x)
    PROVE  x \in ToSet(wire'[c][m]) /\ wire'[c][m] # <<>>
<1>1. wire[c][m] \in Seq(Kind)
  BY DEF Types, WireTypes
<1>2. Put(n, c, x)[c][Other[n]] = Append(wire[c][Other[n]], x)
  BY PutEffect DEF Types
<1>3. wire'[c][m] = Append(wire[c][m], x)
  BY <1>2
<1> QED BY <1>1, <1>3, ToSetAppend, ToSetEmpty

(* A step that does not let time pass leaves a sign of life under way, or     *)
(* stamps the ServerNode.                                                     *)
LEMMA PulseStep ==
    ASSUME Types, Exclusive, Raised, Next, ~Beat, NEW n \in Server, Healthy(n), Pulse(n), age[n] <= 1,
           ~Dialled(sock[n]), sock[n] \notin cut', sock'[n] = sock[n]
    PROVE  age'[n] = 0 \/ Pulse(n)'
<1> DEFINE m == Other[n]
<1>c. PICK c \in Conn : c = sock[n]
  BY DEF Healthy, Types, NodeTypes
<1>0. /\ m \in Server /\ Other[m] = n /\ Heartbeat \in Thread /\ sock[n] = c /\ sock'[n] = c
      /\ up[n] /\ up[m] /\ c \notin cut /\ c # NoConn /\ sock[m] = c
      /\ Alive(n, c) /\ Alive(m, c) /\ <<c, n>> \notin shut /\ <<c, m>> \notin shut
      /\ c \notin sess[n] /\ c \notin sess[m]
  BY <1>c, Pairs DEF Healthy, Types, NodeTypes, Raised, Alive, Exclusive, Untouched, Thread
<1>01. ~NetCut(c) /\ ~Dialled(c)
  BY <1>c DEF NetCut
<1>02. wire[c][n] \in Seq(Kind) /\ wire[c][m] \in Seq(Kind) /\ pool[n] \in Seq(Task) /\ pool[m] \in Seq(Task)
  BY <1>0 DEF Types, WireTypes, PoolTypes
<1>03. ASSUME NEW l, Goes(n, Heartbeat, l) PROVE At(n, Heartbeat, l)'
  <2>1. frame[n][Heartbeat] \in Frame /\ frame'[n][Heartbeat] = [frame[n][Heartbeat] EXCEPT !.pc = l]
    BY <1>0, <1>03 DEF Goes, Types, FrameTypes
  <2> QED BY <2>1 DEF At, Frame
<1> DEFINE Kept == \/ At(n, Heartbeat, "look")' \/ At(n, Heartbeat, "ping")'
                   \/ "ping" \in ToSet(wire'[c][m])
                   \/ [kind |-> "ping", conn |-> NoConn] \in ToSet(pool'[m])
                   \/ wire'[c][n] # <<>>
                   \/ \E j \in ToSet(pool'[n]) : j.conn = NoConn
<1>a. SUFFICES age'[n] = 0 \/ Kept
  BY <1>0 DEF Pulse
<1>1. CASE At(n, Heartbeat, "look")
  <2>1. Look(n) => Goes(n, Heartbeat, "ping")
    BY <1>0 DEF Look, DeathAge, Types, NodeTypes
  <2> QED BY <1>0, <1>03, <1>1, <2>1, LabelKept DEF Types
<1>2. CASE At(n, Heartbeat, "ping")
  <2>1. Ping(n) => "ping" \in ToSet(wire'[c][m])
    <3>1. SUFFICES ASSUME Ping(n) PROVE wire' = Put(n, c, "ping")
      BY <1>0, PutArrives DEF Kind
    <3> QED BY <1>0, <3>1 DEF Ping
  <2>2. ~PingFails(n)
    BY <1>0 DEF PingFails
  <2> QED BY <1>0, <1>2, <2>1, <2>2, LabelKept DEF Types
<1>3. CASE "ping" \in ToSet(wire[c][m])
  <2>1. "ping" \in ToSet(wire'[c][m]) \/ ("ping" = Head(wire[c][m]) /\ (ReadSession(m, c) \/ ReadPeer(m, c)))
    BY <1>0, <1>01, <1>3, PacketEffect DEF Types, Kind
  <2>2. ~ReadSession(m, c)
    BY <1>0 DEF ReadSession
  <2>3. ASSUME ReadPeer(m, c), "ping" = Head(wire[c][m])
        PROVE  [kind |-> "ping", conn |-> NoConn] \in ToSet(pool'[m])
    <3>1. pool'[m] = Append(pool[m], [kind |-> "ping", conn |-> NoConn])
      BY <1>0, <2>3 DEF ReadPeer, Take, Types, PoolTypes
    <3>2. [kind |-> "ping", conn |-> NoConn] \in Task
      BY DEF Task, Kind
    <3> QED BY <1>02, <3>1, <3>2, ToSetAppend
  <2> QED BY <2>1, <2>2, <2>3
<1>4. CASE [kind |-> "ping", conn |-> NoConn] \in ToSet(pool[m])
  <2> DEFINE j == [kind |-> "ping", conn |-> NoConn]
  <2>1. j \in Task /\ j.conn = NoConn /\ j.kind = "ping"
    BY DEF Task, Kind
  <2> HIDE DEF j
  <2>2. \/ j \in ToSet(pool'[m])
        \/ \E w \in Worker : /\ j = Head(pool[m])
                             /\ StartPromotion(m, w) \/ Refuse(m, w) \/ HandleServerPacket(m, w)
    BY <1>0, <1>4, <2>1, TaskEffect DEF Types, j
  <2>3. ASSUME NEW w \in Worker, j = Head(pool[m]), StartPromotion(m, w) \/ Refuse(m, w) \/ HandleServerPacket(m, w)
        PROVE  wire'[c][n] # <<>>
    <3>1. wire' = Put(m, c, "ack")
      BY <1>0, <2>1, <2>3 DEF StartPromotion, Refuse, HandleServerPacket, Answer
    <3> QED BY <1>0, <3>1, PutArrives DEF Kind
  <2> QED BY <2>2, <2>3 DEF j
<1>5. CASE wire[c][n] # <<>>
  <2>1. ~ReadSession(n, c)
    BY <1>0 DEF ReadSession
  <2>2. ASSUME ReadPeer(n, c) PROVE \E j \in ToSet(pool'[n]) : j.conn = NoConn
    <3> DEFINE j == [kind |-> Head(wire[c][n]), conn |-> NoConn]
    <3>1. pool'[n] = Append(pool[n], j)
      BY <1>0, <2>2 DEF ReadPeer, Take, Types, PoolTypes
    <3>2. j \in Task /\ j.conn = NoConn
      BY <1>02, <1>5, ToSetHeadTail DEF Task
    <3> HIDE DEF j
    <3>3. j \in ToSet(pool'[n])
      BY <1>02, <3>1, <3>2, ToSetAppend
    <3> QED BY <3>2, <3>3
  <2>3. \A x : Append(wire[c][n], x) # <<>>
    BY <1>02
  <2>4. WireStep(c, n)
    BY <1>0, WireEffect DEF Types
  <2> QED BY <1>01, <1>5, <2>1, <2>2, <2>3, <2>4 DEF WireStep
<1>6. CASE \E j \in ToSet(pool[n]) : j.conn = NoConn
  <2>1. PICK j \in ToSet(pool[n]) : j.conn = NoConn
    BY <1>6
  <2>2. j \in Task
    BY <1>02, <2>1, ToSetOfSeq
  <2>3. \/ j \in ToSet(pool'[n])
        \/ \E w \in Worker : /\ j = Head(pool[n])
                             /\ StartPromotion(n, w) \/ Refuse(n, w) \/ HandleServerPacket(n, w)
    BY <2>1, <2>2, TaskEffect DEF Types
  <2>4. ASSUME NEW w \in Worker, j = Head(pool[n]), StartPromotion(n, w) \/ Refuse(n, w) \/ HandleServerPacket(n, w)
        PROVE  age'[n] = 0
    BY <2>1, <2>4 DEF StartPromotion, Refuse, HandleServerPacket, AgeAfter, Types, NodeTypes
  <2> QED BY <2>1, <2>3, <2>4
<1> QED BY <1>0, <1>1, <1>2, <1>3, <1>4, <1>5, <1>6 DEF Pulse

(* When all that is under way is done, no sign of life is.                    *)
LEMMA QuietPulse ==
    ASSUME Types, Raised, Quiet, NEW n \in Server, Healthy(n)
    PROVE  ~Pulse(n) /\ ~Stamping(n)
<1> DEFINE m == Other[n]
           c == sock[n]
<1>1. /\ m \in Server /\ c \in Conn /\ Heartbeat \in Thread /\ sock[m] = c
      /\ up[n] /\ up[m] /\ <<c, n>> \notin shut /\ <<c, m>> \notin shut
  BY Pairs, Threads DEF Healthy, Types, NodeTypes, Raised, Alive
<1>2. \A k \in Server : pool[k] = <<>> /\ ~Readable(k) /\ \A t \in Thread : At(k, t, "idle")
  BY DEF Quiet
<1>3. wire[c][n] = <<>> /\ wire[c][m] = <<>>
  BY <1>1, <1>2 DEF Readable, Watched
<1>4. ~Stamping(n) /\ ~At(n, Heartbeat, "look") /\ ~At(n, Heartbeat, "ping")
  BY <1>1, <1>2 DEF Stamping, At
<1> QED BY <1>1, <1>2, <1>3, <1>4, ToSetEmpty DEF Pulse

LEMMA HeartbeatsStep ==
    ASSUME Types, Exclusive, Raised, YoungLinks, Heartbeats, Next, Prompt
    PROVE  Heartbeats'
<1> SUFFICES ASSUME NEW n \in Server, Healthy(n)' PROVE Fresh(n)' \/ (age'[n] <= 1 /\ Pulse(n)')
  BY DEF Heartbeats
<1>1. CASE \E t \in Thread : Bind(n, t)
  BY <1>1, BindFresh
<1>2. CASE sock'[n] = sock[n]
  <2> DEFINE m == Other[n]
  <2>c. PICK c \in Conn : c = sock[n]
    BY <1>2 DEF Healthy, Types, NodeTypes
  <2>0. /\ m \in Server /\ Other[m] = n /\ sock[n] = c /\ sock'[n] = c /\ sock'[m] = c /\ up[n] /\ c # NoConn
        /\ c \notin cut' /\ Alive(n, c)' /\ Alive(m, c)'
    BY <1>2, <2>c, Pairs DEF Healthy, Raised
  <2>1. ~Dialled(c)
    BY <2>0, DialledIsFree DEF Types, Dialled, Dials
  <2>2. Alive(n, c) /\ Alive(m, c) /\ c \notin cut
    BY <2>0, <2>1, AliveStep, EndEffect DEF Types
  <2>3. CASE \E t \in Thread : Promotes(m, t, c) /\ Bind(m, t)
    <3>1. Handshaking(m, c)
      BY <2>3 DEF Handshaking
    <3>2. Fresh(n)
      BY <2>0, <3>1 DEF YoungLinks
    <3>3. ~Beat
      BY <2>0, <3>1, QuietHands DEF Beat
    <3> QED BY <3>2, <3>3, FreshStep
  <2>4. CASE sock[m] = c
    <3>1. Healthy(n)
      BY <2>0, <2>2, <2>4 DEF Healthy
    <3>2. CASE ~Beat
      <4>1. CASE Fresh(n)
        BY <3>2, <4>1, FreshStep
      <4>2. CASE age[n] <= 1 /\ Pulse(n)
        <5>1. age'[n] = 0 \/ Pulse(n)'
          BY <1>2, <2>0, <2>1, <3>1, <3>2, <4>2, PulseStep
        <5>2. age'[n] = age[n] \/ age'[n] = 0
          BY <3>2, AgeEffect DEF Types
        <5> QED BY <4>2, <5>1, <5>2 DEF Fresh
      <4> QED BY <3>1, <4>1, <4>2 DEF Heartbeats
    <3>3. CASE Beat
      <4>1. Quiet
        BY <3>3 DEF Beat
      <4>2. age[n] = 0
        BY <3>1, <4>1, QuietPulse DEF Heartbeats, Fresh
      <4>3. age'[n] = 1
        BY <3>3, <4>2 DEF Beat, Older, DeathAge
      <4>4. frame'[n] = [frame[n] EXCEPT ![Heartbeat].pc = "look"]
        BY <3>3, <4>1, Threads DEF Beat, Quiet
      <4>5. frame[n][Heartbeat] \in Frame /\ frame'[n][Heartbeat] = [frame[n][Heartbeat] EXCEPT !.pc = "look"]
        BY <4>4, Threads DEF Types, FrameTypes
      <4>6. At(n, Heartbeat, "look")'
        BY <4>5 DEF At, Frame
      <4> QED BY <4>3, <4>6 DEF Pulse
    <3> QED BY <3>2, <3>3
  <2> QED BY <2>0, <2>3, <2>4, SockEffect
<1> QED BY <1>1, <1>2, NodeEffect DEF Healthy, Types

LEMMA DeathIsRealNow == TypeOK /\ Heartbeats => DeathIsReal
<1> SUFFICES ASSUME TypeOK, Heartbeats, NEW n \in Server, Healthy(n), age[n] >= DeathAge
             PROVE  Stamping(n)
  BY DEF DeathIsReal
<1>0. age[n] \in 0..DeathAge
  BY TypeParts DEF NodeTypes
<1>1. age[n] # 0 /\ ~(age[n] <= 1)
  BY <1>0 DEF DeathAge
<1> QED BY <1>1 DEF Heartbeats, Fresh

(* HeartbeatLoop: when what is under way is finished within a beat, no peer   *)
(* whose connection both servers have registered looks dead, but between the  *)
(* two halves of SetSocket.                                                   *)
THEOREM OnlyTheDeadAreGivenUp == Prompt /\ Safety => []DeathIsReal
<1> SUFFICES ASSUME Prompt PROVE Safety => []DeathIsReal
  OBVIOUS
<1>1. Init => YoungLinks /\ Heartbeats
  BY Pairs DEF Init, YoungLinks, Heartbeats, Healthy
<1>2. Strong /\ YoungLinks /\ Heartbeats /\ [Next]_vars => YoungLinks' /\ Heartbeats'
  <2> SUFFICES ASSUME Strong, YoungLinks, Heartbeats, [Next]_vars PROVE YoungLinks' /\ Heartbeats'
    OBVIOUS
  <2>1. Types /\ Exclusive /\ Raised
    BY TypeParts DEF Strong, Types
  <2>2. CASE Next
    BY <2>1, <2>2, YoungLinksStep, HeartbeatsStep
  <2>3. CASE UNCHANGED vars
    BY <2>3 DEF vars, nodeVars, connVars, YoungLinks, Heartbeats, Handshaking, Fresh, Stamping, Pulse, Healthy,
       Promotes, HelloWaits, HelloSent, Dialling, Alive, Held, At
  <2> QED BY <2>2, <2>3
<1>3. Strong => TypeOK
  BY DEF Strong
<1> QED BY <1>1, <1>2, <1>3, StrongInit, StrongStep, DeathIsRealNow, PTL DEF Safety
=============================================================================
