------------------------------ MODULE PeerLink ------------------------------
(* The link between two servers: who dials, when the dialled connection       *)
(* becomes the peer's socket at either end, when it is given up.              *)
(*                                                                            *)
(* Each server has a ServerNode for the other (m_socket, m_isConnected and    *)
(* the time of the last heartbeat), written without a lock by its connector   *)
(* thread, the pool's workers, the listener and the heartbeat thread.  A      *)
(* connection has an end at each server; an end lives while something refers  *)
(* to it (shared_ptr<ISocket>) and nobody closed it.  Time passes in beats of *)
(* five seconds, the period of HeartbeatLoop.                                 *)
EXTENDS Integers, FiniteSets, Sequences, SequencesExt

CONSTANTS Server,      \* the two servers
          Other,       \* Other[n]: the peer of n
          Conn,        \* TCP connections; one that nobody holds is used again
          Worker,      \* the pool's threads
          Listener, Heartbeat, Connector,
          Starts,      \* when the connectors' first rounds are, and bounds:
                       \* cuts and failing dials to come, dials that succeed
          Unlimited,
          Prompt,      \* everything under way is finished within a beat
          NoConn

Thread == Worker \cup {Listener, Heartbeat, Connector}

DialPeriod == 2     \* a connector sleeps 10 s between two rounds
DeathAge   == 3     \* a peer is dead after 15 s without a handled packet

ASSUME LinkAssumption ==
    /\ Other \in [Server -> Server]
    /\ \A n \in Server : Other[n] # n /\ Other[Other[n]] = n
    /\ Starts \subseteq [rest : [Server -> 0..DialPeriod], faults : Nat, dials : Nat \cup {Unlimited}]
    /\ Prompt \in BOOLEAN
    /\ NoConn \notin Conn
    /\ Cardinality({Listener, Heartbeat, Connector}) = 3
    /\ {Listener, Heartbeat, Connector} \cap Worker = {}

(* S2S_CONNECT, S2S_HEARTBEAT and its ACK; "other" is a packet that its       *)
(* handler only refuses or ignores.  A task of a session holds the session.   *)
Kind == {"hello", "ping", "ack", "other"}
Task == [kind : Kind, conn : Conn \cup {NoConn}]

\* A dialled or promoted socket is held by the thread that registers it.
Frame == [pc : {"bind", "refresh", "confirm", "greet"}, conn : Conn]
    \cup [pc : {"idle", "connect", "look", "ping", "close", "unset"}, conn : {NoConn}]
Idle == [pc |-> "idle", conn |-> NoConn]

VARIABLES sock,    \* sock[n]: ServerNode::m_socket
          up,      \* up[n]: ServerNode::m_isConnected
          age,     \* age[n]: beats since ServerNode::m_lastHeartbeatTime
          sess,    \* sess[n]: accepted connections that are still client sessions
          shut,    \* ends that were closed while something still refers to them
          wire,    \* wire[c][n]: packets on connection c that n has not read
          cut,     \* connections the network broke without telling the ends
          pool,    \* pool[n]: the tasks of n's thread pool
          frame,   \* frame[n][t]: what thread t of n is doing, with which socket
          rest,    \* rest[n]: beats the connector will still sleep
          faults,  \* cuts and failed dials still to come
          dials    \* dials that will still find the peer, or Unlimited

nodeVars == <<sock, up, age>>
connVars == <<sess, shut, wire, cut>>
netVars == <<faults, dials>>
vars == <<nodeVars, connVars, pool, frame, rest, netVars>>

Init == /\ sock = [n \in Server |-> NoConn]
        /\ up = [n \in Server |-> FALSE]
        /\ age = [n \in Server |-> 0]
        /\ sess = [n \in Server |-> {}]
        /\ shut = {}
        /\ wire = [c \in Conn |-> [n \in Server |-> <<>>]]
        /\ cut = {}
        /\ pool = [n \in Server |-> <<>>]
        /\ frame = [n \in Server |-> [t \in Thread |-> Idle]]
        /\ \E s \in Starts : rest = s.rest /\ faults = s.faults /\ dials = s.dials

Moves(n, t, f) == frame' = [frame EXCEPT ![n][t] = f]
Goes(n, t, label) == frame' = [frame EXCEPT ![n][t].pc = label]
At(n, t, label) == frame[n][t].pc = label

\* The references to n's end of c: the last one to go closes the socket.
Held(n, c) == \/ sock[n] = c
              \/ c \in sess[n]
              \/ \E t \in Thread : frame[n][t].conn = c
              \/ \E i \in DOMAIN pool[n] : pool[n][i].conn = c
Alive(n, c) == Held(n, c) /\ <<c, n>> \notin shut
Free(c) == \A n \in Server : ~Held(n, c)

Put(n, c, k) == IF Alive(Other[n], c) /\ c \notin cut
                THEN [wire EXCEPT ![c][Other[n]] = Append(@, k)]
                ELSE wire

-----------------------------------------------------------------------------
(* PeerConnectorLoop.                                                         *)
StartRound(n) ==
    /\ At(n, Connector, "idle") /\ rest[n] = 0
    /\ IF up[n] THEN rest' = [rest EXCEPT ![n] = DialPeriod] /\ UNCHANGED frame
                ELSE Goes(n, Connector, "connect") /\ UNCHANGED rest
    /\ UNCHANGED <<nodeVars, connVars, pool, netVars>>

\* The peer's listener accepts: a new session there.
Connect(n) ==
    /\ At(n, Connector, "connect")
    /\ dials # 0
    /\ dials' = IF dials = Unlimited THEN dials ELSE dials - 1
    /\ \E c \in Conn : Free(c)
    /\ LET c == CHOOSE x \in Conn : Free(x) m == Other[n] IN
       /\ sess' = [sess EXCEPT ![m] = @ \cup {c}]
       /\ wire' = [wire EXCEPT ![c] = [k \in Server |-> <<>>]]
       /\ shut' = {e \in shut : e[1] # c}
       /\ cut' = cut \ {c}
       /\ Moves(n, Connector, [pc |-> "bind", conn |-> c])
    /\ UNCHANGED <<nodeVars, pool, rest, faults>>

ConnectFails(n) ==
    /\ At(n, Connector, "connect")
    /\ \/ dials = 0 /\ UNCHANGED faults
       \/ dials # 0 /\ faults > 0 /\ faults' = faults - 1
    /\ rest' = [rest EXCEPT ![n] = DialPeriod]
    /\ Moves(n, Connector, Idle)
    /\ UNCHANGED <<nodeVars, connVars, pool, dials>>

NoHandshake(n) == UNCHANGED wire    \* mutant: no handshake on a new connection

\* S2S_CONNECT on the dialled socket, whatever the ServerNode says by now.
Handshake(n) == LET c == frame[n][Connector].conn IN
                wire' = IF <<c, n>> \in shut THEN wire ELSE Put(n, c, "hello")

Greet(n) == /\ At(n, Connector, "greet")
            /\ Handshake(n)
            /\ rest' = [rest EXCEPT ![n] = DialPeriod]
            /\ Moves(n, Connector, Idle)
            /\ UNCHANGED <<nodeVars, sess, shut, cut, pool, netVars>>

-----------------------------------------------------------------------------
(* SetSocket, then SetConnected and UpdateHeartbeat: the connector after it   *)
(* has dialled and a worker that promotes a session run the same steps.  The  *)
(* two halves of SetSocket are in one critical section of m_mutex.            *)
Unlocked(n) == \A t \in Thread : ~At(n, t, "refresh")

Bind(n, t) ==
    /\ At(n, t, "bind")
    /\ Unlocked(n)
    /\ sock' = [sock EXCEPT ![n] = frame[n][t].conn]
    /\ up' = [up EXCEPT ![n] = TRUE]
    /\ Goes(n, t, "refresh")
    /\ UNCHANGED <<age, connVars, pool, rest, netVars>>

Refresh(n, t) ==
    /\ At(n, t, "refresh")
    /\ age' = [age EXCEPT ![n] = 0]
    /\ Goes(n, t, "confirm")
    /\ UNCHANGED <<sock, up, connVars, pool, rest, netVars>>

\* mutant: the dialled socket is let go before the handshake
LetsGo(n, t) == Moves(n, t, [pc |-> IF t = Connector THEN "greet" ELSE "idle", conn |-> NoConn])

Proceeds(n, t) == IF t = Connector THEN Goes(n, t, "greet") ELSE Moves(n, t, Idle)

Confirm(n, t) ==
    /\ At(n, t, "confirm")
    /\ up' = [up EXCEPT ![n] = TRUE]
    /\ age' = [age EXCEPT ![n] = 0]
    /\ Proceeds(n, t)
    /\ UNCHANGED <<sock, connVars, pool, rest, netVars>>

-----------------------------------------------------------------------------
(* HandlePeerDisconnect(id), on the listener or the heartbeat thread: it      *)
(* closes whatever socket is registered when it gets there.                   *)
CloseSock(n, t) ==
    /\ At(n, t, "close")
    /\ shut' = IF up[n] /\ sock[n] # NoConn THEN shut \cup {<<sock[n], n>>} ELSE shut
    /\ Goes(n, t, IF up[n] THEN "unset" ELSE "idle")
    /\ UNCHANGED <<nodeVars, sess, wire, cut, pool, rest, netVars>>

UnsetSocketOnly(n) ==             \* mutant: m_isConnected is not lowered
    /\ sock' = [sock EXCEPT ![n] = NoConn]
    /\ UNCHANGED up

UnregisterPeerSocket(n) ==
    /\ sock' = [sock EXCEPT ![n] = NoConn]
    /\ up' = [up EXCEPT ![n] = FALSE]

Unset(n, t) ==
    /\ At(n, t, "unset")
    /\ Unlocked(n)
    /\ UnregisterPeerSocket(n)
    /\ Goes(n, t, "idle")
    /\ UNCHANGED <<age, connVars, pool, rest, netVars>>

-----------------------------------------------------------------------------
(* HeartbeatLoop, once a beat.                                                *)
Look(n) ==
    /\ At(n, Heartbeat, "look")
    /\ Goes(n, Heartbeat, IF ~up[n] THEN "idle"
                          ELSE IF age[n] >= DeathAge THEN "close" ELSE "ping")
    /\ UNCHANGED <<nodeVars, connVars, pool, rest, netVars>>

Ping(n) ==
    /\ At(n, Heartbeat, "ping")
    /\ \/ sock[n] = NoConn /\ UNCHANGED wire
       \/ sock[n] # NoConn /\ <<sock[n], n>> \notin shut /\ wire' = Put(n, sock[n], "ping")
    /\ Goes(n, Heartbeat, "idle")
    /\ UNCHANGED <<nodeVars, sess, shut, cut, pool, rest, netVars>>

PingFails(n) ==
    /\ At(n, Heartbeat, "ping")
    /\ sock[n] # NoConn
    /\ <<sock[n], n>> \in shut \/ sock[n] \in cut \/ ~Alive(Other[n], sock[n])
    /\ Goes(n, Heartbeat, "close")
    /\ UNCHANGED <<nodeVars, connVars, pool, rest, netVars>>

-----------------------------------------------------------------------------
(* The listener.  It reads sessions and the registered socket, and sees the   *)
(* end of a stream when the other end is gone and all was read.               *)
Listening(n) == At(n, Listener, "idle")
Ended(n, c) == wire[c][n] = <<>> /\ c \notin cut /\ ~Alive(Other[n], c)
Watched(n, c) == up[n] /\ sock[n] = c /\ <<c, n>> \notin shut

Take(n, c, task) == /\ pool' = [pool EXCEPT ![n] = Append(@, task)]
                    /\ wire' = [wire EXCEPT ![c][n] = Tail(@)]

\* HandleClientPacket accepts S2S_CONNECT from anybody and refuses the rest.
ReadSession(n, c) ==
    /\ Listening(n)
    /\ c \in sess[n] /\ wire[c][n] # <<>>
    /\ Take(n, c, [kind |-> IF Head(wire[c][n]) = "hello" THEN "hello" ELSE "other", conn |-> c])
    /\ UNCHANGED <<nodeVars, sess, shut, cut, frame, rest, netVars>>

SessionEof(n, c) ==
    /\ Listening(n)
    /\ c \in sess[n] /\ Ended(n, c)
    /\ sess' = [sess EXCEPT ![n] = @ \ {c}]
    /\ UNCHANGED <<nodeVars, shut, wire, cut, pool, frame, rest, netVars>>

ReadPeer(n, c) ==
    /\ Listening(n)
    /\ Watched(n, c) /\ wire[c][n] # <<>>
    /\ Take(n, c, [kind |-> Head(wire[c][n]), conn |-> NoConn])
    /\ UNCHANGED <<nodeVars, sess, shut, cut, frame, rest, netVars>>

PeerEof(n, c) ==
    /\ Listening(n)
    /\ Watched(n, c) /\ Ended(n, c)
    /\ Goes(n, Listener, "close")
    /\ UNCHANGED <<nodeVars, connVars, pool, rest, netVars>>

-----------------------------------------------------------------------------
(* The workers.                                                               *)
Started(n, w) == /\ At(n, w, "idle") /\ pool[n] # <<>>
                 /\ pool' = [pool EXCEPT ![n] = Tail(@)]

\* S2S_CONNECT: RemoveSession first, then the steps from Bind on.
StartPromotion(n, w) ==
    LET j == Head(pool[n]) IN
    /\ Started(n, w)
    /\ j.kind = "hello" /\ j.conn # NoConn
    /\ sess' = [sess EXCEPT ![n] = @ \ {j.conn}]
    /\ Moves(n, w, [pc |-> "bind", conn |-> j.conn])
    /\ UNCHANGED <<nodeVars, shut, wire, cut, rest, netVars>>

\* "Authentication required" to a session that is not logged in.
Refuse(n, w) ==
    LET j == Head(pool[n]) IN
    /\ Started(n, w)
    /\ j.kind = "other" /\ j.conn # NoConn
    /\ wire' = Put(n, j.conn, "other")
    /\ UNCHANGED <<nodeVars, sess, shut, cut, frame, rest, netVars>>

AgeKept(n, j) == age[n]     \* mutant: packets do not refresh the time stamp

\* HandleServerPacket: any packet of the peer is a sign of life.
AgeAfter(n, j) == 0

Answer(n, j) == wire' = IF j.kind = "ping" /\ sock[n] # NoConn /\ <<sock[n], n>> \notin shut
                        THEN Put(n, sock[n], "ack") ELSE wire

HandleServerPacket(n, w) ==
    LET j == Head(pool[n]) IN
    /\ Started(n, w)
    /\ j.conn = NoConn
    /\ age' = [age EXCEPT ![n] = AgeAfter(n, j)]
    /\ Answer(n, j)
    /\ UNCHANGED <<sock, up, sess, shut, cut, frame, rest, netVars>>

-----------------------------------------------------------------------------
(* Time and the network.                                                      *)
Readable(n) == \/ \E c \in sess[n] : wire[c][n] # <<>> \/ Ended(n, c)
               \/ \E c \in Conn : Watched(n, c) /\ (wire[c][n] # <<>> \/ Ended(n, c))

Quiet == \A n \in Server : /\ \A t \in Thread : At(n, t, "idle")
                           /\ pool[n] = <<>>
                           /\ ~Readable(n)
                           /\ rest[n] > 0

Older(a) == IF a < DeathAge THEN a + 1 ELSE a

\* Five seconds pass, everywhere.
Beat == /\ Prompt => Quiet
        /\ age' = [n \in Server |-> Older(age[n])]
        /\ rest' = [n \in Server |-> IF rest[n] = 0 THEN 0 ELSE rest[n] - 1]
        /\ frame' = [n \in Server |->
                        IF At(n, Heartbeat, "idle")
                        THEN [frame[n] EXCEPT ![Heartbeat].pc = "look"] ELSE frame[n]]
        /\ UNCHANGED <<sock, up, connVars, pool, netVars>>

\* Nothing gets through any more and neither end is told.
NetCut(c) == /\ ~Free(c) /\ c \notin cut
             /\ faults > 0 /\ faults' = faults - 1
             /\ cut' = cut \cup {c}
             /\ wire' = [wire EXCEPT ![c] = [n \in Server |-> <<>>]]
             /\ UNCHANGED <<nodeVars, sess, shut, pool, frame, rest, dials>>

-----------------------------------------------------------------------------
ConnectorStep(n) == StartRound(n) \/ Connect(n) \/ ConnectFails(n) \/ Greet(n)
RegisterStep(n, t) == Bind(n, t) \/ Refresh(n, t) \/ Confirm(n, t)
DisconnectStep(n, t) == CloseSock(n, t) \/ Unset(n, t)
HeartbeatStep(n) == Look(n) \/ Ping(n) \/ PingFails(n)
ReadStep(n) == \E c \in Conn : ReadSession(n, c) \/ SessionEof(n, c) \/ ReadPeer(n, c) \/ PeerEof(n, c)
WorkerStep(n, w) == StartPromotion(n, w) \/ Refuse(n, w) \/ HandleServerPacket(n, w)

ThreadStep(n, t) == RegisterStep(n, t) \/ DisconnectStep(n, t)

Next == \/ \E n \in Server : \/ ConnectorStep(n) \/ HeartbeatStep(n) \/ ReadStep(n)
                             \/ \E w \in Worker : WorkerStep(n, w)
                             \/ \E t \in Thread : ThreadStep(n, t)
        \/ Beat
        \/ \E c \in Conn : NetCut(c)

(* Every thread runs and time passes; the network need not fail.              *)
Fairness == /\ \A n \in Server : /\ WF_vars(ConnectorStep(n))
                                 /\ WF_vars(HeartbeatStep(n))
                                 /\ WF_vars(ReadStep(n))
                                 /\ \A w \in Worker : WF_vars(WorkerStep(n, w))
                                 /\ \A t \in Thread : WF_vars(ThreadStep(n, t))
            /\ WF_vars(Beat)

Safety == Init /\ [][Next]_vars
Spec == Safety /\ Fairness

-----------------------------------------------------------------------------
(* Types; a dialled or promoted socket is held by the thread that registers   *)
(* it until the handshake is sent or the promotion is done.                   *)
TypeOK ==
    /\ sock \in [Server -> Conn \cup {NoConn}]
    /\ up \in [Server -> BOOLEAN]
    /\ age \in [Server -> 0..DeathAge]
    /\ sess \in [Server -> SUBSET Conn]
    /\ shut \subseteq Conn \X Server
    /\ wire \in [Conn -> [Server -> Seq(Kind)]]
    /\ cut \subseteq Conn
    /\ pool \in [Server -> Seq(Task)]
    /\ frame \in [Server -> [Thread -> Frame]]
    /\ rest \in [Server -> 0..DialPeriod]
    /\ faults \in Nat /\ dials \in Nat \cup {Unlimited}

(* When everything under way is done, a socket that one server has registered *)
(* and the network did not cut is registered by the other one as well: two    *)
(* servers that dialled each other never keep one connection each.            *)
SocketsAgree ==
    Quiet => \A n \in Server : sock[n] # NoConn /\ sock[n] \notin cut => sock[Other[n]] = sock[n]

(* The heartbeat gives up nobody who is alive: a connection whose two ends    *)
(* have registered it looks dead to HeartbeatLoop only between the two halves *)
(* of SetSocket, before the time stamp of the new socket is written.          *)
Healthy(n) == LET c == sock[n] IN
              up[n] /\ c # NoConn /\ c \notin cut /\ Alive(n, c) /\ sock[Other[n]] = c /\ Alive(Other[n], c)
Stamping(n) == \E t \in Thread : At(n, t, "refresh")
DeathIsReal == \A n \in Server : Healthy(n) /\ At(n, Heartbeat, "look") /\ age[n] >= DeathAge => Stamping(n)

(* A server does not count on a connection that is not there: connected       *)
(* without a socket, after SetConnected came too late, or with one that is    *)
(* dead at the other end, it notices and counts the peer as lost.             *)
Zombie(n) == up[n] /\ (sock[n] = NoConn \/ sock[n] \in cut \/ ~Alive(Other[n], sock[n]))
ZombiesHeal == \A n \in Server : Zombie(n) ~> ~Zombie(n)

(* README.md: links are re-established after network interruptions.  Once the *)
(* network has stopped failing, the two servers stay linked, unless over and  *)
(* over the heartbeat strikes while a new socket is being registered.  It     *)
(* holds for connectors whose rounds are some beats apart.                    *)
Linked == \A n \in Server : Healthy(n)
StruckMidway == \E n \in Server : /\ frame[n][Heartbeat].pc \in {"close", "unset"}
                                  /\ \E t \in Thread : frame[n][t].pc \in {"refresh", "confirm"}
LinkComesUp == <>[]~StruckMidway => <>[]Linked
Apart == \A n \in Server : rest[n] # rest[Other[n]]
LinkComesUpApart == Apart => LinkComesUp

=============================================================================
