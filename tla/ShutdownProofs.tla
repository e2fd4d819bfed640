--------------------------- MODULE ShutdownProofs ---------------------------
(* Proofs about Shutdown: its types with the mutex of a session, and that the *)
(* members of ChatServer outlive the threads that use them.                   *)
EXTENDS Shutdown, SequenceTheorems, TLAPS

Done(t) == At(t, "done")

(* Where a thread can be: to add, to lock and to send it has a connection.    *)
Place == {s \in Step : s.pc \in {"add", "lock", "send"} => s.conn \in Conn}

TypeInv == TypeOK /\ at \in [Thread -> Place]

(* What Stop has joined before it goes on, and what is left of ChatServer.    *)
Order ==
    /\ Len(members) <= 4 /\ \A i \in 1..Len(members) : members[i] = Declared[i]
    /\ main \notin {"destroy", "gone"} => Len(members) = 4
    /\ main \notin {"run", "heart"} => Done(Heartbeat)
    /\ main \in {"destroy", "gone"} => Done(Listener) /\ Done(Connector)
    /\ Len(members) < 3 => \A w \in Worker : Done(w)

-----------------------------------------------------------------------------
(* Only one thread moves at a time, and none moves that has returned.         *)
Moves(t) == /\ at[t].pc # "done"
            /\ \E s \in Place : at' = [at EXCEPT ![t] = s]

LEMMA Labels ==
    /\ \A l \in {"top", "each", "first", "second", "closesocket", "reset", "tell", "done"} :
          /\ Plain(l) \in Place
          /\ \A s \in Place : [s EXCEPT !.pc = l] \in Place /\ [s EXCEPT !.pc = l, !.conn = None] \in Place
    /\ \A s \in Place : s.conn \in Conn \cup {None} /\ s.lost \in Conn \cup {None}
<1> DEFINE names == {"top", "each", "first", "second", "closesocket", "reset", "tell", "done"}
<1>1. ASSUME NEW l \in names PROVE Plain(l) \in Place
  BY DEF Place, Step, Plain
<1>2. ASSUME NEW l \in names, NEW s \in Place
      PROVE  [s EXCEPT !.pc = l] \in Place /\ [s EXCEPT !.pc = l, !.conn = None] \in Place
  BY DEF Place, Step
<1>3. \A s \in Place : s.conn \in Conn \cup {None} /\ s.lost \in Conn \cup {None}
  BY DEF Place, Step
<1> QED BY <1>1, <1>2, <1>3

LEMMA TowardsIsPlace ==
    ASSUME NEW c \in Conn, NEW d \in Conn \cup {None}
    PROVE  Towards(c, d) \in Place
  BY DEF Towards, Place, Step

LEMMA SendMoves ==
    ASSUME at \in [Thread -> Place], table \subseteq Conn, NEW t \in Thread, SendStep(t)
    PROVE  at' = at \/ Moves(t)
<1>1. /\ at[t] \in Place
      /\ at[t].conn \in Conn \cup {None} /\ at[t].lost \in Conn \cup {None}
      /\ After(t) \in Place
  BY Labels DEF After
<1>2. CASE Lock(t)
  <2>1. [at[t] EXCEPT !.pc = "send"] \in Place
    BY <1>1, <1>2 DEF Lock, At, Place, Step
  <2> QED BY <1>2, <2>1 DEF Lock, Goes, At, Moves
<1>3. CASE Send(t)
  BY <1>1, <1>3 DEF Send, Goes, At, Moves
<1>4. CASE SendWouldBlock(t)
  BY <1>4 DEF SendWouldBlock
<1>5. CASE SendFails(t)
  BY <1>1, <1>5, Labels DEF SendFails, Goes, At, Moves
<1>6. CASE CloseSocket(t)
  BY <1>1, <1>6, Labels DEF CloseSocket, Goes, At, Moves
<1>7. CASE ResetSocket(t)
  <2>1. \A d \in Client \cap table : Towards(d, at[t].lost) \in Place
    BY <1>1, TowardsIsPlace
  <2> QED BY <1>1, <1>7, <2>1 DEF ResetSocket, Goes, At, Moves
<1> QED BY <1>2, <1>3, <1>4, <1>5, <1>6, <1>7 DEF SendStep

LEMMA OwnMoves ==
    ASSUME at \in [Thread -> Place], table \subseteq Conn, ready \subseteq Conn,
           NEW t \in Thread, OwnStep(t)
    PROVE  at' = at \/ Moves(t)
<1>1. /\ at[t] \in Place
      /\ at[t].conn \in Conn \cup {None} /\ at[t].lost \in Conn \cup {None}
  BY Labels
<1>2. None \in Conn \cup {None}
  OBVIOUS
<1>3. \A c \in Conn : Towards(c, None) \in Place /\ Towards(c, at[t].conn) \in Place
  BY <1>1, <1>2, TowardsIsPlace
<1>4. CASE t = Listener /\ ListenStep
  <2>1. CASE Select
    BY <1>4, <2>1, Labels DEF Select, Goes, At, Moves
  <2>2. CASE AddSession
    BY <1>4, <2>2, Labels DEF AddSession, Goes, At, Moves
  <2>3. CASE ListenerEnds
    BY <1>4, <2>3, Labels DEF ListenerEnds, Goes, At, Moves
  <2>4. CASE NextReady
    <3>1. \A c \in ready : [pc |-> "first", conn |-> c, lost |-> None] \in Place
      BY DEF Place, Step
    <3> QED BY <1>4, <2>4, <3>1, Labels DEF NextReady, Goes, At, Moves
  <2>5. CASE Recv
    BY <1>1, <1>4, <2>5, Labels DEF Recv, InFrame, Goes, At, Moves
  <2>6. CASE RecvWouldBlock
    BY <2>6 DEF RecvWouldBlock
  <2>7. CASE RecvFails
    <3>1. /\ [pc |-> "closesocket", conn |-> at[t].conn, lost |-> None] \in Place
          /\ [pc |-> "tell", conn |-> None, lost |-> at[t].conn] \in Place
      BY <1>1 DEF Place, Step
    <3> QED BY <1>3, <1>4, <2>7, <3>1 DEF RecvFails, InFrame, Goes, At, Moves
  <2>8. CASE RemoveSession
    BY <1>4, <2>8, Labels DEF RemoveSession, Goes, At, Moves
  <2> QED BY <1>4, <2>1, <2>2, <2>3, <2>4, <2>5, <2>6, <2>7, <2>8 DEF ListenStep
<1>5. CASE Work(t)
  BY <1>3, <1>5 DEF Work, Goes, At, Moves
<1>6. CASE WorkerEnds(t)
  BY <1>6, Labels DEF WorkerEnds, Goes, At, Moves
<1>7. CASE t = Heartbeat /\ (Beat \/ HeartbeatEnds)
  BY <1>3, <1>7, Labels DEF Beat, HeartbeatEnds, Goes, At, Moves
<1>8. CASE t = Connector /\ ConnectorEnds
  BY <1>8, Labels DEF ConnectorEnds, Goes, At, Moves
<1> QED BY <1>4, <1>5, <1>6, <1>7, <1>8 DEF OwnStep

LEMMA NextMoves ==
    ASSUME at \in [Thread -> Place], table \subseteq Conn, ready \subseteq Conn, Next
    PROVE  at' = at \/ \E t \in Thread : Moves(t)
<1>1. Listener \in Thread /\ Connector \in Thread
  BY DEF Thread
<1>2. CASE \E t \in Thread : ThreadStep(t)
  BY <1>2, SendMoves, OwnMoves DEF ThreadStep
<1>3. ASSUME NEW c \in Conn, Accept(c) PROVE Moves(Listener)
  <2>1. [pc |-> "add", conn |-> c, lost |-> None] \in Place
    BY DEF Place, Step
  <2> QED BY <1>3, <2>1 DEF Accept, Goes, At, Moves
<1>4. ASSUME NEW c \in Conn, Dial(c) PROVE Moves(Connector)
  <2>1. Towards(c, None) \in Place
    BY TowardsIsPlace
  <2> QED BY <1>4, <2>1 DEF Dial, Goes, At, Moves
<1>5. ASSUME NEW c \in Conn, Begins(c) \/ Completes(c) \/ Reads(c) \/ Leaves(c) PROVE at' = at
  BY <1>5 DEF Begins, Completes, Reads, Leaves, here
<1>6. CASE Exit \/ MainStep
  BY <1>6 DEF Exit, MainStep, StopHeartbeat, JoinHeartbeat, CloseListed, ListPeers, JoinThreads,
              StopPool, Destroy, others
<1> QED BY <1>1, <1>2, <1>3, <1>4, <1>5, <1>6 DEF Next

(* A thread that has returned does not come back.                             *)
LEMMA DoneStays ==
    ASSUME TypeInv, [Next]_vars, NEW t \in Thread, Done(t)
    PROVE  Done(t)'
<1>1. at \in [Thread -> Place] /\ table \subseteq Conn /\ ready \subseteq Conn
  BY DEF TypeInv, TypeOK
<1>2. at' = at \/ \E u \in Thread : Moves(u)
  BY <1>1, NextMoves DEF vars
<1>3. ASSUME NEW u \in Thread, Moves(u) PROVE at'[t] = at[t]
  BY <1>1, <1>3 DEF Moves, Done, At
<1> QED BY <1>2, <1>3 DEF Done, At

(* Only the main thread destroys anything.                                    *)
LEMMA OnlyMain ==
    ASSUME Next, ~Exit, ~MainStep
    PROVE  UNCHANGED <<main, members>>
<1>1. ASSUME NEW t \in Thread, SendStep(t) PROVE UNCHANGED <<main, members>>
  BY <1>1 DEF SendStep, Lock, Send, SendWouldBlock, SendFails, CloseSocket, ResetSocket, mainVars
<1>2. ASSUME NEW t \in Thread, OwnStep(t) PROVE UNCHANGED <<main, members>>
  BY <1>2 DEF OwnStep, ListenStep, Select, AddSession, ListenerEnds, NextReady, Recv, RecvWouldBlock,
              RecvFails, RemoveSession, Work, WorkerEnds, Beat, HeartbeatEnds, ConnectorEnds, mainVars
<1>3. ASSUME NEW c \in Conn, Accept(c) \/ Dial(c) PROVE UNCHANGED <<main, members>>
  BY <1>3 DEF Accept, Dial, mainVars
<1>4. ASSUME NEW c \in Conn, Begins(c) \/ Completes(c) \/ Reads(c) \/ Leaves(c)
      PROVE  UNCHANGED <<main, members>>
  BY <1>4 DEF Begins, Completes, Reads, Leaves, here, mainVars
<1> QED BY <1>1, <1>2, <1>3, <1>4 DEF Next, ThreadStep

LEMMA OrderInit == Init => Order
  BY DEF Init, Order, Declared

(* Front takes the last member away and no other.                             *)
LEMMA OneLess ==
    ASSUME NEW S, NEW s \in Seq(S), s # <<>>
    PROVE  /\ Len(s) \in Nat \ {0} /\ Front(s) \in Seq(S) /\ Len(Front(s)) = Len(s) - 1
           /\ \A i \in 1..(Len(s) - 1) : Front(s)[i] = s[i]
           /\ Last(s) = s[Len(s)]
<1>1. Len(s) \in Nat \ {0}
  OBVIOUS
<1>2. /\ SubSeq(s, 1, Len(s) - 1) \in Seq(S)
      /\ Len(SubSeq(s, 1, Len(s) - 1)) = Len(s) - 1
      /\ \A i \in 1..(Len(s) - 1) : SubSeq(s, 1, Len(s) - 1)[i] = s[i]
  <2> DEFINE n == Len(s) - 1
  <2>1. n \in Nat /\ 1 \in Int /\ n \in Int /\ n - 1 + 1 = n /\ \A i \in 1..n : 1 + i - 1 = i
    BY <1>1
  <2>2. \A i \in 1..n : s[i] \in S
    BY <1>1
  <2>3. (IF 1 <= n THEN n - 1 + 1 ELSE 0) = n
    BY <2>1
  <2> HIDE DEF n
  <2>4. /\ SubSeq(s, 1, n) \in Seq(S)
        /\ Len(SubSeq(s, 1, n)) = IF 1 <= n THEN n - 1 + 1 ELSE 0
        /\ \A i \in 1..(n - 1 + 1) : SubSeq(s, 1, n)[i] = s[1 + i - 1]
    BY <2>1, <2>2, SubSeqProperties
  <2>5. \A i \in 1..n : SubSeq(s, 1, n)[i] = s[i]
    <3>1. \A i \in 1..n : SubSeq(s, 1, n)[i] = s[1 + i - 1]
      BY <2>1, <2>4
    <3> QED BY <2>1, <3>1
  <2> QED BY <2>3, <2>4, <2>5 DEF n
<1> QED BY <1>1, <1>2 DEF Front, Last

LEMMA OrderStep == TypeInv /\ Order /\ [Next]_vars => Order'
<1> SUFFICES ASSUME TypeInv, Order, [Next]_vars PROVE Order'
  OBVIOUS
<1>1. Listener \in Thread /\ Connector \in Thread /\ Heartbeat \in Thread /\ Worker \subseteq Thread
  BY DEF Thread
<1>2. \A t \in Thread : Done(t) => Done(t)'
  BY DoneStays
<1>3. CASE UNCHANGED <<main, members>>
  BY <1>1, <1>2, <1>3 DEF Order
<1>4. CASE Exit \/ StopHeartbeat \/ CloseListed \/ ListPeers \/ StopPool
  <2>1. /\ members' = members
        /\ \/ main' = main
           \/ main = "run" /\ main' = "heart"
           \/ main = "sessions" /\ main' = "peers"
    BY <1>4 DEF Exit, StopHeartbeat, CloseListed, ListPeers, StopPool
  <2> QED BY <1>1, <1>2, <2>1 DEF Order
<1>5. CASE JoinHeartbeat
  <2>1. main = "heart" /\ main' = "sessions" /\ Done(Heartbeat) /\ members' = members
    BY <1>5 DEF JoinHeartbeat, Done
  <2> QED BY <1>1, <1>2, <2>1 DEF Order
<1>6. CASE JoinThreads
  <2>1. /\ main = "peers" /\ main' = "destroy" /\ members' = members
        /\ Done(Listener) /\ Done(Connector)
    BY <1>6 DEF JoinThreads, Done
  <2> QED BY <1>1, <1>2, <2>1 DEF Order
<1>7. CASE Destroy
  <2>1. /\ main = "destroy" /\ main' \in {"destroy", "gone"}
        /\ members # <<>> /\ members' = Front(members)
        /\ LastDeclared = "pool" => \A w \in Worker : Done(w)
    BY <1>7 DEF Destroy, Done
  <2>2. members \in Seq(Range(Declared))
    BY DEF TypeInv, TypeOK
  <2>3. /\ Len(members) \in Nat \ {0} /\ Len(members') = Len(members) - 1
        /\ \A i \in 1..(Len(members) - 1) : members'[i] = members[i]
        /\ LastDeclared = members[Len(members)]
    BY <2>1, <2>2, OneLess DEF LastDeclared
  <2>4. Len(members) <= 4 /\ \A i \in 1..Len(members) : members[i] = Declared[i]
    BY DEF Order
  <2>5. \A i \in 1..Len(members') : members'[i] = Declared[i]
    BY <2>3, <2>4
  <2>6. ASSUME Len(members') < 3 PROVE \A w \in Worker : Done(w)
    <3>1. CASE Len(members) = 3
      <4>1. LastDeclared = Declared[3]
        BY <2>3, <2>4, <3>1
      <4>2. Declared[3] = "pool"
        BY DEF Declared
      <4> QED BY <2>1, <4>1, <4>2
    <3>2. CASE Len(members) < 3
      BY <3>2 DEF Order
    <3> QED BY <2>3, <2>6, <3>1, <3>2
  <2>7. Done(Heartbeat) /\ Done(Listener) /\ Done(Connector)
    BY <2>1 DEF Order
  <2>8. Len(members') <= 4
    BY <2>3, <2>4
  <2> QED BY <1>1, <1>2, <2>1, <2>5, <2>6, <2>7, <2>8 DEF Order
<1>8. CASE UNCHANGED vars
  BY <1>3, <1>8 DEF vars, mainVars
<1> QED BY <1>3, <1>4, <1>5, <1>6, <1>7, <1>8, OnlyMain DEF MainStep

(* What is left of ChatServer has what a running thread uses.                 *)
LEMMA OrderSuffices == TypeOK /\ Order => MembersOutliveThreads
<1> SUFFICES ASSUME TypeOK, Order, NEW t \in Thread, ~Done(t)
             PROVE  Uses(t) \subseteq Range(members)
  BY DEF MembersOutliveThreads, Done
<1>1. members \in Seq(Range(Declared)) /\ Len(members) \in Nat /\ DOMAIN members = 1..Len(members)
  BY LenProperties DEF TypeOK
<1>2. Len(members) <= 4 /\ \A i \in 1..Len(members) : members[i] = Declared[i]
  BY DEF Order
<1>3. Declared[1] = "tables" /\ Declared[2] = "heartbeat" /\ Declared[3] = "pool" /\ Declared[4] = "threads"
  BY DEF Declared
<1>4. \A i \in 1..Len(members) : Declared[i] \in Range(members)
  BY <1>1, <1>2 DEF Range
<1>5. Len(members) >= 3 => {"tables", "heartbeat", "pool"} \subseteq Range(members)
  <2>1. Len(members) >= 3 => 1 \in 1..Len(members) /\ 2 \in 1..Len(members) /\ 3 \in 1..Len(members)
    BY <1>1
  <2> QED BY <1>3, <1>4, <2>1
<1>6. Len(members) = 4 => {"tables", "heartbeat", "pool", "threads"} \subseteq Range(members)
  <2>1. Len(members) = 4 => Len(members) >= 3 /\ 4 \in 1..Len(members)
    BY <1>1
  <2> QED BY <1>3, <1>4, <1>5, <2>1
<1>7. Uses(t) \subseteq {"tables", "heartbeat", "pool", "threads"}
  BY DEF Uses
<1>8. CASE t \in Worker
  <2>1. Len(members) >= 3
    BY <1>1, <1>8 DEF Order
  <2>2. Uses(t) = {"tables", "heartbeat", "pool"}
    <3>1. t # Heartbeat
      BY <1>8, ShutdownAssumption
    <3> QED BY <1>8, <3>1 DEF Uses
  <2> QED BY <1>5, <2>1, <2>2
<1>9. CASE t \notin Worker
  <2>1. t \in {Listener, Connector, Heartbeat}
    BY <1>9 DEF Thread
  <2>2. Len(members) = 4
    BY <2>1 DEF Order
  <2> QED BY <1>6, <1>7, <2>2
<1> QED BY <1>8, <1>9

-----------------------------------------------------------------------------
(* Types, in three parts: what the main thread has, the connections, and      *)
(* m_sessionMutex.                                                            *)
MainTypes ==
    /\ main \in {"run", "heart", "sessions", "peers", "destroy", "gone"}
    /\ running \in BOOLEAN /\ beating \in BOOLEAN /\ draining \in BOOLEAN
    /\ members \in Seq(Range(Declared)) /\ toClose \subseteq Conn

NetTypes ==
    /\ sock \in [Conn -> {"none", "open", "closing", "closed"}]
    /\ table \subseteq Conn /\ gone \subseteq Conn
    /\ half \subseteq Conn /\ full \subseteq Conn /\ ready \subseteq Conn
    /\ pieces \in [Conn -> Nat]
    /\ queue \in Nat /\ frames \in 0..MaxFrames /\ trouble \in 0..MaxTrouble
    /\ again \subseteq Thread

Sends(t, c) == At(t, "send") /\ at[t].conn = c

Mutex == /\ holder \in [Client -> Thread \cup {None}]
         /\ \A c \in Client, t \in Thread : holder[c] = t <=> Sends(t, c)

LEMMA TypeParts == TypeOK <=> MainTypes /\ NetTypes /\ Mutex /\ at \in [Thread -> Step]
  BY DEF TypeOK, MainTypes, NetTypes, Mutex, Sends

LEMMA TypeInit == Init => TypeInv
<1> SUFFICES ASSUME Init PROVE TypeInv
  OBVIOUS
<1>1. MainTypes
  <2> DEFINE parts == {"tables", "heartbeat", "pool", "threads"}
  <2>1. Declared \in Seq(parts)
    BY DEF Declared
  <2>2. /\ DOMAIN Declared = 1..4
        /\ Declared[1] = "tables" /\ Declared[2] = "heartbeat"
        /\ Declared[3] = "pool" /\ Declared[4] = "threads"
    BY DEF Declared
  <2>3. 1 \in 1..4 /\ 2 \in 1..4 /\ 3 \in 1..4 /\ 4 \in 1..4
    OBVIOUS
  <2>4. parts \subseteq Range(Declared)
    BY <2>2, <2>3 DEF Range
  <2>5. Declared \in Seq(Range(Declared))
    BY <2>1, <2>4, SeqMonotonic
  <2> QED BY <2>5 DEF Init, MainTypes
<1>2. NetTypes
  BY ShutdownAssumption DEF Init, NetTypes
<1>3. at \in [Thread -> Place] /\ \A t \in Thread : ~At(t, "send")
  BY DEF Init, Place, Step, Plain, At
<1>4. at \in [Thread -> Step]
  BY <1>3 DEF Place
<1>5. Mutex
  <2>1. holder = [c \in Client |-> None] /\ None \notin Thread
    BY ShutdownAssumption DEF Init
  <2> QED BY <1>3, <2>1 DEF Mutex, Sends
<1> QED BY <1>1, <1>2, <1>3, <1>4, <1>5, TypeParts DEF TypeInv

LEMMA MainStepTypes ==
    ASSUME MainTypes, table \subseteq Conn, Next
    PROVE  MainTypes'
<1>1. CASE Exit \/ StopHeartbeat \/ StopPool \/ JoinThreads
  BY <1>1 DEF Exit, Lowered, StopHeartbeat, StopPool, JoinThreads, MainTypes
<1>2. CASE JoinHeartbeat \/ ListPeers \/ CloseListed
  BY <1>2 DEF JoinHeartbeat, ListPeers, CloseListed, MainTypes
<1>3. CASE Destroy
  <2>1. members' \in Seq(Range(Declared))
    BY <1>3, OneLess DEF Destroy, MainTypes
  <2> QED BY <1>3, <2>1 DEF Destroy, MainTypes
<1>4. CASE UNCHANGED mainVars
  BY <1>4 DEF mainVars, MainTypes
<1>5. ASSUME NEW t \in Thread, SendStep(t) PROVE UNCHANGED mainVars
  BY <1>5 DEF SendStep, Lock, Send, SendWouldBlock, SendFails, CloseSocket, ResetSocket
<1>6. ASSUME NEW t \in Thread, OwnStep(t) PROVE UNCHANGED mainVars
  BY <1>6 DEF OwnStep, ListenStep, Select, AddSession, ListenerEnds, NextReady, Recv, RecvWouldBlock,
              RecvFails, RemoveSession, Work, WorkerEnds, Beat, HeartbeatEnds, ConnectorEnds
<1>7. ASSUME NEW c \in Conn, Accept(c) \/ Dial(c) PROVE UNCHANGED mainVars
  BY <1>7 DEF Accept, Dial
<1>8. ASSUME NEW c \in Conn, Begins(c) \/ Completes(c) \/ Reads(c) \/ Leaves(c) PROVE UNCHANGED mainVars
  BY <1>8 DEF Begins, Completes, Reads, Leaves, here
<1> QED BY <1>1, <1>2, <1>3, <1>4, <1>5, <1>6, <1>7, <1>8 DEF Next, ThreadStep, MainStep

LEMMA SendNet ==
    ASSUME NetTypes, at \in [Thread -> Place], NEW t \in Thread, SendStep(t)
    PROVE  NetTypes'
<1> USE DEF NetTypes, farVars
<1>1. at[t].conn \in Conn \cup {None}
  BY Labels
<1>2. CASE Lock(t)
  BY <1>2 DEF Lock
<1>3. CASE Send(t)
  <2>1. UNCHANGED <<sock, table, gone, half, frames, pieces, queue, again, ready>>
    BY <1>3 DEF Send
  <2>2. UNCHANGED <<full, trouble>> \/ (full' = full \cup {at[t].conn} /\ trouble > 0 /\ trouble' = trouble - 1)
    BY <1>3 DEF Send
  <2>3. CASE UNCHANGED <<full, trouble>>
    BY <2>1, <2>3
  <2>4. CASE full' = full \cup {at[t].conn} /\ trouble > 0 /\ trouble' = trouble - 1
    <3>1. trouble' \in 0..MaxTrouble
      BY <2>4, ShutdownAssumption
    <3>2. at[t].conn \in Conn
      BY <1>3 DEF Send, At, Place
    <3> QED BY <2>1, <2>4, <3>1, <3>2
  <2> QED BY <2>2, <2>3, <2>4
<1>4. CASE SendWouldBlock(t)
  BY <1>4 DEF SendWouldBlock
<1>5. CASE SendFails(t)
  BY <1>5 DEF SendFails, OtherError
<1>6. CASE CloseSocket(t)
  BY <1>6 DEF CloseSocket
<1>7. CASE ResetSocket(t)
  BY <1>7 DEF ResetSocket
<1> QED BY <1>2, <1>3, <1>4, <1>5, <1>6, <1>7 DEF SendStep

LEMMA OwnNet ==
    ASSUME NetTypes, at \in [Thread -> Place], NEW t \in Thread, OwnStep(t)
    PROVE  NetTypes'
<1> USE DEF NetTypes, farVars
<1>1. Listener \in Thread
  BY DEF Thread
<1>2. CASE Select
  BY <1>2 DEF Select, Readable
<1>3. CASE AddSession
  <2>1. at[Listener].conn \in Conn
    BY <1>1, <1>3 DEF AddSession, At, Place
  <2> QED BY <1>3, <2>1 DEF AddSession
<1>4. CASE ListenerEnds \/ RecvWouldBlock
  BY <1>1, <1>4 DEF ListenerEnds, RecvWouldBlock
<1>5. CASE NextReady
  <2>1. ready' \subseteq ready
    BY <1>5 DEF NextReady
  <2> QED BY <1>5, <2>1 DEF NextReady
<1>6. CASE Recv
  <2> DEFINE c == at[Listener].conn
  <2>1. /\ pieces[c] > 0 /\ pieces' = [pieces EXCEPT ![c] = pieces[c] - 1]
        /\ queue' = queue \/ queue' = queue + 1
        /\ UNCHANGED <<sock, table, gone, half, frames, trouble, full, again, ready>>
    BY <1>6 DEF Recv
  <2> HIDE DEF c
  <2>2. c \in Conn => pieces[c] - 1 \in Nat
    BY <2>1
  <2>3. pieces' \in [Conn -> Nat]
    BY <2>1, <2>2
  <2> QED BY <2>1, <2>3
<1>7. CASE RecvFails
  BY <1>7 DEF RecvFails, OtherError
<1>8. CASE RemoveSession
  BY <1>8 DEF RemoveSession
<1>9. CASE Work(t)
  BY <1>9 DEF Work
<1>10. CASE WorkerEnds(t) \/ Beat \/ HeartbeatEnds \/ ConnectorEnds
  BY <1>10 DEF WorkerEnds, Beat, HeartbeatEnds, ConnectorEnds
<1> QED BY <1>2, <1>3, <1>4, <1>5, <1>6, <1>7, <1>8, <1>9, <1>10 DEF OwnStep, ListenStep

LEMMA NetStep ==
    ASSUME NetTypes, at \in [Thread -> Place], toClose \subseteq Conn, Next
    PROVE  NetTypes'
<1> USE DEF NetTypes
<1>1. ASSUME NEW t \in Thread, ThreadStep(t) PROVE NetTypes'
  BY <1>1, SendNet, OwnNet DEF ThreadStep
<1>2. ASSUME NEW c \in Conn, Accept(c) \/ Dial(c) PROVE NetTypes'
  BY <1>2 DEF Accept, Dial, farVars
<1>3. ASSUME NEW c \in Conn, Begins(c) PROVE NetTypes'
  <2>1. frames - 1 \in 0..MaxFrames
    BY <1>3, ShutdownAssumption DEF Begins
  <2> QED BY <1>3, <2>1 DEF Begins, here
<1>4. ASSUME NEW c \in Conn, Completes(c) \/ Reads(c) PROVE NetTypes'
  BY <1>4 DEF Completes, Reads, here, farVars
<1>5. ASSUME NEW c \in Conn, Leaves(c) PROVE NetTypes'
  <2>1. trouble - 1 \in 0..MaxTrouble
    BY <1>5, ShutdownAssumption DEF Leaves
  <2> QED BY <1>5, <2>1 DEF Leaves, here
<1>6. CASE CloseListed
  BY <1>6 DEF CloseListed, others, farVars
<1>7. CASE Exit \/ (MainStep /\ ~CloseListed)
  BY <1>7 DEF Exit, MainStep, StopHeartbeat, JoinHeartbeat, ListPeers, JoinThreads, StopPool, Destroy,
              others, farVars
<1> QED BY <1>1, <1>2, <1>3, <1>4, <1>5, <1>6, <1>7 DEF Next

-----------------------------------------------------------------------------
(* m_sessionMutex.  A thread takes it before it sends to a client, ...        *)
LEMMA Takes ==
    ASSUME Mutex, at \in [Thread -> Place], NEW t \in Thread, Lock(t)
    PROVE  Mutex'
<1> DEFINE c == at[t].conn
<1>1. /\ at[t].pc = "lock" /\ holder[c] = None /\ holder' = [holder EXCEPT ![c] = t]
      /\ at' = [at EXCEPT ![t] = [at[t] EXCEPT !.pc = "send"]]
  BY DEF Lock, At, NotHeld, Goes
<1>2. /\ holder \in [Client -> Thread \cup {None}]
      /\ \A d \in Client, u \in Thread : holder[d] = u <=> Sends(u, d)
      /\ None \notin Thread
  BY ShutdownAssumption DEF Mutex
<1>3. \A u \in Thread : u # t => at'[u] = at[u]
  BY <1>1
<1>4. at'[t].pc = "send" /\ at'[t].conn = c
  <2>1. at[t] \in Step
    BY DEF Place
  <2> QED BY <1>1, <2>1 DEF Step
<1>5. ASSUME NEW d \in Client, NEW u \in Thread
      PROVE  holder'[d] = u <=> Sends(u, d)'
  <2>1. CASE d = c
    <3>1. holder'[d] = t /\ ~Sends(u, d)
      BY <1>1, <1>2, <2>1
    <3>2. u # t => ~Sends(u, d)'
      BY <1>3, <3>1 DEF Sends, At
    <3> QED BY <1>4, <2>1, <3>1, <3>2 DEF Sends, At
  <2>2. CASE d # c
    <3>1. holder'[d] = holder[d]
      BY <1>1, <1>2, <2>2
    <3>2. u # t => (Sends(u, d)' <=> Sends(u, d))
      BY <1>3 DEF Sends, At
    <3>3. u = t => ~Sends(u, d) /\ ~Sends(u, d)'
      BY <1>1, <1>4, <2>2 DEF Sends, At
    <3> QED BY <1>2, <3>1, <3>2, <3>3
  <2> QED BY <2>1, <2>2
<1>6. holder' \in [Client -> Thread \cup {None}]
  BY <1>1, <1>2
<1> QED BY <1>5, <1>6 DEF Mutex

(* ... gives it back whether the send succeeds or fails, ...                  *)
LEMMA GivesBack ==
    ASSUME Mutex, at \in [Thread -> Place], NEW t \in Thread, NEW s \in Place,
           At(t, "send"), NEW ok \in BOOLEAN, Unlocked(t, ok), Goes(t, s), s.pc # "send"
    PROVE  Mutex'
<1> DEFINE c == at[t].conn
<1>1. /\ holder' = IF c \in Client THEN [holder EXCEPT ![c] = None] ELSE holder
      /\ at' = [at EXCEPT ![t] = s]
  BY DEF Unlocked, Goes
<1>2. /\ holder \in [Client -> Thread \cup {None}]
      /\ \A d \in Client, u \in Thread : holder[d] = u <=> Sends(u, d)
      /\ None \notin Thread
  BY ShutdownAssumption DEF Mutex
<1>3. at'[t] = s /\ \A u \in Thread : u # t => at'[u] = at[u]
  BY <1>1
<1>4. ASSUME NEW d \in Client, NEW u \in Thread
      PROVE  holder'[d] = u <=> Sends(u, d)'
  <2>1. CASE u = t
    <3>1. ~Sends(u, d)'
      BY <1>3, <2>1 DEF Sends, At
    <3>2. holder'[d] # t
      <4>1. CASE d = c
        BY <1>1, <1>2, <4>1
      <4>2. CASE d # c
        <5>1. ~Sends(t, d)
          BY <4>2 DEF Sends
        <5> QED BY <1>1, <1>2, <4>2, <5>1
      <4> QED BY <4>1, <4>2
    <3> QED BY <2>1, <3>1, <3>2
  <2>2. CASE u # t
    <3>1. Sends(u, d)' <=> Sends(u, d)
      BY <1>3, <2>2 DEF Sends, At
    <3>2. CASE d = c
      <4>1. Sends(t, d)
        BY <3>2 DEF Sends
      <4>2. holder[d] = t /\ holder'[d] = None
        BY <1>1, <1>2, <3>2, <4>1
      <4> QED BY <1>2, <2>2, <3>1, <4>2
    <3>3. CASE d # c
      <4>1. holder'[d] = holder[d]
        BY <1>1, <1>2, <3>3
      <4> QED BY <1>2, <3>1, <4>1
    <3> QED BY <3>2, <3>3
  <2> QED BY <2>1, <2>2
<1>5. holder' \in [Client -> Thread \cup {None}]
  BY <1>1, <1>2
<1> QED BY <1>4, <1>5 DEF Mutex

(* ... and does without it for everything else.                               *)
Aside(t) == /\ holder' = holder
            /\ at[t].pc # "send"
            /\ \E s \in Place : /\ at' = [at EXCEPT ![t] = s]
                                /\ s.pc = "send" => s.conn \notin Client

LEMMA AsideKeeps ==
    ASSUME Mutex, at \in [Thread -> Place], NEW t \in Thread, Aside(t)
    PROVE  Mutex'
<1>1. PICK s \in Place : at' = [at EXCEPT ![t] = s] /\ (s.pc = "send" => s.conn \notin Client)
  BY DEF Aside
<1>2. holder' = holder /\ at[t].pc # "send"
  BY DEF Aside
<1>3. ASSUME NEW d \in Client, NEW u \in Thread
      PROVE  Sends(u, d)' <=> Sends(u, d)
  <2>1. CASE u = t
    BY <1>1, <1>2, <2>1 DEF Sends, At
  <2>2. CASE u # t
    BY <1>1, <2>2 DEF Sends, At
  <2> QED BY <2>1, <2>2
<1> QED BY <1>2, <1>3 DEF Mutex

LEMMA TowardsIsAside ==
    ASSUME NEW c \in Conn, NEW d \in Conn \cup {None}
    PROVE  Towards(c, d) \in Place /\ (Towards(c, d).pc = "send" => Towards(c, d).conn \notin Client)
<1>1. Towards(c, d).pc = "send" => Towards(c, d).conn \notin Client
  BY DEF Towards
<1> QED BY <1>1, TowardsIsPlace

(* The labels that are reached in passing.                                    *)
LEMMA LabelIsAside ==
    /\ \A l \in {"top", "each", "first", "second", "closesocket", "reset", "tell", "done"} :
          /\ Plain(l) \in Place /\ Plain(l).pc # "send"
          /\ \A s \in Place : /\ [s EXCEPT !.pc = l] \in Place /\ [s EXCEPT !.pc = l].pc # "send"
                              /\ [s EXCEPT !.pc = l, !.conn = None] \in Place
                              /\ [s EXCEPT !.pc = l, !.conn = None].pc # "send"
<1> DEFINE names == {"top", "each", "first", "second", "closesocket", "reset", "tell", "done"}
<1>1. ASSUME NEW l \in names, NEW s \in Place
      PROVE  [s EXCEPT !.pc = l].pc # "send" /\ [s EXCEPT !.pc = l, !.conn = None].pc # "send"
  BY DEF Place, Step
<1>2. \A l \in names : Plain(l).pc # "send"
  BY DEF Plain
<1> QED BY <1>1, <1>2, Labels

LEMMA SendMutex ==
    ASSUME Mutex, table \subseteq Conn, at \in [Thread -> Place], NEW t \in Thread, SendStep(t)
    PROVE  Mutex'
<1>1. /\ at[t] \in Place /\ at[t].lost \in Conn \cup {None}
      /\ After(t) \in Place /\ After(t).pc # "send"
  BY Labels, LabelIsAside DEF After
<1>2. CASE Lock(t)
  BY <1>2, Takes
<1>3. CASE Send(t)
  BY <1>1, <1>3, GivesBack DEF Send
<1>4. CASE SendWouldBlock(t)
  BY <1>4 DEF SendWouldBlock, Mutex, Sends, At
<1>5. CASE SendFails(t)
  <2>1. [at[t] EXCEPT !.pc = "closesocket"] \in Place /\ [at[t] EXCEPT !.pc = "closesocket"].pc # "send"
    BY <1>1, LabelIsAside
  <2>2. /\ At(t, "send") /\ Unlocked(t, FALSE) /\ FALSE \in BOOLEAN
        /\ Goes(t, After(t)) \/ Goes(t, [at[t] EXCEPT !.pc = "closesocket"])
    BY <1>5 DEF SendFails
  <2> QED BY <1>1, <2>1, <2>2, GivesBack
<1>6. CASE CloseSocket(t)
  <2>1. Aside(t)
    BY <1>1, <1>6, LabelIsAside DEF CloseSocket, Goes, At, Aside
  <2> QED BY <2>1, AsideKeeps
<1>7. CASE ResetSocket(t)
  <2>1. \A d \in Client \cap table : /\ Towards(d, at[t].lost) \in Place
                                     /\ Towards(d, at[t].lost).pc = "send" =>
                                           Towards(d, at[t].lost).conn \notin Client
    BY <1>1, TowardsIsAside
  <2>2. Aside(t)
    BY <1>1, <1>7, <2>1 DEF ResetSocket, Goes, At, Aside
  <2> QED BY <2>2, AsideKeeps
<1> QED BY <1>2, <1>3, <1>4, <1>5, <1>6, <1>7 DEF SendStep

LEMMA OwnMutex ==
    ASSUME Mutex, table \subseteq Conn, ready \subseteq Conn, at \in [Thread -> Place],
           NEW t \in Thread, OwnStep(t)
    PROVE  Mutex'
<1>1. at[t] \in Place /\ at[t].conn \in Conn \cup {None} /\ None \in Conn \cup {None}
  BY Labels
<1>2. \A d \in Conn, e \in {None, at[t].conn} :
         Towards(d, e) \in Place /\ (Towards(d, e).pc = "send" => Towards(d, e).conn \notin Client)
  BY <1>1, TowardsIsAside
<1>3. CASE UNCHANGED <<at, holder>>
  BY <1>3 DEF Mutex, Sends, At
<1>4. ASSUME t = Listener, ListenStep PROVE Aside(t) \/ UNCHANGED <<at, holder>>
  <2>1. CASE Select \/ AddSession \/ ListenerEnds \/ RemoveSession
    BY <1>4, <2>1, LabelIsAside DEF Select, AddSession, ListenerEnds, RemoveSession, Goes, At, Aside
  <2>2. CASE NextReady
    <3>1. \A c \in ready : /\ [pc |-> "first", conn |-> c, lost |-> None] \in Place
                           /\ [pc |-> "first", conn |-> c, lost |-> None].pc # "send"
      BY DEF Place, Step
    <3> QED BY <1>4, <2>2, <3>1, LabelIsAside DEF NextReady, Goes, At, Aside
  <2>3. CASE Recv
    BY <1>1, <1>4, <2>3, LabelIsAside DEF Recv, InFrame, Goes, At, Aside
  <2>4. CASE RecvWouldBlock
    BY <2>4 DEF RecvWouldBlock
  <2>5. CASE RecvFails
    <3>1. /\ [pc |-> "closesocket", conn |-> at[t].conn, lost |-> None] \in Place
          /\ [pc |-> "closesocket", conn |-> at[t].conn, lost |-> None].pc # "send"
          /\ [pc |-> "tell", conn |-> None, lost |-> at[t].conn] \in Place
          /\ [pc |-> "tell", conn |-> None, lost |-> at[t].conn].pc # "send"
      BY <1>1 DEF Place, Step
    <3>2. \A d \in table : /\ Towards(d, at[t].conn) \in Place
                           /\ Towards(d, at[t].conn).pc = "send" =>
                                 Towards(d, at[t].conn).conn \notin Client
      BY <1>2
    <3>3. /\ holder' = holder /\ at[t].pc # "send"
          /\ \/ at' = [at EXCEPT ![t] = [pc |-> "closesocket", conn |-> at[t].conn, lost |-> None]]
             \/ at' = [at EXCEPT ![t] = [pc |-> "tell", conn |-> None, lost |-> at[t].conn]]
             \/ \E d \in table : at' = [at EXCEPT ![t] = Towards(d, at[t].conn)]
      BY <1>4, <2>5 DEF RecvFails, InFrame, Goes, At
    <3> QED BY <3>1, <3>2, <3>3 DEF Aside
  <2> QED BY <1>4, <2>1, <2>2, <2>3, <2>4, <2>5 DEF ListenStep
<1>5. CASE Work(t)
  <2>1. UNCHANGED <<at, holder>> \/ Aside(t)
    BY <1>2, <1>5 DEF Work, Goes, At, Aside
  <2> QED BY <1>3, <2>1, AsideKeeps
<1>6. CASE WorkerEnds(t) \/ (t = Heartbeat /\ HeartbeatEnds) \/ (t = Connector /\ ConnectorEnds)
  <2>1. Aside(t)
    BY <1>6, LabelIsAside DEF WorkerEnds, HeartbeatEnds, ConnectorEnds, Goes, At, Aside
  <2> QED BY <2>1, AsideKeeps
<1>7. CASE t = Heartbeat /\ Beat
  <2>1. Aside(t)
    BY <1>2, <1>7 DEF Beat, Goes, At, Aside
  <2> QED BY <2>1, AsideKeeps
<1> QED BY <1>3, <1>4, <1>5, <1>6, <1>7, AsideKeeps DEF OwnStep

LEMMA MutexStep ==
    ASSUME Mutex, table \subseteq Conn, ready \subseteq Conn, at \in [Thread -> Place], Next
    PROVE  Mutex'
<1>1. ASSUME NEW t \in Thread, ThreadStep(t) PROVE Mutex'
  BY <1>1, SendMutex, OwnMutex DEF ThreadStep
<1>2. CASE UNCHANGED <<at, holder>>
  BY <1>2 DEF Mutex, Sends, At
<1>3. ASSUME NEW c \in Conn, Accept(c) PROVE Mutex'
  <2>1. [pc |-> "add", conn |-> c, lost |-> None] \in Place
    BY DEF Place, Step
  <2>2. Aside(Listener) /\ Listener \in Thread
    BY <1>3, <2>1 DEF Accept, Goes, At, Aside, Thread
  <2> QED BY <2>2, AsideKeeps
<1>4. ASSUME NEW c \in Conn, Dial(c) PROVE Mutex'
  <2>1. Towards(c, None) \in Place /\ (Towards(c, None).pc = "send" => Towards(c, None).conn \notin Client)
    BY TowardsIsAside
  <2>2. Aside(Connector) /\ Connector \in Thread
    BY <1>4, <2>1 DEF Dial, Goes, At, Aside, Thread
  <2> QED BY <2>2, AsideKeeps
<1>5. ASSUME NEW c \in Conn, Begins(c) \/ Completes(c) \/ Reads(c) \/ Leaves(c)
      PROVE  UNCHANGED <<at, holder>>
  BY <1>5 DEF Begins, Completes, Reads, Leaves, here
<1>6. CASE Exit \/ MainStep
  <2>1. UNCHANGED <<at, holder>>
    BY <1>6 DEF Exit, MainStep, StopHeartbeat, JoinHeartbeat, CloseListed, ListPeers, JoinThreads,
                StopPool, Destroy, others
  <2> QED BY <1>2, <2>1
<1> QED BY <1>1, <1>2, <1>3, <1>4, <1>5, <1>6 DEF Next

LEMMA TypeStep == TypeInv /\ [Next]_vars => TypeInv'
<1> SUFFICES ASSUME TypeInv, [Next]_vars PROVE TypeInv'
  OBVIOUS
<1>1. MainTypes /\ NetTypes /\ Mutex /\ at \in [Thread -> Place]
  BY TypeParts DEF TypeInv
<1>2. CASE Next
  <2>1. table \subseteq Conn /\ ready \subseteq Conn /\ toClose \subseteq Conn
    BY <1>1 DEF MainTypes, NetTypes
  <2>2. at' = at \/ \E t \in Thread : Moves(t)
    BY <1>1, <1>2, <2>1, NextMoves
  <2>3. at' \in [Thread -> Place]
    BY <1>1, <2>2 DEF Moves
  <2>4. MainTypes' /\ NetTypes' /\ Mutex'
    BY <1>1, <1>2, <2>1, MainStepTypes, NetStep, MutexStep
  <2>5. at' \in [Thread -> Step]
    BY <2>3 DEF Place
  <2>6. TypeOK'
    BY <2>4, <2>5 DEF TypeOK, MainTypes, NetTypes, Mutex, Sends
  <2> QED BY <2>3, <2>6 DEF TypeInv, Place
<1>3. CASE UNCHANGED vars
  BY <1>3 DEF TypeInv, TypeOK, Place, At, vars, mainVars, farVars
<1> QED BY <1>2, <1>3

-----------------------------------------------------------------------------
(* Types, and that m_sessionMutex admits one sender to a client at a time and *)
(* is given back on every path out of SendPacket.                             *)
THEOREM TypeCorrect == Safety => []TypeOK
<1>1. Safety => []TypeInv
  BY TypeInit, TypeStep, PTL DEF Safety
<1>2. TypeInv => TypeOK
  BY DEF TypeInv
<1> QED BY <1>1, <1>2, PTL

(* Stop joins the heartbeat, then the listener and the connector, and the     *)
(* pool's destructor its workers, before what they use is destroyed.          *)
THEOREM NothingUsedAfterDestruction == Safety => []MembersOutliveThreads
<1>1. Init => TypeInv /\ Order
  BY TypeInit, OrderInit
<1>2. TypeInv /\ Order /\ [Next]_vars => TypeInv' /\ Order'
  BY TypeStep, OrderStep
<1>3. TypeInv /\ Order => MembersOutliveThreads
  BY OrderSuffices DEF TypeInv
<1> QED BY <1>1, <1>2, <1>3, PTL DEF Safety

=============================================================================
