------------------------------ MODULE Shutdown ------------------------------
(* How a server keeps its threads going and how it stops: Start and Stop, the *)
(* destruction of ChatServer, the retry loops of SendPacket, SendAll,         *)
(* BroadcastS2S, HeartbeatLoop and RecvAll, and the Close that they race.     *)
(*                                                                            *)
(* A frame comes in two pieces.  A program at the other end may fall silent   *)
(* in the middle of one, stop reading, or leave.  Sockets do not block: a     *)
(* call that finds nothing to do fails with WSAEWOULDBLOCK and is repeated.   *)
(* Send and Recv on a socket that is closed already fail without a call to    *)
(* Winsock, so WSAGetLastError still has what the thread's last failure left. *)
EXTENDS Naturals, Sequences, FiniteSets, SequencesExt

CONSTANTS Client, Peer,         \* connections, by who is at the other end
          Worker,
          Listener, Heartbeat, Connector,
          Early,                \* connections that are there from the start
          MaxFrames,            \* frames that will come in
          MaxTrouble,           \* times that a buffer fills up or that somebody leaves
          None

Conn == Client \cup Peer
Thread == Worker \cup {Listener, Heartbeat, Connector}

ASSUME ShutdownAssumption ==
    /\ Client \cap Peer = {} /\ Early \subseteq Conn /\ None \notin Conn
    /\ Cardinality({Listener, Heartbeat, Connector}) = 3
    /\ {Listener, Heartbeat, Connector} \cap Worker = {}
    /\ None \notin Thread
    /\ MaxFrames \in Nat /\ MaxTrouble \in Nat

VARIABLES main,      \* where the main thread is
          running,   \* ChatServer::m_running
          beating,   \* HeartbeatManager::m_running
          draining,  \* ThreadPool::m_stop
          members,   \* what is left of ChatServer, in the order of declaration
          sock,      \* sock[c]: "closing" is after closesocket, before m_socket is reset
          table,     \* sockets the sessions and peers of ConnectionManager have
          toClose,   \* main: Stop's list of sockets
          gone,      \* connections whose other end has left
          pieces,    \* pieces[c]: pieces that can be received
          half,      \* connections that still owe the second piece of a frame
          full,      \* connections that take no more bytes for now
          holder,    \* holder[c]: who has the m_sessionMutex of c
          queue,     \* tasks in the pool
          at,        \* at[t]: what t does, with which socket, whom it is removing
          again,     \* threads whose last error is WSAEWOULDBLOCK
          ready,     \* the listener: sockets that select reported
          frames,    \* frames still to come
          trouble    \* full buffers and departures still to come

mainVars == <<main, running, beating, draining, members, toClose>>
farVars == <<gone, half, frames, trouble>>
vars == <<mainVars, sock, table, farVars, pieces, full, holder, queue, at, again, ready>>

Step == [pc : {"top", "each", "first", "second", "closesocket", "reset", "tell",
               "lock", "send", "add", "done"},
         conn : Conn \cup {None}, lost : Conn \cup {None}]
Plain(label) == [pc |-> label, conn |-> None, lost |-> None]

PoolFirst == <<"pool", "tables", "heartbeat", "threads">>   \* mutant: m_threadPool declared first
Declared == <<"tables", "heartbeat", "pool", "threads">>

Init == /\ main = "run" /\ running = TRUE /\ beating = TRUE /\ draining = FALSE
        /\ members = Declared
        /\ sock = [c \in Conn |-> IF c \in Early THEN "open" ELSE "none"]
        /\ table = Early
        /\ toClose = {}
        /\ gone = {} /\ half = {} /\ full = {} /\ again = {} /\ ready = {}
        /\ pieces = [c \in Conn |-> 0]
        /\ holder = [c \in Client |-> None]
        /\ queue = 0
        /\ at = [t \in Thread |-> Plain("top")]
        /\ frames = MaxFrames /\ trouble = MaxTrouble

At(t, label) == at[t].pc = label
Goes(t, step) == at' = [at EXCEPT ![t] = step]

-----------------------------------------------------------------------------
(* What a call on socket c does.  A socket that is being closed fails with    *)
(* WSAENOTSOCK; one that was closed keeps a thread in its loop if the         *)
(* thread's last error says so.                                               *)
Open(c) == sock[c] = "open"
Fails(t, c) == sock[c] = "closing" \/ (sock[c] = "closed" /\ t \notin again)
Caught(t) == at[t].pc \in {"first", "second", "send"} /\ sock[at[t].conn] = "closed" /\ t \in again

\* An error that is not WSAEWOULDBLOCK.  A call that succeeds leaves the old one.
OtherError(t) == again' = again \ {t}

(* Send, in the loops of SendPacket, SendAll and BroadcastS2S.                *)
Towards(c, lost) == [pc |-> IF c \in Client THEN "lock" ELSE "send", conn |-> c, lost |-> lost]

\* What a thread does after a packet: the listener removes the session it lost.
After(t) == IF t = Listener THEN [at[t] EXCEPT !.pc = "tell", !.conn = None] ELSE Plain("top")

NotLooking(c) == TRUE              \* mutant: SendPacket without m_sessionMutex
NotHeld(c) == holder[c] = None

Lock(t) == LET c == at[t].conn IN
    /\ At(t, "lock") /\ NotHeld(c)
    /\ holder' = [holder EXCEPT ![c] = t]
    /\ Goes(t, [at[t] EXCEPT !.pc = "send"])
    /\ UNCHANGED <<mainVars, sock, table, farVars, pieces, full, queue, again, ready>>

UnlockedOnSuccess(t, ok) ==       \* mutant: the mutex is kept when a send fails
    holder' = IF ok /\ at[t].conn \in Client THEN [holder EXCEPT ![at[t].conn] = None] ELSE holder

Unlocked(t, ok) ==
    holder' = IF at[t].conn \in Client THEN [holder EXCEPT ![at[t].conn] = None] ELSE holder

Send(t) == LET c == at[t].conn IN
    /\ At(t, "send") /\ Open(c) /\ c \notin gone /\ c \notin full
    /\ \/ UNCHANGED <<full, trouble>>
       \/ full' = full \cup {c} /\ trouble > 0 /\ trouble' = trouble - 1
    /\ Unlocked(t, TRUE)
    /\ Goes(t, After(t))
    /\ UNCHANGED <<mainVars, sock, table, gone, half, frames, pieces, queue, again, ready>>

SendWouldBlock(t) == LET c == at[t].conn IN
    /\ At(t, "send") /\ Open(c) /\ c \notin gone /\ c \in full
    /\ again' = again \cup {t}
    /\ UNCHANGED <<mainVars, sock, table, farVars, pieces, full, holder, queue, at, ready>>

\* HeartbeatLoop and BroadcastS2S call HandlePeerDisconnect, the others go on.
SendFails(t) == LET c == at[t].conn IN
    /\ At(t, "send")
    /\ Fails(t, c) \/ (Open(c) /\ c \in gone)
    /\ Unlocked(t, FALSE)
    /\ OtherError(t)
    /\ \/ (t = Heartbeat => c \in Client) /\ Goes(t, After(t))
       \/ c \in Peer /\ t # Connector /\ Goes(t, [at[t] EXCEPT !.pc = "closesocket"])
    /\ UNCHANGED <<mainVars, sock, table, farVars, pieces, full, queue, ready>>

-----------------------------------------------------------------------------
(* HandlePeerDisconnect: Close, UnregisterPeerSocket, and STATUS_UPDATE to    *)
(* the clients, one of whom stands for all.                                   *)
CloseSocket(t) == LET c == at[t].conn IN
    /\ At(t, "closesocket")
    /\ sock' = [sock EXCEPT ![c] = IF c \in table /\ @ = "open" THEN "closing" ELSE @]
    /\ Goes(t, IF c \in table THEN [at[t] EXCEPT !.pc = "reset"] ELSE After(t))
    /\ UNCHANGED <<mainVars, table, farVars, pieces, full, holder, queue, again, ready>>

ResetSocket(t) == LET c == at[t].conn IN
    /\ At(t, "reset")
    /\ sock' = [sock EXCEPT ![c] = "closed"]
    /\ table' = table \ {c}
    /\ \/ Goes(t, After(t))
       \/ \E d \in Client \cap table : Goes(t, Towards(d, at[t].lost))
    /\ UNCHANGED <<mainVars, farVars, pieces, full, holder, queue, again, ready>>

-----------------------------------------------------------------------------
(* The listener: select, then every socket it reported.                       *)
Readable == {c \in table : Open(c) /\ (pieces[c] > 0 \/ c \in gone)}

Select ==
    /\ At(Listener, "top") /\ running
    /\ Readable # {}
    /\ ready' = Readable
    /\ Goes(Listener, Plain("each"))
    /\ UNCHANGED <<mainVars, sock, table, farVars, pieces, full, holder, queue, again>>

Accept(c) ==
    /\ At(Listener, "top") /\ running
    /\ c \in Client /\ sock[c] = "none"
    /\ sock' = [sock EXCEPT ![c] = "open"]
    /\ Goes(Listener, [pc |-> "add", conn |-> c, lost |-> None])
    /\ UNCHANGED <<mainVars, table, farVars, pieces, full, holder, queue, again, ready>>

AddSession ==
    /\ At(Listener, "add")
    /\ table' = table \cup {at[Listener].conn}
    /\ Goes(Listener, Plain("top"))
    /\ UNCHANGED <<mainVars, sock, farVars, pieces, full, holder, queue, again, ready>>

ListenerEnds ==
    /\ At(Listener, "top") /\ ~running
    /\ Goes(Listener, Plain("done"))
    /\ UNCHANGED <<mainVars, sock, table, farVars, pieces, full, holder, queue, again, ready>>

\* FD_ISSET knows nothing of a handle that was reset.
NextReady ==
    /\ At(Listener, "each")
    /\ \/ ready = {} /\ Goes(Listener, Plain("top")) /\ UNCHANGED ready
       \/ \E c \in ready : /\ ready' = ready \ {c}
                           /\ Goes(Listener, IF c \in table /\ sock[c] # "closed"
                                             THEN [pc |-> "first", conn |-> c, lost |-> None]
                                             ELSE Plain("each"))
    /\ UNCHANGED <<mainVars, sock, table, farVars, pieces, full, holder, queue, again>>

InFrame == At(Listener, "first") \/ At(Listener, "second")

Recv == LET c == at[Listener].conn IN
    /\ InFrame /\ Open(c) /\ pieces[c] > 0
    /\ pieces' = [pieces EXCEPT ![c] = @ - 1]
    /\ IF At(Listener, "first")
       THEN Goes(Listener, [at[Listener] EXCEPT !.pc = "second"]) /\ UNCHANGED queue
       ELSE Goes(Listener, Plain("each")) /\ queue' = queue + 1
    /\ UNCHANGED <<mainVars, sock, table, farVars, full, holder, again, ready>>

RecvWouldBlock == LET c == at[Listener].conn IN
    /\ InFrame /\ Open(c) /\ pieces[c] = 0 /\ c \notin gone
    /\ again' = again \cup {Listener}
    /\ UNCHANGED <<mainVars, sock, table, farVars, pieces, full, holder, queue, at, ready>>

\* The end of a session is told to others before the session is removed.
RecvFails == LET c == at[Listener].conn IN
    /\ InFrame
    /\ Fails(Listener, c) \/ (Open(c) /\ pieces[c] = 0 /\ c \in gone)
    /\ OtherError(Listener)
    /\ IF c \in Peer THEN Goes(Listener, [pc |-> "closesocket", conn |-> c, lost |-> None])
       ELSE \/ Goes(Listener, [pc |-> "tell", conn |-> None, lost |-> c])
            \/ \E d \in table \ {c} : Goes(Listener, Towards(d, c))
    /\ UNCHANGED <<mainVars, sock, table, farVars, pieces, full, holder, queue, ready>>

RemoveSession ==
    /\ At(Listener, "tell")
    /\ table' = table \ {at[Listener].lost}
    /\ Goes(Listener, Plain("each"))
    /\ UNCHANGED <<mainVars, sock, farVars, pieces, full, holder, queue, again, ready>>

-----------------------------------------------------------------------------
(* The other threads.                                                         *)
\* A handler sends one packet to somebody, or none.
Work(w) ==
    /\ At(w, "top") /\ queue > 0
    /\ queue' = queue - 1
    /\ \/ UNCHANGED at
       \/ \E c \in table : Goes(w, Towards(c, None))
    /\ UNCHANGED <<mainVars, sock, table, farVars, pieces, full, holder, again, ready>>

WorkerEnds(w) ==
    /\ At(w, "top") /\ draining /\ queue = 0
    /\ Goes(w, Plain("done"))
    /\ UNCHANGED <<mainVars, sock, table, farVars, pieces, full, holder, queue, again, ready>>

Beat ==
    /\ At(Heartbeat, "top") /\ beating
    /\ \E c \in Peer \cap table : Goes(Heartbeat, Towards(c, None))
    /\ UNCHANGED <<mainVars, sock, table, farVars, pieces, full, holder, queue, again, ready>>

HeartbeatEnds ==
    /\ At(Heartbeat, "top") /\ ~beating
    /\ Goes(Heartbeat, Plain("done"))
    /\ UNCHANGED <<mainVars, sock, table, farVars, pieces, full, holder, queue, again, ready>>

\* Connect, RegisterPeerSocket and the handshake.
Dial(c) ==
    /\ At(Connector, "top") /\ running
    /\ c \in Peer /\ sock[c] = "none"
    /\ sock' = [sock EXCEPT ![c] = "open"]
    /\ table' = table \cup {c}
    /\ Goes(Connector, Towards(c, None))
    /\ UNCHANGED <<mainVars, farVars, pieces, full, holder, queue, again, ready>>

ConnectorEnds ==
    /\ At(Connector, "top") /\ ~running
    /\ Goes(Connector, Plain("done"))
    /\ UNCHANGED <<mainVars, sock, table, farVars, pieces, full, holder, queue, again, ready>>

-----------------------------------------------------------------------------
(* The main thread: Stop, then the members of ChatServer in reverse order.    *)
others == <<table, farVars, pieces, full, holder, queue, at, again, ready>>

StaysUp == UNCHANGED running           \* mutant: m_running is not lowered
Lowered == running' = FALSE

Exit ==
    /\ main = "run"
    /\ Lowered
    /\ main' = "heart"
    /\ UNCHANGED <<beating, draining, members, toClose, sock, others>>

StopHeartbeat ==
    /\ main = "heart" /\ beating
    /\ beating' = FALSE
    /\ UNCHANGED <<main, running, draining, members, toClose, sock, others>>

JoinHeartbeat ==
    /\ main = "heart" /\ ~beating /\ At(Heartbeat, "done")
    /\ toClose' = table \cap Client
    /\ main' = "sessions"
    /\ UNCHANGED <<running, beating, draining, members, sock, others>>

\* Close, in its two halves, on one listed socket after the other.
CloseListed ==
    /\ main \in {"sessions", "peers"}
    /\ \E c \in toClose :
        \/ /\ Open(c) /\ \A d \in toClose : sock[d] # "closing"
           /\ sock' = [sock EXCEPT ![c] = "closing"]
           /\ UNCHANGED toClose
        \/ /\ ~Open(c)
           /\ sock' = [sock EXCEPT ![c] = "closed"]
           /\ toClose' = toClose \ {c}
    /\ UNCHANGED <<main, running, beating, draining, members, others>>

ListPeers ==
    /\ main = "sessions" /\ toClose = {}
    /\ toClose' = table \cap Peer
    /\ main' = "peers"
    /\ UNCHANGED <<running, beating, draining, members, sock, others>>

JoinThreads ==
    /\ main = "peers" /\ toClose = {}
    /\ At(Listener, "done") /\ At(Connector, "done")
    /\ main' = "destroy"
    /\ UNCHANGED <<running, beating, draining, members, toClose, sock, others>>

LastDeclared == Last(members)

\* ~ThreadPool drains the queue and joins the workers.
StopPool ==
    /\ main = "destroy" /\ LastDeclared = "pool" /\ ~draining
    /\ draining' = TRUE
    /\ UNCHANGED <<main, running, beating, members, toClose, sock, others>>

Destroy ==
    /\ main = "destroy"
    /\ LastDeclared = "pool" => draining /\ \A w \in Worker : At(w, "done")
    /\ members # <<>>
    /\ members' = Front(members)
    /\ main' = IF members' = <<>> THEN "gone" ELSE main
    /\ UNCHANGED <<running, beating, draining, toClose, sock, others>>

MainStep == \/ StopHeartbeat \/ JoinHeartbeat \/ CloseListed \/ ListPeers
            \/ JoinThreads \/ StopPool \/ Destroy

-----------------------------------------------------------------------------
(* The programs at the other ends.                                            *)
here == <<mainVars, sock, table, holder, queue, at, again, ready>>

Begins(c) ==
    /\ Open(c) /\ c \notin gone \cup half
    /\ frames > 0 /\ frames' = frames - 1
    /\ half' = half \cup {c}
    /\ pieces' = [pieces EXCEPT ![c] = @ + 1]
    /\ UNCHANGED <<here, gone, trouble, full>>

Completes(c) ==
    /\ Open(c) /\ c \in half \ gone
    /\ half' = half \ {c}
    /\ pieces' = [pieces EXCEPT ![c] = @ + 1]
    /\ UNCHANGED <<here, gone, frames, trouble, full>>

Reads(c) ==
    /\ c \in full \ gone
    /\ full' = full \ {c}
    /\ UNCHANGED <<here, farVars, pieces>>

Leaves(c) ==
    /\ Open(c) /\ c \notin gone
    /\ trouble > 0 /\ trouble' = trouble - 1
    /\ gone' = gone \cup {c}
    /\ UNCHANGED <<here, half, frames, pieces, full>>

-----------------------------------------------------------------------------
SendStep(t) == Lock(t) \/ Send(t) \/ SendWouldBlock(t) \/ SendFails(t) \/ CloseSocket(t) \/ ResetSocket(t)
ListenStep == \/ Select \/ AddSession \/ ListenerEnds \/ NextReady
              \/ Recv \/ RecvWouldBlock \/ RecvFails \/ RemoveSession
OwnStep(t) == \/ t = Listener /\ ListenStep
              \/ t \in Worker /\ (Work(t) \/ WorkerEnds(t))
              \/ t = Heartbeat /\ (Beat \/ HeartbeatEnds)
              \/ t = Connector /\ ConnectorEnds
ThreadStep(t) == SendStep(t) \/ OwnStep(t)

Next == \/ \E t \in Thread : ThreadStep(t)
        \/ \E c \in Conn : Accept(c) \/ Dial(c)
        \/ \E c \in Conn : Begins(c) \/ Completes(c) \/ Reads(c) \/ Leaves(c)
        \/ Exit \/ MainStep

Safety == Init /\ [][Next]_vars

(* Every thread of the server runs.  The others owe nothing.                  *)
Spec == Safety /\ WF_vars(MainStep) /\ \A t \in Thread : WF_vars(ThreadStep(t))

-----------------------------------------------------------------------------
(* Types; one thread at a time sends to a client and has m_sessionMutex.      *)
TypeOK ==
    /\ main \in {"run", "heart", "sessions", "peers", "destroy", "gone"}
    /\ running \in BOOLEAN /\ beating \in BOOLEAN /\ draining \in BOOLEAN
    /\ members \in Seq(Range(Declared))
    /\ sock \in [Conn -> {"none", "open", "closing", "closed"}]
    /\ table \subseteq Conn /\ toClose \subseteq Conn /\ gone \subseteq Conn
    /\ half \subseteq Conn /\ full \subseteq Conn /\ ready \subseteq Conn
    /\ pieces \in [Conn -> Nat]
    /\ holder \in [Client -> Thread \cup {None}]
    /\ \A c \in Client, t \in Thread : holder[c] = t <=> (At(t, "send") /\ at[t].conn = c)
    /\ queue \in Nat /\ frames \in 0..MaxFrames /\ trouble \in 0..MaxTrouble
    /\ at \in [Thread -> Step]
    /\ again \subseteq Thread

(* The destructor takes nothing away from a thread that still runs: tasks     *)
(* that are drained find the tables, the pool outlives those who enqueue.     *)
Uses(t) == CASE t \in Worker    -> {"tables", "heartbeat", "pool"}
             [] t = Heartbeat   -> {"tables", "heartbeat"}
             [] OTHER           -> {"tables", "heartbeat", "pool", "threads"}
MembersOutliveThreads == \A t \in Thread : ~At(t, "done") => Uses(t) \subseteq Range(members)

(* What can hold a thread for ever: a retry loop that met Close in its sleep, *)
(* or a program at the other end that fell silent or does not read.           *)
WaitsForFar(t) == LET c == at[t].conn IN
    /\ at[t].pc \in {"first", "second", "send"} /\ Open(c) /\ c \notin gone
    /\ IF at[t].pc = "send" THEN c \in full ELSE pieces[c] = 0
Stuck == \E t \in Thread : Caught(t) \/ WaitsForFar(t)

(* Nothing else does: not m_sessionMutex, not the pool, not select.           *)
ThreadsComeBack == <>[]Stuck \/ \A t \in Thread : []<>(At(t, "top") \/ At(t, "done"))

(* "exit" ends the server, unless a thread is stuck.                          *)
StopReturns == (main # "run") ~> (main = "gone")
StopReturnsUnlessStuck == <>[]Stuck \/ StopReturns

=============================================================================
