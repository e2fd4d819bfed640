------------------------------ MODULE Presence ------------------------------
(* Who is logged in where: the tables of UserManager and ConnectionManager on *)
(* every server of a cluster, and the threads of ChatServer that write them.  *)
(*                                                                            *)
(* Each server n has one listener thread (ListenerLoop: it reads the sockets, *)
(* hands packets to the pool and itself runs the disconnect code), the pool's *)
(* workers (the packet handlers) and the heartbeat thread.  A thread's frame  *)
(* records how far it has got; every locked call on a table is one action, so *)
(* the threads interleave between the calls as in the program.  The pool      *)
(* starts its tasks in order and runs up to one per worker at a time, which   *)
(* is what module TaskPool promises.                                          *)
(*                                                                            *)
(* A session is one client connection; it lives on server Home[s].  Clients,  *)
(* TCP and the network are the environment.                                   *)
EXTENDS Integers, FiniteSets, Sequences, SequencesExt

CONSTANTS Server, Session, Name,
          Worker,      \* the pool's threads, the same names on every server
          Listener,    \* the listener thread
          Heartbeat,   \* the heartbeat thread
          Home,        \* Home[s]: the server that session s connects to
          MayUse,      \* MayUse[s]: the names its client may log in with
          Invalid,     \* the names HandleLogin refuses (empty, or with a space)
          MaxLogins,   \* bound: LOGIN packets per connection
          MaxBreaks,   \* bound: times the network cuts a link
          MaxDials,    \* bound: times a connector thread finds its peer
          Patient,     \* a client waits for the answer before it goes on
          StartLinked, \* begin after the connectors' first round, not before it
          NoServer, NoSession, NoName

Thread == Worker \cup {Listener, Heartbeat}

ASSUME PresenceAssumption ==
    /\ Home \in [Session -> Server]
    /\ MayUse \in [Session -> SUBSET Name]
    /\ Invalid \subseteq Name
    /\ MaxLogins \in Nat /\ MaxBreaks \in Nat /\ MaxDials \in Nat
    /\ Patient \in BOOLEAN /\ StartLinked \in BOOLEAN
    /\ NoServer \notin Server /\ NoSession \notin Session /\ NoName \notin Name
    /\ IsFiniteSet(Worker)
    /\ Listener \notin Worker /\ Heartbeat \notin Worker /\ Listener # Heartbeat

(* A packet, and the task that handles it.                                    *)
Job == [kind : {"login", "online", "offline", "hello", "junk"},
        ses  : Session \cup {NoSession},
        user : Name \cup {NoName},
        from : Server \cup {NoServer}]

Login(s, u)   == [kind |-> "login",   ses |-> s, user |-> u, from |-> NoServer]
Online(s, u)  == [kind |-> "online",  ses |-> s, user |-> u, from |-> Home[s]]
Offline(s, u) == [kind |-> "offline", ses |-> s, user |-> u, from |-> Home[s]]
Hello(n) == [kind |-> "hello", ses |-> NoSession, user |-> NoName, from |-> n]
Junk     == [kind |-> "junk",  ses |-> NoSession, user |-> NoName, from |-> NoServer]

Label == {"idle", "check", "register", "auth", "announce", "unregister", "remove",
          "apply", "promote", "unlink", "clear"}

Frame == [pc   : Label,
          job  : Job,
          todo : SUBSET Server,            \* peers BroadcastS2S has still to visit
          peer : Server \cup {NoServer}]   \* the argument of HandlePeerDisconnect

Idle == [pc |-> "idle", job |-> Junk, todo |-> {}, peer |-> NoServer]

VARIABLES sock,      \* sock[s]: the client's end, "none", "open" or "shut"
          asked,     \* asked[s]: names of the LOGIN packets it sent, in order
          taken,     \* taken[s]: how many of them the listener has read
          answered,  \* answered[s]: LOGIN_RESP packets sent back
          username,  \* ClientSession::m_username (set with m_isAuthenticated)
          bySocket,  \* bySocket[n]: ConnectionManager::m_sessionsBySocket
          byName,    \* byName[n][u]: ConnectionManager::m_sessionsByUsername
          users,     \* users[n][u]: UserManager::m_userLocations
          peer,      \* peer[n][m]: n's registered socket to m, "down", "up", "lost"
          raw,       \* raw[n][m]: link m dialled, n has not promoted yet
          chan,      \* chan[n][m]: bytes from n to m on their latest link
          queue,     \* queue[n]: the pool's m_tasks
          frame,     \* frame[n][t]: what thread t of server n is doing
          breaks,    \* links cut so far
          dials      \* links set up so far

clientVars  == <<sock, asked, taken, answered>>
sessionVars == <<username, bySocket, byName>>
linkVars    == <<peer, raw, chan, breaks, dials>>
vars == <<clientVars, sessionVars, users, linkVars, queue, frame>>

PeersAndSelf(n) == Server         \* mutant: the server is in its own peer list

Peers(n) == Server \ {n}

Init == /\ sock = [s \in Session |-> "none"]
        /\ asked = [s \in Session |-> <<>>]
        /\ taken = [s \in Session |-> 0]
        /\ answered = [s \in Session |-> 0]
        /\ username = [s \in Session |-> NoName]
        /\ bySocket = [n \in Server |-> {}]
        /\ byName = [n \in Server |-> [u \in Name |-> NoSession]]
        /\ users = [n \in Server |-> [u \in Name |-> NoServer]]
        /\ peer = [n \in Server |-> [m \in Server |->
                       IF StartLinked /\ m \in Peers(n) THEN "up" ELSE "down"]]
        /\ raw = [n \in Server |-> [m \in Server |-> "none"]]
        /\ chan = [n \in Server |-> [m \in Server |-> <<>>]]
        /\ queue = [n \in Server |-> <<>>]
        /\ frame = [n \in Server |-> [t \in Thread |-> Idle]]
        /\ breaks = 0
        /\ dials = 0

Moves(n, t, f) == frame' = [frame EXCEPT ![n][t] = f]
Goes(n, t, label) == Moves(n, t, [frame[n][t] EXCEPT !.pc = label])

\* A thread in BroadcastS2S: to the next peer, or back to its caller.
Proceed(f) == CASE f.todo # {} -> [f EXCEPT !.pc = "announce", !.peer = NoServer]
                [] f.todo = {} /\ f.job.kind = "offline" -> [f EXCEPT !.pc = "remove", !.peer = NoServer]
                [] OTHER -> Idle

-----------------------------------------------------------------------------
(* Clients.                                                                   *)
SendLogin(s, u) == /\ sock[s] = "open"
                   /\ Len(asked[s]) < MaxLogins
                   /\ Patient => answered[s] = Len(asked[s])
                   /\ asked' = [asked EXCEPT ![s] = Append(@, u)]
                   /\ UNCHANGED <<sock, taken, answered, sessionVars, users, linkVars, queue, frame>>

HangUp(s) == /\ sock[s] = "open"
             /\ Patient => answered[s] = Len(asked[s])
             /\ sock' = [sock EXCEPT ![s] = "shut"]
             /\ UNCHANGED <<asked, taken, answered, sessionVars, users, linkVars, queue, frame>>

-----------------------------------------------------------------------------
(* The listener.  It starts something new only when the last call returned.   *)
Listening(n) == frame[n][Listener].pc = "idle"

Accept(s) == /\ sock[s] = "none"
             /\ Listening(Home[s])
             /\ sock' = [sock EXCEPT ![s] = "open"]
             /\ bySocket' = [bySocket EXCEPT ![Home[s]] = @ \cup {s}]
             /\ UNCHANGED <<asked, taken, answered, username, byName, users, linkVars, queue, frame>>

ReadLogin(s) == /\ Listening(Home[s])
                /\ s \in bySocket[Home[s]]
                /\ taken[s] < Len(asked[s])
                /\ taken' = [taken EXCEPT ![s] = @ + 1]
                /\ queue' = [queue EXCEPT ![Home[s]] = Append(@, Login(s, asked[s][taken[s] + 1]))]
                /\ UNCHANGED <<sock, asked, answered, sessionVars, users, linkVars, frame>>

ReadEofNamed(s) ==                \* mutant: only authenticated sessions are torn down
    /\ Listening(Home[s])
    /\ s \in bySocket[Home[s]]
    /\ sock[s] = "shut" /\ username[s] # NoName
    /\ Moves(Home[s], Listener, [Idle EXCEPT !.pc = "unregister", !.job = Offline(s, username[s])])
    /\ UNCHANGED <<clientVars, sessionVars, users, linkVars, queue>>

\* The name is read here and used by the steps below.  A reset may overtake
\* packets that were not read yet.
ReadEof(s) ==
    /\ Listening(Home[s])
    /\ s \in bySocket[Home[s]]
    /\ sock[s] = "shut"
    /\ Moves(Home[s], Listener,
             [Idle EXCEPT !.pc = IF username[s] = NoName THEN "remove" ELSE "unregister",
                          !.job = Offline(s, username[s])])
    /\ UNCHANGED <<clientVars, sessionVars, users, linkVars, queue>>

Unregister(n) ==
    LET f == frame[n][Listener] IN
    /\ f.pc = "unregister"
    /\ users' = [users EXCEPT ![n][f.job.user] = NoServer]
    /\ Moves(n, Listener, Proceed([f EXCEPT !.todo = Peers(n)]))
    /\ UNCHANGED <<clientVars, sessionVars, linkVars, queue>>

ForgetNothing(n, s) == byName[n]  \* mutant: only m_sessionsBySocket is cleaned

ForgetName(n, s) == IF username[s] = NoName THEN byName[n]
                    ELSE [byName[n] EXCEPT ![username[s]] = NoSession]

RemoveSession(n) ==
    LET s == frame[n][Listener].job.ses IN
    /\ frame[n][Listener].pc = "remove"
    /\ byName' = [byName EXCEPT ![n] = ForgetName(n, s)]
    /\ bySocket' = [bySocket EXCEPT ![n] = @ \ {s}]
    /\ Moves(n, Listener, Idle)
    /\ UNCHANGED <<clientVars, username, users, linkVars, queue>>

-----------------------------------------------------------------------------
(* BroadcastS2S of a login or a logout: each peer in turn.                    *)
Send(n, m, j) == chan' = IF peer[n][m] = "up" THEN [chan EXCEPT ![n][m] = Append(@, j)] ELSE chan

\* A peer that is not connected is skipped; a dead link may still take bytes.
Announce(n, t, m) ==
    LET f == frame[n][t] IN
    /\ f.pc = "announce" /\ m \in f.todo
    /\ Send(n, m, f.job)
    /\ Moves(n, t, Proceed([f EXCEPT !.todo = @ \ {m}]))
    /\ UNCHANGED <<clientVars, sessionVars, users, peer, raw, breaks, dials, queue>>

\* The send fails and HandlePeerDisconnect finds the peer connected.
SendFails(n, t, m) ==
    LET f == frame[n][t] IN
    /\ f.pc = "announce" /\ m \in f.todo
    /\ peer[n][m] = "lost"
    /\ Moves(n, t, [f EXCEPT !.pc = "unlink", !.todo = @ \ {m}, !.peer = m])
    /\ UNCHANGED <<clientVars, sessionVars, users, linkVars, queue>>

-----------------------------------------------------------------------------
(* The rest of HandlePeerDisconnect, on whichever thread called it.  Its test *)
(* of IsConnected is part of the step that calls it: a test made later that   *)
(* fails returns without effect, and one that succeeds leads here as well.    *)

\* The other end of a link that is cut at this one.
Cut(st) == IF st = "up" THEN "lost" ELSE st

UnlinkCloseOnly(n, t) ==          \* mutant: UnregisterPeerSocket is not called
    /\ frame[n][t].pc = "unlink"
    /\ peer' = [peer EXCEPT ![n][frame[n][t].peer] = "lost"]
    /\ Goes(n, t, "clear")
    /\ UNCHANGED <<clientVars, sessionVars, users, raw, chan, breaks, dials, queue>>

\* Close, then UnregisterPeerSocket: whatever socket is registered by now.
Unlink(n, t) ==
    LET m == frame[n][t].peer IN
    /\ frame[n][t].pc = "unlink"
    /\ IF peer[n][m] = "up"
       THEN /\ raw' = [raw EXCEPT ![m][n] = Cut(@)]
            /\ peer' = [peer EXCEPT ![n][m] = "down",
                                    ![m][n] = IF raw[m][n] = "none" THEN Cut(@) ELSE @]
       ELSE /\ peer' = [peer EXCEPT ![n][m] = "down"]
            /\ UNCHANGED raw
    /\ chan' = IF raw[n][m] = "none" THEN [chan EXCEPT ![m][n] = <<>>] ELSE chan
    /\ Goes(n, t, "clear")
    /\ UNCHANGED <<clientVars, sessionVars, users, breaks, dials, queue>>

ClearServerUsers(n, m) == [u \in Name |-> IF users[n][u] = m THEN NoServer ELSE users[n][u]]

Clear(n, t) ==
    LET f == frame[n][t] IN
    /\ f.pc = "clear"
    /\ users' = [users EXCEPT ![n] = ClearServerUsers(n, f.peer)]
    /\ Moves(n, t, Proceed(f))
    /\ UNCHANGED <<clientVars, sessionVars, linkVars, queue>>

-----------------------------------------------------------------------------
(* The workers.                                                               *)
EntryDropsOnline(kind) ==         \* mutant: the reply to a login is not applied
    CASE kind = "login" -> "check"
      [] kind = "offline" -> "apply"
      [] kind = "hello" -> "promote"
      [] kind \in {"junk", "online"} -> "idle"

Entry(kind) == CASE kind = "login" -> "check"
                 [] kind \in {"online", "offline"} -> "apply"
                 [] kind = "hello" -> "promote"
                 [] kind = "junk" -> "idle"

\* A task is started.  Junk is a packet of an unauthenticated session: its
\* handler answers "Authentication required" and returns.
Start(n, w) ==
    LET j == Head(queue[n]) IN
    /\ frame[n][w].pc = "idle"
    /\ queue[n] # <<>>
    /\ queue' = [queue EXCEPT ![n] = Tail(@)]
    /\ Moves(n, w, [Idle EXCEPT !.pc = Entry(j.kind), !.job = j])
    /\ UNCHANGED <<clientVars, sessionVars, users, linkVars>>

Refused(n, u) == u \in Invalid \/ users[n][u] # NoServer

CheckSilent(n, w) ==              \* mutant: a refusal is not answered
    LET j == frame[n][w].job IN
    /\ frame[n][w].pc = "check"
    /\ IF Refused(n, j.user) THEN Moves(n, w, Idle) ELSE Goes(n, w, "register")
    /\ UNCHANGED <<clientVars, sessionVars, users, linkVars, queue>>

CheckFallsThrough(n, w) ==        \* mutant: no return after the refusal
    LET j == frame[n][w].job IN
    /\ frame[n][w].pc = "check"
    /\ answered' = IF Refused(n, j.user) THEN [answered EXCEPT ![j.ses] = @ + 1] ELSE answered
    /\ Goes(n, w, "register")
    /\ UNCHANGED <<sock, asked, taken, sessionVars, users, linkVars, queue>>

Check(n, w) ==
    LET j == frame[n][w].job IN
    /\ frame[n][w].pc = "check"
    /\ IF Refused(n, j.user)
       THEN answered' = [answered EXCEPT ![j.ses] = @ + 1] /\ Moves(n, w, Idle)
       ELSE UNCHANGED answered /\ Goes(n, w, "register")
    /\ UNCHANGED <<sock, asked, taken, sessionVars, users, linkVars, queue>>

Register(n, w) ==
    /\ frame[n][w].pc = "register"
    /\ users' = [users EXCEPT ![n][frame[n][w].job.user] = n]
    /\ Goes(n, w, "auth")
    /\ UNCHANGED <<clientVars, sessionVars, linkVars, queue>>

IndexKeyStale(j) == username[j.ses]     \* mutant: indexed before SetUsername
IndexKey(j) == j.user

KeepName(j) == username                 \* mutant: SetUsername forgotten
SetName(j) == [username EXCEPT ![j.ses] = j.user]

\* AuthenticateSession and the "Welcome" answer.
Auth(n, w) ==
    LET j == frame[n][w].job IN
    /\ frame[n][w].pc = "auth"
    /\ username' = SetName(j)
    /\ byName' = [byName EXCEPT ![n][IndexKey(j)] = j.ses]
    /\ answered' = [answered EXCEPT ![j.ses] = @ + 1]
    /\ Moves(n, w, Proceed([Idle EXCEPT !.job = Online(j.ses, j.user), !.todo = Peers(n)]))
    /\ UNCHANGED <<sock, asked, taken, bySocket, users, linkVars, queue>>

ApplyAsLocal(n, w) ==             \* mutant: registers its own id, not the payload's
    LET j == frame[n][w].job IN
    /\ frame[n][w].pc = "apply"
    /\ users' = [users EXCEPT ![n][j.user] = IF j.kind = "online" THEN n ELSE NoServer]
    /\ Moves(n, w, Idle)
    /\ UNCHANGED <<clientVars, sessionVars, linkVars, queue>>

\* HandleS2SReplicateUser.
Apply(n, w) ==
    LET j == frame[n][w].job IN
    /\ frame[n][w].pc = "apply"
    /\ users' = [users EXCEPT ![n][j.user] = IF j.kind = "online" THEN j.from ELSE NoServer]
    /\ Moves(n, w, Idle)
    /\ UNCHANGED <<clientVars, sessionVars, linkVars, queue>>

\* S2S_CONNECT: the session becomes the peer's socket, the old one is dropped.
Promote(n, w) ==
    LET m == frame[n][w].job.from IN
    /\ frame[n][w].pc = "promote"
    /\ peer' = [peer EXCEPT ![n][m] = IF raw[n][m] = "lost" THEN "lost" ELSE "up"]
    /\ raw' = [raw EXCEPT ![n][m] = "none"]
    /\ Moves(n, w, Idle)
    /\ UNCHANGED <<clientVars, sessionVars, users, chan, breaks, dials, queue>>

-----------------------------------------------------------------------------
(* Links.  The connector thread of n dials m when m is not connected; m's     *)
(* listener accepts a raw session at once, which becomes a peer when the pool *)
(* has handled the S2S_CONNECT.  Two servers never dial each other at once.   *)
Dial(n, m) ==
    /\ m \in Peers(n)
    /\ peer[n][m] = "down" /\ peer[m][n] # "up"
    /\ raw[n][m] = "none" /\ raw[m][n] = "none"
    /\ dials < MaxDials
    /\ dials' = dials + 1
    /\ peer' = [peer EXCEPT ![n][m] = "up"]
    /\ raw' = [raw EXCEPT ![m][n] = "up"]
    /\ chan' = [chan EXCEPT ![n][m] = <<Hello(n)>>, ![m][n] = <<>>]
    /\ UNCHANGED <<clientVars, sessionVars, users, breaks, queue, frame>>

AsClientPacket(j) == IF j.kind = "hello" THEN j ELSE Junk

\* While the link is raw its packets are handled as a client's.
ReadPeer(n, m) ==
    /\ Listening(n)
    /\ chan[m][n] # <<>>
    /\ raw[n][m] # "none" \/ peer[n][m] # "down"
    /\ LET j == Head(chan[m][n]) IN
       queue' = [queue EXCEPT ![n] = Append(@, IF raw[n][m] # "none" THEN AsClientPacket(j) ELSE j)]
    /\ chan' = [chan EXCEPT ![m][n] = Tail(@)]
    /\ UNCHANGED <<clientVars, sessionVars, users, peer, raw, breaks, dials, frame>>

PeerEof(n, m) ==
    /\ Listening(n)
    /\ peer[n][m] = "lost"
    /\ raw[n][m] # "none" \/ chan[m][n] = <<>>
    /\ Moves(n, Listener, [Idle EXCEPT !.pc = "unlink", !.peer = m])
    /\ UNCHANGED <<clientVars, sessionVars, users, linkVars, queue>>

Promoting(n, m) == \/ Contains(queue[n], Hello(m))
                   \/ \E w \in Worker : frame[n][w].pc = "promote" /\ frame[n][w].job = Hello(m)

\* A raw session that ends before its S2S_CONNECT was read has no name.
RawEof(n, m) ==
    /\ Listening(n)
    /\ raw[n][m] = "lost" /\ chan[m][n] = <<>> /\ ~Promoting(n, m)
    /\ raw' = [raw EXCEPT ![n][m] = "none"]
    /\ UNCHANGED <<clientVars, sessionVars, users, peer, chan, breaks, dials, queue, frame>>

\* HeartbeatManager: 15 s without a packet, or a ping that cannot be sent.
HeartbeatTimeout(n, m) ==
    /\ frame[n][Heartbeat].pc = "idle"
    /\ peer[n][m] = "lost"
    /\ Moves(n, Heartbeat, [Idle EXCEPT !.pc = "unlink", !.peer = m])
    /\ UNCHANGED <<clientVars, sessionVars, users, linkVars, queue>>

\* The network cuts the link; what was under way arrives up to some point.
NetBreak(n, m) ==
    /\ n # m
    /\ peer[n][m] = "up"
    /\ breaks < MaxBreaks
    /\ breaks' = breaks + 1
    /\ peer' = [peer EXCEPT ![n][m] = "lost", ![m][n] = IF raw[m][n] = "none" THEN Cut(@) ELSE @]
    /\ raw' = [raw EXCEPT ![m][n] = Cut(@)]
    /\ \E i \in 0..Len(chan[n][m]), k \in 0..Len(chan[m][n]) :
          chan' = [chan EXCEPT ![n][m] = SubSeq(@, 1, i), ![m][n] = SubSeq(@, 1, k)]
    /\ UNCHANGED <<clientVars, sessionVars, users, dials, queue, frame>>

-----------------------------------------------------------------------------
ClientStep(s) == \/ \E u \in MayUse[s] : SendLogin(s, u)
                 \/ HangUp(s)

ThreadStep(n, t) == \/ \E m \in Server : Announce(n, t, m) \/ SendFails(n, t, m)
                    \/ Unlink(n, t)
                    \/ Clear(n, t)

WorkerStep(n, w) == \/ Start(n, w)
                    \/ Check(n, w) \/ Register(n, w) \/ Auth(n, w)
                    \/ Apply(n, w) \/ Promote(n, w)
                    \/ ThreadStep(n, w)

HeartbeatStep(n) == \/ \E m \in Server : HeartbeatTimeout(n, m)
                    \/ ThreadStep(n, Heartbeat)

DisconnectStep(n) == Unregister(n) \/ RemoveSession(n) \/ ThreadStep(n, Listener)

SocketStep(n, m) == ReadPeer(n, m) \/ PeerEof(n, m) \/ RawEof(n, m)

Next == \/ \E s \in Session : ClientStep(s) \/ Accept(s) \/ ReadLogin(s) \/ ReadEof(s)
        \/ \E n \in Server : \/ \E w \in Worker : WorkerStep(n, w)
                             \/ HeartbeatStep(n)
                             \/ DisconnectStep(n)
                             \/ \E m \in Server : SocketStep(n, m) \/ Dial(n, m) \/ NetBreak(n, m)

(* Every thread that can run does.  The listener is busy now and then, but    *)
(* each pass of its select loop serves every readable socket, so one that is  *)
(* readable again and again is served (strong fairness, once per socket).  Clients need not do   *)
(* anything, the network need not break, and a link need not be dialled.      *)
Fairness == /\ \A s \in Session : SF_vars(ReadLogin(s) \/ ReadEof(s))
            /\ \A n \in Server : /\ \A w \in Worker : WF_vars(WorkerStep(n, w))
                                 /\ WF_vars(HeartbeatStep(n))
                                 /\ WF_vars(DisconnectStep(n))
                                 /\ \A m \in Peers(n) : SF_vars(SocketStep(n, m))

Safety == Init /\ [][Next]_vars

Spec == Safety /\ Fairness

-----------------------------------------------------------------------------
(* Types of the tables, the channels and the threads' frames; no server is    *)
(* its own peer.                                                              *)
TypeOK ==
    /\ sock \in [Session -> {"none", "open", "shut"}]
    /\ asked \in [Session -> Seq(Name)]
    /\ taken \in [Session -> Nat]
    /\ answered \in [Session -> Nat]
    /\ username \in [Session -> Name \cup {NoName}]
    /\ bySocket \in [Server -> SUBSET Session]
    /\ byName \in [Server -> [Name -> Session \cup {NoSession}]]
    /\ users \in [Server -> [Name -> Server \cup {NoServer}]]
    /\ peer \in [Server -> [Server -> {"down", "up", "lost"}]]
    /\ raw \in [Server -> [Server -> {"none", "up", "lost"}]]
    /\ chan \in [Server -> [Server -> Seq(Job)]]
    /\ queue \in [Server -> Seq(Job)]
    /\ frame \in [Server -> [Thread -> Frame]]
    /\ breaks \in Nat /\ dials \in Nat
    /\ \A n \in Server : peer[n][n] = "down" /\ raw[n][n] = "none"

(* Replication invents nobody: a location in any table goes back to a LOGIN   *)
(* packet that a client of that very server sent, with a name that passes     *)
(* HandleLogin's validation, whatever was reordered, lost or cleared since.   *)
AskedAt(m, u) == \E s \in Session : Home[s] = m /\ u \in ToSet(asked[s])
LocationHasCause ==
    \A n, m \in Server, u \in Name : users[n][u] = m => AskedAt(m, u) /\ u \notin Invalid

(* m_sessionsByUsername never leads to a stranger: the session found for a    *)
(* name is one of this server whose client asked for that name and which has  *)
(* been welcomed, so a private message cannot reach anyone else.              *)
IndexSound ==
    \A n \in Server, u \in Name : byName[n][u] # NoSession =>
        LET s == byName[n][u] IN
        Home[s] = n /\ u \in ToSet(asked[s]) /\ username[s] # NoName

(* A LOGIN packet that was read is answered once or still being handled: the  *)
(* pool and the handlers neither drop nor repeat one.                         *)
Handling(s) ==
    Cardinality({i \in DOMAIN queue[Home[s]] :
                     queue[Home[s]][i].kind = "login" /\ queue[Home[s]][i].ses = s})
    + Cardinality({w \in Worker : /\ frame[Home[s]][w].pc \in {"check", "register", "auth"}
                                  /\ frame[Home[s]][w].job.ses = s})
LoginAccounted == \A s \in Session : taken[s] = answered[s] + Handling(s)

(* Who is welcomed can be reached: an authenticated session that is not being *)
(* torn down is what both tables of its server give for its name, if no other *)
(* client uses that name, whatever logins come after or beside this one,      *)
(* under this or other names, and whatever the peers send or lose.            *)
OwnName(u) == \A r, s \in Session : u \in MayUse[r] \cap MayUse[s] => r = s
DistinctNames == \A r, s \in Session : r # s => MayUse[r] \cap MayUse[s] = {}
Leaving(s) == ~Listening(Home[s]) /\ frame[Home[s]][Listener].job.ses = s
WelcomedIsReachable ==
    \A s \in Session :
        LET n == Home[s] u == username[s] IN
        s \in bySocket[n] /\ u # NoName /\ OwnName(u) /\ ~Leaving(s) =>
            byName[n][u] = s /\ users[n][u] = n

(* When the listener is done with a connection its server has forgotten the   *)
(* client's names.                                                            *)
Gone(s) == sock[s] = "shut" /\ s \notin bySocket[Home[s]]
GoneIsGone ==
    \A s \in Session : Gone(s) => \A u \in MayUse[s] :
        users[Home[s]][u] # Home[s] /\ byName[Home[s]][u] # s

(* A client that stays gets an answer to its LOGIN.                           *)
LoginAnswered ==
    \A s \in Session : Len(asked[s]) > answered[s] ~> Len(asked[s]) = answered[s]

(* The disconnect of a client is always carried through, although the same    *)
(* listener thread also reads every link and runs HandlePeerDisconnect when   *)
(* one ends, or when the broadcast of the very logout meets a dead one.       *)
DisconnectCompletes ==
    \A s \in Session : sock[s] = "shut" ~> Gone(s)

(* A dead link is noticed: by a failed send, the end of the stream or the     *)
(* heartbeat.                                                                 *)
LossIsNoticed ==
    \A n \in Server : \A m \in Peers(n) : peer[n][m] = "lost" ~> peer[n][m] # "lost"

(* A login under way on a promoted link, the first one or one that was set up *)
(* again, lands in the peer's table, unless the link is lost or the client    *)
(* leaves first.                                                              *)
InFlight(n, s, u) ==
    Contains(chan[Home[s]][n], Online(s, u)) /\ raw[n][Home[s]] = "none" /\ peer[n][Home[s]] = "up"
LoginLands ==
    \A s \in Session : \A n \in Peers(Home[s]) : \A u \in MayUse[s] \ Invalid :
        InFlight(n, s, u) ~> \/ users[n][u] = Home[s]
                             \/ peer[n][Home[s]] # "up"
                             \/ sock[s] = "shut"

(* Docs: what the tables should say when nothing is under way.                *)
AtRest == \A n \in Server : /\ queue[n] = <<>>
                             /\ \A t \in Thread : frame[n][t].pc = "idle"
                             /\ \A m \in Server : chan[n][m] = <<>>
AllLinked == \A n \in Server : \A m \in Peers(n) : peer[n][m] = "up"

(* docs/distributed-routing.md: on a logout or a dropped socket the peers     *)
(* remove the user from their maps.                                           *)
LogoutReachesPeers ==
    AtRest /\ AllLinked /\ breaks = 0 =>
        \A s \in Session : Gone(s) => \A n \in Server, u \in MayUse[s] : users[n][u] # Home[s]

=============================================================================
