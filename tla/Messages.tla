------------------------------ MODULE Messages ------------------------------
(* Messages and chat rooms across a cluster: the ChatRoomManager of every     *)
(* server, the rooms a session has joined, the handlers of private, room and  *)
(* broadcast messages and of rooms, and what they send to other servers, at   *)
(* the granularity of the locked calls.                                       *)
(*                                                                            *)
(* Everybody is logged in at the start and known to every server; logging in  *)
(* and links that are dialled again are module Presence's.  A packet of a     *)
(* client is in the pool as soon as it is sent, and the end of its stream is  *)
(* read as soon as it closes: until then nobody sees either.                  *)
EXTENDS Integers, FiniteSets, Sequences, SequencesExt

CONSTANTS Server, Client, Room,
          Worker,      \* the pool's threads, the same names on every server
          Listener,    \* the listener thread
          Home,        \* Home[c]: the server client c is connected to
          Will,        \* Will[c]: what client c may do
          MaxAsks,     \* bound: MaxAsks[c] packets of client c
          MaxBreaks,   \* bound: links the network cuts; none is dialled again
          Patient,     \* a client pauses until its last packet was handled
          None

Thread == Worker \cup {Listener}
Target == Room \cup Client \cup {None}

ASSUME MessagesAssumption ==
    /\ Home \in [Client -> Server]
    /\ Will \in [Client -> SUBSET {"join", "leave", "say", "tell", "shout", "hang up"}]
    /\ MaxAsks \in [Client -> Nat] /\ MaxBreaks \in Nat
    /\ Patient \in BOOLEAN
    /\ None \notin Server \cup Client \cup Room /\ Room \cap Client = {}
    /\ Listener \notin Worker

(* A packet and its task.  Packets of clients: join, leave, say (a room       *)
(* message), tell (a private one), shout (a broadcast).  Packets of servers:  *)
(* room, private and broadcast carry a message on; active, inactive and gone  *)
(* say that a server has members in a room, has none, or a user logged out.   *)
(* A message is told apart by its sender and no.                              *)
Job == [kind   : {"join", "leave", "say", "tell", "shout", "room", "private",
                  "broadcast", "active", "inactive", "gone"},
        client : Client \cup {None},
        target : Target,
        no     : Nat,
        from   : Server \cup {None}]

Command(c, k, x, i) == [kind |-> k, client |-> c, target |-> x, no |-> i, from |-> Home[c]]
Sync(n, r, k)  == [kind |-> k, client |-> None, target |-> r, no |-> 0, from |-> n]
Logout(c)      == [kind |-> "gone", client |-> c, target |-> None, no |-> 0, from |-> Home[c]]

Message(j) == [j EXCEPT !.kind = CASE j.kind = "say" -> "room"
                                   [] j.kind = "tell" -> "private"
                                   [] j.kind = "shout" -> "broadcast"
                                   [] OTHER -> j.kind]

Label == {"idle", "enter", "test first", "insert",          \* HandleRoomJoin
          "test member", "depart", "erase", "test last",    \* HandleRoomLeave
          "members", "sessions", "deliver", "servers",      \* room messages, broadcasts
          "locate", "hand over", "report",                  \* HandlePrivateMsg
          "send", "unlink", "clear users", "clear rooms",
          "apply", "unregister", "remove"}

Frame == [pc   : Label,
          job  : Job,
          to   : SUBSET Client,            \* sessions still to be written to
          todo : SUBSET Server,            \* servers still to be sent to
          peer : Server \cup {None}]       \* the argument of HandlePeerDisconnect

Idle == [pc |-> "idle", job |-> Sync(None, None, "inactive"),
         to |-> {}, todo |-> {}, peer |-> None]

VARIABLES asked,    \* asked[c]: the packets c has sent
          heard,    \* heard[c]: the messages written to c's socket
          told,     \* told[c]: the answers to c's private messages
          here,     \* the clients with a session in ConnectionManager
          users,    \* users[n]: the names in m_userLocations, c's at Home[c]
          joined,   \* joined[c]: ClientSession::m_joinedRooms
          members,  \* members[n][r]: localMembers
          remote,   \* remote[n][r]: remoteServers
          peer,     \* peer[n][m]: n's registered socket to m, "up", "lost", "down"
          chan,     \* chan[n][m]: bytes from n to m
          queue,    \* queue[n]: the pool's m_tasks
          frame,    \* frame[n][t]: what thread t of server n is doing
          breaks    \* links cut so far

clientVars == <<asked, heard, told>>
userVars   == <<here, users>>
roomVars   == <<joined, members, remote>>
linkVars   == <<peer, chan, breaks>>
vars == <<clientVars, userVars, roomVars, linkVars, queue, frame>>

Peers(n) == Server \ {n}

Init == /\ asked = [c \in Client |-> <<>>]
        /\ heard = [c \in Client |-> <<>>]
        /\ told = [c \in Client |-> <<>>]
        /\ here = Client
        /\ users = [n \in Server |-> Client]
        /\ joined = [c \in Client |-> {}]
        /\ members = [n \in Server |-> [r \in Room |-> {}]]
        /\ remote = [n \in Server |-> [r \in Room |-> {}]]
        /\ peer = [n \in Server |-> [m \in Server |-> IF m = n THEN "down" ELSE "up"]]
        /\ chan = [n \in Server |-> [m \in Server |-> <<>>]]
        /\ queue = [n \in Server |-> <<>>]
        /\ frame = [n \in Server |-> [t \in Thread |-> Idle]]
        /\ breaks = 0

Moves(n, t, f) == frame' = [frame EXCEPT ![n][t] = f]
Goes(n, t, label) == Moves(n, t, [frame[n][t] EXCEPT !.pc = label])
Doing(n, t, label) == frame[n][t].pc = label

\* A thread that sends f.job to servers: to the next one, or on in its caller.
Proceed(f) == CASE f.todo # {} -> [f EXCEPT !.pc = "send", !.peer = None]
                [] f.todo = {} /\ f.job.kind = "gone" -> [f EXCEPT !.pc = "remove", !.peer = None]
                [] f.todo = {} /\ f.job.kind = "private" -> [f EXCEPT !.pc = "report", !.peer = None]
                [] OTHER -> Idle

Sends(f, j, servers) == Proceed([f EXCEPT !.job = j, !.todo = servers])

-----------------------------------------------------------------------------
(* Clients and the listener.                                                  *)
Listening(n) == Doing(n, Listener, "idle")

Pending(c) == LET n == Home[c] IN
              \/ \E i \in DOMAIN queue[n] : queue[n][i].client = c
              \/ \E w \in Worker : ~Doing(n, w, "idle") /\ frame[n][w].job.client = c

\* What a packet of that kind may be addressed to.
Addressees(c, k) == CASE k \in {"join", "leave", "say"} -> Room
                      [] k = "tell" -> Client
                      [] k = "shout" -> {None}
                      [] k = "hang up" -> {}

Ask(c, k, x) ==
    LET j == Command(c, k, x, Len(asked[c]) + 1) IN
    /\ c \in here /\ Listening(Home[c])
    /\ Len(asked[c]) < MaxAsks[c]
    /\ Patient => ~Pending(c)
    /\ asked' = [asked EXCEPT ![c] = Append(@, j)]
    /\ queue' = [queue EXCEPT ![Home[c]] = Append(@, j)]
    /\ UNCHANGED <<heard, told, userVars, roomVars, linkVars, frame>>

\* The end of the stream: the listener runs the disconnect code.  No room is
\* left, neither in the session nor in ChatRoomManager.
HangUp(c) ==
    /\ "hang up" \in Will[c]
    /\ c \in here /\ Listening(Home[c])
    /\ Moves(Home[c], Listener, [Idle EXCEPT !.pc = "unregister", !.job = Logout(c)])
    /\ UNCHANGED <<clientVars, userVars, roomVars, linkVars, queue>>

Unregister(n) ==
    LET f == frame[n][Listener] IN
    /\ f.pc = "unregister"
    /\ users' = [users EXCEPT ![n] = @ \ {f.job.client}]
    /\ Moves(n, Listener, Sends(f, f.job, Peers(n)))
    /\ UNCHANGED <<clientVars, here, roomVars, linkVars, queue>>

RemoveSession(n) ==
    /\ Doing(n, Listener, "remove")
    /\ here' = here \ {frame[n][Listener].job.client}
    /\ Moves(n, Listener, Idle)
    /\ UNCHANGED <<clientVars, users, roomVars, linkVars, queue>>

Entry(kind) == CASE kind = "join" -> "enter"
                 [] kind \in {"leave", "say"} -> "test member"
                 [] kind = "tell" -> "locate"
                 [] kind = "private" -> "hand over"
                 [] kind = "room" -> "members"
                 [] kind \in {"shout", "broadcast"} -> "sessions"
                 [] kind \in {"active", "inactive", "gone"} -> "apply"

\* HandleClientPacket of an authenticated session, or HandleServerPacket.
Start(n, w) ==
    LET j == Head(queue[n]) IN
    /\ Doing(n, w, "idle")
    /\ queue[n] # <<>>
    /\ queue' = [queue EXCEPT ![n] = Tail(@)]
    /\ Moves(n, w, [Idle EXCEPT !.pc = Entry(j.kind), !.job = j])
    /\ UNCHANGED <<clientVars, userVars, roomVars, linkVars>>

-----------------------------------------------------------------------------
(* HandleRoomJoin and HandleRoomLeave.  The "entered" and "left" notices they *)
(* send to members change no state.                                           *)
Enter(n, w) ==
    LET j == frame[n][w].job IN
    /\ Doing(n, w, "enter")
    /\ joined' = [joined EXCEPT ![j.client] = @ \cup {j.target}]
    /\ Goes(n, w, "test first")
    /\ UNCHANGED <<clientVars, userVars, members, remote, linkVars, queue>>

\* isFirstLocalInRoom decides now whom the join will be announced to.
TestFirst(n, w) ==
    LET f == frame[n][w] IN
    /\ f.pc = "test first"
    /\ Moves(n, w, [f EXCEPT !.pc = "insert",
                             !.todo = IF members[n][f.job.target] = {} THEN Peers(n) ELSE {}])
    /\ UNCHANGED <<clientVars, userVars, roomVars, linkVars, queue>>

Insert(n, w) ==
    LET f == frame[n][w] IN
    /\ f.pc = "insert"
    /\ members' = [members EXCEPT ![n][f.job.target] = @ \cup {f.job.client}]
    /\ Moves(n, w, Sends(f, Sync(n, f.job.target, "active"), f.todo))
    /\ UNCHANGED <<clientVars, userVars, joined, remote, linkVars, queue>>

\* IsInRoom, for a leave and for a room message ("Join room first").
TestMember(n, w) ==
    LET j == frame[n][w].job IN
    /\ Doing(n, w, "test member")
    /\ \/ j.target \notin joined[j.client] /\ Moves(n, w, Idle)
       \/ j.target \in joined[j.client] /\ j.kind = "leave" /\ Goes(n, w, "depart")
       \/ j.target \in joined[j.client] /\ j.kind = "say" /\ Goes(n, w, "members")
    /\ UNCHANGED <<clientVars, userVars, roomVars, linkVars, queue>>

KeptRooms(j) == joined[j.client]  \* mutant: the session's LeaveRoom is forgotten
LeftRooms(j) == joined[j.client] \ {j.target}

Depart(n, w) ==
    LET j == frame[n][w].job IN
    /\ Doing(n, w, "depart")
    /\ joined' = [joined EXCEPT ![j.client] = LeftRooms(j)]
    /\ Goes(n, w, "erase")
    /\ UNCHANGED <<clientVars, userVars, members, remote, linkVars, queue>>

Erase(n, w) ==
    LET j == frame[n][w].job IN
    /\ Doing(n, w, "erase")
    /\ members' = [members EXCEPT ![n][j.target] = @ \ {j.client}]
    /\ Goes(n, w, "test last")
    /\ UNCHANGED <<clientVars, userVars, joined, remote, linkVars, queue>>

TestLast(n, w) ==
    LET f == frame[n][w] IN
    /\ f.pc = "test last"
    /\ Moves(n, w, IF members[n][f.job.target] = {}
                   THEN Sends(f, Sync(n, f.job.target, "inactive"), Peers(n)) ELSE Idle)
    /\ UNCHANGED <<clientVars, userVars, roomVars, linkVars, queue>>

-----------------------------------------------------------------------------
(* HandleRoomMsg, HandleBroadcastMsg and their S2S counterparts: a list of    *)
(* sessions is fetched and written to one by one; then a client's own message *)
(* goes to other servers.                                                     *)
DeliveredAndRouted(f) ==          \* mutant: a forwarded message is routed again
    CASE f.to # {} -> f
      [] f.to = {} /\ f.job.kind \in {"say", "shout", "room"} -> [f EXCEPT !.pc = "servers"]
      [] OTHER -> Idle

DeliveredOnly(f) ==               \* mutant: RouteRoomMessage is not called
    IF f.to = {} THEN Idle ELSE f

Delivered(f) == CASE f.to # {} -> f
                  [] f.to = {} /\ f.job.kind \in {"say", "shout"} -> [f EXCEPT !.pc = "servers"]
                  [] OTHER -> Idle

Sessions(n) == {c \in here : Home[c] = n}

EverybodyHere(n, r) == Sessions(n)      \* mutant: all sessions, as in a broadcast
LocalMembers(n, r) == members[n][r]

GetMembers(n, w) ==
    LET f == frame[n][w] IN
    /\ f.pc = "members"
    /\ Moves(n, w, Delivered([f EXCEPT !.pc = "deliver", !.to = LocalMembers(n, f.job.target)]))
    /\ UNCHANGED <<clientVars, userVars, roomVars, linkVars, queue>>

GetAllSessions(n, w) ==
    LET f == frame[n][w] IN
    /\ f.pc = "sessions"
    /\ Moves(n, w, Delivered([f EXCEPT !.pc = "deliver", !.to = Sessions(n)]))
    /\ UNCHANGED <<clientVars, userVars, roomVars, linkVars, queue>>

Hears(c, j) == heard' = IF c \in here THEN [heard EXCEPT ![c] = Append(@, Message(j))] ELSE heard

Deliver(n, w, c) ==
    LET f == frame[n][w] IN
    /\ f.pc = "deliver" /\ c \in f.to
    /\ Hears(c, f.job)
    /\ Moves(n, w, Delivered([f EXCEPT !.to = @ \ {c}]))
    /\ UNCHANGED <<asked, told, userVars, roomVars, linkVars, queue>>

GetServers(n, w) ==
    LET f == frame[n][w] IN
    /\ f.pc = "servers"
    /\ Moves(n, w, Sends(f, Message(f.job),
                         IF f.job.kind = "shout" THEN Peers(n) ELSE remote[n][f.job.target]))
    /\ UNCHANGED <<clientVars, userVars, roomVars, linkVars, queue>>

-----------------------------------------------------------------------------
(* HandlePrivateMsg and the private branch of HandleS2SRouteMsg.              *)
Tells(j, ok) == told' = [told EXCEPT ![j.client] = Append(@, [no |-> j.no, ok |-> ok])]

Locate(n, w) ==
    LET f == frame[n][w] c == f.job.target IN
    /\ f.pc = "locate"
    /\ CASE c \notin users[n] -> Tells(f.job, FALSE) /\ Moves(n, w, Idle)
         [] c \in users[n] /\ Home[c] = n -> UNCHANGED told /\ Goes(n, w, "hand over")
         [] c \in users[n] /\ Home[c] # n ->
                UNCHANGED told /\ Moves(n, w, Sends(f, Message(f.job), {Home[c]}))
    /\ UNCHANGED <<asked, heard, userVars, roomVars, linkVars, queue>>

AlwaysAnswers(j) == j.kind = "tell"     \* mutant: the answer is outside the if
Answers(j) == j.kind = "tell" /\ j.target \in here

\* GetSessionByUsername: without a session nobody is told anything.
HandOver(n, w) ==
    LET j == frame[n][w].job IN
    /\ Doing(n, w, "hand over")
    /\ Hears(j.target, j)
    /\ IF Answers(j) THEN Tells(j, TRUE) ELSE UNCHANGED told
    /\ Moves(n, w, Idle)
    /\ UNCHANGED <<asked, userVars, roomVars, linkVars, queue>>

\* "Message routed to remote server", whatever RoutePrivateMessage did.
Report(n, w) ==
    /\ Doing(n, w, "report")
    /\ Tells(frame[n][w].job, TRUE)
    /\ Moves(n, w, Idle)
    /\ UNCHANGED <<asked, heard, userVars, roomVars, linkVars, queue>>

-----------------------------------------------------------------------------
(* The sends of BroadcastS2S, RouteRoomMessage and RoutePrivateMessage, and   *)
(* HandlePeerDisconnect.                                                      *)

\* A server that is not connected is skipped; a dead link may still take bytes.
Send(n, t, m) ==
    LET f == frame[n][t] IN
    /\ f.pc = "send" /\ m \in f.todo
    /\ chan' = IF peer[n][m] = "up" THEN [chan EXCEPT ![n][m] = Append(@, f.job)] ELSE chan
    /\ Moves(n, t, Proceed([f EXCEPT !.todo = @ \ {m}]))
    /\ UNCHANGED <<clientVars, userVars, roomVars, peer, breaks, queue>>

SendFails(n, t, m) ==
    LET f == frame[n][t] IN
    /\ f.pc = "send" /\ m \in f.todo
    /\ peer[n][m] = "lost"
    /\ Moves(n, t, [f EXCEPT !.pc = "unlink", !.todo = @ \ {m}, !.peer = m])
    /\ UNCHANGED <<clientVars, userVars, roomVars, linkVars, queue>>

Unlink(n, t) ==
    LET f == frame[n][t] IN
    /\ f.pc = "unlink"
    /\ peer' = [peer EXCEPT ![n][f.peer] = "down"]
    /\ chan' = [chan EXCEPT ![f.peer][n] = <<>>]
    /\ Goes(n, t, "clear users")
    /\ UNCHANGED <<clientVars, userVars, roomVars, breaks, queue>>

ClearUsers(n, t) ==
    LET m == frame[n][t].peer IN
    /\ Doing(n, t, "clear users")
    /\ users' = [users EXCEPT ![n] = {c \in @ : Home[c] # m}]
    /\ Goes(n, t, "clear rooms")
    /\ UNCHANGED <<clientVars, here, roomVars, linkVars, queue>>

\* ClearServerMemberships, and back to the caller.
ClearRooms(n, t) ==
    LET f == frame[n][t] IN
    /\ f.pc = "clear rooms"
    /\ remote' = [remote EXCEPT ![n] = [r \in Room |-> @[r] \ {f.peer}]]
    /\ Moves(n, t, Proceed(f))
    /\ UNCHANGED <<clientVars, userVars, joined, members, linkVars, queue>>

-----------------------------------------------------------------------------
(* Packets of peers, and the loss of a link.                                  *)
ReadPeer(n, m) ==
    /\ Listening(n)
    /\ chan[m][n] # <<>> /\ peer[n][m] # "down"
    /\ queue' = [queue EXCEPT ![n] = Append(@, Head(chan[m][n]))]
    /\ chan' = [chan EXCEPT ![m][n] = Tail(@)]
    /\ UNCHANGED <<clientVars, userVars, roomVars, peer, breaks, frame>>

PeerEof(n, m) ==
    /\ Listening(n)
    /\ chan[m][n] = <<>> /\ peer[n][m] = "lost"
    /\ Moves(n, Listener, [Idle EXCEPT !.pc = "unlink", !.peer = m])
    /\ UNCHANGED <<clientVars, userVars, roomVars, linkVars, queue>>

\* What was under way arrives up to some point.
NetBreak(n, m) ==
    /\ peer[n][m] = "up" /\ peer[m][n] = "up"
    /\ breaks < MaxBreaks
    /\ breaks' = breaks + 1
    /\ peer' = [peer EXCEPT ![n][m] = "lost", ![m][n] = "lost"]
    /\ \E i \in 0..Len(chan[n][m]), k \in 0..Len(chan[m][n]) :
          chan' = [chan EXCEPT ![n][m] = SubSeq(@, 1, i), ![m][n] = SubSeq(@, 1, k)]
    /\ UNCHANGED <<clientVars, userVars, roomVars, queue, frame>>

SyncedToSelf(n, j) ==             \* mutant: the own id instead of the payload's
    IF j.kind = "active" THEN remote[n][j.target] \cup {n} ELSE remote[n][j.target] \ {n}

Synced(n, j) == IF j.kind = "active" THEN remote[n][j.target] \cup {j.from}
                                     ELSE remote[n][j.target] \ {j.from}

\* HandleS2SRoomMemberSync, or HandleS2SReplicateUser of a logout.
Apply(n, w) ==
    LET j == frame[n][w].job IN
    /\ Doing(n, w, "apply")
    /\ IF j.kind = "gone"
       THEN users' = [users EXCEPT ![n] = @ \ {j.client}] /\ UNCHANGED remote
       ELSE remote' = [remote EXCEPT ![n][j.target] = Synced(n, j)] /\ UNCHANGED users
    /\ Moves(n, w, Idle)
    /\ UNCHANGED <<clientVars, here, joined, members, linkVars, queue>>

-----------------------------------------------------------------------------
ClientStep(c) == \/ \E k \in Will[c] : \E x \in Addressees(c, k) : Ask(c, k, x)
                 \/ HangUp(c)

ThreadStep(n, t) == \/ \E m \in Server : Send(n, t, m) \/ SendFails(n, t, m)
                    \/ Unlink(n, t) \/ ClearUsers(n, t) \/ ClearRooms(n, t)

RoomStep(n, w) == \/ Enter(n, w) \/ TestFirst(n, w) \/ Insert(n, w)
                  \/ TestMember(n, w) \/ Depart(n, w) \/ Erase(n, w) \/ TestLast(n, w)

MessageStep(n, w) == \/ GetMembers(n, w) \/ GetAllSessions(n, w) \/ GetServers(n, w)
                     \/ \E c \in Client : Deliver(n, w, c)
                     \/ Locate(n, w) \/ HandOver(n, w) \/ Report(n, w)

WorkerStep(n, w) == \/ Start(n, w) \/ RoomStep(n, w) \/ MessageStep(n, w)
                    \/ Apply(n, w) \/ ThreadStep(n, w)

ListenerStep(n) == Unregister(n) \/ RemoveSession(n) \/ ThreadStep(n, Listener)

SocketStep(n, m) == ReadPeer(n, m) \/ PeerEof(n, m)

Next == \/ \E c \in Client : ClientStep(c)
        \/ \E n \in Server : \/ \E w \in Worker : WorkerStep(n, w)
                             \/ ListenerStep(n)
                             \/ \E m \in Server : SocketStep(n, m) \/ NetBreak(n, m)

(* As in Presence: every thread that can run does, and the select loop serves *)
(* every readable socket.  Nobody has to send and nothing has to break.       *)
Fairness == \A n \in Server : /\ \A w \in Worker : WF_vars(WorkerStep(n, w))
                              /\ WF_vars(ListenerStep(n))
                              /\ \A m \in Peers(n) : SF_vars(SocketStep(n, m))

Safety == Init /\ [][Next]_vars

Spec == Safety /\ Fairness

-----------------------------------------------------------------------------
(* Types; and no server counts itself among the remote servers of a room or   *)
(* holds another server's clients as local members.                           *)
TypeOK ==
    /\ asked \in [Client -> Seq(Job)]
    /\ heard \in [Client -> Seq(Job)]
    /\ told \in [Client -> Seq([no : Nat, ok : BOOLEAN])]
    /\ here \subseteq Client
    /\ users \in [Server -> SUBSET Client]
    /\ joined \in [Client -> SUBSET Room]
    /\ members \in [Server -> [Room -> SUBSET Client]]
    /\ remote \in [Server -> [Room -> SUBSET Server]]
    /\ peer \in [Server -> [Server -> {"up", "lost", "down"}]]
    /\ chan \in [Server -> [Server -> Seq(Job)]]
    /\ queue \in [Server -> Seq(Job)]
    /\ frame \in [Server -> [Thread -> Frame]]
    /\ breaks \in Nat
    /\ \A n \in Server, r \in Room :
          n \notin remote[n][r] /\ \A c \in members[n][r] : Home[c] = n

(* A client reads a message once at most, although the local delivery and     *)
(* every forwarding run next to joins, leaves and other messages: HandleRoom- *)
(* Msg, HandleBroadcastMsg and the handlers of S2S_ROUTE_* all fan out.       *)
OneCopyEach == \A c \in Client : \A i, k \in DOMAIN heard[c] : heard[c][i] = heard[c][k] => i = k

(* What a client reads was sent by the client it names, word for word, and    *)
(* found the right reader: a private message the one it was for, a room       *)
(* message one who has asked to join that room, as its sender has, whatever   *)
(* servers lie between them and whatever was lost on the way.  (The sender of *)
(* a room message or a broadcast is among its readers.)                       *)
WasSaid(x) == /\ x.client \in Client /\ x.no \in 1..Len(asked[x.client])
              /\ Message(asked[x.client][x.no]) = x
AskedToJoin(c, r) == \E j \in ToSet(asked[c]) : j.kind = "join" /\ j.target = r
ReadsOnlyItsOwn ==
    \A c \in Client : \A j \in ToSet(heard[c]) :
        /\ j.kind \in {"private", "room", "broadcast"} /\ WasSaid(j)
        /\ j.kind = "private" => j.target = c
        /\ j.kind = "room" => AskedToJoin(c, j.target) /\ AskedToJoin(j.client, j.target)

(* HandlePrivateMsg answers a message once at most; what it reports as        *)
(* delivered was, and what it reports as undeliverable was not and will not   *)
(* be.  (That a message "routed" was read, it cannot know.)                   *)
Outcomes(c, i) == {k \in DOMAIN told[c] : told[c][k].no = i}
AnswersAreTrue ==
    \A c \in Client : \A k \in DOMAIN told[c] :
        LET j == asked[c][told[c][k].no]
            read == j.target \in Client /\ Contains(heard[j.target], Message(j))
        IN /\ Outcomes(c, told[c][k].no) = {k}
           /\ ~told[c][k].ok => ~read
           /\ told[c][k].ok /\ Home[j.target] = Home[c] => read

(* For a client that pauses between its packets, its session and its server's *)
(* ChatRoomManager agree on its rooms whenever none of its packets is pending *)
(* (they are two sets under two locks, written one after the other).          *)
RoomsAgree ==
    Patient => \A c \in Client : ~Pending(c) =>
        joined[c] = {r \in Room : c \in members[Home[c]][r]}

(* A message that HandleRoomMsg accepted reaches every client that is a       *)
(* member and, if elsewhere, whose server is known and linked, unless that    *)
(* ceases to be so first.                                                     *)
Accepting(j) == \E w \in Worker : /\ Doing(Home[j.client], w, "members")
                                  /\ frame[Home[j.client]][w].job = j
Reachable(n, c, r) == /\ c \in here /\ c \in members[Home[c]][r]
                      /\ n = Home[c] \/ (Home[c] \in remote[n][r] /\ peer[n][Home[c]] = "up")
Says == UNION {{Command(c, "say", r, i) : r \in Room, i \in 1..MaxAsks[c]} :
                  c \in {d \in Client : "say" \in Will[d]}}
AcceptedIsHeard ==
    \A j \in Says, c \in Client :
        Accepting(j) /\ Reachable(j.from, c, j.target)
            ~> Contains(heard[c], Message(j)) \/ ~Reachable(j.from, c, j.target)

(* Docs: what should be so when nothing is under way.                         *)
AtRest == \A n \in Server : /\ queue[n] = <<>>
                             /\ \A t \in Thread : Doing(n, t, "idle")
                             /\ \A m \in Server : chan[n][m] = <<>>

(* docs/distributed-routing.md: when a server gains its first local           *)
(* subscriber in a room, it notifies the peers.                               *)
FirstMemberIsAnnounced ==
    AtRest /\ breaks = 0 =>
        \A n \in Server, r \in Room :
            members[n][r] # {} => \A m \in Peers(n) : n \in remote[m][r]

=============================================================================
