# A formal model of the distributed chat system

This directory holds TLA+ modules for the C++ chat cluster of the repository, the TLC
configurations that check them on small instances, and theorems checked by TLAPS. Paths
are those of the repository, under `src/`.

## 1. The system

A cluster is a few `chat_server` processes and any number of `chat_client` processes.
Servers are configured with each other's addresses; a server keeps one TCP connection to
each peer and replicates to it which users and rooms it hosts.

| component | state | operations | who calls it |
|---|---|---|---|
| `ThreadPool` | task queue, `m_stop`, one mutex, one condition variable | `Enqueue`, worker loop, destructor | listener thread enqueues one task per packet; workers run the handlers |
| `UserManager` | `m_userLocations`: user → server id | `RegisterUser`, `UnregisterUser`, `IsUserOnline`, `GetUserLocation`, `ClearServerUsers` | login and replication handlers, disconnect code |
| `ConnectionManager` | sessions by socket, sessions by user name, peers by id | add, authenticate, remove, register and unregister a peer socket | listener, handlers, connector thread |
| `ChatRoomManager` | local members and remote servers of each room | join, leave, remote join and leave, `ClearServerMemberships` | room handlers, replication handlers, disconnect code |
| `ClientSession` | socket, user name, authenticated flag, rooms joined | `SendPacket`, `JoinRoom`, `LeaveRoom`, `IsInRoom` | everything that talks to a client |
| `ServerNode` | socket to a peer, connected flag, heartbeat time stamp | `SetSocket`, `SendPacket`, `UpdateHeartbeat` | replication, heartbeat, connector |
| `ReplicationManager` | none | `BroadcastS2S`, login, logout, room sync, `RoutePrivateMessage`, `RouteRoomMessage` | handlers and listener |
| `HeartbeatManager` | one thread | ping every 5 s, drop a peer after 15 s of silence | itself |
| `ChatServer` | listener socket, `m_running`, listener and connector threads | `ListenerLoop`, `PeerConnectorLoop`, packet handlers, `HandlePeerDisconnect`, `Start`, `Stop` | `main_server` |
| `MessageSerializer`, `Packet` | none | framing (`Serialize`, `ReadPacket`), payloads (`Pack`, `Unpack`) | every sender and reader |
| `TcpSocket` | descriptor, connected flag | connect, accept, `SendAll`, `RecvAll`, close | all of the above |
| `ChatClient` | socket, running flag, callbacks, receive thread | connect, login, send, disconnect | `main_client` |

**Threads.** A server has a listener thread (a `select` loop that reads one packet per
readable socket and runs the disconnect code itself), the workers of its pool (every
packet handler), a heartbeat thread (every five seconds) and a connector thread (redials
missing peers every ten seconds). The tables have a lock each; no handler holds a lock
across two calls. A client's socket is written under its session's `m_sessionMutex`; a
peer's socket is written by all of these threads without a lock.

**What is hard.**
* *Interleaving*: check and act are separate locked calls (login, first member of a room,
  location and session of a receiver), and the listener tears a session down while workers
  may still handle its packets.
* *Order*: TCP delivers a peer's packets in order, but each becomes a pool task of its
  own, so several workers may apply them in another order.
* *Failure*: a peer's loss is noticed by three threads, which all run
  `HandlePeerDisconnect`; tasks of the lost peer may still be queued.
* *Linking*: the dialler counts a link as up before the other end has promoted it; both
  ends may dial at once; `ServerNode` has no lock, and `HandlePeerDisconnect` is given an
  id, so it may close a connection that was registered in the meantime.
* *Partial transfers*: sockets do not block, so `Send` may take a part of a frame; the
  loops around it sleep and go on, next to other threads that do the same.
* *Blocking*: these loops, and the rest of a frame in `RecvAll`, are awaited without a
  timeout, and a closed socket is recognised by an error code that may be an old one.

**What makes each part correct.** Pool: every accepted task runs once, no wakeup is lost,
the destructor drains. Tables: a location comes from a login, whoever was welcomed can be
reached, whoever left is forgotten. Rooms: a message reaches each member's server once,
only members read it, the set of remote servers agrees with who has members. Links: both
ends agree on one connection, a dead one is noticed and replaced, a living one is not
given up. Framing: what is sent is what is read, packet by packet. Lifecycle: `Stop`
returns, no thread outlives what it uses. The hazards of the code, each at its line and
with the properties that are about it, are listed in `PROJECT.json`.

## 2. Modules

| module | models | how it corresponds to the code |
|---|---|---|
| `TaskPool` | what the pool promises: an accepted task is started in order, once, and finished before the pool vanishes | abstract specification |
| `ThreadPool` | `ThreadPool.cpp` and its header | one action per block under `m_queueMutex`; `notify_one` and `notify_all` come after the unlock and are actions of their own; spurious wakeups |
| `Presence` | logging in and out: `HandleLogin`, the listener's disconnect code, `HandleS2SReplicateUser`, `HandlePeerDisconnect`, dialling and promotion of links, `UserManager`, `ConnectionManager` | every thread has a frame (how far it got, the packet it handles); every locked call is one action |
| `Messages` | rooms and messages: `HandleRoomJoin`, `HandleRoomLeave`, `HandleRoomMsg`, `HandlePrivateMsg`, `HandleBroadcastMsg`, their S2S counterparts, `ChatRoomManager`, the routing of `ReplicationManager` | frames as in `Presence`; everybody is logged in at the start |
| `PeerLink` | both ends of the link of two servers: `PeerConnectorLoop`, promotion of a session, `ServerNode`, `HandlePeerDisconnect`, `HeartbeatLoop`, the listener's view of sockets | `SetSocket` in its two halves, each write of a `ServerNode` an action; time in beats of 5 s |
| `PacketChannel` | what a connection promises its users: whole packets, once, in order, until unlocked writers tear the stream | abstract specification |
| `Stream` | bytes on one connection: `Serialize`, `ReadPacket`, `SendPacket`, `SendAll`, the loops of `BroadcastS2S` and `HeartbeatLoop` | one action per `Send`, per byte received, and per field of the frame that is completed |
| `Shutdown` | `Start` (as initial state) and `Stop` of `ChatServer` and `HeartbeatManager`, the order of destruction, the retry loops and the `Close` they race, `m_sessionMutex` | every thread at the calls that can block or fail; `Close` in two halves |
| `SequenceFacts` | lemmas on `ToSet` and on appending to sequences | used by the proofs about queues and links |
| `ThreadPoolProofs`, `PresenceProofs`, `MessagesProofs`, `PeerLinkProofs`, `HandshakeProofs`, `StreamProofs`, `ShutdownProofs` | theorems | each extends the module it is about (`HandshakeProofs` is the second one about `PeerLink`) |
| `MC...` | values for constants that are functions | one module per model, one `.cfg` per run; `Shutdown` needs none |

**How they compose.** `Presence`, `Messages`, `PeerLink` and `Shutdown` use the pool
through what `TaskPool` promises: tasks of one server are started in the order of the
queue and up to one per worker runs at a time. That the pool keeps the promise is checked
(`ImplementsTaskPool`) and its safety part proved. `Presence`, `Messages` and `PeerLink`
send whole packets over FIFO channels, which is what `PacketChannel` promises; that
`Stream` keeps it is checked (`ImplementsPacketChannel`) and its safety part proved, with
the exception that `PacketChannel` makes: two threads that meet in mid-frame on a peer's
socket. The three models share the servers' threads and links and split the state:
`Presence` has who is online, `Messages` rooms and delivery over links that may be lost
once, `PeerLink` the connection itself. `Shutdown` has all threads and sockets and no
content.

**State and code.** In `Presence`, `bySocket`, `byName` and `users` are the maps of
`ConnectionManager` and `UserManager`; `username` stands for `m_username` and
`m_isAuthenticated`, which `AuthenticateSession` sets together. `peer[n][m]` is the state
of the socket that n's `ServerNode` for m holds: connected (`up`), connected but dead
(`lost`), or none (`down`). `raw` is a dialled connection on the accepting side before its
`S2S_CONNECT` was handled, when it is still a client session. `chan` holds packets in
flight and `queue` is `m_tasks`. In `Messages`, `joined` is `m_joinedRooms`, `members` and
`remote` are `localMembers` and `remoteServers`, and `told` the answers to private
messages. In `PeerLink`, `sock`, `up` and `age` are `m_socket`, `m_isConnected` and the
time since `m_lastHeartbeatTime`; an end of a connection lives while a table, a thread or
a task refers to it, as its `shared_ptr` does. In `Stream`, `log` is all that a connection
accepted, `rd` what was taken from it, `off` how much of a writer's frame was accepted,
`total` is `totalLen`. In `Shutdown`, `running`, `beating` and `draining` are the three
stop flags, `members` what is left of `ChatServer` in the order of declaration, `again`
the threads whose `WSAGetLastError` says `WSAEWOULDBLOCK`.

**Abstractions.**
* *All*: packets are records. Names are model values; the ones `HandleLogin` refuses are
  the set `Invalid`. `STATUS_UPDATE` notices to other clients carry no state and are left
  out (in `Shutdown`, where sending them can block, one stands for all).
* *`Presence`*: the `IsConnected` test of `HandlePeerDisconnect` belongs to the step that
  calls it: a later test that fails has no effect, and one that succeeds leads to the same
  steps. A redialled link replaces what was unread on the old one. The heartbeat only
  drops a link that is dead and two servers do not dial at the same moment: `PeerLink` has
  both.
* *`Messages`*: a packet is in the pool, and the end of a stream is read, as soon as the
  client acts: in between nobody can tell. A name is used by one client and not logged in
  again there, so its location is its home or absent. `HandleRoomCreate` only answers, so
  nothing of it remains.
* *`PeerLink`*: the tables of users and rooms are left out (clearing them is in `Presence`
  and `Messages`), and so is `BroadcastS2S` with the `HandlePeerDisconnect` it calls.
  `CloseSock` is the `IsConnected` test and `Close` in one. The listener's snapshot of the
  sessions, taken once per pass, is the table itself. Beats pass at all servers together.
  A connection that nobody refers to any more is used again for a new dial.
* *`Stream`*: a `Send` takes as much as there is room for. A length field made of several
  frames' bytes says any of `Garbled`. `m_sessionMutex` is held from the first byte of a
  frame to the last, so a writer that waits for it has not begun.
* *`Shutdown`*: a frame is two pieces (the least that leaves a middle). A handler sends
  one packet to one connection or none. A session that is removed keeps its socket open. A
  call that succeeds does not change the last error. The listener's own socket is not a
  connection.
* `m_peerNodesBySocket` is written and never read, so it has no counterpart.

## 3. Runs

| run | bounds | states | question |
|---|---|---|---|
| `threadpool` | 2 workers, 2 producers, 3 tasks | 4,883 | Is a task or a wakeup ever lost, does the destructor drain and return, is the pool a `TaskPool`? |
| `presence_orderly` | 2 servers with 2 workers, one client each, 2 logins each, no loss | 97,345 | Is everything answered, are those who left forgotten? |
| `presence_breaks` | 2 servers, 1 worker, 1 client, 2 dials, 1 cut | 107,731 | Do the tables contain only what a login caused, is a dead link noticed, does a login arrive over a link set up again, does a disconnect of the client end beside that of the peer? |
| `presence_shared` | 1 server, 2 workers, 2 clients, 2 logins each with one own name (one of them invalid) and one shared, no waiting | 192,870 | Are welcomed clients found, is the index by name sound, is each `LOGIN` answered once? |
| `messages_room` | 2 servers with 2 workers, a speaker (room messages and broadcasts) and a guest, 2 packets each | 70,612 | Does nobody read twice, are reachable members reached, do session and `ChatRoomManager` agree? |
| `messages_breaks` | 2 servers, 1 worker, 3 clients (one only hangs up), 2, 2 and 1 packets, 1 cut | 1,056,613 | Do private and room messages reach only their addressees, are answers true? |
| `peer_link` | 2 servers, 1 worker, 3 connections; rounds 5 s apart with one cut or failed dial, or rounds together with 3 dials | 52,555 | Do both ends agree on a connection, is only the dead given up, does a link come back? |
| `stream` | 2 writers, 3 packets of 1 to 3 bytes or one over the limit, a buffer of 3 bytes, 1 new socket | 629,205 | Are packets read as sent, with the mutex always and without it until two writers meet? |
| `shutdown` | 1 client, 1 peer, 1 worker, 1 incoming frame, 1 full buffer or departure | 81,867 | Is anything used after its end, can anything but a retry loop hold a thread or `Stop`? |
| `presence_logout`, `messages_first`, `peer_link_clash` | 1 or 2 clients; connectors always together | | Violations, see 4 |

**Why these bounds.** Two workers are enough for every race of two handlers, and the third
actor of a race (the listener) is always there. Two servers have a link in each direction,
and every message between servers takes one hop: a third server would only repeat what the
second does, except that a broadcast may fail for one peer and go on with the next. One
cut in mid-traffic meets every intermediate state of the other threads. The runs with a
cut use one worker: the cut multiplies the states, and the races of two workers have runs
of their own. `Patient` clients wait for an answer (or for their last packet to be
handled) as a person at the prompt of `main_client` would; the runs about races set it to
`FALSE`. In `peer_link` three connections are what two ends can refer to at once (an old
one, and one that each has dialled; a fourth is never needed); connectors that take turns
dial for ever, those that dial in the same moment do so three times, because without an
end the links never settle, which is the finding of `peer_link_clash`. In `stream` the
buffer is smaller than the length field, so every frame is cut at every place, in the
length field as well as in the payload; payloads have one byte, the longest length that is
accepted, and one byte more. In `shutdown` one frame reaches the pool, with the thread
that must run it stopping, and one piece of trouble meets each thread in each place; with
two frames or two pieces of trouble (0.6 and 0.4 million states, too long for a routine
run) the same properties hold. Runs that check liveness do not use symmetry. Deadlock is
not checked in `Presence`, `Messages`, `Stream` and `Shutdown`, where clients may simply
stop, or everything is sent, or the program has ended; it is in `ThreadPool` and
`PeerLink`.

**Fairness.** Every thread that can run does (weak fairness of each worker, of the
heartbeat and of the listener's disconnect code). In `Presence` the listener's reads get
strong fairness: the listener may be busy again and again, but each pass of its `select`
loop visits every readable socket, so a socket that is readable in every pass is read.
Clients need not act, the network need not break and nobody needs to dial there. In
`ThreadPool` the workers, the notifications and the destructor's own steps are weakly
fair; spurious wakeups are not. In `PeerLink` every thread runs, time passes and
connectors dial, as the loops do; the network owes nothing. `Prompt` says that whatever is
under way is finished within a beat: the handlers take microseconds, a beat is five
seconds. Without it the scheduler could keep a packet in the pool for 15 s, and
`DeathIsReal` would only say that. In `Stream` writers retry, as their loops do, and the
reader reads. In `Shutdown` each thread and the main thread run; the programs at the other
ends need not send, read or leave, so a property that needs them to says so (`Stuck`).

## 4. Findings

With a run:
* `presence_logout`: a peer's packets become separate tasks, so with two workers a logout
  can overtake the login it follows; the peer keeps the user for good.
* `messages_first`: `HandleRoomJoin` tests for other members before it inserts its own. If
  the only other member leaves in between, peers learn that the room is empty and never
  that it is not.
* `peer_link_clash`: two servers whose connectors dial in the same moment each promote the
  other's connection, drop their own, and with it the one the other end has just
  registered. Ten seconds later they do it again. `README.md` (line 10) says that
  connections between servers are re-established automatically. The comment above the dial
  begins with the usual remedy (only the side with the larger id dials) and then allows
  any side that is not connected, which is what the code does.

Met while modelling, and excepted by name in the properties rather than given a run:
* A client that hangs up while its `LOGIN` is queued is registered after the listener
  removed it, and the name stays taken (`GoneIsGone` is checked for patient clients).
* A login that was queued when its server was lost is applied after `HandlePeerDisconnect`
  cleared that server's users (`LocationHasCause` bounds what such a task can write).
* A private message for another server is reported as a success although that server may
  drop it because the receiver has left (`AnswersAreTrue` says what an answer does mean).
* Two threads that write to one peer when its buffer is full tear each other's frames, and
  from then on the peer reads garbage or gives the link up. `docs/protocol-spec.md`
  promises deterministic frame boundaries (`mixed` in `DamageHasCause`).
* A thread that slept in a retry loop while its socket was closed still has
  `WSAEWOULDBLOCK` as its last error, because `Send` and `Recv` fail on a closed socket
  without a call to Winsock. It retries for ever, and `Stop` waits for it for ever,
  although every other program behaves (`Caught` in `StopReturnsUnlessStuck`).
  `main_server` offers "exit" as a graceful shutdown.
* The heartbeat thread may take a new connection for a dead one between the two halves of
  `SetSocket` (`Stamping` in `DeathIsReal`); it costs that link and a redial.

## 5. Proofs

All theorems hold for every value of the constants that satisfies the module's named
assumption: `PoolAssumption` (finitely many workers, at least one, finitely many
producers), `PresenceAssumption`, `MessagesAssumption` and `ShutdownAssumption` (the
constants have their types, the threads are different, and the "no such" values are not
among the things they stand for), `LinkAssumption` (the same, and that each server is its
peer's peer), `StreamAssumption` (sizes are numbers, the length field is not empty, a
packet that nobody sent is not a packet). `PresenceAssumption` also says that a pool has
finitely many threads, without which they could not be counted. Nothing is assumed about
the number of servers, clients, rooms, names, connections or packets.

*Pool* (`ThreadPoolProofs`). `TypeCorrect` first. `StopHeard` is inductive with the types.
`TasksAreConserved` (each accepted task is queued, held by one worker or finished) is
inductive with the types and says why `TaskPool`'s start and finish are what the code
does. `NoWakeupIsLost` needs to relate the sleeping workers, the queue and the producers
that have enqueued and not yet notified. `PoolImplementsTaskPool` maps initial states to
initial states and every step to a step of `TaskPool` or a stutter, using the earlier
invariants.

*Presence* (`PresenceProofs`). `LocationHasCause` is not inductive: a location is written
from a packet, so the packet must be truthful, and it was once in a queue, on a link, or
in a frame. The strengthening `Traffic` says of every packet, wherever it is (queue, link,
frame), that a `LOGIN` carries a name its client asked for, that an online packet names a
valid user its client asked for at that client's own server, and that frames past the
validation hold a valid name. `Traffic` is inductive with the types and gives
`LocationsHaveCauses` and, with the steps that write the index, `IndexIsSound`.

`WelcomedAreReachable` (no assumption but that the name is used by one client, which is
part of the property: that client and others may share further names, need not be patient,
and links may be cut) takes three more invariants. `AsksOwn`: a client's `LOGIN`s carry
names it may use, so any packet about a name that one client uses goes back to that
client, and a replicated logout, which comes from the client's server, can never reach the
table of that same server. `TearsDown`: a frame of the listener that is about a client is
that client's disconnect, and it runs to the end, so a session that stays was not being
torn down before. `RegisteredFirst`: between `Register` and `AuthenticateSession` the
location of the user is already this server; the steps that could take it away are the
teardown of the same session, excluded by `TearsDown`, and those excluded by `Traffic` and
`AsksOwn`.

`LoginsAreAccounted` is a balance: the `LOGIN`s read are those answered plus those in the
pool plus the workers in `HandleLogin`. `LoginAccounted` is inductive with the types and
`Traffic` (which says that a worker in `HandleLogin` serves a client of its own server and
that no `LOGIN` comes from a peer); the work is in counting. `Places` is the set of places
of a queue that hold such a packet, with a lemma each for `Append` and `Tail`; `Serving`
is the set of workers. Reading, starting and answering each move one unit between the
terms, and every other step leaves them alone (`CountsEffect`, `LoginMoves`).

`DepartedAreForgotten` states `GoneIsGone` under three hypotheses on the clients, each of
which the code needs: `Patient` (else a queued `LOGIN` is carried out after the teardown,
see 4), `DistinctNames` (else the name may belong to somebody else), and `OneName`: a
client that logs in again uses the name it has, because `HandleLogin` overwrites
`m_username` and the teardown finds the last name only. The invariant `Departs` has four
parts for each session. `Paced`: a client that hung up has all its answers; with
`LoginAccounted` no worker is in `HandleLogin` for it, so nothing new can be written about
it (`ShutIsSettled`). `Owned`: a name of the client in the tables of its server is the
session's `m_username`, or a worker has registered it and is about to set that. `Leaves`:
the listener's disconnect code holds that same name, and after `UnregisterUser` no name of
the client has a location at this server. `Forgotten` is the property itself, reached from
`Leaves` by `RemoveSession`.

*Messages* (`MessagesProofs`). The types alone are not inductive: what a frame may send or
hand over depends on the kind of packet it handles, and that on where the packet came
from. `Traffic` says which kinds of packets occur in a pool, on a link and in a frame at
each place, and that each is `Truthful`: it names a client and a room or receiver, and a
join or room message was asked for by a client that asked to join. `Tables` says that only
clients that asked are in `joined` and `localMembers`. Together with the types they are
inductive (`TypeCorrect`). With them `HeardFits`, the addressees of what is in a client's
hands, is preserved by the two steps that hand a message over. That it was really sent by
the client it names (`WasSaid`) comes from `Genuine`, below; together they give
`ReadsOnlyItsOwn` (`ReadersAreAddressed`).

`MessagesAreReadOnce`: that nobody has a message twice is not inductive, since a second
copy may be on its way. A message that was spoken is in places: an entry of a pool, of a
link, or a thread. `Brings(p, x, d)` says that what is at place p may still bring message
x to client d, at this or a later server; d may also be `None`, for the sender's answer.
The invariant `Ledger` says that for each x and d at most one place does (`Singles`), that
only messages that were asked for are anywhere (`Genuine`), and that none brings d what it
has read (`Unheard`). The fan-outs keep it because they split the destinations: the
clients of this server, and one peer per other server. Every step is one of: no place is
added, one place is replaced by its successor, a client speaks, or a client reads.

`AnswersHold` adds `Answered` to the ledger: each answer given belongs to one message
whose request for an answer is nowhere any more (so there is no second), after a refusal
no place brings the message to anybody, and after a confirmation on the same server it has
been read.

`RoomSetsAgree`: the session's rooms and the member lists are written one after the other,
so the property fails in between and says nothing there. `Keeping` says by how much they
differ while a worker is between the two writes (`Due`). That takes `Alone`: a patient
client has one packet in the pool or one worker busy with it, so no second handler works
on the same two sets.

*Peer link* (`PeerLinkProofs`, `HandshakeProofs`). `TypeCorrect`: with the types, a thread
refers to a socket exactly from dialling or promotion to the end of the handshake, which
is what keeps the connection alive. `ServersAgree` proves `SocketsAgree`, which speaks of
quiet states only and so is far from inductive. Its invariant follows one connection
through its life at the accepting end. `OneHandshake`: the `S2S_CONNECT` is in one place
at a time, with the dialler, on the wire, in the pool or with the worker that promotes,
and as long as it is, that end is neither registered nor closed. `Accepted`: a session
that waits for it will get it, or is dead. `ClosedIsLeft`: whoever closed a registered
socket is about to unregister it. `Exclusive` and `Raised`: a session's socket is in
nobody else's hands, and a registered socket means connected. In a quiet state the
handshake is nowhere, so the other end is neither a session nor in a thread's hands; if it
were closed, this end could read its end and the state would not be quiet; so it is
registered. `OnlyTheDeadAreGivenUp` proves `DeathIsReal` under `Prompt` with two more
invariants: until the other end has registered the connection, this end's time stamp is
new or about to be written (`YoungLinks`), and from then on the stamp is at most one beat
old and a sign of life is under way (`Heartbeats`): a ping to be sent, on the wire or in
the pool, or its answer.

*Stream* (`StreamProofs`). `TypeOK` is inductive with `StrayLate`: the rest of a frame
that was continued on another socket has no first byte there, so a writer is never
credited with a frame that was not begun. The invariant behind `FramesAreWhole` says, as
long as no frames are mixed, that the log is one frame after the other (`Frames`), that a
writer in mid-frame wrote the last byte (`Ends`) and that the reader's position and fields
are those of the frame it is in (`InStep`). `StreamIsPacketChannel` maps `Send`,
`FinishFrame`, the refusing `ReadLength` and `Renew` to steps of `PacketChannel` and all
else to stutters, using that invariant.

*Shutdown* (`ShutdownProofs`). `TypeCorrect` contains that m_sessionMutex is held by
exactly the thread that sends; it needs `Place`, that a thread that locks or sends has a
connection. `NothingUsedAfterDestruction` rests on `Order`: what `Stop` has joined by the
time it goes on, and that what is left of the members is a beginning of the declaration,
so that the pool is there until its workers have ended.

*Only model-checked.* Liveness is out of the prover's reach: `AcceptedTaskFinishes`,
`DestructorReturns`, `LoginAnswered`, `LoginLands`, `DisconnectCompletes`,
`LossIsNoticed`, `AcceptedIsHeard`, `ZombiesHeal`, `LinkComesUpApart`, `ThreadsComeBack`,
`StopReturnsUnlessStuck`, and the fairness in `ImplementsTaskPool` and
`ImplementsPacketChannel`. Every invariant of a passing run is proved.

## 6. Not modelled

* `Pack` and `Unpack` (sequential; the models' packets are the records they stand for; a
  field that contains a zero byte would be split), `ConfigManager` (reads a file once),
  `Logger` (output only), `SocketUtils` and `Common` (socket options, trimming), the count
  of `WSAStartup` calls in `TcpSocket`.
* `ChatClient`'s receive thread and the console programs. The client appears as what it
  sends. After a lost connection `Disconnect` returns before it joins the receive thread,
  so the program aborts: a sequence without choices, listed as a hazard.
* Two threads in `Close` of one socket: harmful only when the operating system reuses the
  handle in between, which no module has.
* `GetSocket` may return null in the middle of the retry loops of `BroadcastS2S` and
  `HeartbeatLoop`, when the peer is unregistered there. The loops would dereference it; in
  `Stream` such a loop finds the next socket.
* What existed before a reconnection is not sent again, and a client that disconnects is
  not announced as having left its rooms: the code has no step for either, so there is
  nothing to check.

## 7. Plan

Done, in this order: `TaskPool` and `ThreadPool`, `Presence`, `Messages`, `PeerLink`,
`PacketChannel` and `Stream`, `Shutdown`, and the proofs above. What would come next:

1. The receive thread of `ChatClient`, and `Pack` and `Unpack` against a reference
   definition.
2. A client that returns under its name while its old membership is still in
   `localMembers`, in `Messages`.
