--------------------------- MODULE MessagesProofs ---------------------------
(* Proofs about Messages for any cluster, any clients and rooms, any bounds.  *)
EXTENDS Messages, SequenceFacts

-----------------------------------------------------------------------------
(* The strengthening.  Truthful: what a packet claims of clients and rooms,   *)
(* wherever it is.  The rest says which packets occur where: in the pool of a *)
(* server, on a link, and in the hands of a thread.                           *)
OfClient == {"join", "leave", "say", "tell", "shout"}
OfServer == {"room", "private", "broadcast", "active", "inactive", "gone"}
OfMembership == {"active", "inactive"}
OfSender == {"room", "private", "broadcast", "gone"}

Truthful(j) ==
    /\ j.kind \in OfClient \cup {"room", "private", "broadcast", "gone"} => j.client \in Client
    /\ j.kind \in {"join", "leave", "say", "room"} => j.target \in Room
    /\ j.kind \in {"tell", "private"} => j.target \in Client
    /\ j.kind \in {"join", "room"} => AskedToJoin(j.client, j.target)
    /\ j.kind \in OfMembership => j.client = None

InQueue(n, j) ==
    /\ Truthful(j)
    /\ j.kind \in OfClient => Home[j.client] = n
    /\ j.kind \in OfSender => Home[j.client] # n
    /\ j.kind = "private" => Home[j.target] = n
    /\ j.kind \in OfMembership => j.from \in Peers(n) /\ j.target \in Room

Sendable(n, j) ==
    /\ Truthful(j)
    /\ j.kind \in OfServer
    /\ j.kind \in OfSender => Home[j.client] = n
    /\ j.kind = "private" => Home[j.target] # n
    /\ j.kind \in OfMembership => j.from = n /\ j.target \in Room

OnWire(m, n, j) == m # n /\ Sendable(m, j) /\ (j.kind = "private" => Home[j.target] = n)

Leaving == {"unlink", "clear users", "clear rooms"}

InFrame(n, f) ==
    /\ Truthful(f.job)
    /\ f.todo \subseteq Peers(n)
    /\ f.job.kind \in OfClient => Home[f.job.client] = n
    /\ f.pc \in {"enter", "test first", "insert"} => f.job.kind = "join"
    /\ f.pc = "test member" => f.job.kind \in {"leave", "say"}
    /\ f.pc \in {"depart", "erase", "test last"} => f.job.kind = "leave"
    /\ f.pc = "members" => f.job.kind \in {"say", "room"}
    /\ f.pc = "sessions" => f.job.kind \in {"shout", "broadcast"}
    /\ f.pc = "deliver" => f.job.kind \in {"say", "room", "shout", "broadcast"}
    /\ f.pc = "servers" => f.job.kind \in {"say", "shout"}
    /\ f.pc \in {"members", "deliver", "servers"} /\ f.job.kind = "say" =>
          AskedToJoin(f.job.client, f.job.target)
    /\ f.pc = "deliver" /\ f.job.kind \in {"say", "room"} =>
          \A c \in f.to : AskedToJoin(c, f.job.target)
    /\ f.pc = "deliver" => \A c \in f.to : Home[c] = n
    /\ f.pc = "locate" => f.job.kind = "tell"
    /\ f.pc = "hand over" => f.job.kind \in {"tell", "private"} /\ Home[f.job.target] = n
    /\ f.pc = "report" => f.job.kind = "private" /\ Sendable(n, f.job)
    /\ f.pc = "apply" => /\ f.job.kind \in OfMembership \cup {"gone"}
                         /\ f.job.kind # "gone" => f.job.from \in Peers(n) /\ f.job.target \in Room
    /\ f.pc \in {"unregister", "remove"} => f.job.kind = "gone" /\ Sendable(n, f.job)
    /\ f.pc \in Leaving => f.peer \in Server
    /\ f.pc \in Leaving \cup {"send"} => Sendable(n, f.job) \/ (f.todo = {} /\ f.job = Idle.job)
    /\ f.pc \in Leaving \cup {"send"} /\ f.job.kind = "private" => f.todo \subseteq {Home[f.job.target]}

Tables ==
    /\ \A c \in Client : \A r \in joined[c] : AskedToJoin(c, r)
    /\ \A n \in Server, r \in Room : \A c \in members[n][r] : AskedToJoin(c, r)

QueuesTrue == \A n \in Server : \A j \in ToSet(queue[n]) : InQueue(n, j)
LinksTrue  == \A m, n \in Server : \A j \in ToSet(chan[m][n]) : OnWire(m, n, j)
FramesTrue == \A n \in Server, t \in Thread : InFrame(n, frame[n][t])
Traffic    == /\ QueuesTrue /\ LinksTrue /\ FramesTrue
              /\ \A n \in Server : peer[n][n] = "down"

-----------------------------------------------------------------------------
(* The packets and the frames that the handlers build have their types.       *)
LEMMA Homes == Home \in [Client -> Server] /\ None \notin Server \cup Client \cup Room
<1>1. Home \in [Client -> Server]
  BY MessagesAssumption
<1>2. None \notin Server \cup Client \cup Room
  BY MessagesAssumption
<1> QED BY <1>1, <1>2

LEMMA JobTypes ==
    /\ \A c \in Client, x \in Target, i \in Nat, k \in OfClient : Command(c, k, x, i) \in Job
    /\ \A n \in Server \cup {None}, r \in Room \cup {None}, k \in OfMembership : Sync(n, r, k) \in Job
    /\ \A c \in Client : Logout(c) \in Job
    /\ \A j \in Job : Message(j) \in Job
<1>1. \A c \in Client, x \in Target, i \in Nat, k \in OfClient : Command(c, k, x, i) \in Job
  BY Homes DEF Command, Job, OfClient
<1>2. \A n \in Server \cup {None}, r \in Room \cup {None}, k \in OfMembership : Sync(n, r, k) \in Job
  BY DEF Sync, Job, OfMembership, Target
<1>3. \A c \in Client : Logout(c) \in Job
  BY Homes DEF Logout, Job, Target
<1>4. \A j \in Job : Message(j) \in Job
  BY DEF Message, Job
<1> QED BY <1>1, <1>2, <1>3, <1>4

LEMMA LabelValues ==
    /\ {"idle", "enter", "test first", "insert", "test member", "depart", "erase", "test last"} \subseteq Label
    /\ {"members", "sessions", "deliver", "servers", "locate", "hand over", "report"} \subseteq Label
    /\ {"send", "unlink", "clear users", "clear rooms", "apply", "unregister", "remove"} \subseteq Label
  BY DEF Label

LEMMA IdleType == Idle \in Frame
<1>1. Idle.job \in Job
  BY JobTypes DEF Idle, OfMembership
<1> QED BY <1>1 DEF Idle, Frame, Label

LEMMA ProceedType ==
    ASSUME NEW f \in Frame
    PROVE  Proceed(f) \in Frame
<1>1. None \in Server \cup {None}
  OBVIOUS
<1>2. /\ [f EXCEPT !.pc = "send", !.peer = None] \in Frame
      /\ [f EXCEPT !.pc = "remove", !.peer = None] \in Frame
      /\ [f EXCEPT !.pc = "report", !.peer = None] \in Frame
  BY <1>1, LabelValues DEF Frame
<1> QED BY <1>2, IdleType DEF Proceed

LEMMA SendsType ==
    ASSUME NEW f \in Frame, NEW j \in Job, NEW T \in SUBSET Server
    PROVE  Sends(f, j, T) \in Frame
<1>1. [f EXCEPT !.job = j, !.todo = T] \in Frame
  BY DEF Frame
<1> QED BY <1>1, ProceedType DEF Sends

LEMMA DeliveredType ==
    ASSUME NEW f \in Frame
    PROVE  Delivered(f) \in Frame
<1>1. [f EXCEPT !.pc = "servers"] \in Frame
  BY LabelValues DEF Frame
<1> QED BY <1>1, IdleType DEF Delivered

(* A thread that moves changes its own frame only.                            *)
LEMMA MovesOne ==
    ASSUME NEW n \in Server, NEW t \in Thread, NEW f \in Frame,
           frame \in [Server -> [Thread -> Frame]], Moves(n, t, f)
    PROVE  /\ frame' \in [Server -> [Thread -> Frame]]
           /\ frame'[n][t] = f
           /\ \A k \in Server, x \in Thread : k # n \/ x # t => frame'[k][x] = frame[k][x]
  BY DEF Moves

LEMMA EntryType == \A j \in Job : Entry(j.kind) \in Label
  BY ZenonT(30) DEF Job, Entry, Label

(* Parts of TypeOK, to be cited without the rest.                             *)
FramesTyped == frame \in [Server -> [Thread -> Frame]]
PacketsTyped ==
    /\ asked \in [Client -> Seq(Job)]
    /\ heard \in [Client -> Seq(Job)]
    /\ told \in [Client -> Seq([no : Nat, ok : BOOLEAN])]
    /\ chan \in [Server -> [Server -> Seq(Job)]]
    /\ queue \in [Server -> Seq(Job)]
TablesTyped ==
    /\ here \subseteq Client
    /\ users \in [Server -> SUBSET Client]
    /\ joined \in [Client -> SUBSET Room]
    /\ members \in [Server -> [Room -> SUBSET Client]]
    /\ remote \in [Server -> [Room -> SUBSET Server]]
    /\ peer \in [Server -> [Server -> {"up", "lost", "down"}]]
    /\ breaks \in Nat
Apart == \A n \in Server, r \in Room :
            n \notin remote[n][r] /\ \A c \in members[n][r] : Home[c] = n

LEMMA TypeParts == TypeOK <=> FramesTyped /\ PacketsTyped /\ TablesTyped /\ Apart
  BY DEF TypeOK, FramesTyped, PacketsTyped, TablesTyped, Apart

(* One entry of a table by server and room, or by server and server.          *)
LEMMA OneEntry ==
    ASSUME NEW A, NEW B, NEW V, NEW f \in [A -> [B -> V]], NEW a \in A, NEW b \in B, NEW v \in V
    PROVE  /\ [f EXCEPT ![a][b] = v] \in [A -> [B -> V]]
           /\ \A x \in A, y \in B : [f EXCEPT ![a][b] = v][x][y] = IF x = a /\ y = b THEN v ELSE f[x][y]
  OBVIOUS

LEMMA LinkEntry ==
    ASSUME NEW f \in [Server -> [Server -> Seq(Job)]], NEW a \in Server, NEW b \in Server, NEW s \in Seq(Job)
    PROVE  [f EXCEPT ![a][b] = s] \in [Server -> [Server -> Seq(Job)]]
  OBVIOUS

-----------------------------------------------------------------------------
LEMMA TypeStep == TypeOK /\ Traffic /\ [Next]_vars => TypeOK'
<1> SUFFICES ASSUME TypeOK, Traffic, [Next]_vars
             PROVE  TypeOK'
  OBVIOUS
<1> USE Homes
<1> DEFINE Good == FramesTyped' /\ PacketsTyped' /\ TablesTyped' /\ Apart'
<1>p. FramesTyped /\ PacketsTyped /\ TablesTyped /\ Apart
  BY TypeParts
<1>g. Good => TypeOK'
  BY DEF TypeOK, FramesTyped, PacketsTyped, TablesTyped, Apart
<1>t. Listener \in Thread /\ \A w \in Worker : w \in Thread
  BY DEF Thread
<1>m. \A n \in Server, t \in Thread, f \in Frame : Moves(n, t, f) => FramesTyped'
  BY <1>p, MovesOne DEF FramesTyped
<1>f. \A n \in Server, t \in Thread : frame[n][t] \in Frame /\ InFrame(n, frame[n][t])
  <2>1. \A n \in Server, t \in Thread : frame[n][t] \in Frame
    BY <1>p DEF FramesTyped
  <2>2. \A n \in Server, t \in Thread : InFrame(n, frame[n][t])
    BY DEF Traffic, FramesTrue
  <2> QED BY <2>1, <2>2
<1>i. Idle \in Frame
  BY IdleType
<1>l. \A n \in Server, t \in Thread, p \in Label : Goes(n, t, p) => FramesTyped'
  <2> TAKE n \in Server, t \in Thread, p \in Label
  <2>1. frame[n][t] \in Frame
    BY <1>f
  <2>2. [frame[n][t] EXCEPT !.pc = p] \in Frame
    BY <2>1 DEF Frame
  <2> QED BY <2>2, <1>m DEF Goes
<1> HIDE DEF Good
<1>1. ASSUME NEW c \in Client, NEW k \in Will[c], NEW x \in Addressees(c, k), Ask(c, k, x)
      PROVE  Good
  <2>1. k \in OfClient /\ x \in Target
    <3>1. Will \in [Client -> SUBSET (OfClient \cup {"hang up"})]
      BY MessagesAssumption DEF OfClient
    <3>2. k \in OfClient \cup {"hang up"}
      BY <3>1
    <3> QED BY <3>2 DEF Addressees, OfClient, Target
  <2> DEFINE j == Command(c, k, x, Len(asked[c]) + 1)
  <2>2. asked[c] \in Seq(Job) /\ Home[c] \in Server
    BY <1>p DEF PacketsTyped
  <2>3. Len(asked[c]) + 1 \in Nat
    BY <2>2
  <2>j. j \in Job
    BY <2>1, <2>3, JobTypes
  <2>e. asked' = [asked EXCEPT ![c] = Append(@, j)] /\ queue' = [queue EXCEPT ![Home[c]] = Append(@, j)]
    BY <1>1 DEF Ask
  <2> HIDE DEF j
  <2>5. asked' \in [Client -> Seq(Job)]
    BY <2>e, <2>j, <2>2, <1>p DEF PacketsTyped
  <2>6. queue' \in [Server -> Seq(Job)]
    BY <2>e, <2>j, <2>2, <1>p DEF PacketsTyped
  <2>4. PacketsTyped'
    BY <1>1, <1>p, <2>5, <2>6 DEF Ask, PacketsTyped, linkVars
  <2> QED BY <1>1, <1>p, <2>4 DEF Ask, Good, FramesTyped, TablesTyped, Apart, userVars, roomVars, linkVars
<1>2. ASSUME NEW c \in Client, HangUp(c)
      PROVE  Good
  <2>1. Logout(c) \in Job /\ "unregister" \in Label
    BY JobTypes, LabelValues
  <2>2. [Idle EXCEPT !.pc = "unregister", !.job = Logout(c)] \in Frame
    BY <2>1, <1>i DEF Frame
  <2>3. FramesTyped'
    BY <1>2, <1>m, <1>t, <2>2 DEF HangUp
  <2> QED BY <1>2, <1>p, <2>3
          DEF HangUp, Good, PacketsTyped, TablesTyped, Apart, clientVars, userVars, roomVars, linkVars
<1>3. ASSUME NEW n \in Server, Unregister(n)
      PROVE  Good
  <2>1. frame[n][Listener].job \in Job /\ Peers(n) \in SUBSET Server
    BY <1>f, <1>t DEF Frame, Peers
  <2>2. Sends(frame[n][Listener], frame[n][Listener].job, Peers(n)) \in Frame
    BY <2>1, <1>f, <1>t, SendsType
  <2>3. FramesTyped'
    BY <1>3, <1>m, <1>t, <2>2 DEF Unregister
  <2>4. users' \in [Server -> SUBSET Client]
    BY <1>3, <1>p DEF Unregister, TablesTyped
  <2> QED BY <1>3, <1>p, <2>3, <2>4
          DEF Unregister, Good, PacketsTyped, TablesTyped, Apart, clientVars, roomVars, linkVars
<1>4. ASSUME NEW n \in Server, RemoveSession(n)
      PROVE  Good
  <2>1. FramesTyped'
    BY <1>4, <1>m, <1>t, <1>i DEF RemoveSession
  <2> QED BY <1>4, <1>p, <2>1
          DEF RemoveSession, Good, PacketsTyped, TablesTyped, Apart, clientVars, roomVars, linkVars
<1>5. ASSUME NEW n \in Server, NEW w \in Worker, Start(n, w)
      PROVE  Good
  <2>1. Head(queue[n]) \in Job /\ Tail(queue[n]) \in Seq(Job)
    BY <1>5, <1>p, ToSetHeadTail DEF Start, PacketsTyped
  <2>2. Entry(Head(queue[n]).kind) \in Label
    BY <2>1, EntryType
  <2>3. [Idle EXCEPT !.pc = Entry(Head(queue[n]).kind), !.job = Head(queue[n])] \in Frame
    BY <2>1, <2>2, <1>i DEF Frame
  <2>4. FramesTyped'
    BY <1>5, <1>m, <1>t, <2>3 DEF Start
  <2>5. PacketsTyped'
    BY <1>5, <1>p, <2>1 DEF Start, PacketsTyped, clientVars, linkVars
  <2> QED BY <1>5, <1>p, <2>4, <2>5 DEF Start, Good, TablesTyped, Apart, userVars, roomVars, linkVars
<1>6. ASSUME NEW n \in Server, NEW w \in Worker, RoomStep(n, w)
      PROVE  Good
  <2> DEFINE f == frame[n][w]
  <2>f. f \in Frame /\ InFrame(n, f) /\ w \in Thread
    BY <1>f, <1>t
  <2>j. f.job \in Job /\ f.todo \in SUBSET Server
    BY <2>f DEF Frame
  <2>l. LabelValues!1 /\ LabelValues!2 /\ LabelValues!3
    BY LabelValues
  <2>1. CASE Enter(n, w)
    <3>1. FramesTyped'
      BY <2>1, <2>f, <2>l, <1>l DEF Enter
    <3>2. f.job.client \in Client /\ f.job.target \in Room
      BY <2>1, <2>f DEF Enter, Doing, InFrame, Truthful, OfClient
    <3>3. joined' \in [Client -> SUBSET Room]
      BY <2>1, <3>2, <1>p DEF Enter, TablesTyped
    <3> QED BY <2>1, <1>p, <3>1, <3>3
            DEF Enter, Good, PacketsTyped, TablesTyped, Apart, clientVars, userVars, linkVars
  <2>2. CASE TestFirst(n, w)
    <3> DEFINE T == IF members[n][f.job.target] = {} THEN Peers(n) ELSE {}
    <3>1. T \in SUBSET Server
      BY DEF Peers
    <3> HIDE DEF T
    <3>2. [f EXCEPT !.pc = "insert", !.todo = T] \in Frame
      BY <2>f, <2>l, <3>1 DEF Frame
    <3>3. FramesTyped'
      BY <2>2, <2>f, <3>2, <1>m DEF TestFirst, T
    <3> QED BY <2>2, <1>p, <3>3
            DEF TestFirst, Good, PacketsTyped, TablesTyped, Apart, clientVars, userVars, roomVars, linkVars
  <2>3. CASE Insert(n, w)
    <3>1. f.job.client \in Client /\ f.job.target \in Room /\ Home[f.job.client] = n
      BY <2>3, <2>f DEF Insert, InFrame, Truthful, OfClient
    <3>2. Sync(n, f.job.target, "active") \in Job
      BY <3>1, JobTypes DEF OfMembership
    <3>3. FramesTyped'
      BY <2>3, <2>f, <2>j, <3>2, <1>m, SendsType DEF Insert
    <3> DEFINE S == members[n][f.job.target] \cup {f.job.client}
    <3>4. members' = [members EXCEPT ![n][f.job.target] = S]
      BY <2>3 DEF Insert
    <3>s. members \in [Server -> [Room -> SUBSET Client]]
      BY <1>p DEF TablesTyped
    <3>v. S \in SUBSET Client
      BY <3>1, <3>s
    <3>5. members' \in [Server -> [Room -> SUBSET Client]]
      BY <3>1, <3>4, <3>s, <3>v, OneEntry
    <3>6. \A m \in Server, r \in Room : members'[m][r] \subseteq members[m][r] \cup (IF m = n THEN {f.job.client} ELSE {})
      BY <3>1, <3>4, <3>s
    <3>r. remote' = remote
      BY <2>3 DEF Insert
    <3>7. Apart'
      BY <3>r, <3>1, <3>6, <1>p DEF Apart
    <3> QED BY <2>3, <1>p, <3>3, <3>5, <3>7
            DEF Insert, Good, PacketsTyped, TablesTyped, clientVars, userVars, linkVars
  <2>4. CASE TestMember(n, w)
    <3>1. FramesTyped'
      BY <2>4, <2>f, <2>l, <1>i, <1>l, <1>m DEF TestMember, Doing, InFrame
    <3> QED BY <2>4, <1>p, <3>1
            DEF TestMember, Good, PacketsTyped, TablesTyped, Apart, clientVars, userVars, roomVars, linkVars
  <2>5. CASE Depart(n, w)
    <3>1. FramesTyped'
      BY <2>5, <2>f, <2>l, <1>l DEF Depart
    <3>2. f.job.client \in Client
      BY <2>5, <2>f DEF Depart, Doing, InFrame, Truthful, OfClient
    <3>3. joined' \in [Client -> SUBSET Room]
      BY <2>5, <3>2, <1>p DEF Depart, LeftRooms, TablesTyped
    <3> QED BY <2>5, <1>p, <3>1, <3>3
            DEF Depart, Good, PacketsTyped, TablesTyped, Apart, clientVars, userVars, linkVars
  <2>6. CASE Erase(n, w)
    <3>1. FramesTyped'
      BY <2>6, <2>f, <2>l, <1>l DEF Erase
    <3>2. f.job.target \in Room
      BY <2>6, <2>f DEF Erase, Doing, InFrame, Truthful, OfClient
    <3> DEFINE S == members[n][f.job.target] \ {f.job.client}
    <3>3. members' = [members EXCEPT ![n][f.job.target] = S]
      BY <2>6 DEF Erase
    <3>s. members \in [Server -> [Room -> SUBSET Client]]
      BY <1>p DEF TablesTyped
    <3>v. S \in SUBSET Client
      BY <3>2, <3>s
    <3>4. members' \in [Server -> [Room -> SUBSET Client]]
      BY <3>2, <3>3, <3>s, <3>v, OneEntry
    <3>5. \A m \in Server, r \in Room : members'[m][r] \subseteq members[m][r]
      BY <3>2, <3>3, <3>s
    <3>6. Apart'
      BY <2>6, <3>5, <1>p DEF Erase, Apart
    <3> QED BY <2>6, <1>p, <3>1, <3>4, <3>6
            DEF Erase, Good, PacketsTyped, TablesTyped, clientVars, userVars, linkVars
  <2>7. CASE TestLast(n, w)
    <3>1. f.pc = "test last" => f.job.target \in Room
      BY <2>f DEF InFrame, Truthful, OfClient
    <3>2. f.pc = "test last" => Sends(f, Sync(n, f.job.target, "inactive"), Peers(n)) \in Frame
      <4>1. SUFFICES ASSUME f.pc = "test last"
                     PROVE  Sends(f, Sync(n, f.job.target, "inactive"), Peers(n)) \in Frame
        OBVIOUS
      <4>2. Sync(n, f.job.target, "inactive") \in Job
        BY <4>1, <3>1, JobTypes DEF OfMembership
      <4>3. Peers(n) \in SUBSET Server
        BY DEF Peers
      <4> QED BY <4>2, <4>3, <2>f, SendsType
    <3>3. FramesTyped'
      BY <2>7, <2>f, <3>2, <1>i, <1>m DEF TestLast
    <3> QED BY <2>7, <1>p, <3>3
            DEF TestLast, Good, PacketsTyped, TablesTyped, Apart, clientVars, userVars, roomVars, linkVars
  <2> QED BY <1>6, <2>1, <2>2, <2>3, <2>4, <2>5, <2>6, <2>7 DEF RoomStep
<1>7. ASSUME NEW n \in Server, NEW w \in Worker, MessageStep(n, w)
      PROVE  Good
  <2> DEFINE f == frame[n][w]
             j == f.job
  <2>f. f \in Frame /\ InFrame(n, f) /\ w \in Thread
    BY <1>f, <1>t
  <2>j. j \in Job /\ Message(j) \in Job /\ f.to \in SUBSET Client
    BY <2>f, JobTypes DEF Frame
  <2>l. LabelValues!1 /\ LabelValues!2 /\ LabelValues!3
    BY LabelValues
  <2>a. FramesTyped' /\ PacketsTyped' /\ UNCHANGED <<userVars, roomVars, linkVars>> => Good
    BY <1>p DEF Good, TablesTyped, Apart, userVars, roomVars, linkVars
  <2>b. UNCHANGED <<clientVars, linkVars, queue>> => PacketsTyped'
    BY <1>p DEF PacketsTyped, clientVars, linkVars
  <2>h. \A c : Hears(c, j) => heard' \in [Client -> Seq(Job)]
    <3> SUFFICES ASSUME NEW c, Hears(c, j)
                 PROVE  heard' \in [Client -> Seq(Job)]
      OBVIOUS
    <3>1. heard \in [Client -> Seq(Job)]
      BY <1>p DEF PacketsTyped
    <3>2. heard' = [heard EXCEPT ![c] = Append(heard[c], Message(j))] \/ heard' = heard
      BY DEF Hears
    <3>3. CASE c \in Client
      <4>1. Append(heard[c], Message(j)) \in Seq(Job)
        BY <3>1, <3>3, <2>j
      <4> QED BY <3>1, <3>2, <4>1
    <3>4. CASE c \notin Client
      BY <3>1, <3>2, <3>4
    <3> QED BY <3>3, <3>4
  <2>t. \A ok \in BOOLEAN : Tells(j, ok) => told' \in [Client -> Seq([no : Nat, ok : BOOLEAN])]
    <3> SUFFICES ASSUME NEW ok \in BOOLEAN, Tells(j, ok)
                 PROVE  told' \in [Client -> Seq([no : Nat, ok : BOOLEAN])]
      OBVIOUS
    <3>1. told \in [Client -> Seq([no : Nat, ok : BOOLEAN])]
      BY <1>p DEF PacketsTyped
    <3> DEFINE a == [no |-> j.no, ok |-> ok]
    <3>2. a \in [no : Nat, ok : BOOLEAN]
      BY <2>j DEF Job
    <3>3. told' = [told EXCEPT ![j.client] = Append(told[j.client], a)]
      BY DEF Tells
    <3> HIDE DEF a
    <3>4. CASE j.client \in Client
      <4>1. Append(told[j.client], a) \in Seq([no : Nat, ok : BOOLEAN])
        BY <3>1, <3>2, <3>4
      <4> QED BY <3>1, <3>3, <4>1
    <3>5. CASE j.client \notin Client
      BY <3>1, <3>3, <3>5
    <3> QED BY <3>4, <3>5
  <2>1. CASE GetMembers(n, w)
    <3>1. j.target \in Room
      BY <2>1, <2>f DEF GetMembers, InFrame, Truthful, OfClient
    <3>2. members[n][j.target] \in SUBSET Client
      BY <3>1, <1>p DEF TablesTyped
    <3>3. [f EXCEPT !.pc = "deliver", !.to = members[n][j.target]] \in Frame
      BY <2>f, <2>l, <3>2 DEF Frame
    <3>4. FramesTyped'
      BY <2>1, <2>f, <3>3, <1>m, DeliveredType DEF GetMembers, LocalMembers
    <3> QED BY <2>1, <2>a, <2>b, <3>4 DEF GetMembers
  <2>2. CASE GetAllSessions(n, w)
    <3>1. Sessions(n) \in SUBSET Client
      BY <1>p DEF Sessions, TablesTyped
    <3>2. [f EXCEPT !.pc = "deliver", !.to = Sessions(n)] \in Frame
      BY <2>f, <2>l, <3>1 DEF Frame
    <3>3. FramesTyped'
      BY <2>2, <2>f, <3>2, <1>m, DeliveredType DEF GetAllSessions
    <3> QED BY <2>2, <2>a, <2>b, <3>3 DEF GetAllSessions
  <2>3. CASE GetServers(n, w)
    <3> DEFINE T == IF j.kind = "shout" THEN Peers(n) ELSE remote[n][j.target]
    <3>1. T \in SUBSET Server
      <4>1. j.kind = "shout" \/ j.target \in Room
        BY <2>3, <2>f DEF GetServers, InFrame, Truthful, OfClient
      <4>2. j.target \in Room => remote[n][j.target] \in SUBSET Server
        BY <1>p DEF TablesTyped
      <4> QED BY <4>1, <4>2 DEF Peers
    <3>2. Moves(n, w, Sends(f, Message(j), T))
      BY <2>3 DEF GetServers
    <3> HIDE DEF T
    <3>3. FramesTyped'
      BY <2>f, <2>j, <3>1, <3>2, <1>m, SendsType
    <3> QED BY <2>3, <2>a, <2>b, <3>3 DEF GetServers
  <2>4. ASSUME NEW c \in Client, Deliver(n, w, c)
        PROVE  Good
    <3>1. [f EXCEPT !.to = f.to \ {c}] \in Frame
      BY <2>f, <2>j DEF Frame
    <3>2. FramesTyped'
      BY <2>4, <2>f, <3>1, <1>m, DeliveredType DEF Deliver
    <3>3. heard' \in [Client -> Seq(Job)]
      BY <2>4, <2>h DEF Deliver
    <3>4. PacketsTyped'
      BY <2>4, <3>3, <1>p DEF Deliver, PacketsTyped, linkVars
    <3> QED BY <2>4, <2>a, <3>2, <3>4 DEF Deliver
  <2>5. CASE Locate(n, w)
    <3>1. f.pc = "locate" /\ j.target \in Client
      BY <2>5, <2>f DEF Locate, InFrame, Truthful
    <3>2. Sends(f, Message(j), {Home[j.target]}) \in Frame
      BY <2>f, <2>j, <3>1, SendsType
    <3>3. \/ Moves(n, w, Idle) \/ Goes(n, w, "hand over")
          \/ Moves(n, w, Sends(f, Message(j), {Home[j.target]}))
      BY <2>5 DEF Locate
    <3>4. FramesTyped'
      BY <2>f, <2>l, <3>2, <3>3, <1>i, <1>l, <1>m
    <3>5. Tells(j, FALSE) \/ UNCHANGED told
      BY <2>5 DEF Locate
    <3>6. told' \in [Client -> Seq([no : Nat, ok : BOOLEAN])]
      BY <3>5, <2>t, <1>p DEF PacketsTyped
    <3>7. PacketsTyped'
      BY <2>5, <3>6, <1>p DEF Locate, PacketsTyped, linkVars
    <3> QED BY <2>5, <2>a, <3>4, <3>7 DEF Locate
  <2>6. CASE HandOver(n, w)
    <3>1. FramesTyped'
      BY <2>6, <2>f, <1>i, <1>m DEF HandOver
    <3>2. heard' \in [Client -> Seq(Job)]
      BY <2>6, <2>h DEF HandOver
    <3>3. Tells(j, TRUE) \/ UNCHANGED told
      BY <2>6 DEF HandOver
    <3>4. told' \in [Client -> Seq([no : Nat, ok : BOOLEAN])]
      BY <3>3, <2>t, <1>p DEF PacketsTyped
    <3>5. PacketsTyped'
      BY <2>6, <3>2, <3>4, <1>p DEF HandOver, PacketsTyped, linkVars
    <3> QED BY <2>6, <2>a, <3>1, <3>5 DEF HandOver
  <2>7. CASE Report(n, w)
    <3>1. FramesTyped'
      BY <2>7, <2>f, <1>i, <1>m DEF Report
    <3>2. told' \in [Client -> Seq([no : Nat, ok : BOOLEAN])]
      BY <2>7, <2>t DEF Report
    <3>3. PacketsTyped'
      BY <2>7, <3>2, <1>p DEF Report, PacketsTyped, linkVars
    <3> QED BY <2>7, <2>a, <3>1, <3>3 DEF Report
  <2> QED BY <1>7, <2>1, <2>2, <2>3, <2>4, <2>5, <2>6, <2>7 DEF MessageStep
<1>8. ASSUME NEW n \in Server, NEW w \in Worker, Apply(n, w)
      PROVE  Good
  <2> DEFINE f == frame[n][w]
             j == f.job
  <2>f. f \in Frame /\ InFrame(n, f) /\ w \in Thread
    BY <1>f, <1>t
  <2>1. FramesTyped'
    BY <1>8, <2>f, <1>i, <1>m DEF Apply
  <2>2. PacketsTyped'
    BY <1>8, <1>p DEF Apply, PacketsTyped, clientVars, linkVars
  <2>3. users' \in [Server -> SUBSET Client]
    <3>1. users' = [users EXCEPT ![n] = @ \ {j.client}] \/ users' = users
      BY <1>8 DEF Apply
    <3>2. users \in [Server -> SUBSET Client]
      BY <1>p DEF TablesTyped
    <3> QED BY <3>1, <3>2
  <2>4. /\ remote' \in [Server -> [Room -> SUBSET Server]]
        /\ \A m \in Server, r \in Room : m \notin remote'[m][r]
    <3>r. /\ remote \in [Server -> [Room -> SUBSET Server]]
          /\ \A m \in Server, r \in Room : m \notin remote[m][r]
      BY <1>p DEF TablesTyped, Apart
    <3>1. CASE j.kind = "gone"
      BY <1>8, <3>1, <3>r DEF Apply
    <3>2. CASE j.kind # "gone"
      <4>1. j.from \in Peers(n) /\ j.target \in Room
        BY <1>8, <2>f, <3>2 DEF Apply, Doing, InFrame
      <4>2. Synced(n, j) \in SUBSET Server /\ n \notin Synced(n, j)
        BY <4>1, <3>r DEF Synced, Peers
      <4>3. remote' = [remote EXCEPT ![n][j.target] = Synced(n, j)]
        BY <1>8, <3>2 DEF Apply
      <4> QED BY <4>1, <4>2, <4>3, <3>r, OneEntry
    <3> QED BY <3>1, <3>2
  <2>5. TablesTyped' /\ Apart'
    BY <1>8, <1>p, <2>3, <2>4 DEF Apply, TablesTyped, Apart, linkVars
  <2> QED BY <2>1, <2>2, <2>5 DEF Good
<1>9. ASSUME NEW n \in Server, NEW t \in Thread, ThreadStep(n, t)
      PROVE  Good
  <2> DEFINE f == frame[n][t]
  <2>f. f \in Frame /\ InFrame(n, f)
    BY <1>f
  <2>j. f.job \in Job /\ f.todo \in SUBSET Server
    BY <2>f DEF Frame
  <2>l. LabelValues!1 /\ LabelValues!2 /\ LabelValues!3
    BY LabelValues
  <2>c. chan \in [Server -> [Server -> Seq(Job)]] /\ peer \in [Server -> [Server -> {"up", "lost", "down"}]]
    BY <1>p DEF PacketsTyped, TablesTyped
  <2>1. ASSUME NEW m \in Server, Send(n, t, m)
        PROVE  Good
    <3>1. [f EXCEPT !.todo = f.todo \ {m}] \in Frame
      BY <2>f, <2>j DEF Frame
    <3>2. FramesTyped'
      BY <2>1, <3>1, <1>m, ProceedType DEF Send
    <3>3. Append(chan[n][m], f.job) \in Seq(Job)
      BY <2>c, <2>j
    <3>4. chan' = [chan EXCEPT ![n][m] = Append(chan[n][m], f.job)] \/ chan' = chan
      BY <2>1 DEF Send
    <3>o. [chan EXCEPT ![n][m] = Append(chan[n][m], f.job)] \in [Server -> [Server -> Seq(Job)]]
      BY <2>c, <3>3, LinkEntry
    <3>5. chan' \in [Server -> [Server -> Seq(Job)]]
      BY <2>c, <3>o, <3>4
    <3>6. PacketsTyped'
      BY <2>1, <3>5, <1>p DEF Send, PacketsTyped, clientVars
    <3> QED BY <2>1, <3>2, <3>6, <1>p DEF Send, Good, TablesTyped, Apart, userVars, roomVars
  <2>2. ASSUME NEW m \in Server, SendFails(n, t, m)
        PROVE  Good
    <3>1. [f EXCEPT !.pc = "unlink", !.todo = f.todo \ {m}, !.peer = m] \in Frame
      BY <2>f, <2>j, <2>l DEF Frame
    <3>2. FramesTyped'
      BY <2>2, <3>1, <1>m DEF SendFails
    <3> QED BY <2>2, <3>2, <1>p
            DEF SendFails, Good, PacketsTyped, TablesTyped, Apart, clientVars, userVars, roomVars, linkVars
  <2>3. CASE Unlink(n, t)
    <3>1. f.peer \in Server
      BY <2>3, <2>f DEF Unlink, InFrame, Leaving
    <3>2. FramesTyped'
      BY <2>3, <2>l, <1>l DEF Unlink
    <3>3. chan' = [chan EXCEPT ![f.peer][n] = <<>>] /\ peer' = [peer EXCEPT ![n][f.peer] = "down"]
      BY <2>3 DEF Unlink
    <3>4. <<>> \in Seq(Job)
      OBVIOUS
    <3>5. chan' \in [Server -> [Server -> Seq(Job)]]
      BY <2>c, <3>1, <3>3, <3>4, LinkEntry
    <3>6. peer' \in [Server -> [Server -> {"up", "lost", "down"}]]
      BY <2>c, <3>1, <3>3
    <3>7. PacketsTyped' /\ TablesTyped' /\ Apart'
      BY <2>3, <3>5, <3>6, <1>p DEF Unlink, PacketsTyped, TablesTyped, Apart, clientVars, userVars, roomVars
    <3> QED BY <3>2, <3>7 DEF Good
  <2>4. CASE ClearUsers(n, t)
    <3>1. FramesTyped'
      BY <2>4, <2>l, <1>l DEF ClearUsers
    <3>2. users' \in [Server -> SUBSET Client]
      BY <2>4, <1>p DEF ClearUsers, TablesTyped
    <3> QED BY <2>4, <3>1, <3>2, <1>p
            DEF ClearUsers, Good, PacketsTyped, TablesTyped, Apart, clientVars, roomVars, linkVars
  <2>5. CASE ClearRooms(n, t)
    <3>1. FramesTyped'
      BY <2>5, <2>f, <1>m, ProceedType DEF ClearRooms
    <3>2. /\ remote \in [Server -> [Room -> SUBSET Server]]
          /\ \A m \in Server, r \in Room : m \notin remote[m][r]
      BY <1>p DEF TablesTyped, Apart
    <3>3. remote' = [remote EXCEPT ![n] = [r \in Room |-> remote[n][r] \ {f.peer}]]
      BY <2>5 DEF ClearRooms
    <3>4. [r \in Room |-> remote[n][r] \ {f.peer}] \in [Room -> SUBSET Server]
      BY <3>2
    <3>5. remote' \in [Server -> [Room -> SUBSET Server]]
      BY <3>2, <3>3, <3>4
    <3>6. \A m \in Server, r \in Room : m \notin remote'[m][r]
      BY <3>2, <3>3
    <3> QED BY <2>5, <3>1, <3>5, <3>6, <1>p
            DEF ClearRooms, Good, PacketsTyped, TablesTyped, Apart, clientVars, userVars, linkVars
  <2> QED BY <1>9, <2>1, <2>2, <2>3, <2>4, <2>5 DEF ThreadStep
<1>10. ASSUME NEW n \in Server, NEW m \in Server, ReadPeer(n, m)
       PROVE  Good
  <2>c. chan \in [Server -> [Server -> Seq(Job)]] /\ queue \in [Server -> Seq(Job)]
    BY <1>p DEF PacketsTyped
  <2>1. Head(chan[m][n]) \in Job /\ Tail(chan[m][n]) \in Seq(Job)
    BY <1>10, <2>c, ToSetHeadTail DEF ReadPeer
  <2>2. chan' = [chan EXCEPT ![m][n] = Tail(chan[m][n])]
    BY <1>10 DEF ReadPeer
  <2>3. chan' \in [Server -> [Server -> Seq(Job)]]
    BY <2>c, <2>1, <2>2, LinkEntry
  <2>4. queue' \in [Server -> Seq(Job)]
    BY <1>10, <2>c, <2>1 DEF ReadPeer
  <2>5. PacketsTyped'
    BY <1>10, <2>3, <2>4, <1>p DEF ReadPeer, PacketsTyped, clientVars
  <2> QED BY <1>10, <2>5, <1>p DEF ReadPeer, Good, FramesTyped, TablesTyped, Apart, userVars, roomVars
<1>11. ASSUME NEW n \in Server, NEW m \in Server, PeerEof(n, m)
       PROVE  Good
  <2>1. [Idle EXCEPT !.pc = "unlink", !.peer = m] \in Frame
    BY <1>i, LabelValues DEF Frame
  <2>2. FramesTyped'
    BY <1>11, <1>t, <1>m, <2>1 DEF PeerEof
  <2> QED BY <1>11, <2>2, <1>p
          DEF PeerEof, Good, PacketsTyped, TablesTyped, Apart, clientVars, userVars, roomVars, linkVars
<1>12. ASSUME NEW n \in Server, NEW m \in Server, NetBreak(n, m)
       PROVE  Good
  <2>1. PICK i \in 0..Len(chan[n][m]), k \in 0..Len(chan[m][n]) :
            chan' = [chan EXCEPT ![n][m] = SubSeq(@, 1, i), ![m][n] = SubSeq(@, 1, k)]
    BY <1>12 DEF NetBreak
  <2>2. chan \in [Server -> [Server -> Seq(Job)]] /\ peer \in [Server -> [Server -> {"up", "lost", "down"}]]
    BY <1>p DEF PacketsTyped, TablesTyped
  <2> DEFINE c1 == [chan EXCEPT ![n][m] = SubSeq(chan[n][m], 1, i)]
  <2>3. SubSeq(chan[n][m], 1, i) \in Seq(Job)
    BY <2>2, ToSetPrefix
  <2>4. c1 \in [Server -> [Server -> Seq(Job)]]
    BY <2>2, <2>3, LinkEntry
  <2>u. n # m
    BY <1>12 DEF NetBreak, Traffic
  <2>v. c1[m][n] = chan[m][n]
    BY <2>2, <2>u
  <2>5. SubSeq(chan[m][n], 1, k) \in Seq(Job)
    BY <2>2, ToSetPrefix
  <2>w. chan' = [chan EXCEPT ![n][m] = SubSeq(chan[n][m], 1, i), ![m][n] = SubSeq(chan[m][n], 1, k)]
    BY <2>1, <2>2, <2>u
  <2>6. chan' = [c1 EXCEPT ![m][n] = SubSeq(chan[m][n], 1, k)]
    BY <2>w
  <2> HIDE DEF c1
  <2>7. chan' \in [Server -> [Server -> Seq(Job)]]
    BY <2>4, <2>5, <2>6, LinkEntry
  <2>8. peer' \in [Server -> [Server -> {"up", "lost", "down"}]]
    <3>1. peer' = [peer EXCEPT ![n][m] = "lost", ![m][n] = "lost"]
      BY <1>12 DEF NetBreak
    <3> QED BY <3>1, <2>2
  <2>9. breaks' \in Nat
    BY <1>12, <1>p DEF NetBreak, TablesTyped
  <2>10. PacketsTyped' /\ TablesTyped' /\ Apart'
    BY <1>12, <2>7, <2>8, <2>9, <1>p
       DEF NetBreak, PacketsTyped, TablesTyped, Apart, clientVars, userVars, roomVars
  <2> QED BY <1>12, <2>10, <1>p DEF NetBreak, Good, FramesTyped
<1>13. CASE UNCHANGED vars
  <2>1. FramesTyped' /\ Apart'
    BY <1>13, <1>p DEF vars, FramesTyped, Apart, roomVars
  <2>2. PacketsTyped'
    BY <1>13, <1>p DEF vars, PacketsTyped, clientVars, linkVars
  <2>3. TablesTyped'
    BY <1>13, <1>p DEF vars, TablesTyped, userVars, roomVars, linkVars
  <2> QED BY <1>g, <2>1, <2>2, <2>3 DEF Good
<1>14. ASSUME NEW c \in Client, ClientStep(c)
       PROVE  Good
  BY <1>14, <1>1, <1>2 DEF ClientStep
<1>15. ASSUME NEW n \in Server, NEW w \in Worker, WorkerStep(n, w)
       PROVE  Good
  BY <1>15, <1>5, <1>6, <1>7, <1>8, <1>9, <1>t DEF WorkerStep
<1>16. ASSUME NEW n \in Server, ListenerStep(n)
       PROVE  Good
  BY <1>16, <1>3, <1>4, <1>9, <1>t DEF ListenerStep
<1> QED BY <1>g, <1>10, <1>11, <1>12, <1>13, <1>14, <1>15, <1>16 DEF Next, SocketStep

-----------------------------------------------------------------------------
(* What a client asked for it has asked for ever after, so what is truthful   *)
(* stays truthful.                                                            *)
Asks == \A c \in Client, r \in Room : AskedToJoin(c, r) => AskedToJoin(c, r)'

LEMMA TruthfulStays ==
    ASSUME Asks, NEW j, Truthful(j)
    PROVE  Truthful(j)'
<1>1. j.kind \in {"join", "room"} => AskedToJoin(j.client, j.target)'
  BY DEF Asks, Truthful, OfClient
<1> QED BY <1>1 DEF Truthful

LEMMA FrameStays ==
    ASSUME Asks, NEW n \in Server, NEW f \in Frame, InFrame(n, f)
    PROVE  InFrame(n, f)'
<1>1. Truthful(f.job)'
  BY TruthfulStays DEF InFrame
<1>2. Sendable(n, f.job) => Sendable(n, f.job)'
  BY TruthfulStays DEF Sendable
<1>3. f.pc \in {"members", "deliver", "servers"} /\ f.job.kind = "say" =>
          AskedToJoin(f.job.client, f.job.target)'
  BY DEF InFrame, Truthful, OfClient, Asks
<1>4. f.pc = "deliver" /\ f.job.kind \in {"say", "room"} =>
          \A c \in f.to : AskedToJoin(c, f.job.target)'
  <2> SUFFICES ASSUME f.pc = "deliver", f.job.kind \in {"say", "room"}, NEW c \in f.to
               PROVE  AskedToJoin(c, f.job.target)'
    OBVIOUS
  <2>1. c \in Client
    BY DEF Frame
  <2>2. f.job.target \in Room /\ AskedToJoin(c, f.job.target)
    BY DEF InFrame, Truthful, OfClient
  <2> QED BY <2>1, <2>2 DEF Asks
<1> QED BY <1>1, <1>2, <1>3, <1>4 DEF InFrame

(* A thread that sends and then goes on.                                      *)
LEMMA InFrameIdle == \A n \in Server : InFrame(n, Idle)
  BY DEF InFrame, Idle, Sync, Truthful, Leaving, OfClient

LEMMA InFrameProceed ==
    ASSUME NEW n \in Server, NEW f \in Frame, f.todo \subseteq Peers(n),
           Sendable(n, f.job) \/ (f.todo = {} /\ f.job = Idle.job),
           f.job.kind = "private" => f.todo \subseteq {Home[f.job.target]}
    PROVE  InFrame(n, Proceed(f))
<1>1. CASE f.todo # {}
  <2> DEFINE g == [f EXCEPT !.pc = "send", !.peer = None]
  <2>1. g.pc = "send" /\ g.job = f.job /\ g.todo = f.todo
    BY DEF Frame
  <2>2. Sendable(n, f.job) /\ Truthful(f.job)
    BY <1>1 DEF Sendable
  <2>3. Proceed(f) = g
    BY <1>1 DEF Proceed
  <2> HIDE DEF g
  <2> QED BY <2>1, <2>2, <2>3 DEF InFrame, Leaving, Sendable, OfClient, OfServer
<1>2. CASE f.todo = {} /\ f.job.kind = "gone"
  <2> DEFINE g == [f EXCEPT !.pc = "remove", !.peer = None]
  <2>1. g.pc = "remove" /\ g.job = f.job /\ g.todo = f.todo
    BY DEF Frame
  <2>2. Truthful(f.job) /\ Sendable(n, f.job)
    BY <1>2 DEF Sendable, Idle, Sync
  <2>3. Proceed(f) = g
    BY <1>2 DEF Proceed
  <2> HIDE DEF g
  <2> QED BY <1>2, <2>1, <2>2, <2>3 DEF InFrame, Leaving, OfClient
<1>3. CASE f.todo = {} /\ f.job.kind = "private"
  <2> DEFINE g == [f EXCEPT !.pc = "report", !.peer = None]
  <2>1. g.pc = "report" /\ g.job = f.job /\ g.todo = f.todo
    BY DEF Frame
  <2>2. Truthful(f.job) /\ Sendable(n, f.job)
    BY <1>3 DEF Sendable, Idle, Sync
  <2>3. Proceed(f) = g
    BY <1>3 DEF Proceed
  <2> HIDE DEF g
  <2> QED BY <1>3, <2>1, <2>2, <2>3 DEF InFrame, Leaving, OfClient
<1>4. CASE f.todo = {} /\ f.job.kind \notin {"gone", "private"}
  <2>1. Proceed(f) = Idle
    BY <1>4 DEF Proceed
  <2> QED BY <2>1, InFrameIdle
<1> QED BY <1>1, <1>2, <1>3, <1>4

LEMMA InFrameSends ==
    ASSUME NEW n \in Server, NEW f \in Frame, NEW j \in Job, NEW T \in SUBSET Server,
           T \subseteq Peers(n), Sendable(n, j), j.kind = "private" => T \subseteq {Home[j.target]}
    PROVE  InFrame(n, Sends(f, j, T))
<1> DEFINE g == [f EXCEPT !.job = j, !.todo = T]
<1>1. g \in Frame
  BY DEF Frame
<1>2. g.job = j /\ g.todo = T
  BY DEF Frame
<1>3. Sends(f, j, T) = Proceed(g)
  BY DEF Sends
<1> HIDE DEF g
<1> QED BY <1>1, <1>2, <1>3, InFrameProceed

LEMMA InFrameDelivered ==
    ASSUME NEW n \in Server, NEW f \in Frame, f.pc = "deliver", InFrame(n, f)
    PROVE  InFrame(n, Delivered(f))
<1>1. CASE f.to # {}
  BY <1>1 DEF Delivered
<1>2. CASE f.to = {} /\ f.job.kind \in {"say", "shout"}
  <2> DEFINE g == [f EXCEPT !.pc = "servers"]
  <2>1. g.pc = "servers" /\ g.job = f.job /\ g.todo = f.todo
    BY DEF Frame
  <2>2. Delivered(f) = g
    BY <1>2 DEF Delivered
  <2> HIDE DEF g
  <2>3. /\ Truthful(f.job) /\ f.todo \subseteq Peers(n)
        /\ f.job.kind = "say" => AskedToJoin(f.job.client, f.job.target)
    BY DEF InFrame
  <2> QED BY <1>2, <2>1, <2>2, <2>3 DEF InFrame, Leaving
<1>3. CASE f.to = {} /\ f.job.kind \notin {"say", "shout"}
  <2>1. Delivered(f) = Idle
    BY <1>3 DEF Delivered
  <2> QED BY <2>1, InFrameIdle
<1> QED BY <1>1, <1>2, <1>3

(* A message that is forwarded claims no more than the packet it came in.     *)
LEMMA MessageSendable ==
    ASSUME NEW n \in Server, NEW j \in Job, Truthful(j), j.kind \in {"say", "tell", "shout"},
           j.kind = "say" => AskedToJoin(j.client, j.target),
           Home[j.client] = n, j.kind = "tell" => Home[j.target] # n
    PROVE  Sendable(n, Message(j))
<1>1. /\ Message(j).client = j.client /\ Message(j).target = j.target
      /\ Message(j).kind \in {"room", "private", "broadcast"}
      /\ Message(j).kind = "room" => j.kind = "say"
      /\ Message(j).kind = "private" => j.kind = "tell"
  BY DEF Message, Job
<1> HIDE DEF Message
<1> QED BY <1>1 DEF Sendable, Truthful, OfClient, OfServer, OfMembership, OfSender

(* A task that a worker takes.                                                *)
LEMMA InFrameStart ==
    ASSUME NEW n \in Server, NEW j \in Job, InQueue(n, j)
    PROVE  InFrame(n, [Idle EXCEPT !.pc = Entry(j.kind), !.job = j])
<1> DEFINE f == [Idle EXCEPT !.pc = Entry(j.kind), !.job = j]
<1>1. f.pc = Entry(j.kind) /\ f.job = j /\ f.todo = {} /\ f.to = {}
  BY DEF Idle
<1> HIDE DEF f
<1>2. j.kind \in OfClient \cup OfServer
  BY DEF Job, OfClient, OfServer
<1>3. InFrame(n, f)
  BY <1>1, <1>2 DEF InFrame, InQueue, Entry, Leaving, OfClient, OfServer, OfMembership
<1> QED BY <1>3 DEF f

-----------------------------------------------------------------------------
(* What the steps of each kind leave alone.                                   *)
LEMMA ThreadStepKeeps ==
    ASSUME NEW n, NEW t, ThreadStep(n, t)
    PROVE  UNCHANGED <<asked, heard, told, joined, members>>
<1>1. ASSUME NEW m, Send(n, t, m)
      PROVE  UNCHANGED <<asked, heard, told, joined, members>>
  BY <1>1, Zenon DEF Send, clientVars, userVars, roomVars, linkVars
<1>2. ASSUME NEW m, SendFails(n, t, m)
      PROVE  UNCHANGED <<asked, heard, told, joined, members>>
  BY <1>2, Zenon DEF SendFails, clientVars, userVars, roomVars, linkVars
<1>3. CASE Unlink(n, t)
  BY <1>3, Zenon DEF Unlink, clientVars, userVars, roomVars, linkVars
<1>4. CASE ClearUsers(n, t)
  BY <1>4, Zenon DEF ClearUsers, clientVars, userVars, roomVars, linkVars
<1>5. CASE ClearRooms(n, t)
  BY <1>5, Zenon DEF ClearRooms, clientVars, userVars, roomVars, linkVars
<1> QED BY <1>1, <1>2, <1>3, <1>4, <1>5 DEF ThreadStep

LEMMA RoomStepKeeps ==
    ASSUME NEW n, NEW w, RoomStep(n, w)
    PROVE  UNCHANGED <<asked, heard, told>>
<1>1. CASE Enter(n, w)
  BY <1>1, Zenon DEF Enter, clientVars, userVars, roomVars, linkVars
<1>2. CASE TestFirst(n, w)
  BY <1>2, Zenon DEF TestFirst, clientVars, userVars, roomVars, linkVars
<1>3. CASE Insert(n, w)
  BY <1>3, Zenon DEF Insert, clientVars, userVars, roomVars, linkVars
<1>4. CASE TestMember(n, w)
  BY <1>4, Zenon DEF TestMember, clientVars, userVars, roomVars, linkVars
<1>5. CASE Depart(n, w)
  BY <1>5, Zenon DEF Depart, clientVars, userVars, roomVars, linkVars
<1>6. CASE Erase(n, w)
  BY <1>6, Zenon DEF Erase, clientVars, userVars, roomVars, linkVars
<1>7. CASE TestLast(n, w)
  BY <1>7, Zenon DEF TestLast, clientVars, userVars, roomVars, linkVars
<1> QED BY <1>1, <1>2, <1>3, <1>4, <1>5, <1>6, <1>7 DEF RoomStep

LEMMA MessageStepKeeps ==
    ASSUME NEW n, NEW w, MessageStep(n, w)
    PROVE  UNCHANGED <<asked, joined, members>>
<1>1. CASE GetMembers(n, w)
  BY <1>1, Zenon DEF GetMembers, clientVars, userVars, roomVars, linkVars
<1>2. CASE GetAllSessions(n, w)
  BY <1>2, Zenon DEF GetAllSessions, clientVars, userVars, roomVars, linkVars
<1>3. CASE GetServers(n, w)
  BY <1>3, Zenon DEF GetServers, clientVars, userVars, roomVars, linkVars
<1>4. ASSUME NEW c, Deliver(n, w, c)
      PROVE  UNCHANGED <<asked, joined, members>>
  BY <1>4, Zenon DEF Deliver, clientVars, userVars, roomVars, linkVars
<1>5. CASE Locate(n, w)
  BY <1>5, Zenon DEF Locate, clientVars, userVars, roomVars, linkVars
<1>6. CASE HandOver(n, w)
  BY <1>6, Zenon DEF HandOver, clientVars, userVars, roomVars, linkVars
<1>7. CASE Report(n, w)
  BY <1>7, Zenon DEF Report, clientVars, userVars, roomVars, linkVars
<1> QED BY <1>1, <1>2, <1>3, <1>4, <1>5, <1>6, <1>7 DEF MessageStep

(* All steps but Ask leave the packets of clients alone.                      *)
LEMMA AskedStep ==
    ASSUME [Next]_vars
    PROVE  \/ UNCHANGED asked
           \/ \E c \in Client : \E k \in Will[c] : \E x \in Addressees(c, k) : Ask(c, k, x)
<1> SUFFICES ASSUME ~ \E c \in Client : \E k \in Will[c] : \E x \in Addressees(c, k) : Ask(c, k, x)
             PROVE  UNCHANGED asked
  OBVIOUS
<1>1. \A n, t : ThreadStep(n, t) => UNCHANGED asked
  BY ThreadStepKeeps
<1>2. \A n, w : RoomStep(n, w) => UNCHANGED asked
  BY RoomStepKeeps
<1>3. \A n, w : MessageStep(n, w) => UNCHANGED asked
  BY MessageStepKeeps
<1>4. \A n, w : Start(n, w) \/ Apply(n, w) => UNCHANGED asked
  BY DEF Start, Apply, clientVars
<1>5. \A n \in Server : ListenerStep(n) => UNCHANGED asked
  BY <1>1 DEF ListenerStep, Unregister, RemoveSession, clientVars
<1>6. \A n, m \in Server : SocketStep(n, m) \/ NetBreak(n, m) => UNCHANGED asked
  BY DEF SocketStep, ReadPeer, PeerEof, NetBreak, clientVars
<1>7. \A c \in Client : ClientStep(c) => UNCHANGED asked
  BY DEF ClientStep, HangUp, clientVars
<1>8. UNCHANGED vars => UNCHANGED asked
  BY DEF vars, clientVars
<1> QED BY <1>1, <1>2, <1>3, <1>4, <1>5, <1>6, <1>7, <1>8 DEF Next, WorkerStep

LEMMA AsksStep == TypeOK /\ [Next]_vars => Asks
<1> SUFFICES ASSUME TypeOK, [Next]_vars
             PROVE  Asks
  OBVIOUS
<1>1. ASSUME NEW c \in Client, NEW k, NEW x, Ask(c, k, x)
      PROVE  Asks
  <2> DEFINE j == Command(c, k, x, Len(asked[c]) + 1)
  <2>1. asked' = [asked EXCEPT ![c] = Append(@, j)] /\ asked \in [Client -> Seq(Job)]
    BY <1>1 DEF Ask, TypeOK
  <2> HIDE DEF j
  <2>2. ToSet(Append(asked[c], j)) = ToSet(asked[c]) \cup {j}
    <3>1. asked[c] \in Seq(Job) /\ asked[c] \in Seq(Job \cup {j})
      BY <2>1
    <3> QED BY <3>1, ToSetAppend
  <2>3. \A d \in Client : asked'[d] = IF d = c THEN Append(asked[c], j) ELSE asked[d]
    BY <2>1
  <2> QED BY <2>2, <2>3 DEF Asks, AskedToJoin
<1>2. CASE UNCHANGED asked
  BY <1>2 DEF Asks, AskedToJoin
<1> QED BY <1>1, <1>2, AskedStep

-----------------------------------------------------------------------------
LEMMA TrafficStep == TypeOK /\ Tables /\ Traffic /\ [Next]_vars => Traffic'
<1> SUFFICES ASSUME TypeOK, Tables, Traffic, [Next]_vars
             PROVE  Traffic'
  OBVIOUS
<1> USE Homes
<1> DEFINE SelfDown == \A n \in Server : peer[n][n] = "down"
<1>a. Asks
  BY AsksStep
<1>t. Listener \in Thread /\ \A w \in Worker : w \in Thread
  BY DEF Thread
<1>i. Idle \in Frame
  BY IdleType
<1>y. FramesTyped /\ PacketsTyped /\ TablesTyped
  BY TypeParts
<1>z. QueuesTrue /\ LinksTrue /\ FramesTrue /\ SelfDown
  BY DEF Traffic
<1>g. QueuesTrue' /\ LinksTrue' /\ FramesTrue' /\ SelfDown' => Traffic'
  BY DEF Traffic
<1>f. \A n \in Server, t \in Thread : frame[n][t] \in Frame /\ InFrame(n, frame[n][t])
  <2>1. \A n \in Server, t \in Thread : frame[n][t] \in Frame
    BY <1>y DEF FramesTyped
  <2>2. \A n \in Server, t \in Thread : InFrame(n, frame[n][t])
    BY <1>z DEF FramesTrue
  <2> QED BY <2>1, <2>2
<1> HIDE DEF SelfDown
<1>qq. \A n, j : InQueue(n, j) => InQueue(n, j)'
  BY <1>a, TruthfulStays DEF InQueue
<1>ww. \A m, n, j : OnWire(m, n, j) => OnWire(m, n, j)'
  BY <1>a, TruthfulStays DEF OnWire, Sendable
<1>q. UNCHANGED queue => QueuesTrue'
  BY <1>z, <1>qq DEF QueuesTrue
<1>w. UNCHANGED chan => LinksTrue'
  BY <1>z, <1>ww DEF LinksTrue
<1>s. UNCHANGED peer => SelfDown'
  BY <1>z DEF SelfDown
<1>h. UNCHANGED frame => FramesTrue'
  <2> SUFFICES ASSUME UNCHANGED frame, NEW n \in Server, NEW t \in Thread
               PROVE  InFrame(n, frame[n][t])'
    BY DEF FramesTrue
  <2>1. InFrame(n, frame[n][t]) /\ frame[n][t] \in Frame
    BY <1>f
  <2> DEFINE f == frame[n][t]
  <2>2. f' = f
    OBVIOUS
  <2>3. InFrame(n, f)'
    BY <1>a, <2>1, FrameStays
  <2> QED BY <2>3
<1>m. \A n \in Server, t \in Thread, f \in Frame : Moves(n, t, f) /\ InFrame(n, f) => FramesTrue'
  <2> SUFFICES ASSUME NEW n \in Server, NEW t \in Thread, NEW f \in Frame, Moves(n, t, f), InFrame(n, f),
                      NEW k \in Server, NEW x \in Thread
               PROVE  InFrame(k, frame[k][x])'
    BY DEF FramesTrue
  <2>1. IF k = n /\ x = t THEN frame'[k][x] = f ELSE frame'[k][x] = frame[k][x]
    BY <1>y, MovesOne DEF FramesTyped
  <2>2. PICK g \in Frame : InFrame(k, g) /\ frame'[k][x] = g
    BY <1>f, <2>1
  <2>3. InFrame(k, g)'
    BY <1>a, <2>2, FrameStays
  <2> QED BY <2>2, <2>3
<1>n. \A n \in Server, t \in Thread : Moves(n, t, Idle) => FramesTrue'
  BY <1>m, <1>i, InFrameIdle
<1>x. \A n \in Server : Peers(n) \in SUBSET Server
  BY DEF Peers
<1>b. UNCHANGED <<queue, chan, peer>> /\ FramesTrue' => Traffic'
  BY <1>g, <1>q, <1>w, <1>s
<1>1. ASSUME NEW c \in Client, NEW k \in Will[c], NEW x \in Addressees(c, k), Ask(c, k, x)
      PROVE  Traffic'
  <2> DEFINE n == Home[c]
  <2>1. /\ k \in OfClient /\ x \in Target
        /\ k \in {"join", "leave", "say"} => x \in Room
    <3>1. Will \in [Client -> SUBSET (OfClient \cup {"hang up"})]
      BY MessagesAssumption DEF OfClient
    <3>2. k \in OfClient \cup {"hang up"}
      BY <3>1
    <3> QED BY <3>2 DEF Addressees, OfClient, Target
  <2>2. k = "tell" => x \in Client
    BY DEF Addressees
  <2>3. asked[c] \in Seq(Job) /\ n \in Server /\ queue[n] \in Seq(Job)
    BY <1>y DEF PacketsTyped
  <2>4. Len(asked[c]) + 1 \in Nat
    BY <2>3
  <2>5. PICK j \in Job : j = Command(c, k, x, Len(asked[c]) + 1)
    BY <2>1, <2>4, JobTypes
  <2>6. j.kind = k /\ j.client = c /\ j.target = x
    BY <2>5 DEF Command
  <2>7. asked' = [asked EXCEPT ![c] = Append(asked[c], j)] /\ queue' = [queue EXCEPT ![n] = Append(queue[n], j)]
    BY <1>1, <2>5 DEF Ask
  <2>8. j \in ToSet(asked'[c])
    <3>1. ToSet(Append(asked[c], j)) = ToSet(asked[c]) \cup {j}
      BY <2>3, <2>5, ToSetAppend
    <3>2. asked'[c] = Append(asked[c], j)
      BY <2>7, <1>y DEF PacketsTyped
    <3> QED BY <3>1, <3>2
  <2>9. InQueue(n, j)'
    <3>1. k = "join" => AskedToJoin(c, x)'
      BY <2>6, <2>8 DEF AskedToJoin
    <3>2. Truthful(j)'
      BY <3>1, <2>1, <2>2, <2>6 DEF Truthful, OfClient, OfMembership
    <3> QED BY <3>2, <2>1, <2>6 DEF InQueue, OfClient, OfMembership, OfSender
  <2>10. \A m \in Server : ToSet(queue'[m]) \subseteq ToSet(queue[m]) \cup (IF m = n THEN {j} ELSE {})
    <3>1. ToSet(Append(queue[n], j)) = ToSet(queue[n]) \cup {j}
      BY <2>3, <2>5, ToSetAppend
    <3>2. \A m \in Server : queue'[m] = IF m = n THEN Append(queue[n], j) ELSE queue[m]
      BY <2>7, <1>y DEF PacketsTyped
    <3> QED BY <3>1, <3>2
  <2>11. QueuesTrue'
    <3> SUFFICES ASSUME NEW m \in Server, NEW i \in ToSet(queue'[m])
                 PROVE  InQueue(m, i)'
      BY DEF QueuesTrue
    <3>1. CASE m = n /\ i = j
      BY <3>1, <2>9
    <3>2. CASE i \in ToSet(queue[m])
      BY <3>2, <1>z, <1>qq DEF QueuesTrue
    <3> QED BY <3>1, <3>2, <2>10
  <2>12. UNCHANGED <<chan, peer, frame>>
    BY <1>1 DEF Ask, linkVars
  <2> QED BY <2>11, <2>12, <1>g, <1>h, <1>w, <1>s
<1>2. ASSUME NEW c \in Client, HangUp(c)
      PROVE  Traffic'
  <2> DEFINE f == [Idle EXCEPT !.pc = "unregister", !.job = Logout(c)]
  <2>1. Logout(c) \in Job /\ "unregister" \in Label
    BY JobTypes, LabelValues
  <2>2. f \in Frame
    BY <2>1, <1>i DEF Frame
  <2>3. f.pc = "unregister" /\ f.job = Logout(c) /\ f.todo = {}
    BY DEF Idle
  <2>m. Moves(Home[c], Listener, f)
    BY <1>2 DEF HangUp
  <2> HIDE DEF f
  <2>4. InFrame(Home[c], f)
    BY <2>3 DEF InFrame, Truthful, Logout, Leaving, Sendable, OfClient, OfServer, OfMembership, OfSender
  <2>5. FramesTrue'
    BY <2>m, <2>2, <2>4, <1>m, <1>t
  <2> QED BY <1>2, <2>5, <1>b DEF HangUp, linkVars
<1>3. ASSUME NEW n \in Server, Unregister(n)
      PROVE  Traffic'
  <2> DEFINE f == frame[n][Listener]
  <2>1. f \in Frame /\ InFrame(n, f) /\ f.job \in Job /\ f.job.kind = "gone" /\ Sendable(n, f.job)
    <3>1. f \in Frame /\ InFrame(n, f) /\ f.pc = "unregister"
      BY <1>3, <1>f, <1>t DEF Unregister
    <3>2. f.job \in Job
      BY <3>1 DEF Frame
    <3> QED BY <3>1, <3>2 DEF InFrame
  <2>3. Sends(f, f.job, Peers(n)) \in Frame /\ InFrame(n, Sends(f, f.job, Peers(n)))
    BY <2>1, <1>x, SendsType, InFrameSends
  <2>4. FramesTrue'
    BY <1>3, <2>3, <1>m, <1>t DEF Unregister
  <2> QED BY <1>3, <2>4, <1>b DEF Unregister, linkVars
<1>4. ASSUME NEW n \in Server, RemoveSession(n)
      PROVE  Traffic'
  BY <1>4, <1>b, <1>n, <1>t DEF RemoveSession, linkVars
<1>5. ASSUME NEW n \in Server, NEW w \in Worker, Start(n, w)
      PROVE  Traffic'
  <2> DEFINE j == Head(queue[n])
  <2>1. /\ j \in Job /\ j \in ToSet(queue[n]) /\ Tail(queue[n]) \in Seq(Job)
        /\ ToSet(Tail(queue[n])) \subseteq ToSet(queue[n])
    <3>1. queue[n] \in Seq(Job) /\ queue[n] # <<>>
      BY <1>5, <1>y DEF Start, PacketsTyped
    <3> QED BY <3>1, ToSetHeadTail
  <2>2. InQueue(n, j)
    BY <2>1, <1>z DEF QueuesTrue
  <2>3. queue' = [queue EXCEPT ![n] = Tail(queue[n])]
    BY <1>5 DEF Start
  <2>4. \A m \in Server : ToSet(queue'[m]) \subseteq ToSet(queue[m])
    BY <2>1, <2>3, <1>y DEF PacketsTyped
  <2>5. QueuesTrue'
    BY <2>4, <1>z, <1>qq DEF QueuesTrue
  <2>6. Entry(j.kind) \in Label
    BY <2>1, EntryType
  <2>7. Moves(n, w, [Idle EXCEPT !.pc = Entry(j.kind), !.job = j]) /\ UNCHANGED <<chan, peer>>
    BY <1>5 DEF Start, linkVars
  <2> HIDE DEF j
  <2>8. [Idle EXCEPT !.pc = Entry(j.kind), !.job = j] \in Frame
    BY <2>1, <2>6, <1>i DEF Frame
  <2>9. InFrame(n, [Idle EXCEPT !.pc = Entry(j.kind), !.job = j])
    BY <2>1, <2>2, InFrameStart
  <2>10. FramesTrue'
    BY <2>7, <2>8, <2>9, <1>m, <1>t
  <2> QED BY <2>5, <2>7, <2>10, <1>g, <1>w, <1>s
<1>6. ASSUME NEW n \in Server, NEW w \in Worker, RoomStep(n, w)
      PROVE  Traffic'
  <2> DEFINE f == frame[n][w]
  <2>f. f \in Frame /\ InFrame(n, f) /\ w \in Thread
    BY <1>f, <1>t
  <2>k. UNCHANGED <<queue, chan, peer>>
    <3>1. \/ Enter(n, w) \/ TestFirst(n, w) \/ Insert(n, w) \/ TestMember(n, w)
          \/ Depart(n, w) \/ Erase(n, w) \/ TestLast(n, w)
      BY <1>6 DEF RoomStep
    <3> QED BY <3>1 DEF Enter, TestFirst, Insert, TestMember, Depart, Erase, TestLast, linkVars
  <2> SUFFICES FramesTrue'
    BY <2>k, <1>b
  <2>l. LabelValues!1 /\ LabelValues!2 /\ LabelValues!3
    BY LabelValues
  <2>p. \A p \in Label : LET g == [f EXCEPT !.pc = p]
                         IN  g \in Frame /\ g.pc = p /\ g.job = f.job /\ g.todo = f.todo /\ g.to = f.to
    BY <2>f DEF Frame
  <2>g. \A p \in Label : Goes(n, w, p) /\ InFrame(n, [f EXCEPT !.pc = p]) => FramesTrue'
    BY <2>f, <2>p, <1>m DEF Goes
  <2>1. CASE Enter(n, w)
    <3>1. f.pc = "enter" /\ Goes(n, w, "test first")
      BY <2>1 DEF Enter, Doing
    <3> DEFINE g == [f EXCEPT !.pc = "test first"]
    <3>2. g.pc = "test first" /\ g.job = f.job /\ g.todo = f.todo
      BY <2>p, <2>l
    <3> HIDE DEF g
    <3>3. InFrame(n, g)
      BY <2>f, <3>1, <3>2 DEF InFrame, Leaving
    <3> QED BY <2>g, <2>l, <3>1, <3>3 DEF g
  <2>2. CASE TestFirst(n, w)
    <3> DEFINE T == IF members[n][f.job.target] = {} THEN Peers(n) ELSE {}
               g == [f EXCEPT !.pc = "insert", !.todo = T]
    <3>1. f.pc = "test first" /\ Moves(n, w, g)
      BY <2>2 DEF TestFirst
    <3>2. T \in SUBSET Server /\ T \subseteq Peers(n)
      BY <1>x
    <3> HIDE DEF T
    <3>3. g \in Frame /\ g.pc = "insert" /\ g.job = f.job /\ g.todo = T
      BY <2>f, <2>l, <3>2 DEF Frame
    <3> HIDE DEF g
    <3>4. InFrame(n, g)
      BY <2>f, <3>1, <3>2, <3>3 DEF InFrame, Leaving
    <3> QED BY <2>f, <3>1, <3>3, <3>4, <1>m
  <2>3. CASE Insert(n, w)
    <3> DEFINE j == Sync(n, f.job.target, "active")
    <3>1. f.pc = "insert" /\ Moves(n, w, Sends(f, j, f.todo))
      BY <2>3 DEF Insert
    <3>2. f.job.target \in Room /\ f.todo \subseteq Peers(n)
      BY <2>f, <3>1 DEF InFrame, Truthful
    <3>3. j \in Job /\ f.todo \in SUBSET Server
      BY <2>f, <3>2, JobTypes DEF OfMembership, Frame
    <3>4. Sendable(n, j) /\ j.kind # "private"
      BY <3>2 DEF Sendable, Truthful, Sync, OfClient, OfServer, OfMembership, OfSender
    <3> HIDE DEF j
    <3>5. Sends(f, j, f.todo) \in Frame /\ InFrame(n, Sends(f, j, f.todo))
      BY <2>f, <3>2, <3>3, <3>4, SendsType, InFrameSends
    <3> QED BY <2>f, <3>1, <3>5, <1>m
  <2>4. CASE TestMember(n, w)
    <3>1. f.pc = "test member" /\ f.job.kind \in {"leave", "say"} /\ f.job.client \in Client
      BY <2>4, <2>f DEF TestMember, Doing, InFrame, Truthful, OfClient
    <3>2. CASE Moves(n, w, Idle)
      BY <3>2, <2>f, <1>n
    <3>3. CASE f.job.kind = "leave" /\ Goes(n, w, "depart")
      <4> DEFINE g == [f EXCEPT !.pc = "depart"]
      <4>2. g.pc = "depart" /\ g.job = f.job /\ g.todo = f.todo
        BY <2>p, <2>l
      <4> HIDE DEF g
      <4>3. InFrame(n, g)
        BY <2>f, <3>3, <4>2 DEF InFrame, Leaving
      <4> QED BY <2>g, <2>l, <3>3, <4>3 DEF g
    <3>4. CASE f.job.kind = "say" /\ Goes(n, w, "members") /\ f.job.target \in joined[f.job.client]
      <4> DEFINE g == [f EXCEPT !.pc = "members"]
      <4>2. g.pc = "members" /\ g.job = f.job /\ g.todo = f.todo
        BY <2>p, <2>l
      <4> HIDE DEF g
      <4>3. AskedToJoin(f.job.client, f.job.target)
        BY <3>1, <3>4 DEF Tables
      <4>4. InFrame(n, g)
        BY <2>f, <3>4, <4>2, <4>3 DEF InFrame, Leaving
      <4> QED BY <2>g, <2>l, <3>4, <4>4 DEF g
    <3> QED BY <2>4, <3>1, <3>2, <3>3, <3>4 DEF TestMember
  <2>5. CASE Depart(n, w)
    <3>1. f.pc = "depart" /\ Goes(n, w, "erase")
      BY <2>5 DEF Depart, Doing
    <3> DEFINE g == [f EXCEPT !.pc = "erase"]
    <3>2. g.pc = "erase" /\ g.job = f.job /\ g.todo = f.todo
      BY <2>p, <2>l
    <3> HIDE DEF g
    <3>3. InFrame(n, g)
      BY <2>f, <3>1, <3>2 DEF InFrame, Leaving
    <3> QED BY <2>g, <2>l, <3>1, <3>3 DEF g
  <2>6. CASE Erase(n, w)
    <3>1. f.pc = "erase" /\ Goes(n, w, "test last")
      BY <2>6 DEF Erase, Doing
    <3> DEFINE g == [f EXCEPT !.pc = "test last"]
    <3>2. g.pc = "test last" /\ g.job = f.job /\ g.todo = f.todo
      BY <2>p, <2>l
    <3> HIDE DEF g
    <3>3. InFrame(n, g)
      BY <2>f, <3>1, <3>2 DEF InFrame, Leaving
    <3> QED BY <2>g, <2>l, <3>1, <3>3 DEF g
  <2>7. CASE TestLast(n, w)
    <3> DEFINE j == Sync(n, f.job.target, "inactive")
    <3>1. f.pc = "test last" /\ (Moves(n, w, Sends(f, j, Peers(n))) \/ Moves(n, w, Idle))
      BY <2>7 DEF TestLast
    <3>2. f.job.target \in Room
      BY <2>f, <3>1 DEF InFrame, Truthful
    <3>3. j \in Job
      BY <3>2, JobTypes DEF OfMembership
    <3>4. Sendable(n, j) /\ j.kind # "private"
      BY <3>2 DEF Sendable, Truthful, Sync, OfClient, OfServer, OfMembership, OfSender
    <3> HIDE DEF j
    <3>5. Sends(f, j, Peers(n)) \in Frame /\ InFrame(n, Sends(f, j, Peers(n)))
      BY <2>f, <3>3, <3>4, <1>x, SendsType, InFrameSends
    <3> QED BY <2>f, <3>1, <3>5, <1>m, <1>n
  <2> QED BY <1>6, <2>1, <2>2, <2>3, <2>4, <2>5, <2>6, <2>7 DEF RoomStep
<1>7. ASSUME NEW n \in Server, NEW w \in Worker, MessageStep(n, w)
      PROVE  Traffic'
  <2> DEFINE f == frame[n][w]
             j == f.job
  <2>f. f \in Frame /\ InFrame(n, f) /\ w \in Thread
    BY <1>f, <1>t
  <2>j. j \in Job /\ Message(j) \in Job /\ f.to \in SUBSET Client
    <3>1. f.job \in Job /\ f.to \in SUBSET Client
      BY <2>f DEF Frame
    <3> QED BY <3>1, JobTypes
  <2>l. LabelValues!1 /\ LabelValues!2 /\ LabelValues!3
    BY LabelValues
  <2>k. UNCHANGED <<queue, chan, peer>>
    <3>1. \/ GetMembers(n, w) \/ GetAllSessions(n, w) \/ GetServers(n, w)
          \/ \E c \in Client : Deliver(n, w, c)
          \/ Locate(n, w) \/ HandOver(n, w) \/ Report(n, w)
      BY <1>7 DEF MessageStep
    <3> QED BY <3>1 DEF GetMembers, GetAllSessions, GetServers, Deliver, Locate, HandOver, Report, linkVars
  <2> SUFFICES FramesTrue'
    BY <2>k, <1>b
  <2>1. CASE GetMembers(n, w)
    <3> DEFINE S == members[n][j.target]
               g == [f EXCEPT !.pc = "deliver", !.to = S]
    <3>1. f.pc = "members" /\ Moves(n, w, Delivered(g))
      BY <2>1 DEF GetMembers, LocalMembers
    <3>2. /\ j.kind \in {"say", "room"} /\ j.target \in Room
          /\ AskedToJoin(j.client, j.target)
      BY <2>f, <3>1 DEF InFrame, Truthful
    <3>3. S \in SUBSET Client /\ \A c \in S : AskedToJoin(c, j.target) /\ Home[c] = n
      BY <3>2, <1>y, TypeParts DEF Tables, TablesTyped, Apart
    <3> HIDE DEF S
    <3>4. g \in Frame /\ g.pc = "deliver" /\ g.job = j /\ g.todo = f.todo /\ g.to = S
      BY <2>f, <2>l, <3>3 DEF Frame
    <3> HIDE DEF g
    <3>5. InFrame(n, g)
      BY <2>f, <3>2, <3>3, <3>4 DEF InFrame, Leaving
    <3>6. Delivered(g) \in Frame /\ InFrame(n, Delivered(g))
      BY <3>4, <3>5, DeliveredType, InFrameDelivered
    <3> QED BY <2>f, <3>1, <3>6, <1>m
  <2>2. CASE GetAllSessions(n, w)
    <3> DEFINE S == Sessions(n)
               g == [f EXCEPT !.pc = "deliver", !.to = S]
    <3>1. f.pc = "sessions" /\ Moves(n, w, Delivered(g))
      BY <2>2 DEF GetAllSessions
    <3>2. S \in SUBSET Client /\ \A c \in S : Home[c] = n
      BY <1>y DEF Sessions, TablesTyped
    <3> HIDE DEF S
    <3>3. g \in Frame /\ g.pc = "deliver" /\ g.job = j /\ g.todo = f.todo /\ g.to = S
      BY <2>f, <2>l, <3>2 DEF Frame
    <3> HIDE DEF g
    <3>4. InFrame(n, g)
      BY <2>f, <3>1, <3>2, <3>3 DEF InFrame, Leaving
    <3>5. Delivered(g) \in Frame /\ InFrame(n, Delivered(g))
      BY <3>3, <3>4, DeliveredType, InFrameDelivered
    <3> QED BY <2>f, <3>1, <3>5, <1>m
  <2>3. CASE GetServers(n, w)
    <3> DEFINE T == IF j.kind = "shout" THEN Peers(n) ELSE remote[n][j.target]
    <3>1. f.pc = "servers" /\ Moves(n, w, Sends(f, Message(j), T))
      BY <2>3 DEF GetServers
    <3>2. /\ j.kind \in {"say", "shout"} /\ Truthful(j)
          /\ j.kind = "say" => j.target \in Room /\ AskedToJoin(j.client, j.target)
      BY <2>f, <3>1 DEF InFrame, Truthful
    <3>3. T \in SUBSET Server /\ T \subseteq Peers(n)
      <4>1. CASE j.kind = "shout"
        BY <4>1, <1>x
      <4>2. CASE j.kind = "say"
        <5>1. remote[n][j.target] \in SUBSET Server /\ n \notin remote[n][j.target]
          BY <4>2, <3>2 DEF TypeOK
        <5> QED BY <4>2, <5>1 DEF Peers
      <4> QED BY <3>2, <4>1, <4>2
    <3>5. Home[j.client] = n
      BY <2>f, <3>2 DEF InFrame, OfClient
    <3>4. Sendable(n, Message(j))
      BY <2>j, <3>2, <3>5, MessageSendable
    <3>7. Message(j).kind # "private"
      BY <2>j, <3>2 DEF Message, Job
    <3> HIDE DEF T
    <3>6. Sends(f, Message(j), T) \in Frame /\ InFrame(n, Sends(f, Message(j), T))
      BY <2>f, <2>j, <3>3, <3>4, <3>7, SendsType, InFrameSends
    <3> QED BY <2>f, <3>1, <3>6, <1>m
  <2>4. ASSUME NEW c \in Client, Deliver(n, w, c)
        PROVE  FramesTrue'
    <3> DEFINE g == [f EXCEPT !.to = f.to \ {c}]
    <3>1. f.pc = "deliver" /\ Moves(n, w, Delivered(g))
      BY <2>4 DEF Deliver
    <3>2. g \in Frame /\ g.pc = "deliver" /\ g.job = j /\ g.todo = f.todo /\ g.to \subseteq f.to
      BY <2>f, <2>j, <3>1 DEF Frame
    <3> HIDE DEF g
    <3>3. InFrame(n, g)
      BY <2>f, <3>1, <3>2 DEF InFrame, Leaving
    <3>4. Delivered(g) \in Frame /\ InFrame(n, Delivered(g))
      BY <3>2, <3>3, DeliveredType, InFrameDelivered
    <3> QED BY <2>f, <3>1, <3>4, <1>m
  <2>5. CASE Locate(n, w)
    <3>1. f.pc = "locate" /\ j.kind = "tell" /\ Truthful(j) /\ j.target \in Client
      BY <2>5, <2>f DEF Locate, InFrame, Truthful
    <3>2. \/ Moves(n, w, Idle) \/ (Home[j.target] = n /\ Goes(n, w, "hand over"))
          \/ Home[j.target] # n /\ Moves(n, w, Sends(f, Message(j), {Home[j.target]}))
      BY <2>5 DEF Locate
    <3>3. CASE Moves(n, w, Idle)
      BY <3>3, <2>f, <1>n
    <3>4. CASE Home[j.target] = n /\ Goes(n, w, "hand over")
      <4> DEFINE g == [f EXCEPT !.pc = "hand over"]
      <4>1. g \in Frame /\ g.pc = "hand over" /\ g.job = j /\ g.todo = f.todo
        BY <2>f, <2>l DEF Frame
      <4>2. Moves(n, w, g)
        BY <3>4 DEF Goes
      <4> HIDE DEF g
      <4>3. InFrame(n, g)
        BY <2>f, <3>1, <3>4, <4>1 DEF InFrame, Leaving
      <4> QED BY <2>f, <4>1, <4>2, <4>3, <1>m
    <3>5. CASE Home[j.target] # n /\ Moves(n, w, Sends(f, Message(j), {Home[j.target]}))
      <4> DEFINE T == {Home[j.target]}
      <4>1. /\ T \in SUBSET Server /\ T \subseteq Peers(n)
            /\ Message(j).kind = "private" => T \subseteq {Home[Message(j).target]}
        BY <2>j, <3>1, <3>5 DEF Peers, Message, Job
      <4> HIDE DEF T
      <4>5. Home[j.client] = n
        BY <2>f, <3>1 DEF InFrame, OfClient
      <4>2. Sendable(n, Message(j))
        BY <2>j, <3>1, <3>5, <4>5, MessageSendable
      <4>3. Sends(f, Message(j), T) \in Frame /\ InFrame(n, Sends(f, Message(j), T))
        BY <2>f, <2>j, <4>1, <4>2, SendsType, InFrameSends
      <4>4. Moves(n, w, Sends(f, Message(j), T))
        BY <3>5 DEF T
      <4> QED BY <2>f, <4>3, <4>4, <1>m
    <3> QED BY <3>2, <3>3, <3>4, <3>5
  <2>6. CASE HandOver(n, w) \/ Report(n, w)
    <3>1. Moves(n, w, Idle)
      BY <2>6 DEF HandOver, Report
    <3> QED BY <3>1, <2>f, <1>n
  <2> QED BY <1>7, <2>1, <2>2, <2>3, <2>4, <2>5, <2>6 DEF MessageStep
<1>8. ASSUME NEW n \in Server, NEW w \in Worker, Apply(n, w)
      PROVE  Traffic'
  BY <1>8, <1>b, <1>n, <1>t DEF Apply, linkVars
<1>9. ASSUME NEW n \in Server, NEW t \in Thread, ThreadStep(n, t)
      PROVE  Traffic'
  <2> DEFINE f == frame[n][t]
  <2>f. f \in Frame /\ InFrame(n, f)
    BY <1>f
  <2>j. f.job \in Job /\ f.todo \in SUBSET Server /\ f.todo \subseteq Peers(n)
    BY <2>f DEF Frame, InFrame
  <2>l. LabelValues!1 /\ LabelValues!2 /\ LabelValues!3
    BY LabelValues
  <2>c. chan \in [Server -> [Server -> Seq(Job)]]
    BY <1>y DEF PacketsTyped
  <2>1. ASSUME NEW m \in Server, Send(n, t, m)
        PROVE  Traffic'
    <3> DEFINE g == [f EXCEPT !.todo = f.todo \ {m}]
    <3>1. f.pc = "send" /\ m \in f.todo /\ Moves(n, t, Proceed(g)) /\ UNCHANGED <<peer, queue>>
      BY <2>1 DEF Send
    <3>2. g \in Frame /\ g.job = f.job /\ g.todo \subseteq Peers(n) /\ g.todo \subseteq f.todo
      BY <2>f, <2>j DEF Frame
    <3> HIDE DEF g
    <3>3. Sendable(n, f.job) /\ (f.job.kind = "private" => f.todo \subseteq {Home[f.job.target]})
      BY <2>f, <3>1 DEF InFrame
    <3>4. Proceed(g) \in Frame /\ InFrame(n, Proceed(g))
      BY <3>2, <3>3, ProceedType, InFrameProceed
    <3>5. FramesTrue'
      BY <3>1, <3>4, <1>m
    <3>6. OnWire(n, m, f.job)
      BY <3>1, <3>3, <2>j DEF OnWire, Peers
    <3>7. \A k, i \in Server : ToSet(chan'[k][i]) \subseteq
              ToSet(chan[k][i]) \cup (IF k = n /\ i = m THEN {f.job} ELSE {})
      <4>1. CASE chan' = chan
        BY <4>1
      <4>2. CASE chan' = [chan EXCEPT ![n][m] = Append(chan[n][m], f.job)]
        <5>1. chan[n][m] \in Seq(Job)
          BY <2>c
        <5>2. ToSet(Append(chan[n][m], f.job)) = ToSet(chan[n][m]) \cup {f.job}
          BY <5>1, <2>j, ToSetAppend
        <5>3. \A k, i \in Server : chan'[k][i] = IF k = n /\ i = m THEN Append(chan[n][m], f.job) ELSE chan[k][i]
          BY <4>2, <2>c
        <5> QED BY <5>2, <5>3
      <4> QED BY <2>1, <4>1, <4>2 DEF Send
    <3>8. LinksTrue'
      <4> SUFFICES ASSUME NEW k \in Server, NEW i \in Server, NEW x \in ToSet(chan'[k][i])
                   PROVE  OnWire(k, i, x)'
        BY DEF LinksTrue
      <4>1. OnWire(k, i, x)
        BY <3>6, <3>7, <1>z DEF LinksTrue
      <4> QED BY <4>1, <1>ww
    <3> QED BY <3>1, <3>5, <3>8, <1>g, <1>q, <1>s
  <2>2. ASSUME NEW m \in Server, SendFails(n, t, m)
        PROVE  Traffic'
    <3> DEFINE g == [f EXCEPT !.pc = "unlink", !.todo = f.todo \ {m}, !.peer = m]
    <3>1. f.pc = "send" /\ m \in f.todo /\ Moves(n, t, g) /\ UNCHANGED <<peer, chan, queue>>
      BY <2>2 DEF SendFails, linkVars
    <3>2. /\ g \in Frame /\ g.pc = "unlink" /\ g.job = f.job /\ g.peer = m
          /\ g.todo \subseteq Peers(n) /\ g.todo \subseteq f.todo
      BY <2>f, <2>j, <2>l DEF Frame
    <3> HIDE DEF g
    <3>3. /\ Sendable(n, f.job) /\ Truthful(f.job)
          /\ f.job.kind = "private" => f.todo \subseteq {Home[f.job.target]}
      BY <2>f, <3>1 DEF InFrame
    <3>4. InFrame(n, g)
      BY <3>2, <3>3 DEF InFrame, Leaving, Sendable, OfClient, OfServer
    <3>5. FramesTrue'
      BY <3>1, <3>2, <3>4, <1>m
    <3> QED BY <3>1, <3>5, <1>b
  <2>3. CASE Unlink(n, t)
    <3> DEFINE g == [f EXCEPT !.pc = "clear users"]
    <3>1. /\ f.pc = "unlink" /\ Moves(n, t, g) /\ UNCHANGED queue
          /\ peer' = [peer EXCEPT ![n][f.peer] = "down"]
          /\ chan' = [chan EXCEPT ![f.peer][n] = <<>>]
      BY <2>3 DEF Unlink, Goes
    <3>p. f.peer \in Server
      BY <2>f, <3>1 DEF InFrame, Leaving
    <3>2. g \in Frame /\ g.pc = "clear users" /\ g.job = f.job /\ g.peer = f.peer /\ g.todo = f.todo
      BY <2>f, <2>l DEF Frame
    <3> HIDE DEF g
    <3>3. InFrame(n, g)
      BY <2>f, <3>1, <3>2 DEF InFrame, Leaving
    <3>4. FramesTrue'
      BY <3>1, <3>2, <3>3, <1>m
    <3>5. \A k, i \in Server : chan'[k][i] = chan[k][i] \/ chan'[k][i] = <<>>
      BY <3>1, <3>p, <2>c
    <3>6. LinksTrue'
      BY <3>5, <1>z, <1>ww, ToSetEmpty DEF LinksTrue
    <3>7. SelfDown'
      BY <3>1, <3>p, <1>y, <1>z DEF SelfDown, TablesTyped
    <3> QED BY <3>1, <3>4, <3>6, <3>7, <1>g, <1>q
  <2>4. CASE ClearUsers(n, t)
    <3> DEFINE g == [f EXCEPT !.pc = "clear rooms"]
    <3>1. f.pc = "clear users" /\ Moves(n, t, g) /\ UNCHANGED <<queue, chan, peer>>
      BY <2>4 DEF ClearUsers, Goes, Doing, linkVars
    <3>2. g \in Frame /\ g.pc = "clear rooms" /\ g.job = f.job /\ g.peer = f.peer /\ g.todo = f.todo
      BY <2>f, <2>l DEF Frame
    <3> HIDE DEF g
    <3>3. InFrame(n, g)
      BY <2>f, <3>1, <3>2 DEF InFrame, Leaving
    <3> QED BY <3>1, <3>2, <3>3, <1>m, <1>b
  <2>5. CASE ClearRooms(n, t)
    <3>1. f.pc = "clear rooms" /\ Moves(n, t, Proceed(f)) /\ UNCHANGED <<queue, chan, peer>>
      BY <2>5 DEF ClearRooms, linkVars
    <3>2. /\ Sendable(n, f.job) \/ (f.todo = {} /\ f.job = Idle.job)
          /\ f.job.kind = "private" => f.todo \subseteq {Home[f.job.target]}
      BY <2>f, <3>1 DEF InFrame, Leaving
    <3>3. Proceed(f) \in Frame /\ InFrame(n, Proceed(f))
      BY <2>f, <2>j, <3>2, ProceedType, InFrameProceed
    <3> QED BY <3>1, <3>3, <1>m, <1>b
  <2> QED BY <1>9, <2>1, <2>2, <2>3, <2>4, <2>5 DEF ThreadStep
<1>10. ASSUME NEW n \in Server, NEW m \in Server, ReadPeer(n, m)
       PROVE  Traffic'
  <2>c. chan \in [Server -> [Server -> Seq(Job)]] /\ queue \in [Server -> Seq(Job)]
    BY <1>y DEF PacketsTyped
  <2>1. PICK j \in Job : j = Head(chan[m][n])
    BY <1>10, <2>c, ToSetHeadTail DEF ReadPeer
  <2>2. j \in ToSet(chan[m][n]) /\ ToSet(Tail(chan[m][n])) \subseteq ToSet(chan[m][n])
    <3>1. chan[m][n] \in Seq(Job) /\ chan[m][n] # <<>>
      BY <1>10, <2>c DEF ReadPeer
    <3> QED BY <3>1, <2>1, ToSetHeadTail
  <2>3. /\ chan' = [chan EXCEPT ![m][n] = Tail(chan[m][n])]
        /\ queue' = [queue EXCEPT ![n] = Append(queue[n], j)]
        /\ UNCHANGED <<peer, frame>>
    BY <1>10, <2>1 DEF ReadPeer
  <2>4. OnWire(m, n, j)
    BY <2>2, <1>z DEF LinksTrue
  <2>5. InQueue(n, j)
    BY <2>4 DEF OnWire, Sendable, InQueue, Peers, OfServer, OfClient, OfMembership
  <2>6. LinksTrue'
    <3>1. \A k, i \in Server : chan'[k][i] = IF k = m /\ i = n THEN Tail(chan[m][n]) ELSE chan[k][i]
      BY <2>3, <2>c
    <3> SUFFICES ASSUME NEW k \in Server, NEW i \in Server, NEW x \in ToSet(chan'[k][i])
                 PROVE  OnWire(k, i, x)'
      BY DEF LinksTrue
    <3>2. x \in ToSet(chan[k][i])
      BY <3>1, <2>2
    <3> QED BY <3>2, <1>z, <1>ww DEF LinksTrue
  <2>7. QueuesTrue'
    <3>1. queue[n] \in Seq(Job)
      BY <2>c
    <3>2. ToSet(Append(queue[n], j)) = ToSet(queue[n]) \cup {j}
      BY <3>1, ToSetAppend
    <3>3. \A k \in Server : queue'[k] = IF k = n THEN Append(queue[n], j) ELSE queue[k]
      BY <2>3, <2>c
    <3> SUFFICES ASSUME NEW k \in Server, NEW x \in ToSet(queue'[k])
                 PROVE  InQueue(k, x)'
      BY DEF QueuesTrue
    <3>4. x \in ToSet(queue[k]) \/ (k = n /\ x = j)
      BY <3>2, <3>3
    <3>5. InQueue(k, x)
      BY <3>4, <2>5, <1>z DEF QueuesTrue
    <3> QED BY <3>5, <1>qq
  <2> QED BY <2>3, <2>6, <2>7, <1>g, <1>h, <1>s
<1>11. ASSUME NEW n \in Server, NEW m \in Server, PeerEof(n, m)
       PROVE  Traffic'
  <2> DEFINE g == [Idle EXCEPT !.pc = "unlink", !.peer = m]
  <2>1. Moves(n, Listener, g) /\ UNCHANGED <<queue, chan, peer>>
    BY <1>11 DEF PeerEof, linkVars
  <2>2. g \in Frame
    BY <1>i, LabelValues DEF Frame
  <2>3. g.pc = "unlink" /\ g.peer = m /\ g.todo = {} /\ g.job = Idle.job
    BY DEF Idle
  <2>4. Truthful(Idle.job)
    BY DEF Truthful, Idle, Sync, OfClient
  <2> HIDE DEF g
  <2>5. InFrame(n, g)
    BY <2>3, <2>4 DEF InFrame, Leaving, Idle, Sync, OfClient
  <2> QED BY <2>1, <2>2, <2>5, <1>m, <1>b, <1>t
<1>12. ASSUME NEW n \in Server, NEW m \in Server, NetBreak(n, m)
       PROVE  Traffic'
  <2>1. PICK i \in 0..Len(chan[n][m]), k \in 0..Len(chan[m][n]) :
            chan' = [chan EXCEPT ![n][m] = SubSeq(@, 1, i), ![m][n] = SubSeq(@, 1, k)]
    BY <1>12 DEF NetBreak
  <2>2. n # m
    BY <1>12 DEF NetBreak, Traffic
  <2>c. chan \in [Server -> [Server -> Seq(Job)]]
    BY <1>y DEF PacketsTyped
  <2>3. /\ ToSet(SubSeq(chan[n][m], 1, i)) \subseteq ToSet(chan[n][m])
        /\ ToSet(SubSeq(chan[m][n], 1, k)) \subseteq ToSet(chan[m][n])
    BY <2>c, ToSetPrefix
  <2>4. \A x, y \in Server : \/ chan'[x][y] = chan[x][y]
                             \/ x = n /\ y = m /\ chan'[x][y] = SubSeq(chan[n][m], 1, i)
                             \/ x = m /\ y = n /\ chan'[x][y] = SubSeq(chan[m][n], 1, k)
    BY <2>1, <2>2, <2>c
  <2>5. LinksTrue'
    <3> SUFFICES ASSUME NEW x \in Server, NEW y \in Server, NEW j \in ToSet(chan'[x][y])
                 PROVE  OnWire(x, y, j)'
      BY DEF LinksTrue
    <3>1. j \in ToSet(chan[x][y])
      BY <2>3, <2>4
    <3> QED BY <3>1, <1>z, <1>ww DEF LinksTrue
  <2>6. SelfDown'
    <3>1. peer' = [peer EXCEPT ![n][m] = "lost", ![m][n] = "lost"]
      BY <1>12 DEF NetBreak
    <3>2. peer \in [Server -> [Server -> {"up", "lost", "down"}]]
      BY <1>y DEF TablesTyped
    <3>3. \A x \in Server : peer'[x][x] = peer[x][x]
      BY <3>1, <3>2, <2>2
    <3> QED BY <3>3, <1>z DEF SelfDown
  <2> QED BY <1>12, <2>5, <2>6, <1>g, <1>q, <1>h DEF NetBreak
<1>13. CASE UNCHANGED vars
  BY <1>13, <1>b, <1>h DEF vars, linkVars
<1>14. ASSUME NEW c \in Client, ClientStep(c)
       PROVE  Traffic'
  BY <1>14, <1>1, <1>2 DEF ClientStep
<1>15. ASSUME NEW n \in Server, NEW w \in Worker, WorkerStep(n, w)
       PROVE  Traffic'
  BY <1>15, <1>5, <1>6, <1>7, <1>8, <1>9, <1>t DEF WorkerStep
<1>16. ASSUME NEW n \in Server, ListenerStep(n)
       PROVE  Traffic'
  BY <1>16, <1>3, <1>4, <1>9, <1>t DEF ListenerStep
<1> QED BY <1>10, <1>11, <1>12, <1>13, <1>14, <1>15, <1>16 DEF Next, SocketStep

-----------------------------------------------------------------------------
(* Rooms and their members.  Which steps write them:                          *)
LEMMA RoomsStep ==
    ASSUME [Next]_vars
    PROVE  \/ UNCHANGED <<joined, members>>
           \/ \E n \in Server, w \in Worker : RoomStep(n, w)
<1>1. \A n, t : ThreadStep(n, t) => UNCHANGED <<joined, members>>
  BY ThreadStepKeeps
<1>2. \A n, w : MessageStep(n, w) => UNCHANGED <<joined, members>>
  BY MessageStepKeeps
<1>3. \A n, w : Start(n, w) \/ Apply(n, w) => UNCHANGED <<joined, members>>
  BY DEF Start, Apply, roomVars
<1>4. \A n \in Server : ListenerStep(n) => UNCHANGED <<joined, members>>
  BY <1>1 DEF ListenerStep, Unregister, RemoveSession, roomVars
<1>5. \A n, m \in Server : SocketStep(n, m) \/ NetBreak(n, m) => UNCHANGED <<joined, members>>
  BY DEF SocketStep, ReadPeer, PeerEof, NetBreak, roomVars
<1>6. \A c \in Client : ClientStep(c) => UNCHANGED <<joined, members>>
  BY DEF ClientStep, Ask, HangUp, roomVars
<1>7. UNCHANGED vars => UNCHANGED <<joined, members>>
  BY DEF vars, roomVars
<1> QED BY <1>1, <1>2, <1>3, <1>4, <1>5, <1>6, <1>7 DEF Next, WorkerStep

LEMMA TablesStep == TypeOK /\ Tables /\ Traffic /\ [Next]_vars => Tables'
<1> SUFFICES ASSUME TypeOK, Tables, Traffic, [Next]_vars
             PROVE  Tables'
  OBVIOUS
<1>a. Asks
  BY AsksStep
<1>t. /\ joined \in [Client -> SUBSET Room]
      /\ members \in [Server -> [Room -> SUBSET Client]]
  BY DEF TypeOK
<1>z. /\ \A c \in Client : \A r \in joined[c] : AskedToJoin(c, r)
      /\ \A n \in Server, r \in Room : \A c \in members[n][r] : AskedToJoin(c, r)
  BY DEF Tables
<1>k. ASSUME \A c \in Client : \A r \in joined'[c] : r \in joined[c] \/ (r \in Room /\ AskedToJoin(c, r)),
             \A n \in Server, r \in Room : \A c \in members'[n][r] :
                 c \in members[n][r] \/ (c \in Client /\ AskedToJoin(c, r))
      PROVE  Tables'
  <2>1. ASSUME NEW c \in Client, NEW r \in joined'[c]
        PROVE  AskedToJoin(c, r)'
    <3>1. r \in Room /\ AskedToJoin(c, r)
      BY <1>k, <1>t, <1>z, <2>1
    <3> QED BY <3>1, <1>a DEF Asks
  <2>2. ASSUME NEW n \in Server, NEW r \in Room, NEW c \in members'[n][r]
        PROVE  AskedToJoin(c, r)'
    <3>1. c \in Client /\ AskedToJoin(c, r)
      BY <1>k, <1>t, <1>z, <2>2
    <3> QED BY <3>1, <1>a DEF Asks
  <2> QED BY <2>1, <2>2 DEF Tables
<1>1. CASE UNCHANGED <<joined, members>>
  BY <1>1, <1>k
<1>2. ASSUME NEW n \in Server, NEW w \in Worker, RoomStep(n, w)
      PROVE  Tables'
  <2> DEFINE f == frame[n][w]
             c == f.job.client
             r == f.job.target
  <2>f. InFrame(n, f)
    BY DEF Traffic, FramesTrue, Thread
  <2>1. CASE Enter(n, w)
    <3>1. c \in Client /\ r \in Room /\ AskedToJoin(c, r)
      BY <2>1, <2>f DEF Enter, Doing, InFrame, Truthful, OfClient
    <3>2. joined' = [joined EXCEPT ![c] = joined[c] \cup {r}] /\ members' = members
      BY <2>1 DEF Enter
    <3> HIDE DEF c, r
    <3>3. \A d \in Client : \A x \in joined'[d] : x \in joined[d] \/ (x \in Room /\ AskedToJoin(d, x))
      BY <3>1, <3>2, <1>t
    <3> QED BY <3>2, <3>3, <1>k
  <2>2. CASE Insert(n, w)
    <3>1. c \in Client /\ r \in Room /\ AskedToJoin(c, r)
      BY <2>2, <2>f DEF Insert, InFrame, Truthful, OfClient
    <3>2. members' = [members EXCEPT ![n][r] = members[n][r] \cup {c}] /\ joined' = joined
      BY <2>2 DEF Insert
    <3> HIDE DEF c, r
    <3>3. \A m \in Server, x \in Room : \A d \in members'[m][x] :
              d \in members[m][x] \/ (d \in Client /\ AskedToJoin(d, x))
      BY <3>1, <3>2, <1>t
    <3> QED BY <3>2, <3>3, <1>k
  <2>3. CASE Depart(n, w)
    <3>1. joined' = [joined EXCEPT ![c] = joined[c] \ {r}] /\ members' = members
      BY <2>3 DEF Depart, LeftRooms
    <3>2. \A d \in Client : joined'[d] \subseteq joined[d]
      BY <3>1, <1>t
    <3> QED BY <3>1, <3>2, <1>k
  <2>4. CASE Erase(n, w)
    <3>1. members' = [members EXCEPT ![n][r] = members[n][r] \ {c}] /\ joined' = joined
      BY <2>4 DEF Erase
    <3> HIDE DEF c, r
    <3>2. \A m \in Server, x \in Room : members'[m][x] \subseteq members[m][x]
      BY <3>1, <1>t
    <3> QED BY <3>1, <3>2, <1>k
  <2>5. CASE TestFirst(n, w) \/ TestMember(n, w) \/ TestLast(n, w)
    <3>1. UNCHANGED <<joined, members>>
      BY <2>5 DEF TestFirst, TestMember, TestLast, roomVars
    <3> QED BY <3>1, <1>1
  <2> QED BY <1>2, <2>1, <2>2, <2>3, <2>4, <2>5 DEF RoomStep
<1> QED BY <1>1, <1>2, RoomsStep

-----------------------------------------------------------------------------
LEMMA InitTraffic == Init => TypeOK /\ Tables /\ Traffic
<1> SUFFICES ASSUME Init
             PROVE  TypeOK /\ Tables /\ Traffic
  OBVIOUS
<1> USE Homes
<1>1. <<>> \in Seq(Job) /\ <<>> \in Seq([no : Nat, ok : BOOLEAN]) /\ Idle \in Frame
  BY IdleType
<1>2. TypeOK
  BY <1>1 DEF Init, TypeOK
<1>3. \A n \in Server, t \in Thread : InFrame(n, frame[n][t])
  BY InFrameIdle DEF Init
<1>4. /\ \A n \in Server : ToSet(queue[n]) = {}
      /\ \A m, n \in Server : ToSet(chan[m][n]) = {}
      /\ \A n \in Server : peer[n][n] = "down"
  BY ToSetEmpty DEF Init
<1>5. Traffic
  BY <1>3, <1>4 DEF Traffic, QueuesTrue, LinksTrue, FramesTrue
<1>6. Tables
  BY DEF Init, Tables
<1> QED BY <1>2, <1>5, <1>6

LEMMA TrafficAlways == Safety => [](TypeOK /\ Tables /\ Traffic)
  BY InitTraffic, TypeStep, TablesStep, TrafficStep, PTL DEF Safety

(* Every table, packet and frame keeps its type whatever the cluster; no      *)
(* server becomes a remote server of its own rooms or takes another server's  *)
(* client for a local member (HandleS2SRoomMemberSync, HandleRoomJoin).       *)
THEOREM TypeCorrect == Safety => []TypeOK
  BY TrafficAlways, PTL

-----------------------------------------------------------------------------
(* Who writes to clients.                                                     *)
LEMMA HeardStep ==
    ASSUME [Next]_vars
    PROVE  \/ UNCHANGED heard
           \/ \E n \in Server, w \in Worker : \/ \E c \in Client : Deliver(n, w, c)
                                              \/ HandOver(n, w)
<1>1. \A n, t : ThreadStep(n, t) => UNCHANGED heard
  BY ThreadStepKeeps
<1>2. \A n, w : RoomStep(n, w) => UNCHANGED heard
  BY RoomStepKeeps
<1>3. ASSUME NEW n, NEW w, MessageStep(n, w)
      PROVE  UNCHANGED heard \/ (\E c \in Client : Deliver(n, w, c)) \/ HandOver(n, w)
  <2>1. GetMembers(n, w) \/ GetAllSessions(n, w) \/ GetServers(n, w) => UNCHANGED heard
    BY DEF GetMembers, GetAllSessions, GetServers, clientVars
  <2>2. Locate(n, w) \/ Report(n, w) => UNCHANGED heard
    BY DEF Locate, Report
  <2> QED BY <1>3, <2>1, <2>2 DEF MessageStep
<1>4. \A n, w : Start(n, w) \/ Apply(n, w) => UNCHANGED heard
  BY DEF Start, Apply, clientVars
<1>5. \A n \in Server : ListenerStep(n) => UNCHANGED heard
  BY <1>1 DEF ListenerStep, Unregister, RemoveSession, clientVars
<1>6. \A n, m \in Server : SocketStep(n, m) \/ NetBreak(n, m) => UNCHANGED heard
  BY DEF SocketStep, ReadPeer, PeerEof, NetBreak, clientVars
<1>7. \A c \in Client : ClientStep(c) => UNCHANGED heard
  BY DEF ClientStep, Ask, HangUp, clientVars
<1>8. UNCHANGED vars => UNCHANGED heard
  BY DEF vars, clientVars
<1> QED BY <1>1, <1>2, <1>3, <1>4, <1>5, <1>6, <1>7, <1>8 DEF Next, WorkerStep

(* What a client may find on its socket.                                      *)
Fits(c, j) ==
    /\ j.kind \in {"private", "room", "broadcast"}
    /\ j.kind = "private" => j.target = c
    /\ j.kind = "room" => /\ j.client \in Client /\ j.target \in Room
                          /\ AskedToJoin(c, j.target) /\ AskedToJoin(j.client, j.target)
HeardFits == \A c \in Client : \A j \in ToSet(heard[c]) : Fits(c, j)

LEMMA HeardFitsStep == TypeOK /\ Traffic /\ HeardFits /\ [Next]_vars => HeardFits'
<1> SUFFICES ASSUME TypeOK, Traffic, HeardFits, [Next]_vars
             PROVE  HeardFits'
  OBVIOUS
<1>a. Asks
  BY AsksStep
<1>t. heard \in [Client -> Seq(Job)] /\ frame \in [Server -> [Thread -> Frame]]
  BY DEF TypeOK
<1>s. \A c \in Client : \A j : Fits(c, j) => Fits(c, j)'
  BY <1>a DEF Fits, Asks
<1>h. ASSUME NEW d \in Client, NEW j \in Job, Hears(d, j), Fits(d, Message(j))
      PROVE  HeardFits'
  <2>1. PICK m \in Job : m = Message(j)
    BY JobTypes
  <2>2. heard' = heard \/ heard' = [heard EXCEPT ![d] = Append(heard[d], m)]
    BY <1>h, <2>1 DEF Hears
  <2>3. ToSet(Append(heard[d], m)) = ToSet(heard[d]) \cup {m}
    <3>1. heard[d] \in Seq(Job)
      BY <1>t
    <3> QED BY <3>1, ToSetAppend
  <2>4. \A c \in Client : heard'[c] = heard[c] \/ (c = d /\ heard'[c] = Append(heard[d], m))
    BY <2>2, <1>t
  <2> SUFFICES ASSUME NEW c \in Client, NEW i \in ToSet(heard'[c])
               PROVE  Fits(c, i)'
    BY DEF HeardFits
  <2>5. i \in ToSet(heard[c]) \/ (c = d /\ i = m)
    <3>1. CASE heard'[c] = heard[c]
      BY <3>1
    <3>2. CASE c = d /\ heard'[c] = Append(heard[d], m)
      BY <3>2, <2>3
    <3> QED BY <3>1, <3>2, <2>4
  <2>6. Fits(c, i)
    BY <2>5, <2>1, <1>h DEF HeardFits
  <2> QED BY <2>6, <1>s
<1>1. CASE UNCHANGED heard
  BY <1>1, <1>s DEF HeardFits
<1>2. ASSUME NEW n \in Server, NEW w \in Worker, NEW c \in Client, Deliver(n, w, c)
      PROVE  HeardFits'
  <2>f. frame[n][w] \in Frame /\ InFrame(n, frame[n][w])
    BY <1>t DEF Traffic, FramesTrue, Thread
  <2>1. PICK j \in Job : j = frame[n][w].job
    BY <2>f DEF Frame
  <2>2. frame[n][w].pc = "deliver" /\ c \in frame[n][w].to /\ Hears(c, j)
    BY <1>2, <2>1 DEF Deliver
  <2>3. /\ j.kind \in {"say", "room", "shout", "broadcast"} /\ Truthful(j)
        /\ j.kind = "say" => AskedToJoin(j.client, j.target)
        /\ j.kind \in {"say", "room"} => AskedToJoin(c, j.target)
    BY <2>f, <2>1, <2>2 DEF InFrame
  <2>4. /\ Message(j).client = j.client /\ Message(j).target = j.target
        /\ Message(j).kind = (IF j.kind \in {"say", "room"} THEN "room" ELSE "broadcast")
    BY <2>3 DEF Message, Job
  <2>5. Fits(c, Message(j))
    <3>1. j.kind \in {"say", "room"} => /\ j.client \in Client /\ j.target \in Room
                                        /\ AskedToJoin(j.client, j.target)
      BY <2>3 DEF Truthful, OfClient
    <3> HIDE DEF Message
    <3> QED BY <2>3, <2>4, <3>1 DEF Fits
  <2> QED BY <2>2, <2>5, <1>h
<1>3. ASSUME NEW n \in Server, NEW w \in Worker, HandOver(n, w)
      PROVE  HeardFits'
  <2>f. frame[n][w] \in Frame /\ InFrame(n, frame[n][w])
    BY <1>t DEF Traffic, FramesTrue, Thread
  <2>1. PICK j \in Job : j = frame[n][w].job
    BY <2>f DEF Frame
  <2>2. frame[n][w].pc = "hand over" /\ Hears(j.target, j)
    BY <1>3, <2>1 DEF HandOver, Doing
  <2>3. j.kind \in {"tell", "private"} /\ j.target \in Client
    BY <2>f, <2>1, <2>2 DEF InFrame, Truthful
  <2>4. Message(j).kind = "private" /\ Message(j).target = j.target
    BY <2>3 DEF Message, Job
  <2>5. Fits(j.target, Message(j))
    BY <2>4 DEF Fits
  <2> QED BY <2>2, <2>3, <2>5, <1>h
<1> QED BY <1>1, <1>2, <1>3, HeardStep

-----------------------------------------------------------------------------
(* Where a message is.  A message that a client spoke is on its way to every  *)
(* client and, as a request for an answer, to nobody (None); Brings says that *)
(* what is at a place may still bring message x to d.  A message to d is at   *)
(* one place at most (Single), and nowhere any more once d has it.            *)
Own(j) == j.kind \in {"say", "tell", "shout"}
Speech(j) == Own(j) \/ j.kind \in {"room", "private", "broadcast"}
Is(j, x) == Speech(j) /\ Message(j) = x

Dest == Client \cup {None}
Local(n, d) == d \in Client /\ Home[d] = n
Towards(n, j, d) == Own(j) \/ Local(n, d)
Outward(j, servers, d) == (d = None /\ j.kind = "private") \/ \E m \in servers : Local(m, d)

Carries(n, f, x, d) ==
    /\ Is(f.job, x)
    /\ \/ /\ f.pc \in {"test member", "members", "sessions", "locate", "hand over"}
          /\ Towards(n, f.job, d)
       \/ f.pc = "deliver" /\ (d \in f.to \/ (Own(f.job) /\ ~Local(n, d)))
       \/ f.pc = "servers" /\ ~Local(n, d)
       \/ f.pc \in Leaving \cup {"send"} /\ Outward(f.job, f.todo, d)
       \/ f.pc = "report" /\ d = None

InPool(n, i)    == [in |-> "pool", at |-> n, by |-> None, no |-> i]
OnLink(m, n, i) == [in |-> "link", at |-> n, by |-> m, no |-> i]
InHand(n, t)    == [in |-> "hand", at |-> n, by |-> t, no |-> 0]
Place == {InPool(n, i) : n \in Server, i \in Nat}
    \cup {OnLink(m, n, i) : m \in Server, n \in Server, i \in Nat}
    \cup {InHand(n, t) : n \in Server, t \in Thread}

PoolBrings(n, i, x, d) ==
    i \in DOMAIN queue[n] /\ Is(queue[n][i], x) /\ Towards(n, queue[n][i], d)
LinkBrings(m, n, i, x, d) ==
    i \in DOMAIN chan[m][n] /\ Is(chan[m][n][i], x) /\ Local(n, d)

Brings(p, x, d) ==
    \/ p.in = "pool" /\ PoolBrings(p.at, p.no, x, d)
    \/ p.in = "link" /\ LinkBrings(p.by, p.at, p.no, x, d)
    \/ p.in = "hand" /\ Carries(p.at, frame[p.at][p.by], x, d)

Single(x, d) == \A p, q \in Place : Brings(p, x, d) /\ Brings(q, x, d) => p = q

(* What a step may do to the places that bring x to d: none is added; one     *)
(* follows from another; or a client has just spoken.                         *)
Quiet(x, d) == \A p \in Place : Brings(p, x, d)' => Brings(p, x, d)
Carried(F, x, d) ==
    /\ \A p \in Place : Brings(p, x, d)' => F[p] \in Place /\ Brings(F[p], x, d)
    /\ \A p, q \in Place : Brings(p, x, d)' /\ Brings(q, x, d)' /\ F[p] = F[q] => p = q

-----------------------------------------------------------------------------
LEMMA Messages ==
    ASSUME NEW j \in Job
    PROVE  /\ Message(j) \in Job
           /\ Message(j).client = j.client /\ Message(j).target = j.target /\ Message(j).no = j.no
           /\ Message(Message(j)) = Message(j)
           /\ Message(j).kind = (CASE j.kind = "say" -> "room"
                                   [] j.kind = "tell" -> "private"
                                   [] j.kind = "shout" -> "broadcast"
                                   [] OTHER -> j.kind)
<1>1. /\ Message(j).client = j.client /\ Message(j).target = j.target
      /\ Message(j).no = j.no /\ Message(j).from = j.from
      /\ Message(j).kind = (CASE j.kind = "say" -> "room"
                              [] j.kind = "tell" -> "private"
                              [] j.kind = "shout" -> "broadcast"
                              [] OTHER -> j.kind)
  BY DEF Message, Job
<1>2. Message(j) \in Job
  BY JobTypes
<1>3. Message(j).kind \notin {"say", "tell", "shout"}
  BY <1>1
<1>4. PICK m \in Job : m = Message(j)
  BY <1>2
<1>5. Message(m) = [m EXCEPT !.kind = m.kind]
  BY <1>3, <1>4 DEF Message
<1>6. Message(m) = m
  BY <1>5 DEF Job
<1> QED BY <1>1, <1>2, <1>4, <1>6

(* A thread that moves on carries no more than before.                        *)
LEMMA CarriesIdle == \A n, x, d : ~Carries(n, Idle, x, d)
  BY DEF Carries, Is, Speech, Own, Idle, Sync

LEMMA CarriesProceed ==
    ASSUME NEW n \in Server, NEW f \in Frame, NEW x, NEW d, Carries(n, Proceed(f), x, d)
    PROVE  Is(f.job, x) /\ Outward(f.job, f.todo, d)
<1>1. CASE f.todo # {}
  <2>1. Proceed(f).pc = "send" /\ Proceed(f).job = f.job /\ Proceed(f).todo = f.todo
    BY <1>1 DEF Proceed, Frame
  <2> QED BY <2>1 DEF Carries, Leaving
<1>2. CASE f.todo = {} /\ f.job.kind = "gone"
  <2>1. Proceed(f).job = f.job
    BY <1>2 DEF Proceed, Frame
  <2> QED BY <1>2, <2>1 DEF Carries, Is, Speech, Own
<1>3. CASE f.todo = {} /\ f.job.kind = "private"
  <2>1. Proceed(f).pc = "report" /\ Proceed(f).job = f.job
    BY <1>3 DEF Proceed, Frame
  <2> QED BY <1>3, <2>1 DEF Carries, Outward, Leaving
<1>4. CASE f.todo = {} /\ f.job.kind \notin {"gone", "private"}
  <2>1. Proceed(f) = Idle
    BY <1>4 DEF Proceed
  <2> QED BY <2>1, CarriesIdle
<1> QED BY <1>1, <1>2, <1>3, <1>4

LEMMA CarriesSends ==
    ASSUME NEW n \in Server, NEW f \in Frame, NEW j \in Job, NEW T \in SUBSET Server,
           NEW x, NEW d, Carries(n, Sends(f, j, T), x, d)
    PROVE  Is(j, x) /\ Outward(j, T, d)
<1> DEFINE g == [f EXCEPT !.job = j, !.todo = T]
<1>1. g \in Frame /\ g.job = j /\ g.todo = T
  BY DEF Frame
<1>2. Sends(f, j, T) = Proceed(g)
  BY DEF Sends
<1> HIDE DEF g
<1> QED BY <1>1, <1>2, CarriesProceed

LEMMA CarriesDelivered ==
    ASSUME NEW n \in Server, NEW f \in Frame, f.pc = "deliver", NEW x, NEW d,
           Carries(n, Delivered(f), x, d)
    PROVE  Is(f.job, x) /\ (d \in f.to \/ (Own(f.job) /\ ~Local(n, d)))
<1>1. CASE f.to # {}
  BY <1>1 DEF Delivered, Carries, Leaving
<1>2. CASE f.to = {} /\ f.job.kind \in {"say", "shout"}
  <2>1. Delivered(f).pc = "servers" /\ Delivered(f).job = f.job
    BY <1>2 DEF Delivered, Frame
  <2> QED BY <1>2, <2>1 DEF Carries, Own, Leaving
<1>3. CASE f.to = {} /\ f.job.kind \notin {"say", "shout"}
  <2>1. Delivered(f) = Idle
    BY <1>3 DEF Delivered
  <2> QED BY <2>1, CarriesIdle
<1> QED BY <1>1, <1>2, <1>3

LEMMA Places ==
    ASSUME NEW p \in Place
    PROVE  \/ \E n \in Server, i \in Nat : p = InPool(n, i)
           \/ \E m \in Server, n \in Server, i \in Nat : p = OnLink(m, n, i)
           \/ \E n \in Server, t \in Thread : p = InHand(n, t)
  BY DEF Place

LEMMA PlaceFields ==
    /\ \A n, i : InPool(n, i).in = "pool" /\ InPool(n, i).at = n /\ InPool(n, i).no = i
    /\ \A m, n, i : /\ OnLink(m, n, i).in = "link" /\ OnLink(m, n, i).at = n
                    /\ OnLink(m, n, i).by = m /\ OnLink(m, n, i).no = i
    /\ \A n, t : InHand(n, t).in = "hand" /\ InHand(n, t).at = n /\ InHand(n, t).by = t
  BY DEF InPool, OnLink, InHand

LEMMA BringsAt ==
    /\ \A n, i, x, d : Brings(InPool(n, i), x, d) <=> PoolBrings(n, i, x, d)
    /\ \A m, n, i, x, d : Brings(OnLink(m, n, i), x, d) <=> LinkBrings(m, n, i, x, d)
    /\ \A n, t, x, d : Brings(InHand(n, t), x, d) <=> Carries(n, frame[n][t], x, d)
  BY PlaceFields DEF Brings

LEMMA BringsNext ==
    /\ \A n, i, x, d : Brings(InPool(n, i), x, d)' <=> PoolBrings(n, i, x, d)'
    /\ \A m, n, i, x, d : Brings(OnLink(m, n, i), x, d)' <=> LinkBrings(m, n, i, x, d)'
    /\ \A n, t, x, d : Brings(InHand(n, t), x, d)' <=> Carries(n, frame'[n][t], x, d)
<1>1. ASSUME NEW n, NEW i, NEW x, NEW d
      PROVE  Brings(InPool(n, i), x, d)' <=> PoolBrings(n, i, x, d)'
  BY PlaceFields DEF Brings
<1>2. ASSUME NEW m, NEW n, NEW i, NEW x, NEW d
      PROVE  Brings(OnLink(m, n, i), x, d)' <=> LinkBrings(m, n, i, x, d)'
  BY PlaceFields DEF Brings
<1>3. ASSUME NEW n, NEW t, NEW x, NEW d
      PROVE  Brings(InHand(n, t), x, d)' <=> Carries(n, frame[n][t], x, d)'
  BY PlaceFields DEF Brings
<1>4. ASSUME NEW n, NEW t, NEW x, NEW d
      PROVE  Carries(n, frame[n][t], x, d)' <=> Carries(n, frame'[n][t], x, d)
  BY DEF Carries, Is, Speech, Own, Towards, Outward, Local
<1> QED BY <1>1, <1>2, <1>3, <1>4

LEMMA QuietParts ==
    ASSUME NEW x, NEW d,
           \A n \in Server, i \in Nat : PoolBrings(n, i, x, d)' => PoolBrings(n, i, x, d),
           \A m, n \in Server, i \in Nat : LinkBrings(m, n, i, x, d)' => LinkBrings(m, n, i, x, d),
           \A n \in Server, t \in Thread : Carries(n, frame'[n][t], x, d) => Carries(n, frame[n][t], x, d)
    PROVE  Quiet(x, d)
<1> SUFFICES ASSUME NEW p \in Place, Brings(p, x, d)'
             PROVE  Brings(p, x, d)
  BY DEF Quiet
<1>1. ASSUME NEW n \in Server, NEW i \in Nat, p = InPool(n, i)
      PROVE  Brings(p, x, d)
  BY <1>1, BringsAt, BringsNext
<1>2. ASSUME NEW m \in Server, NEW n \in Server, NEW i \in Nat, p = OnLink(m, n, i)
      PROVE  Brings(p, x, d)
  BY <1>2, BringsAt, BringsNext
<1>3. ASSUME NEW n \in Server, NEW t \in Thread, p = InHand(n, t)
      PROVE  Brings(p, x, d)
  BY <1>3, BringsAt, BringsNext
<1> QED BY <1>1, <1>2, <1>3, Places

(* A thread that keeps its hands off the queues and the links.                *)
LEMMA QuietHand ==
    ASSUME FramesTyped, NEW n \in Server, NEW t \in Thread, NEW g \in Frame, Moves(n, t, g),
           UNCHANGED queue, UNCHANGED chan,
           NEW x, NEW d, Carries(n, g, x, d) => Carries(n, frame[n][t], x, d)
    PROVE  Quiet(x, d)
<1>1. \A k, i : PoolBrings(k, i, x, d)' <=> PoolBrings(k, i, x, d)
  BY DEF PoolBrings, Is, Speech, Own, Towards, Local
<1>2. \A m, k, i : LinkBrings(m, k, i, x, d)' <=> LinkBrings(m, k, i, x, d)
  BY DEF LinkBrings, Is, Speech, Own, Local
<1>3. \A k \in Server, u \in Thread : Carries(k, frame'[k][u], x, d) => Carries(k, frame[k][u], x, d)
  <2>1. /\ frame'[n][t] = g
        /\ \A k \in Server, u \in Thread : k # n \/ u # t => frame'[k][u] = frame[k][u]
    BY MovesOne DEF FramesTyped
  <2> SUFFICES ASSUME NEW k \in Server, NEW u \in Thread, Carries(k, frame'[k][u], x, d)
               PROVE  Carries(k, frame[k][u], x, d)
    OBVIOUS
  <2>2. CASE k = n /\ u = t
    BY <2>1, <2>2
  <2>3. CASE k # n \/ u # t
    BY <2>1, <2>3
  <2> QED BY <2>2, <2>3
<1> QED BY <1>1, <1>2, <1>3, QuietParts

LEMMA RoomQuiet ==
    ASSUME TypeOK, Traffic, NEW n \in Server, NEW w \in Worker, RoomStep(n, w), NEW x, NEW d
    PROVE  Quiet(x, d)
<1> DEFINE f == frame[n][w]
<1>f. f \in Frame /\ InFrame(n, f) /\ w \in Thread /\ FramesTyped
  <2>1. FramesTyped /\ FramesTrue /\ w \in Thread
    BY TypeParts DEF Traffic, Thread
  <2> QED BY <2>1 DEF FramesTyped, FramesTrue
<1>j. f.job \in Job /\ f.todo \in SUBSET Server
  BY <1>f DEF Frame
<1>l. LabelValues!1 /\ LabelValues!2 /\ LabelValues!3
  BY LabelValues
<1>p. \A p \in Label : [f EXCEPT !.pc = p] \in Frame /\ [f EXCEPT !.pc = p].pc = p /\ [f EXCEPT !.pc = p].job = f.job
  BY <1>f DEF Frame
<1>k. UNCHANGED queue /\ UNCHANGED chan
  <2>1. \/ Enter(n, w) \/ TestFirst(n, w) \/ Insert(n, w)
        \/ TestMember(n, w) \/ Depart(n, w) \/ Erase(n, w) \/ TestLast(n, w)
    BY DEF RoomStep
  <2> QED BY <2>1 DEF Enter, TestFirst, Insert, TestMember, Depart, Erase, TestLast, linkVars
<1>m. ASSUME NEW g \in Frame, Moves(n, w, g), Carries(n, g, x, d) => Carries(n, f, x, d)
      PROVE  Quiet(x, d)
  BY <1>m, <1>k, <1>f, QuietHand
<1>n. ASSUME NEW g \in Frame, Moves(n, w, g), ~Speech(g.job)
      PROVE  Quiet(x, d)
  <2>1. ~Carries(n, g, x, d)
    BY <1>n DEF Carries, Is
  <2> QED BY <2>1, <1>n, <1>m
<1>i. Moves(n, w, Idle) => Quiet(x, d)
  BY <1>m, IdleType, CarriesIdle
<1>g. ASSUME NEW p \in Label, Goes(n, w, p), f.job.kind \in {"join", "leave"}
      PROVE  Quiet(x, d)
  <2>1. PICK g \in Frame : g = [f EXCEPT !.pc = p]
    BY <1>p
  <2>2. Moves(n, w, g) /\ g.job = f.job
    BY <1>g, <1>p, <2>1 DEF Goes
  <2> QED BY <2>2, <1>g, <1>n DEF Speech, Own
<1>s. ASSUME NEW r \in Room, NEW k \in OfMembership, NEW T \in SUBSET Server,
             Moves(n, w, Sends(f, Sync(n, r, k), T))
      PROVE  Quiet(x, d)
  <2>1. PICK j \in Job : j = Sync(n, r, k)
    BY JobTypes
  <2>2. ~Speech(j)
    BY <2>1 DEF Sync, Speech, Own, OfMembership
  <2>3. Sends(f, j, T) \in Frame
    BY <1>f, SendsType
  <2>4. ~Carries(n, Sends(f, j, T), x, d)
    BY <1>f, <2>2, CarriesSends DEF Is
  <2> QED BY <2>1, <2>3, <2>4, <1>s, <1>m
<1>1. CASE Enter(n, w) \/ Depart(n, w) \/ Erase(n, w)
  <2>1. f.pc \in {"enter", "depart", "erase"}
    BY <1>1 DEF Enter, Depart, Erase, Doing
  <2>2. f.job.kind \in {"join", "leave"}
    BY <2>1, <1>f DEF InFrame
  <2>3. Goes(n, w, "test first") \/ Goes(n, w, "erase") \/ Goes(n, w, "test last")
    BY <1>1 DEF Enter, Depart, Erase
  <2> QED BY <2>2, <2>3, <1>l, <1>g
<1>2. CASE TestFirst(n, w)
  <2> DEFINE T == IF members[n][f.job.target] = {} THEN Peers(n) ELSE {}
             g == [f EXCEPT !.pc = "insert", !.todo = T]
  <2>1. f.pc = "test first" /\ Moves(n, w, g)
    BY <1>2 DEF TestFirst
  <2>2. T \in SUBSET Server
    BY DEF Peers
  <2> HIDE DEF T
  <2>3. g \in Frame /\ g.job = f.job
    BY <1>f, <1>l, <2>2 DEF Frame
  <2> HIDE DEF g
  <2>4. f.job.kind = "join"
    BY <2>1, <1>f DEF InFrame
  <2> QED BY <2>1, <2>3, <2>4, <1>n DEF Speech, Own
<1>3. CASE Insert(n, w) \/ TestLast(n, w)
  <2>1. f.pc \in {"insert", "test last"}
    BY <1>3 DEF Insert, TestLast
  <2>2. f.job.target \in Room
    BY <2>1, <1>f DEF InFrame, Truthful
  <2>3. \/ Moves(n, w, Sends(f, Sync(n, f.job.target, "active"), f.todo))
        \/ Moves(n, w, Sends(f, Sync(n, f.job.target, "inactive"), Peers(n)))
        \/ Moves(n, w, Idle)
    BY <1>3 DEF Insert, TestLast
  <2>4. Peers(n) \in SUBSET Server
    BY DEF Peers
  <2> QED BY <2>2, <2>3, <2>4, <1>j, <1>i, <1>s DEF OfMembership
<1>4. CASE TestMember(n, w)
  <2>1. f.pc = "test member" /\ f.job.kind \in {"leave", "say"}
    BY <1>4, <1>f DEF TestMember, Doing, InFrame
  <2>2. CASE Moves(n, w, Idle)
    BY <2>2, <1>i
  <2>3. CASE f.job.kind = "leave" /\ Goes(n, w, "depart")
    BY <2>3, <1>l, <1>g
  <2>4. CASE f.job.kind = "say" /\ Goes(n, w, "members")
    <3>1. PICK g \in Frame : g = [f EXCEPT !.pc = "members"]
      BY <1>p, <1>l
    <3>2. Moves(n, w, g) /\ g.job = f.job /\ g.pc = "members"
      BY <2>4, <1>p, <1>l, <3>1 DEF Goes
    <3>3. Carries(n, g, x, d) => Carries(n, f, x, d)
      BY <3>2, <2>1 DEF Carries, Leaving
    <3> QED BY <3>2, <3>3, <1>m
  <2> QED BY <1>4, <2>1, <2>2, <2>3, <2>4 DEF TestMember
<1> QED BY <1>1, <1>2, <1>3, <1>4 DEF RoomStep

LEMMA MessageQuiet ==
    ASSUME TypeOK, Traffic, NEW n \in Server, NEW w \in Worker, MessageStep(n, w), NEW x, NEW d
    PROVE  Quiet(x, d)
<1> DEFINE f == frame[n][w]
           j == f.job
<1>f. f \in Frame /\ InFrame(n, f) /\ w \in Thread /\ FramesTyped /\ TablesTyped /\ Apart
  <2>1. FramesTyped /\ TablesTyped /\ Apart /\ FramesTrue /\ w \in Thread
    BY TypeParts DEF Traffic, Thread
  <2> QED BY <2>1 DEF FramesTyped, FramesTrue
<1>j. j \in Job /\ Message(j) \in Job /\ f.todo \in SUBSET Server /\ f.to \in SUBSET Client
  <2>1. f.job \in Job /\ f.to \in SUBSET Client /\ f.todo \in SUBSET Server
    BY <1>f DEF Frame
  <2> QED BY <2>1, JobTypes
<1>l. LabelValues!1 /\ LabelValues!2 /\ LabelValues!3
  BY LabelValues
<1>k. UNCHANGED queue /\ UNCHANGED chan
  <2>1. \/ GetMembers(n, w) \/ GetAllSessions(n, w) \/ GetServers(n, w)
        \/ \E c \in Client : Deliver(n, w, c)
        \/ Locate(n, w) \/ HandOver(n, w) \/ Report(n, w)
    BY DEF MessageStep
  <2> QED BY <2>1 DEF GetMembers, GetAllSessions, GetServers, Deliver, Locate, HandOver, Report, linkVars
<1>m. ASSUME NEW g \in Frame, Moves(n, w, g), Carries(n, g, x, d) => Carries(n, f, x, d)
      PROVE  Quiet(x, d)
  BY <1>m, <1>k, <1>f, QuietHand
<1>i. Moves(n, w, Idle) => Quiet(x, d)
  BY <1>m, IdleType, CarriesIdle
<1>d. ASSUME NEW S \in SUBSET Client, f.pc \in {"members", "sessions"}, \A c \in S : Home[c] = n,
             Moves(n, w, Delivered([f EXCEPT !.pc = "deliver", !.to = S]))
      PROVE  Quiet(x, d)
  <2> DEFINE g == [f EXCEPT !.pc = "deliver", !.to = S]
  <2>1. g \in Frame /\ g.pc = "deliver" /\ g.job = j /\ g.to = S
    BY <1>f, <1>l DEF Frame
  <2>2. Moves(n, w, Delivered(g))
    BY <1>d
  <2> HIDE DEF g
  <2>3. Delivered(g) \in Frame
    BY <2>1, DeliveredType
  <2>4. Carries(n, Delivered(g), x, d) => Is(j, x) /\ (d \in S \/ (Own(j) /\ ~Local(n, d)))
    BY <2>1, CarriesDelivered
  <2>5. Carries(n, Delivered(g), x, d) => Carries(n, f, x, d)
    BY <2>4, <1>d DEF Carries, Towards, Local
  <2> QED BY <2>2, <2>3, <2>5, <1>m
<1>s. ASSUME NEW T \in SUBSET Server, Moves(n, w, Sends(f, Message(j), T)),
             Speech(j), Outward(Message(j), T, d) => Carries(n, f, Message(j), d)
      PROVE  Quiet(x, d)
  <2>1. Sends(f, Message(j), T) \in Frame
    BY <1>f, <1>j, SendsType
  <2>2. Carries(n, Sends(f, Message(j), T), x, d) => Is(Message(j), x) /\ Outward(Message(j), T, d)
    BY <1>f, <1>j, CarriesSends
  <2>3. Is(Message(j), x) => x = Message(j)
    BY <1>j, Messages DEF Is
  <2> QED BY <2>1, <2>2, <2>3, <1>s, <1>m
<1>1. CASE GetMembers(n, w)
  <2>1. f.pc = "members"
    BY <1>1 DEF GetMembers
  <2>2. j.target \in Room
    BY <2>1, <1>f DEF InFrame, Truthful
  <2>3. members[n][j.target] \in SUBSET Client /\ \A c \in members[n][j.target] : Home[c] = n
    BY <2>2, <1>f DEF TablesTyped, Apart
  <2> QED BY <1>1, <2>1, <2>3, <1>d DEF GetMembers, LocalMembers
<1>2. CASE GetAllSessions(n, w)
  <2>1. Sessions(n) \in SUBSET Client /\ \A c \in Sessions(n) : Home[c] = n
    BY <1>f DEF Sessions, TablesTyped
  <2> QED BY <1>2, <2>1, <1>d DEF GetAllSessions
<1>3. CASE GetServers(n, w)
  <2> DEFINE T == IF j.kind = "shout" THEN Peers(n) ELSE remote[n][j.target]
  <2>1. f.pc = "servers" /\ Moves(n, w, Sends(f, Message(j), T))
    BY <1>3 DEF GetServers
  <2>2. j.kind \in {"say", "shout"} /\ (j.kind = "say" => j.target \in Room)
    BY <1>f, <2>1 DEF InFrame, Truthful
  <2>3. T \in SUBSET Server /\ n \notin T
    <3>1. CASE j.kind = "shout"
      BY <3>1 DEF Peers
    <3>2. CASE j.kind = "say"
      BY <3>2, <2>2, <1>f DEF TablesTyped, Apart
    <3> QED BY <2>2, <3>1, <3>2
  <2> HIDE DEF T
  <2>4. Message(j).kind # "private"
    BY <2>2, <1>j, Messages
  <2>5. Outward(Message(j), T, d) => Carries(n, f, Message(j), d)
    BY <2>1, <2>2, <2>3, <2>4 DEF Outward, Carries, Is, Speech, Own, Local
  <2> QED BY <2>1, <2>2, <2>3, <2>5, <1>s DEF Speech, Own
<1>4. ASSUME NEW c \in Client, Deliver(n, w, c)
      PROVE  Quiet(x, d)
  <2> DEFINE g == [f EXCEPT !.to = f.to \ {c}]
  <2>1. f.pc = "deliver" /\ Moves(n, w, Delivered(g))
    BY <1>4 DEF Deliver
  <2>2. g \in Frame /\ g.pc = "deliver" /\ g.job = j /\ g.to \subseteq f.to
    BY <1>f, <1>j, <2>1 DEF Frame
  <2> HIDE DEF g
  <2>3. Delivered(g) \in Frame
    BY <2>2, DeliveredType
  <2>4. Carries(n, Delivered(g), x, d) => Is(j, x) /\ (d \in f.to \/ (Own(j) /\ ~Local(n, d)))
    BY <2>2, CarriesDelivered
  <2>5. Carries(n, Delivered(g), x, d) => Carries(n, f, x, d)
    BY <2>1, <2>4 DEF Carries
  <2> QED BY <2>1, <2>3, <2>5, <1>m
<1>5. CASE Locate(n, w)
  <2>1. f.pc = "locate" /\ j.kind = "tell" /\ j.target \in Client
    BY <1>5, <1>f DEF Locate, InFrame, Truthful
  <2>2. \/ Moves(n, w, Idle) \/ Goes(n, w, "hand over")
        \/ Moves(n, w, Sends(f, Message(j), {Home[j.target]}))
    BY <1>5 DEF Locate
  <2>3. CASE Goes(n, w, "hand over")
    <3> DEFINE g == [f EXCEPT !.pc = "hand over"]
    <3>1. g \in Frame /\ g.pc = "hand over" /\ g.job = j
      BY <1>f, <1>l DEF Frame
    <3>2. Moves(n, w, g)
      BY <2>3 DEF Goes
    <3> HIDE DEF g
    <3>3. Carries(n, g, x, d) => Carries(n, f, x, d)
      BY <3>1, <2>1 DEF Carries, Leaving
    <3> QED BY <3>1, <3>2, <3>3, <1>m
  <2>4. CASE Moves(n, w, Sends(f, Message(j), {Home[j.target]}))
    <3>1. {Home[j.target]} \in SUBSET Server
      BY <2>1, Homes
    <3>2. Carries(n, f, Message(j), d) /\ Speech(j)
      BY <2>1 DEF Carries, Is, Speech, Own, Towards
    <3> QED BY <2>4, <3>1, <3>2, <1>s
  <2> QED BY <2>2, <2>3, <2>4, <1>i
<1>6. CASE HandOver(n, w) \/ Report(n, w)
  BY <1>6, <1>i DEF HandOver, Report
<1> QED BY <1>1, <1>2, <1>3, <1>4, <1>5, <1>6 DEF MessageStep

LEMMA PoolSame ==
    ASSUME UNCHANGED queue, NEW x, NEW d
    PROVE  \A n, i : PoolBrings(n, i, x, d)' <=> PoolBrings(n, i, x, d)
  BY DEF PoolBrings, Is, Speech, Own, Towards, Local

(* Links that lose packets, one thread that moves.                            *)
LEMMA QuietLinks ==
    ASSUME FramesTyped, UNCHANGED queue, NEW x, NEW d,
           \A m, n \in Server : \A i \in DOMAIN chan'[m][n] :
               i \in DOMAIN chan[m][n] /\ chan'[m][n][i] = chan[m][n][i],
           \A n \in Server, t \in Thread : Carries(n, frame'[n][t], x, d) => Carries(n, frame[n][t], x, d)
    PROVE  Quiet(x, d)
<1>1. \A m, n \in Server : \A i : LinkBrings(m, n, i, x, d)' => LinkBrings(m, n, i, x, d)
  <2> SUFFICES ASSUME NEW m \in Server, NEW n \in Server, NEW i, LinkBrings(m, n, i, x, d)'
               PROVE  LinkBrings(m, n, i, x, d)
    OBVIOUS
  <2>1. i \in DOMAIN chan'[m][n] /\ Is(chan'[m][n][i], x) /\ Local(n, d)
    BY DEF LinkBrings, Is, Speech, Own, Local
  <2>2. i \in DOMAIN chan[m][n] /\ chan'[m][n][i] = chan[m][n][i]
    BY <2>1
  <2> QED BY <2>1, <2>2 DEF LinkBrings
<1> QED BY <1>1, PoolSame, QuietParts

LEMMA OtherQuiet ==
    ASSUME TypeOK, Traffic, NEW x, NEW d,
           \/ \E c \in Client : HangUp(c)
           \/ \E n \in Server : \/ \E w \in Worker : Apply(n, w)
                                \/ Unregister(n) \/ RemoveSession(n)
                                \/ \E m \in Server : PeerEof(n, m) \/ NetBreak(n, m)
           \/ UNCHANGED vars
    PROVE  Quiet(x, d)
<1> USE Homes
<1>y. FramesTyped /\ PacketsTyped /\ Listener \in Thread /\ \A w \in Worker : w \in Thread
  BY TypeParts DEF Thread
<1>f. \A n \in Server, t \in Thread : frame[n][t] \in Frame /\ InFrame(n, frame[n][t])
  BY <1>y DEF FramesTyped, Traffic, FramesTrue
<1>n. ASSUME NEW n \in Server, NEW t \in Thread, NEW g \in Frame, Moves(n, t, g), ~Speech(g.job),
             UNCHANGED queue, UNCHANGED chan
      PROVE  Quiet(x, d)
  <2>1. ~Carries(n, g, x, d)
    BY <1>n DEF Carries, Is
  <2> QED BY <2>1, <1>n, <1>y, QuietHand
<1>i. Idle \in Frame /\ ~Speech(Idle.job)
  BY IdleType DEF Idle, Sync, Speech, Own
<1>1. ASSUME NEW c \in Client, HangUp(c)
      PROVE  Quiet(x, d)
  <2> DEFINE g == [Idle EXCEPT !.pc = "unregister", !.job = Logout(c)]
  <2>1. Logout(c) \in Job /\ "unregister" \in Label
    BY JobTypes, LabelValues
  <2>2. g \in Frame /\ g.job = Logout(c)
    BY <2>1, <1>i DEF Frame
  <2>3. Moves(Home[c], Listener, g) /\ UNCHANGED <<queue, chan>>
    BY <1>1 DEF HangUp, linkVars
  <2> HIDE DEF g
  <2>4. ~Speech(g.job)
    BY <2>2 DEF Logout, Speech, Own
  <2> QED BY <2>2, <2>3, <2>4, <1>n, <1>y
<1>2. ASSUME NEW n \in Server, NEW w \in Worker, Apply(n, w)
      PROVE  Quiet(x, d)
  BY <1>2, <1>i, <1>n, <1>y DEF Apply, linkVars
<1>3. ASSUME NEW n \in Server, Unregister(n)
      PROVE  Quiet(x, d)
  <2> DEFINE f == frame[n][Listener]
  <2>1. f \in Frame /\ f.job \in Job /\ f.job.kind = "gone" /\ Peers(n) \in SUBSET Server
    <3>1. f \in Frame /\ InFrame(n, f) /\ f.pc = "unregister"
      BY <1>3, <1>f, <1>y DEF Unregister
    <3> QED BY <3>1 DEF Frame, InFrame, Peers
  <2>2. Sends(f, f.job, Peers(n)) \in Frame
    BY <2>1, SendsType
  <2>3. ~Carries(n, Sends(f, f.job, Peers(n)), x, d)
    BY <2>1, CarriesSends DEF Is, Speech, Own
  <2>4. Moves(n, Listener, Sends(f, f.job, Peers(n))) /\ UNCHANGED <<queue, chan>>
    BY <1>3 DEF Unregister, linkVars
  <2> QED BY <2>2, <2>3, <2>4, <1>y, QuietHand
<1>4. ASSUME NEW n \in Server, RemoveSession(n)
      PROVE  Quiet(x, d)
  BY <1>4, <1>i, <1>n, <1>y DEF RemoveSession, linkVars
<1>5. ASSUME NEW n \in Server, NEW m \in Server, PeerEof(n, m)
      PROVE  Quiet(x, d)
  <2> DEFINE g == [Idle EXCEPT !.pc = "unlink", !.peer = m]
  <2>1. g \in Frame /\ g.job = Idle.job
    BY <1>i, LabelValues DEF Frame
  <2>2. Moves(n, Listener, g) /\ UNCHANGED <<queue, chan>>
    BY <1>5 DEF PeerEof, linkVars
  <2> HIDE DEF g
  <2> QED BY <2>1, <2>2, <1>i, <1>n, <1>y
<1>6. ASSUME NEW n \in Server, NEW m \in Server, NetBreak(n, m)
      PROVE  Quiet(x, d)
  <2>1. PICK i \in 0..Len(chan[n][m]), k \in 0..Len(chan[m][n]) :
            chan' = [chan EXCEPT ![n][m] = SubSeq(@, 1, i), ![m][n] = SubSeq(@, 1, k)]
    BY <1>6 DEF NetBreak
  <2>2. n # m
    BY <1>6 DEF NetBreak, Traffic
  <2>c. chan \in [Server -> [Server -> Seq(Job)]]
    BY <1>y DEF PacketsTyped
  <2>3. \A a, b \in Server : \/ chan'[a][b] = chan[a][b]
                             \/ a = n /\ b = m /\ chan'[a][b] = SubSeq(chan[n][m], 1, i)
                             \/ a = m /\ b = n /\ chan'[a][b] = SubSeq(chan[m][n], 1, k)
    BY <2>1, <2>2, <2>c
  <2>4. \A s \in Seq(Job), e \in Nat : e \in 0..Len(s) =>
            \A l \in DOMAIN SubSeq(s, 1, e) : l \in DOMAIN s /\ SubSeq(s, 1, e)[l] = s[l]
    OBVIOUS
  <2>5. \A a, b \in Server : \A l \in DOMAIN chan'[a][b] :
            l \in DOMAIN chan[a][b] /\ chan'[a][b][l] = chan[a][b][l]
    <3>1. chan[n][m] \in Seq(Job) /\ chan[m][n] \in Seq(Job) /\ i \in Nat /\ k \in Nat
      BY <2>c
    <3> QED BY <2>3, <2>4, <3>1
  <2>6. UNCHANGED queue /\ UNCHANGED frame
    BY <1>6 DEF NetBreak
  <2> QED BY <2>5, <2>6, <1>y, QuietLinks
<1>7. CASE UNCHANGED vars
  <2>1. UNCHANGED <<queue, chan, frame>>
    BY <1>7 DEF vars, linkVars
  <2> QED BY <2>1, <1>y, QuietLinks
<1> QED BY <1>1, <1>2, <1>3, <1>4, <1>5, <1>6, <1>7

LEMMA ThreadQuiet ==
    ASSUME TypeOK, Traffic, NEW n \in Server, NEW t \in Thread, NEW x, NEW d,
           \/ \E m \in Server : SendFails(n, t, m)
           \/ Unlink(n, t) \/ ClearUsers(n, t) \/ ClearRooms(n, t)
    PROVE  Quiet(x, d)
<1> DEFINE f == frame[n][t]
<1>f. f \in Frame /\ InFrame(n, f) /\ FramesTyped /\ PacketsTyped
  <2>1. FramesTyped /\ PacketsTyped /\ FramesTrue
    BY TypeParts DEF Traffic
  <2> QED BY <2>1 DEF FramesTyped, FramesTrue
<1>j. f.job \in Job /\ f.todo \in SUBSET Server
  BY <1>f DEF Frame
<1>l. LabelValues!1 /\ LabelValues!2 /\ LabelValues!3
  BY LabelValues
<1>p. ASSUME NEW g \in Frame, g.pc \in Leaving \cup {"send"}, f.pc \in Leaving \cup {"send"},
             g.job = f.job, g.todo \subseteq f.todo
      PROVE  Carries(n, g, x, d) => Carries(n, f, x, d)
  BY <1>p DEF Carries, Outward, Leaving
<1>1. ASSUME NEW m \in Server, SendFails(n, t, m)
      PROVE  Quiet(x, d)
  <2> DEFINE g == [f EXCEPT !.pc = "unlink", !.todo = f.todo \ {m}, !.peer = m]
  <2>1. f.pc = "send" /\ Moves(n, t, g) /\ UNCHANGED queue /\ UNCHANGED chan
    BY <1>1 DEF SendFails, linkVars
  <2>2. g \in Frame /\ g.pc = "unlink" /\ g.job = f.job /\ g.todo \subseteq f.todo
    BY <1>f, <1>j, <1>l DEF Frame
  <2> HIDE DEF g
  <2>3. Carries(n, g, x, d) => Carries(n, f, x, d)
    BY <2>1, <2>2, <1>p DEF Leaving
  <2> QED BY <2>1, <2>2, <2>3, <1>f, QuietHand
<1>2. CASE Unlink(n, t)
  <2> DEFINE g == [f EXCEPT !.pc = "clear users"]
  <2>1. /\ f.pc = "unlink" /\ Moves(n, t, g) /\ UNCHANGED queue
        /\ chan' = [chan EXCEPT ![f.peer][n] = <<>>]
    BY <1>2 DEF Unlink, Goes
  <2>2. g \in Frame /\ g.pc = "clear users" /\ g.job = f.job /\ g.todo = f.todo
    BY <1>f, <1>l DEF Frame
  <2> HIDE DEF g
  <2>3. Carries(n, g, x, d) => Carries(n, f, x, d)
    BY <2>1, <2>2, <1>p DEF Leaving
  <2>4. \A a, b \in Server : chan'[a][b] = chan[a][b] \/ chan'[a][b] = <<>>
    BY <2>1, <1>f DEF PacketsTyped
  <2>5. \A a, b \in Server : \A l \in DOMAIN chan'[a][b] :
            l \in DOMAIN chan[a][b] /\ chan'[a][b][l] = chan[a][b][l]
    BY <2>4
  <2>6. \A k \in Server, u \in Thread : Carries(k, frame'[k][u], x, d) => Carries(k, frame[k][u], x, d)
    <3>1. /\ frame'[n][t] = g
          /\ \A k \in Server, u \in Thread : k # n \/ u # t => frame'[k][u] = frame[k][u]
      BY <2>1, <2>2, <1>f, MovesOne DEF FramesTyped
    <3> SUFFICES ASSUME NEW k \in Server, NEW u \in Thread, Carries(k, frame'[k][u], x, d)
                 PROVE  Carries(k, frame[k][u], x, d)
      OBVIOUS
    <3>2. CASE k = n /\ u = t
      BY <3>1, <3>2, <2>3
    <3>3. CASE k # n \/ u # t
      BY <3>1, <3>3
    <3> QED BY <3>2, <3>3
  <2> QED BY <2>1, <2>5, <2>6, <1>f, QuietLinks
<1>3. CASE ClearUsers(n, t)
  <2> DEFINE g == [f EXCEPT !.pc = "clear rooms"]
  <2>1. f.pc = "clear users" /\ Moves(n, t, g) /\ UNCHANGED queue /\ UNCHANGED chan
    BY <1>3 DEF ClearUsers, Goes, Doing, linkVars
  <2>2. g \in Frame /\ g.pc = "clear rooms" /\ g.job = f.job /\ g.todo = f.todo
    BY <1>f, <1>l DEF Frame
  <2> HIDE DEF g
  <2>3. Carries(n, g, x, d) => Carries(n, f, x, d)
    BY <2>1, <2>2, <1>p DEF Leaving
  <2> QED BY <2>1, <2>2, <2>3, <1>f, QuietHand
<1>4. CASE ClearRooms(n, t)
  <2>1. f.pc = "clear rooms" /\ Moves(n, t, Proceed(f)) /\ UNCHANGED queue /\ UNCHANGED chan
    BY <1>4 DEF ClearRooms, linkVars
  <2>2. Proceed(f) \in Frame
    BY <1>f, ProceedType
  <2>3. Carries(n, Proceed(f), x, d) => Carries(n, f, x, d)
    <3>1. Carries(n, Proceed(f), x, d) => Is(f.job, x) /\ Outward(f.job, f.todo, d)
      BY <1>f, CarriesProceed
    <3> QED BY <3>1, <2>1 DEF Carries, Leaving
  <2> QED BY <2>1, <2>2, <2>3, <1>f, QuietHand
<1> QED BY <1>1, <1>2, <1>3, <1>4

LEMMA PlaceTypes ==
    /\ \A n \in Server, i \in Nat : InPool(n, i) \in Place
    /\ \A m, n \in Server, i \in Nat : OnLink(m, n, i) \in Place
    /\ \A n \in Server, t \in Thread : InHand(n, t) \in Place
  BY DEF Place

(* Packets that change places.                                                *)
LEMMA StartCarries ==
    ASSUME TypeOK, Traffic, NEW n \in Server, NEW w \in Worker, Start(n, w), NEW x, NEW d
    PROVE  \E F : Carried(F, x, d)
<1> DEFINE F == [p \in Place |-> IF p = InHand(n, w) THEN InPool(n, 1)
                                 ELSE IF p.in = "pool" /\ p.at = n THEN InPool(n, p.no + 1) ELSE p]
           j == Head(queue[n])
           g == [Idle EXCEPT !.pc = Entry(j.kind), !.job = j]
<1>y. FramesTyped /\ PacketsTyped /\ w \in Thread
  BY TypeParts DEF Thread
<1>1. /\ queue[n] \in Seq(Job) /\ queue[n] # <<>> /\ j \in Job
      /\ queue' = [queue EXCEPT ![n] = Tail(queue[n])]
      /\ UNCHANGED chan /\ Moves(n, w, g)
  <2>1. queue[n] \in Seq(Job) /\ queue[n] # <<>>
    BY <1>y DEF PacketsTyped, Start
  <2> QED BY <2>1, ToSetHeadTail DEF Start, linkVars
<1>2. /\ 1 \in DOMAIN queue[n] /\ queue[n][1] = j
      /\ \A i \in DOMAIN Tail(queue[n]) : i \in Nat \ {0} /\ i + 1 \in DOMAIN queue[n] /\ Tail(queue[n])[i] = queue[n][i + 1]
  BY <1>1
<1>q. \A k \in Server : queue'[k] = IF k = n THEN Tail(queue[n]) ELSE queue[k]
  BY <1>1, <1>y DEF PacketsTyped
<1>3. g.pc = Entry(j.kind) /\ g.job = j /\ g \in Frame
  BY <1>1, EntryType, IdleType DEF Frame, Idle
<1> HIDE DEF j, g
<1>4. /\ frame'[n][w] = g
      /\ \A k \in Server, u \in Thread : k # n \/ u # w => frame'[k][u] = frame[k][u]
  BY <1>1, <1>3, <1>y, MovesOne DEF FramesTyped
<1>5. Carries(n, g, x, d) => PoolBrings(n, 1, x, d)
  <2>1. Carries(n, g, x, d) => Is(j, x) /\ Towards(n, j, d)
    BY <1>3 DEF Carries, Is, Speech, Own, Entry, Leaving
  <2> QED BY <2>1, <1>2 DEF PoolBrings
<1>6. \A k \in Server, i \in Nat :
          PoolBrings(k, i, x, d)' => i # 0 /\ PoolBrings(k, IF k = n THEN i + 1 ELSE i, x, d)
  <2> SUFFICES ASSUME NEW k \in Server, NEW i \in Nat, PoolBrings(k, i, x, d)'
               PROVE  i # 0 /\ PoolBrings(k, IF k = n THEN i + 1 ELSE i, x, d)
    OBVIOUS
  <2>1. i \in DOMAIN queue'[k] /\ Is(queue'[k][i], x) /\ Towards(k, queue'[k][i], d)
    BY DEF PoolBrings, Is, Speech, Own, Towards, Local
  <2>2. CASE k = n
    BY <2>1, <2>2, <1>2, <1>q DEF PoolBrings
  <2>3. CASE k # n
    <3>1. queue'[k] = queue[k] /\ queue[k] \in Seq(Job)
      BY <2>3, <1>q, <1>y DEF PacketsTyped
    <3> QED BY <2>1, <2>3, <3>1 DEF PoolBrings
  <2> QED BY <2>2, <2>3
<1>7. \A m, k, i : LinkBrings(m, k, i, x, d)' <=> LinkBrings(m, k, i, x, d)
  BY <1>1 DEF LinkBrings, Is, Speech, Own, Local
<1>8. /\ F[InHand(n, w)] = InPool(n, 1)
      /\ \A k \in Server, i \in Nat : F[InPool(k, i)] = InPool(k, IF k = n THEN i + 1 ELSE i)
      /\ \A m, k \in Server, i \in Nat : F[OnLink(m, k, i)] = OnLink(m, k, i)
      /\ \A k \in Server, u \in Thread : k # n \/ u # w => F[InHand(k, u)] = InHand(k, u)
  BY <1>y, PlaceTypes, PlaceFields
<1> HIDE DEF F
<1> DEFINE Origin(p) ==
             /\ F[p] \in Place /\ Brings(F[p], x, d)
             /\ \/ p = InHand(n, w) /\ F[p] = InPool(n, 1)
                \/ \E k \in Server, i \in Nat \ {0} :
                      p = InPool(k, i) /\ F[p] = InPool(k, IF k = n THEN i + 1 ELSE i)
                \/ p.in # "pool" /\ p # InHand(n, w) /\ F[p] = p
<1>9. ASSUME NEW p \in Place, Brings(p, x, d)'
      PROVE  Origin(p)
  <2>1. ASSUME NEW k \in Server, NEW i \in Nat, p = InPool(k, i)
        PROVE  Origin(p)
    <3>1. i # 0 /\ PoolBrings(k, IF k = n THEN i + 1 ELSE i, x, d)
      BY <1>9, <2>1, <1>6, BringsNext
    <3>2. PICK l \in Nat : l = IF k = n THEN i + 1 ELSE i
      OBVIOUS
    <3> QED BY <2>1, <3>1, <3>2, <1>8, BringsAt, PlaceTypes
  <2>2. ASSUME NEW m \in Server, NEW k \in Server, NEW i \in Nat, p = OnLink(m, k, i)
        PROVE  Origin(p)
    BY <1>9, <2>2, <1>7, <1>8, BringsNext, BringsAt, PlaceFields
  <2>3. ASSUME NEW k \in Server, NEW u \in Thread, p = InHand(k, u)
        PROVE  Origin(p)
    <3>1. CASE k = n /\ u = w
      BY <1>9, <2>3, <3>1, <1>4, <1>5, <1>8, BringsNext, BringsAt, PlaceTypes
    <3>2. CASE k # n \/ u # w
      BY <1>9, <2>3, <3>2, <1>4, <1>8, BringsNext, BringsAt, PlaceFields
    <3> QED BY <3>1, <3>2
  <2> QED BY <2>1, <2>2, <2>3, Places
<1>10. ASSUME NEW p \in Place, NEW q \in Place, Brings(p, x, d)', Brings(q, x, d)', F[p] = F[q]
       PROVE  p = q
  <2>1. Origin(p) /\ Origin(q)
    BY <1>9, <1>10
  <2> QED BY <2>1, <1>10, PlaceFields
<1> QED BY <1>9, <1>10 DEF Carried

LEMMA SendCarries ==
    ASSUME TypeOK, Traffic, NEW n \in Server, NEW t \in Thread, NEW m \in Server, Send(n, t, m),
           NEW x, NEW d
    PROVE  Quiet(x, d) \/ \E F : Carried(F, x, d)
<1> DEFINE f == frame[n][t]
           g == [f EXCEPT !.todo = f.todo \ {m}]
           L == Len(chan[n][m]) + 1
           F == [p \in Place |-> IF p = OnLink(n, m, L) THEN InHand(n, t) ELSE p]
<1>y. f \in Frame /\ FramesTyped /\ PacketsTyped
  <2>1. FramesTyped /\ PacketsTyped
    BY TypeParts
  <2> QED BY <2>1 DEF FramesTyped
<1>j. f.job \in Job /\ f.todo \in SUBSET Server
  BY <1>y DEF Frame
<1>1. f.pc = "send" /\ m \in f.todo /\ Moves(n, t, Proceed(g)) /\ UNCHANGED queue
  BY DEF Send
<1>2. g \in Frame /\ g.job = f.job /\ g.todo = f.todo \ {m}
  BY <1>y, <1>j DEF Frame
<1>3. chan[n][m] \in Seq(Job) /\ L \in Nat \ {0}
  BY <1>y DEF PacketsTyped
<1> HIDE DEF g, L
<1>4. Proceed(g) \in Frame
  BY <1>2, ProceedType
<1>5. Carries(n, Proceed(g), x, d) => Is(f.job, x) /\ Outward(f.job, f.todo \ {m}, d)
  BY <1>2, CarriesProceed
<1>6. Carries(n, Proceed(g), x, d) => Carries(n, f, x, d)
  BY <1>5, <1>1 DEF Carries, Outward, Leaving
<1>7. CASE chan' = chan
  BY <1>7, <1>1, <1>4, <1>6, <1>y, QuietHand
<1>8. CASE chan' = [chan EXCEPT ![n][m] = Append(chan[n][m], f.job)]
  <2>1. \A a, b \in Server : chan'[a][b] = IF a = n /\ b = m THEN Append(chan[n][m], f.job) ELSE chan[a][b]
    BY <1>8, <1>y DEF PacketsTyped
  <2>2. \A i \in DOMAIN Append(chan[n][m], f.job) :
            IF i = L THEN Append(chan[n][m], f.job)[i] = f.job
                     ELSE i \in DOMAIN chan[n][m] /\ Append(chan[n][m], f.job)[i] = chan[n][m][i]
    BY <1>3, <1>j DEF L
  <2>3. \A a, b \in Server, i \in Nat : LinkBrings(a, b, i, x, d)' =>
            IF a = n /\ b = m /\ i = L THEN Is(f.job, x) /\ Local(m, d) ELSE LinkBrings(a, b, i, x, d)
    <3> SUFFICES ASSUME NEW a \in Server, NEW b \in Server, NEW i \in Nat, LinkBrings(a, b, i, x, d)'
                 PROVE  IF a = n /\ b = m /\ i = L THEN Is(f.job, x) /\ Local(m, d) ELSE LinkBrings(a, b, i, x, d)
      OBVIOUS
    <3>1. i \in DOMAIN chan'[a][b] /\ Is(chan'[a][b][i], x) /\ Local(b, d)
      BY DEF LinkBrings, Is, Speech, Own, Local
    <3> HIDE DEF f
    <3> QED BY <3>1, <2>1, <2>2 DEF LinkBrings
  <2>4. /\ frame'[n][t] = Proceed(g)
        /\ \A k \in Server, u \in Thread : k # n \/ u # t => frame'[k][u] = frame[k][u]
    BY <1>1, <1>4, <1>y, MovesOne DEF FramesTyped
  <2>5. Is(f.job, x) /\ Local(m, d) => Carries(n, f, x, d) /\ ~Carries(n, Proceed(g), x, d)
    <3>1. d \in Client => d # None
      BY Homes
    <3> QED BY <3>1, <1>1, <1>5 DEF Carries, Outward, Local, Leaving
  <2>6. /\ F[OnLink(n, m, L)] = InHand(n, t)
        /\ \A p \in Place : p # OnLink(n, m, L) => F[p] = p
    BY <1>3, PlaceTypes
  <2> HIDE DEF F, f
  <2> DEFINE Origin(p) ==
               /\ F[p] \in Place /\ Brings(F[p], x, d)
               /\ \/ p = OnLink(n, m, L) /\ F[p] = InHand(n, t) /\ Is(f.job, x) /\ Local(m, d)
                  \/ p # OnLink(n, m, L) /\ F[p] = p
  <2>7. ASSUME NEW p \in Place, Brings(p, x, d)'
        PROVE  Origin(p)
    <3>1. ASSUME NEW k \in Server, NEW i \in Nat, p = InPool(k, i)
          PROVE  Origin(p)
      <4>1. PoolBrings(k, i, x, d)
        BY <2>7, <3>1, <1>1, PoolSame, BringsNext
      <4> QED BY <3>1, <4>1, <2>6, BringsAt, PlaceFields
    <3>2. ASSUME NEW a \in Server, NEW b \in Server, NEW i \in Nat, p = OnLink(a, b, i)
          PROVE  Origin(p)
      <4>1. IF a = n /\ b = m /\ i = L THEN Is(f.job, x) /\ Local(m, d) ELSE LinkBrings(a, b, i, x, d)
        BY <2>7, <3>2, <2>3, BringsNext
      <4>2. CASE a = n /\ b = m /\ i = L
        BY <3>2, <4>1, <4>2, <2>5, <2>6, BringsAt, PlaceTypes DEF f
      <4>3. CASE ~(a = n /\ b = m /\ i = L)
        BY <3>2, <4>1, <4>3, <2>6, BringsAt, PlaceFields
      <4> QED BY <4>2, <4>3
    <3>3. ASSUME NEW k \in Server, NEW u \in Thread, p = InHand(k, u)
          PROVE  Origin(p)
      <4>1. Carries(k, frame[k][u], x, d)
        <5>1. Carries(k, frame'[k][u], x, d)
          BY <2>7, <3>3, BringsNext
        <5>2. CASE k = n /\ u = t
          BY <5>1, <5>2, <2>4, <1>6 DEF f
        <5>3. CASE k # n \/ u # t
          BY <5>1, <5>3, <2>4
        <5> QED BY <5>2, <5>3
      <4> QED BY <3>3, <4>1, <2>6, BringsAt, PlaceFields
    <3> QED BY <3>1, <3>2, <3>3, Places
  <2>8. ASSUME NEW p \in Place, NEW q \in Place, Brings(p, x, d)', Brings(q, x, d)', F[p] = F[q]
        PROVE  p = q
    <3>1. Origin(p) /\ Origin(q)
      BY <2>7, <2>8
    <3>2. ~(p = OnLink(n, m, L) /\ q = InHand(n, t)) /\ ~(q = OnLink(n, m, L) /\ p = InHand(n, t))
      <4>1. Brings(InHand(n, t), x, d)' => Carries(n, Proceed(g), x, d)
        BY <2>4, BringsNext
      <4> QED BY <2>5, <2>8, <3>1, <4>1
    <3> QED BY <3>1, <3>2, <2>8
  <2> QED BY <2>7, <2>8 DEF Carried
<1> QED BY <1>7, <1>8 DEF Send

LEMMA ReadPeerCarries ==
    ASSUME TypeOK, Traffic, NEW n \in Server, NEW m \in Server, ReadPeer(n, m), NEW x, NEW d
    PROVE  \E F : Carried(F, x, d)
<1> DEFINE j == Head(chan[m][n])
           L == Len(queue[n]) + 1
           F == [p \in Place |-> IF p = InPool(n, L) THEN OnLink(m, n, 1)
                                 ELSE IF p.in = "link" /\ p.by = m /\ p.at = n THEN OnLink(m, n, p.no + 1) ELSE p]
<1>y. PacketsTyped
  BY TypeParts
<1>1. /\ chan[m][n] \in Seq(Job) /\ chan[m][n] # <<>> /\ j \in Job /\ j \in ToSet(chan[m][n])
      /\ chan' = [chan EXCEPT ![m][n] = Tail(chan[m][n])]
      /\ queue[n] \in Seq(Job) /\ queue' = [queue EXCEPT ![n] = Append(queue[n], j)]
      /\ UNCHANGED frame
  <2>1. chan[m][n] \in Seq(Job) /\ chan[m][n] # <<>> /\ queue[n] \in Seq(Job)
    BY <1>y DEF PacketsTyped, ReadPeer
  <2> QED BY <2>1, ToSetHeadTail DEF ReadPeer
<1>2. /\ 1 \in DOMAIN chan[m][n] /\ chan[m][n][1] = j
      /\ \A i \in DOMAIN Tail(chan[m][n]) :
            i \in Nat \ {0} /\ i + 1 \in DOMAIN chan[m][n] /\ Tail(chan[m][n])[i] = chan[m][n][i + 1]
  BY <1>1
<1>3. /\ L \in Nat \ {0}
      /\ \A i \in DOMAIN Append(queue[n], j) :
            IF i = L THEN Append(queue[n], j)[i] = j
                     ELSE i \in DOMAIN queue[n] /\ Append(queue[n], j)[i] = queue[n][i]
  BY <1>1
<1>c. \A a, b \in Server : chan'[a][b] = IF a = m /\ b = n THEN Tail(chan[m][n]) ELSE chan[a][b]
  BY <1>1, <1>y DEF PacketsTyped
<1>q. \A k \in Server : queue'[k] = IF k = n THEN Append(queue[n], j) ELSE queue[k]
  BY <1>1, <1>y DEF PacketsTyped
<1>o. j.kind \in OfServer
  BY <1>1 DEF Traffic, LinksTrue, OnWire, Sendable
<1> HIDE DEF j, L
<1>4. \A k \in Server, i \in Nat : PoolBrings(k, i, x, d)' =>
          IF k = n /\ i = L THEN LinkBrings(m, n, 1, x, d) ELSE PoolBrings(k, i, x, d)
  <2> SUFFICES ASSUME NEW k \in Server, NEW i \in Nat, PoolBrings(k, i, x, d)'
               PROVE  IF k = n /\ i = L THEN LinkBrings(m, n, 1, x, d) ELSE PoolBrings(k, i, x, d)
    OBVIOUS
  <2>1. i \in DOMAIN queue'[k] /\ Is(queue'[k][i], x) /\ Towards(k, queue'[k][i], d)
    BY DEF PoolBrings, Is, Speech, Own, Towards, Local
  <2>2. CASE k = n /\ i = L
    <3>1. Is(j, x) /\ Towards(n, j, d)
      BY <2>1, <2>2, <1>3, <1>q
    <3>2. Local(n, d)
      BY <3>1, <1>o DEF Towards, Own, OfServer
    <3> QED BY <2>2, <3>1, <3>2, <1>2 DEF LinkBrings
  <2>3. CASE k = n /\ i # L
    BY <2>1, <2>3, <1>3, <1>q DEF PoolBrings
  <2>4. CASE k # n
    <3>1. queue'[k] = queue[k]
      BY <2>4, <1>q
    <3> QED BY <2>1, <2>4, <3>1 DEF PoolBrings
  <2> QED BY <2>2, <2>3, <2>4
<1>5. \A a, b \in Server, i \in Nat : LinkBrings(a, b, i, x, d)' =>
          i # 0 /\ LinkBrings(a, b, IF a = m /\ b = n THEN i + 1 ELSE i, x, d)
  <2> SUFFICES ASSUME NEW a \in Server, NEW b \in Server, NEW i \in Nat, LinkBrings(a, b, i, x, d)'
               PROVE  i # 0 /\ LinkBrings(a, b, IF a = m /\ b = n THEN i + 1 ELSE i, x, d)
    OBVIOUS
  <2>1. i \in DOMAIN chan'[a][b] /\ Is(chan'[a][b][i], x) /\ Local(b, d)
    BY DEF LinkBrings, Is, Speech, Own, Local
  <2>2. CASE a = m /\ b = n
    BY <2>1, <2>2, <1>2, <1>c DEF LinkBrings
  <2>3. CASE ~(a = m /\ b = n)
    <3>1. chan'[a][b] = chan[a][b] /\ chan[a][b] \in Seq(Job)
      BY <2>3, <1>c, <1>y DEF PacketsTyped
    <3> QED BY <2>1, <2>3, <3>1 DEF LinkBrings
  <2> QED BY <2>2, <2>3
<1>6. \A k, u : Carries(k, frame'[k][u], x, d) <=> Carries(k, frame[k][u], x, d)
  BY <1>1
<1>7. /\ F[InPool(n, L)] = OnLink(m, n, 1)
      /\ \A k \in Server, i \in Nat : k # n \/ i # L => F[InPool(k, i)] = InPool(k, i)
      /\ \A a, b \in Server, i \in Nat : F[OnLink(a, b, i)] = OnLink(a, b, IF a = m /\ b = n THEN i + 1 ELSE i)
      /\ \A k \in Server, u \in Thread : F[InHand(k, u)] = InHand(k, u)
  BY <1>3, PlaceTypes, PlaceFields
<1> HIDE DEF F
<1> DEFINE Origin(p) ==
             /\ F[p] \in Place /\ Brings(F[p], x, d)
             /\ \/ p = InPool(n, L) /\ F[p] = OnLink(m, n, 1)
                \/ \E a, b \in Server, i \in Nat \ {0} :
                      p = OnLink(a, b, i) /\ F[p] = OnLink(a, b, IF a = m /\ b = n THEN i + 1 ELSE i)
                \/ p.in # "link" /\ p # InPool(n, L) /\ F[p] = p
<1>8. ASSUME NEW p \in Place, Brings(p, x, d)'
      PROVE  Origin(p)
  <2>1. ASSUME NEW k \in Server, NEW i \in Nat, p = InPool(k, i)
        PROVE  Origin(p)
    <3>1. IF k = n /\ i = L THEN LinkBrings(m, n, 1, x, d) ELSE PoolBrings(k, i, x, d)
      BY <1>8, <2>1, <1>4, BringsNext
    <3>2. CASE k = n /\ i = L
      BY <2>1, <3>1, <3>2, <1>7, BringsAt, PlaceTypes
    <3>3. CASE k # n \/ i # L
      BY <2>1, <3>1, <3>3, <1>7, BringsAt, PlaceFields
    <3> QED BY <3>2, <3>3
  <2>2. ASSUME NEW a \in Server, NEW b \in Server, NEW i \in Nat, p = OnLink(a, b, i)
        PROVE  Origin(p)
    <3>1. i # 0 /\ LinkBrings(a, b, IF a = m /\ b = n THEN i + 1 ELSE i, x, d)
      BY <1>8, <2>2, <1>5, BringsNext
    <3>2. PICK l \in Nat : l = IF a = m /\ b = n THEN i + 1 ELSE i
      OBVIOUS
    <3> QED BY <2>2, <3>1, <3>2, <1>7, BringsAt, PlaceTypes
  <2>3. ASSUME NEW k \in Server, NEW u \in Thread, p = InHand(k, u)
        PROVE  Origin(p)
    BY <1>8, <2>3, <1>6, <1>7, BringsNext, BringsAt, PlaceFields
  <2> QED BY <2>1, <2>2, <2>3, Places
<1>9. ASSUME NEW p \in Place, NEW q \in Place, Brings(p, x, d)', Brings(q, x, d)', F[p] = F[q]
      PROVE  p = q
  <2>1. Origin(p) /\ Origin(q)
    BY <1>8, <1>9
  <2> QED BY <2>1, <1>9, PlaceFields
<1> QED BY <1>8, <1>9 DEF Carried

(* A client speaks: its message is on its way for the first time.             *)
Spoken(x, d) == /\ ~WasSaid(x) /\ WasSaid(x)'
                /\ \E q \in Place : \A p \in Place : Brings(p, x, d)' => Brings(p, x, d) \/ p = q

LEMMA AskSpeaks ==
    ASSUME TypeOK, NEW c \in Client, NEW k \in Will[c], NEW y \in Addressees(c, k), Ask(c, k, y),
           NEW x, NEW d
    PROVE  Quiet(x, d) \/ Spoken(x, d)
<1> USE Homes
<1> DEFINE n == Home[c]
           L == Len(queue[n]) + 1
<1>y. FramesTyped /\ PacketsTyped
  BY TypeParts
<1>1. k \in OfClient /\ y \in Target
  <2>1. Will \in [Client -> SUBSET (OfClient \cup {"hang up"})]
    BY MessagesAssumption DEF OfClient
  <2>2. k \in OfClient \cup {"hang up"}
    BY <2>1
  <2> QED BY <2>2 DEF Addressees, OfClient, Target
<1>2. asked[c] \in Seq(Job) /\ n \in Server /\ queue[n] \in Seq(Job)
  BY <1>y DEF PacketsTyped
<1>3. PICK i \in Nat : i = Len(asked[c]) + 1
  BY <1>2
<1>4. PICK j \in Job : j = Command(c, k, y, i)
  BY <1>1, <1>3, JobTypes
<1>5. j.client = c /\ j.no = i
  BY <1>4 DEF Command
<1>6. /\ asked' = [asked EXCEPT ![c] = Append(asked[c], j)]
      /\ queue' = [queue EXCEPT ![n] = Append(queue[n], j)]
      /\ UNCHANGED chan /\ UNCHANGED frame
  BY <1>3, <1>4 DEF Ask, linkVars
<1>q. \A m \in Server : queue'[m] = IF m = n THEN Append(queue[n], j) ELSE queue[m]
  BY <1>6, <1>y DEF PacketsTyped
<1>7. /\ L \in Nat
      /\ \A l \in DOMAIN Append(queue[n], j) :
            IF l = L THEN Append(queue[n], j)[l] = j
                     ELSE l \in DOMAIN queue[n] /\ Append(queue[n], j)[l] = queue[n][l]
  BY <1>2, <1>4
<1> HIDE DEF L
<1>8. \A m \in Server, l \in Nat : PoolBrings(m, l, x, d)' =>
          PoolBrings(m, l, x, d) \/ (m = n /\ l = L /\ x = Message(j))
  <2> SUFFICES ASSUME NEW m \in Server, NEW l \in Nat, PoolBrings(m, l, x, d)'
               PROVE  PoolBrings(m, l, x, d) \/ (m = n /\ l = L /\ x = Message(j))
    OBVIOUS
  <2>1. l \in DOMAIN queue'[m] /\ Is(queue'[m][l], x) /\ Towards(m, queue'[m][l], d)
    BY DEF PoolBrings, Is, Speech, Own, Towards, Local
  <2>2. CASE m = n /\ l = L
    BY <2>1, <2>2, <1>7, <1>q DEF Is
  <2>3. CASE m = n /\ l # L
    BY <2>1, <2>3, <1>7, <1>q DEF PoolBrings
  <2>4. CASE m # n
    <3>1. queue'[m] = queue[m]
      BY <2>4, <1>q
    <3> QED BY <2>1, <2>4, <3>1 DEF PoolBrings
  <2> QED BY <2>2, <2>3, <2>4
<1>9. \A a, b, l : LinkBrings(a, b, l, x, d)' <=> LinkBrings(a, b, l, x, d)
  BY <1>6 DEF LinkBrings, Is, Speech, Own, Local
<1>10. \A m, u : Carries(m, frame'[m][u], x, d) <=> Carries(m, frame[m][u], x, d)
  BY <1>6
<1>11. CASE x # Message(j)
  <2>1. \A m \in Server, l \in Nat : PoolBrings(m, l, x, d)' => PoolBrings(m, l, x, d)
    BY <1>8, <1>11
  <2> QED BY <2>1, <1>9, <1>10, QuietParts
<1>12. CASE x = Message(j)
  <2>1. x.client = c /\ x.no = i
    BY <1>4, <1>5, <1>12, Messages
  <2>2. asked'[c] = Append(asked[c], j)
    BY <1>6, <1>y DEF PacketsTyped
  <2>3. ~WasSaid(x)
    BY <2>1, <1>2, <1>3 DEF WasSaid
  <2>4. i \in 1..Len(Append(asked[c], j)) /\ Append(asked[c], j)[i] = j
    BY <1>2, <1>3, <1>4
  <2>5. WasSaid(x)'
    <3>1. x.client \in Client /\ x.no \in 1..Len(asked'[x.client])
      BY <2>1, <2>2, <2>4
    <3>2. Message(asked'[x.client][x.no]) = x
      BY <2>1, <2>2, <2>4, <1>12
    <3> QED BY <3>1, <3>2 DEF WasSaid, Message
  <2>6. ASSUME NEW p \in Place, Brings(p, x, d)'
        PROVE  Brings(p, x, d) \/ p = InPool(n, L)
    <3>1. ASSUME NEW m \in Server, NEW l \in Nat, p = InPool(m, l)
          PROVE  Brings(p, x, d) \/ p = InPool(n, L)
      BY <2>6, <3>1, <1>8, BringsNext, BringsAt
    <3>2. ASSUME NEW a \in Server, NEW b \in Server, NEW l \in Nat, p = OnLink(a, b, l)
          PROVE  Brings(p, x, d)
      BY <2>6, <3>2, <1>9, BringsNext, BringsAt
    <3>3. ASSUME NEW m \in Server, NEW u \in Thread, p = InHand(m, u)
          PROVE  Brings(p, x, d)
      BY <2>6, <3>3, <1>10, BringsNext, BringsAt
    <3> QED BY <3>1, <3>2, <3>3, Places
  <2>7. InPool(n, L) \in Place
    BY <1>2, <1>7, PlaceTypes
  <2> QED BY <2>3, <2>5, <2>6, <2>7 DEF Spoken
<1> QED BY <1>11, <1>12

LEMMA Flow ==
    ASSUME TypeOK, Traffic, [Next]_vars, NEW x, NEW d
    PROVE  Quiet(x, d) \/ (\E F : Carried(F, x, d)) \/ Spoken(x, d)
<1> DEFINE P == Quiet(x, d) \/ (\E F : Carried(F, x, d)) \/ Spoken(x, d)
<1>t. Listener \in Thread /\ \A w \in Worker : w \in Thread
  BY DEF Thread
<1>1. ASSUME NEW c \in Client, ClientStep(c)
      PROVE  P
  BY <1>1, AskSpeaks, OtherQuiet DEF ClientStep
<1>2. ASSUME NEW n \in Server, NEW t \in Thread, ThreadStep(n, t)
      PROVE  P
  BY <1>2, SendCarries, ThreadQuiet DEF ThreadStep
<1>3. ASSUME NEW n \in Server, NEW w \in Worker, WorkerStep(n, w)
      PROVE  P
  BY <1>3, <1>2, <1>t, StartCarries, RoomQuiet, MessageQuiet, OtherQuiet DEF WorkerStep
<1>4. ASSUME NEW n \in Server, ListenerStep(n)
      PROVE  P
  BY <1>4, <1>2, <1>t, OtherQuiet DEF ListenerStep
<1>5. ASSUME NEW n \in Server, NEW m \in Server, SocketStep(n, m) \/ NetBreak(n, m)
      PROVE  P
  BY <1>5, ReadPeerCarries, OtherQuiet DEF SocketStep
<1>6. CASE UNCHANGED vars
  BY <1>6, OtherQuiet
<1> QED BY <1>1, <1>3, <1>4, <1>5, <1>6 DEF Next

LEMMA KnownStays ==
    ASSUME TypeOK, [Next]_vars, NEW x, WasSaid(x)
    PROVE  WasSaid(x)'
<1>1. CASE UNCHANGED asked
  BY <1>1 DEF WasSaid, Message
<1>2. ASSUME NEW c \in Client, NEW k, NEW y, Ask(c, k, y)
      PROVE  WasSaid(x)'
  <2> DEFINE j == Command(c, k, y, Len(asked[c]) + 1)
  <2>1. asked' = [asked EXCEPT ![c] = Append(asked[c], j)] /\ asked \in [Client -> Seq(Job)]
    BY <1>2 DEF Ask, TypeOK
  <2> HIDE DEF j
  <2>2. \A d \in Client : asked'[d] = IF d = c THEN Append(asked[c], j) ELSE asked[d]
    BY <2>1
  <2>3. asked[x.client] \in Seq(Job) /\ x.client \in Client /\ x.no \in 1..Len(asked[x.client])
    BY <2>1 DEF WasSaid
  <2>4. \A s \in Seq(Job) : \A i \in 1..Len(s) : i \in 1..Len(Append(s, j)) /\ Append(s, j)[i] = s[i]
    OBVIOUS
  <2>5. x.no \in 1..Len(asked'[x.client]) /\ asked'[x.client][x.no] = asked[x.client][x.no]
    <3>1. PICK s \in Seq(Job), e \in Client : s = asked[e] /\ e = x.client
      BY <2>3
    <3>2. asked'[e] = s \/ asked'[e] = Append(s, j)
      BY <2>2, <3>1
    <3> QED BY <2>3, <2>4, <3>1, <3>2
  <2>6. Message(asked'[x.client][x.no]) = x
    BY <2>5 DEF WasSaid
  <2> QED BY <2>3, <2>5, <2>6 DEF WasSaid, Message
<1> QED BY <1>1, <1>2, AskedStep

-----------------------------------------------------------------------------
Singles == \A x \in Job, d \in Dest : Single(x, d)
Genuine == \A x \in Job :
               \/ \E p \in Place, d \in Dest : Brings(p, x, d)
               \/ \E d \in Client : x \in ToSet(heard[d])
               => WasSaid(x)
Unheard == \A d \in Client : \A x \in ToSet(heard[d]) : \A p \in Place : ~Brings(p, x, d)
Ledger  == Singles /\ Genuine /\ Unheard

(* What a client reads was on its way to it, and is no more.                  *)
Arrives(d, x) == /\ heard'[d] = Append(heard[d], x)
                 /\ \E p \in Place : Brings(p, x, d)
                 /\ \A p \in Place : ~Brings(p, x, d)'

LEMMA HandsOff ==
    ASSUME TypeOK, Traffic, Singles, NEW n \in Server, NEW w \in Worker, MessageStep(n, w),
           NEW x \in Job, NEW d \in Dest, Carries(n, frame[n][w], x, d),
           NEW g \in Frame, Moves(n, w, g), ~Carries(n, g, x, d)
    PROVE  /\ InHand(n, w) \in Place /\ Brings(InHand(n, w), x, d)
           /\ \A p \in Place : ~Brings(p, x, d)'
<1>1. w \in Thread /\ FramesTyped
  BY TypeParts DEF Thread
<1>2. InHand(n, w) \in Place /\ Brings(InHand(n, w), x, d)
  BY <1>1, PlaceTypes, BringsAt
<1>3. ~Brings(InHand(n, w), x, d)'
  <2>1. frame'[n][w] = g
    BY <1>1, MovesOne DEF FramesTyped
  <2> QED BY <2>1, BringsNext
<1>4. \A p \in Place : Brings(p, x, d)' => p = InHand(n, w)
  BY <1>2, MessageQuiet DEF Quiet, Singles, Single
<1> QED BY <1>2, <1>3, <1>4

LEMMA HeardBy ==
    ASSUME TypeOK, Traffic, Singles, [Next]_vars, NEW d \in Client
    PROVE  heard'[d] = heard[d] \/ \E x \in Job : Arrives(d, x)
<1>t. heard \in [Client -> Seq(Job)] /\ FramesTyped /\ d \in Dest
  BY TypeParts DEF PacketsTyped, Dest
<1>f. \A n \in Server, w \in Worker : frame[n][w] \in Frame /\ InFrame(n, frame[n][w])
  BY <1>t DEF FramesTyped, Traffic, FramesTrue, Thread
<1>h. ASSUME NEW c \in Client, NEW x \in Job, heard' = heard \/ heard' = [heard EXCEPT ![c] = Append(heard[c], x)]
      PROVE  heard'[d] = heard[d] \/ (d = c /\ heard'[d] = Append(heard[d], x))
  BY <1>h, <1>t
<1>1. ASSUME NEW n \in Server, NEW w \in Worker, NEW c \in Client, Deliver(n, w, c)
      PROVE  heard'[d] = heard[d] \/ \E x \in Job : Arrives(d, x)
  <2> DEFINE f == frame[n][w]
             g == [f EXCEPT !.to = f.to \ {c}]
  <2>f. f \in Frame /\ InFrame(n, f)
    BY <1>f
  <2>1. f.job \in Job /\ f.to \in SUBSET Client
    BY <2>f DEF Frame
  <2>2. PICK x \in Job : x = Message(f.job)
    BY <2>1, JobTypes
  <2>3. f.pc = "deliver" /\ c \in f.to /\ Moves(n, w, Delivered(g)) /\ MessageStep(n, w)
    BY <1>1 DEF Deliver, MessageStep
  <2>4. heard' = heard \/ heard' = [heard EXCEPT ![c] = Append(heard[c], x)]
    BY <1>1, <2>2 DEF Deliver, Hears
  <2>5. f.job.kind \in {"say", "room", "shout", "broadcast"} /\ Local(n, c)
    BY <2>f, <2>3 DEF InFrame, Local
  <2>6. Carries(n, f, x, c)
    BY <2>2, <2>3, <2>5 DEF Carries, Is, Speech, Own
  <2>7. g \in Frame /\ g.pc = "deliver" /\ g.to = f.to \ {c}
    BY <2>f, <2>1, <2>3 DEF Frame
  <2> HIDE DEF g
  <2>8. Delivered(g) \in Frame /\ ~Carries(n, Delivered(g), x, c)
    BY <2>5, <2>7, DeliveredType, CarriesDelivered
  <2>9. d = c => (\E p \in Place : Brings(p, x, d)) /\ \A p \in Place : ~Brings(p, x, d)'
    BY <1>t, <2>3, <2>6, <2>8, HandsOff
  <2>10. heard'[d] = heard[d] \/ (d = c /\ heard'[d] = Append(heard[d], x))
    BY <2>4, <1>h
  <2> QED BY <2>9, <2>10 DEF Arrives
<1>2. ASSUME NEW n \in Server, NEW w \in Worker, HandOver(n, w)
      PROVE  heard'[d] = heard[d] \/ \E x \in Job : Arrives(d, x)
  <2> DEFINE f == frame[n][w]
             c == f.job.target
  <2>f. f \in Frame /\ InFrame(n, f)
    BY <1>f
  <2>1. f.job \in Job
    BY <2>f DEF Frame
  <2>2. PICK x \in Job : x = Message(f.job)
    BY <2>1, JobTypes
  <2>3. f.pc = "hand over" /\ Moves(n, w, Idle) /\ MessageStep(n, w)
    BY <1>2 DEF HandOver, Doing, MessageStep
  <2>4. heard' = heard \/ heard' = [heard EXCEPT ![c] = Append(heard[c], x)]
    BY <1>2, <2>2 DEF HandOver, Hears
  <2>5. f.job.kind \in {"tell", "private"} /\ c \in Client /\ Local(n, c)
    BY <2>f, <2>3 DEF InFrame, Truthful, Local
  <2>6. Carries(n, f, x, c)
    BY <2>2, <2>3, <2>5 DEF Carries, Is, Speech, Own, Towards
  <2>8. Idle \in Frame /\ ~Carries(n, Idle, x, c)
    BY IdleType, CarriesIdle
  <2>9. d = c => (\E p \in Place : Brings(p, x, d)) /\ \A p \in Place : ~Brings(p, x, d)'
    BY <1>t, <2>3, <2>6, <2>8, HandsOff
  <2>10. heard'[d] = heard[d] \/ (d = c /\ heard'[d] = Append(heard[d], x))
    BY <2>4, <2>5, <1>h
  <2> QED BY <2>9, <2>10 DEF Arrives
<1> QED BY <1>1, <1>2, HeardStep

LEMMA LedgerStep == TypeOK /\ Traffic /\ Ledger /\ [Next]_vars => Ledger'
<1> SUFFICES ASSUME TypeOK, Traffic, Singles, Genuine, Unheard, [Next]_vars
             PROVE  Singles' /\ Genuine' /\ Unheard'
  BY DEF Ledger
<1>t. heard \in [Client -> Seq(Job)]
  BY DEF TypeOK
(* Where x is brought to d after the step, it was before, or it is fresh.     *)
<1>1. ASSUME NEW x \in Job, NEW d \in Dest, NEW p \in Place, Brings(p, x, d)'
      PROVE  Spoken(x, d) \/ \E q \in Place : Brings(q, x, d)
  BY <1>1, Flow DEF Quiet, Carried
<1>h. ASSUME NEW d \in Client, NEW x \in ToSet(heard'[d])
      PROVE  x \in ToSet(heard[d]) \/ Arrives(d, x)
  <2>1. CASE heard'[d] = heard[d]
    BY <2>1, <1>h
  <2>2. ASSUME NEW y \in Job, Arrives(d, y)
        PROVE  x \in ToSet(heard[d]) \/ Arrives(d, x)
    <3>1. ToSet(Append(heard[d], y)) = ToSet(heard[d]) \cup {y}
      <4>1. heard[d] \in Seq(Job)
        BY <1>t
      <4> QED BY <4>1, ToSetAppend
    <3> QED BY <3>1, <2>2, <1>h DEF Arrives
  <2> QED BY <2>1, <2>2, HeardBy
<1>2. Singles'
  <2> SUFFICES ASSUME NEW x \in Job, NEW d \in Dest, NEW p \in Place, NEW q \in Place,
                      Brings(p, x, d)', Brings(q, x, d)'
               PROVE  p = q
    BY DEF Singles, Single
  <2>1. CASE Quiet(x, d)
    BY <2>1 DEF Quiet, Singles, Single
  <2>2. ASSUME NEW F, Carried(F, x, d)
        PROVE  p = q
    BY <2>2 DEF Carried, Singles, Single
  <2>3. CASE Spoken(x, d)
    <3>1. \A r \in Place : ~Brings(r, x, d)
      BY <2>3 DEF Spoken, Genuine
    <3> QED BY <3>1, <2>3 DEF Spoken
  <2> QED BY <2>1, <2>2, <2>3, Flow
<1>3. Genuine'
  <2>1. ASSUME NEW x \in Job, NEW p \in Place, NEW d \in Dest, Brings(p, x, d)'
        PROVE  WasSaid(x)'
    <3>1. Spoken(x, d) \/ WasSaid(x)
      BY <2>1, <1>1 DEF Genuine
    <3> QED BY <3>1, KnownStays DEF Spoken
  <2>2. ASSUME NEW x \in Job, NEW d \in Client, x \in ToSet(heard'[d])
        PROVE  WasSaid(x)'
    <3>1. WasSaid(x)
      BY <2>2, <1>h DEF Genuine, Arrives, Dest
    <3> QED BY <3>1, KnownStays
  <2> QED BY <2>1, <2>2 DEF Genuine
<1>4. Unheard'
  <2> SUFFICES ASSUME NEW d \in Client, NEW x \in ToSet(heard'[d]), NEW p \in Place, Brings(p, x, d)'
               PROVE  FALSE
    BY DEF Unheard
  <2>1. x \in ToSet(heard[d])
    BY <1>h DEF Arrives
  <2>2. x \in Job /\ d \in Dest
    BY <2>1, <1>t, ToSetOfSeq DEF Dest
  <2>3. ~Spoken(x, d)
    BY <2>1, <2>2 DEF Genuine, Spoken
  <2>4. \E q \in Place : Brings(q, x, d)
    BY <2>2, <2>3, <1>1
  <2> QED BY <2>1, <2>4 DEF Unheard
<1> QED BY <1>2, <1>3, <1>4

LEMMA InitLedger == Init => Ledger
<1> SUFFICES ASSUME Init
             PROVE  Ledger
  OBVIOUS
<1>1. ASSUME NEW x, NEW d, NEW p \in Place
      PROVE  ~Brings(p, x, d)
  <2>1. ASSUME NEW n \in Server, NEW i \in Nat, p = InPool(n, i)
        PROVE  ~Brings(p, x, d)
    BY <2>1, BringsAt DEF Init, PoolBrings
  <2>2. ASSUME NEW m \in Server, NEW n \in Server, NEW i \in Nat, p = OnLink(m, n, i)
        PROVE  ~Brings(p, x, d)
    BY <2>2, BringsAt DEF Init, LinkBrings
  <2>3. ASSUME NEW n \in Server, NEW t \in Thread, p = InHand(n, t)
        PROVE  ~Brings(p, x, d)
    <3>1. frame[n][t] = Idle
      BY DEF Init
    <3> QED BY <2>3, <3>1, BringsAt, CarriesIdle
  <2> QED BY <2>1, <2>2, <2>3, Places
<1>2. \A d \in Client : ToSet(heard[d]) = {}
  BY ToSetEmpty DEF Init
<1> QED BY <1>1, <1>2 DEF Ledger, Singles, Single, Genuine, Unheard

LEMMA OneCopyStep == TypeOK /\ Traffic /\ Ledger /\ OneCopyEach /\ [Next]_vars => OneCopyEach'
<1> SUFFICES ASSUME TypeOK, Traffic, Ledger, OneCopyEach, [Next]_vars, NEW d \in Client
             PROVE  \A i, k \in DOMAIN heard'[d] : heard'[d][i] = heard'[d][k] => i = k
  BY DEF OneCopyEach
<1>t. heard[d] \in Seq(Job) /\ \A i, k \in DOMAIN heard[d] : heard[d][i] = heard[d][k] => i = k
  BY DEF TypeOK, OneCopyEach
<1>1. CASE heard'[d] = heard[d]
  BY <1>1, <1>t
<1>2. ASSUME NEW x \in Job, Arrives(d, x)
      PROVE  \A i, k \in DOMAIN heard'[d] : heard'[d][i] = heard'[d][k] => i = k
  <2>1. PICK s \in Seq(Job) : s = heard[d] /\ Append(s, x) = heard'[d]
    BY <1>t, <1>2 DEF Arrives
  <2>a. PICK t : t = Append(s, x)
    OBVIOUS
  <2>2. x \notin ToSet(s)
    BY <1>2, <2>1 DEF Arrives, Ledger, Unheard
  <2>3. \A i, k \in DOMAIN t : t[i] = t[k] => i = k
    BY <1>t, <2>1, <2>2, <2>a, AppendDistinct
  <2> QED BY <2>1, <2>3, <2>a
<1> QED BY <1>1, <1>2, HeardBy DEF Ledger

(* A client reads only what the named sender really sent, no private message  *)
(* for somebody else and no message of a room it never asked to join, for any *)
(* number of servers, rooms, workers and cuts: HandlePrivateMsg, HandleRoom-  *)
(* Msg and HandleS2SRouteMsg address their readers by what ConnectionManager  *)
(* and ChatRoomManager hold, and forward what they were given.                *)
THEOREM ReadersAreAddressed == Safety => []ReadsOnlyItsOwn
<1>1. Init => HeardFits /\ Ledger
  BY InitLedger, ToSetEmpty DEF Init, HeardFits
<1>2. TypeOK /\ HeardFits /\ Ledger => ReadsOnlyItsOwn
  <2> SUFFICES ASSUME TypeOK, HeardFits, Ledger, NEW c \in Client, NEW x \in ToSet(heard[c])
               PROVE  Fits(c, x) /\ WasSaid(x)
    BY DEF ReadsOnlyItsOwn, Fits
  <2>1. x \in Job
    BY ToSetOfSeq DEF TypeOK
  <2> QED BY <2>1 DEF HeardFits, Ledger, Genuine
<1> QED BY <1>1, <1>2, TrafficAlways, HeardFitsStep, LedgerStep, PTL DEF Safety

(* No client reads a message twice, however many servers, rooms and workers:  *)
(* the local delivery of HandleRoomMsg, HandleBroadcastMsg and HandlePrivate- *)
(* Msg and the forwarding to other servers never meet at the same session.    *)
THEOREM MessagesAreReadOnce == Safety => []OneCopyEach
<1>1. Init => OneCopyEach
  BY DEF Init, OneCopyEach
<1> QED BY <1>1, InitLedger, TrafficAlways, LedgerStep, OneCopyStep, PTL DEF Safety

-----------------------------------------------------------------------------
(* Answers.  Who writes them:                                                 *)
LEMMA ToldStep ==
    ASSUME [Next]_vars
    PROVE  \/ UNCHANGED told
           \/ \E n \in Server, w \in Worker : Locate(n, w) \/ HandOver(n, w) \/ Report(n, w)
<1>1. \A n, t : ThreadStep(n, t) => UNCHANGED told
  BY ThreadStepKeeps
<1>2. \A n, w : RoomStep(n, w) => UNCHANGED told
  BY RoomStepKeeps
<1>3. ASSUME NEW n, NEW w, MessageStep(n, w)
      PROVE  UNCHANGED told \/ Locate(n, w) \/ HandOver(n, w) \/ Report(n, w)
  <2>1. GetMembers(n, w) \/ GetAllSessions(n, w) \/ GetServers(n, w) => UNCHANGED told
    BY DEF GetMembers, GetAllSessions, GetServers, clientVars
  <2>2. \A c : Deliver(n, w, c) => UNCHANGED told
    BY DEF Deliver
  <2> QED BY <1>3, <2>1, <2>2 DEF MessageStep
<1>4. \A n, w : Start(n, w) \/ Apply(n, w) => UNCHANGED told
  BY DEF Start, Apply, clientVars
<1>5. \A n \in Server : ListenerStep(n) => UNCHANGED told
  BY <1>1 DEF ListenerStep, Unregister, RemoveSession, clientVars
<1>6. \A n, m \in Server : SocketStep(n, m) \/ NetBreak(n, m) => UNCHANGED told
  BY DEF SocketStep, ReadPeer, PeerEof, NetBreak, clientVars
<1>7. \A c \in Client : ClientStep(c) => UNCHANGED told
  BY DEF ClientStep, Ask, HangUp, clientVars
<1>8. UNCHANGED vars => UNCHANGED told
  BY DEF vars, clientVars
<1> QED BY <1>1, <1>2, <1>3, <1>4, <1>5, <1>6, <1>7, <1>8 DEF Next, WorkerStep

(* An answer e to the sender of x: the request for it was under way and is    *)
(* no more; a refusal ends all that was under way of x; a confirmation to the *)
(* same server comes with the message.                                        *)
Answering(x, e) ==
    /\ x.client \in Client /\ x.target \in Client /\ e.no = x.no
    /\ told' = [told EXCEPT ![x.client] = Append(told[x.client], e)]
    /\ \E p \in Place : Brings(p, x, None) /\ (~e.ok => \A d \in Dest : Brings(p, x, d))
    /\ \A p \in Place : ~Brings(p, x, None)'
    /\ ~e.ok => UNCHANGED heard /\ \A p \in Place, d \in Dest : ~Brings(p, x, d)'
    /\ e.ok /\ Home[x.target] = Home[x.client] => x \in ToSet(heard'[x.target])

Answer == [no : Nat, ok : BOOLEAN]

LEMMA ToldBy ==
    ASSUME TypeOK, Traffic, Singles, [Next]_vars
    PROVE  UNCHANGED told \/ \E x \in Job, e \in Answer : Answering(x, e)
<1>t. /\ heard \in [Client -> Seq(Job)] /\ FramesTyped /\ told \in [Client -> Seq(Answer)]
      /\ None \in Dest
  BY TypeParts DEF PacketsTyped, Answer, Dest
<1>f. \A n \in Server, w \in Worker : frame[n][w] \in Frame /\ InFrame(n, frame[n][w])
  BY <1>t DEF FramesTyped, Traffic, FramesTrue, Thread
<1>i. Idle \in Frame /\ \A n, x, d : ~Carries(n, Idle, x, d)
  BY IdleType, CarriesIdle
<1>1. ASSUME NEW n \in Server, NEW w \in Worker, Locate(n, w), told' # told
      PROVE  \E x \in Job, e \in Answer : Answering(x, e)
  <2> DEFINE f == frame[n][w]
  <2>f. f \in Frame /\ InFrame(n, f) /\ f.job \in Job
    BY <1>f DEF Frame
  <2>1. /\ f.pc = "locate" /\ Moves(n, w, Idle) /\ MessageStep(n, w) /\ UNCHANGED heard
        /\ told' = [told EXCEPT ![f.job.client] = Append(@, [no |-> f.job.no, ok |-> FALSE])]
    BY <1>1 DEF Locate, Tells, MessageStep
  <2>2. f.job.kind = "tell" /\ f.job.client \in Client /\ f.job.target \in Client
    BY <2>f, <2>1 DEF InFrame, Truthful, OfClient
  <2>3. PICK x \in Job : x = Message(f.job)
    BY <2>f, Messages
  <2>4. x.client = f.job.client /\ x.target = f.job.target /\ x.no = f.job.no
    BY <2>f, <2>3, Messages
  <2>5. PICK e \in Answer : e = [no |-> f.job.no, ok |-> FALSE]
    BY <2>f DEF Answer, Job
  <2>6. \A d \in Dest : Carries(n, f, x, d)
    BY <2>1, <2>2, <2>3 DEF Carries, Is, Speech, Own, Towards
  <2>7. \A d \in Dest : /\ InHand(n, w) \in Place /\ Brings(InHand(n, w), x, d)
                        /\ \A p \in Place : ~Brings(p, x, d)'
    BY <2>1, <2>6, <1>i, HandsOff
  <2>8. told' = [told EXCEPT ![x.client] = Append(told[x.client], e)]
    BY <2>1, <2>4, <2>5
  <2>9. e.no = x.no /\ ~e.ok
    BY <2>4, <2>5
  <2> QED BY <2>1, <2>2, <2>4, <2>7, <2>8, <2>9, <1>t DEF Answering
<1>2. ASSUME NEW n \in Server, NEW w \in Worker, HandOver(n, w), told' # told
      PROVE  \E x \in Job, e \in Answer : Answering(x, e)
  <2> DEFINE f == frame[n][w]
  <2>f. f \in Frame /\ InFrame(n, f) /\ f.job \in Job
    BY <1>f DEF Frame
  <2>1. /\ f.pc = "hand over" /\ Moves(n, w, Idle) /\ MessageStep(n, w)
        /\ f.job.kind = "tell" /\ f.job.target \in here
        /\ told' = [told EXCEPT ![f.job.client] = Append(@, [no |-> f.job.no, ok |-> TRUE])]
        /\ heard' = [heard EXCEPT ![f.job.target] = Append(@, Message(f.job))]
    BY <1>2 DEF HandOver, Doing, Tells, Hears, Answers, MessageStep
  <2>2. f.job.client \in Client /\ f.job.target \in Client
    BY <2>f, <2>1 DEF InFrame, Truthful, OfClient
  <2>3. PICK x \in Job : x = Message(f.job)
    BY <2>f, Messages
  <2>4. x.client = f.job.client /\ x.target = f.job.target /\ x.no = f.job.no
    BY <2>f, <2>3, Messages
  <2>5. PICK e \in Answer : e = [no |-> f.job.no, ok |-> TRUE]
    BY <2>f DEF Answer, Job
  <2>6. Carries(n, f, x, None)
    BY <2>1, <2>2, <2>3 DEF Carries, Is, Speech, Own, Towards
  <2>7. /\ InHand(n, w) \in Place /\ Brings(InHand(n, w), x, None)
        /\ \A p \in Place : ~Brings(p, x, None)'
    BY <2>1, <2>6, <1>i, <1>t, HandsOff
  <2>8. told' = [told EXCEPT ![x.client] = Append(told[x.client], e)]
    BY <2>1, <2>4, <2>5
  <2>9. e.no = x.no /\ e.ok
    BY <2>4, <2>5
  <2>10. x \in ToSet(heard'[x.target])
    <3>1. PICK s \in Seq(Job) : s = heard[x.target]
      BY <2>2, <2>4, <1>t
    <3>2. heard'[x.target] = Append(s, x)
      BY <2>1, <2>2, <2>3, <2>4, <3>1, <1>t
    <3>3. ToSet(Append(s, x)) = ToSet(s) \cup {x}
      BY ToSetAppend
    <3> QED BY <3>2, <3>3
  <2> QED BY <2>2, <2>4, <2>7, <2>8, <2>9, <2>10 DEF Answering
<1>3. ASSUME NEW n \in Server, NEW w \in Worker, Report(n, w)
      PROVE  \E x \in Job, e \in Answer : Answering(x, e)
  <2> DEFINE f == frame[n][w]
  <2>f. f \in Frame /\ InFrame(n, f) /\ f.job \in Job
    BY <1>f DEF Frame
  <2>1. /\ f.pc = "report" /\ Moves(n, w, Idle) /\ MessageStep(n, w)
        /\ told' = [told EXCEPT ![f.job.client] = Append(@, [no |-> f.job.no, ok |-> TRUE])]
    BY <1>3 DEF Report, Doing, Tells, MessageStep
  <2>2. /\ f.job.kind = "private" /\ f.job.client \in Client /\ f.job.target \in Client
        /\ Home[f.job.client] = n /\ Home[f.job.target] # n
    BY <2>f, <2>1 DEF InFrame, Truthful, Sendable, OfSender
  <2>3. PICK x \in Job : x = Message(f.job)
    BY <2>f, Messages
  <2>4. x.client = f.job.client /\ x.target = f.job.target /\ x.no = f.job.no
    BY <2>f, <2>3, Messages
  <2>5. PICK e \in Answer : e = [no |-> f.job.no, ok |-> TRUE]
    BY <2>f DEF Answer, Job
  <2>6. Carries(n, f, x, None)
    BY <2>1, <2>2, <2>3 DEF Carries, Is, Speech, Own
  <2>7. /\ InHand(n, w) \in Place /\ Brings(InHand(n, w), x, None)
        /\ \A p \in Place : ~Brings(p, x, None)'
    BY <2>1, <2>6, <1>i, <1>t, HandsOff
  <2>8. told' = [told EXCEPT ![x.client] = Append(told[x.client], e)]
    BY <2>1, <2>4, <2>5
  <2>9. e.no = x.no /\ e.ok
    BY <2>4, <2>5
  <2> QED BY <2>2, <2>4, <2>7, <2>8, <2>9 DEF Answering
<1> QED BY <1>1, <1>2, <1>3, ToldStep

(* The answer a is the one to x, and what it says of x holds.                 *)
Settled(a, x) ==
    /\ WasSaid(x) /\ x.no = a.no /\ x.target \in Client
    /\ \A p \in Place : ~Brings(p, x, None)
    /\ ~a.ok => /\ x \notin ToSet(heard[x.target])
                /\ \A p \in Place, d \in Dest : ~Brings(p, x, d)
    /\ a.ok /\ Home[x.target] = Home[x.client] => x \in ToSet(heard[x.target])

Accounts(c, s) ==
    /\ \A k \in DOMAIN s : \E x \in Job : x.client = c /\ Settled(s[k], x)
    /\ \A k, l \in DOMAIN s : s[k].no = s[l].no => k = l
Answered == \A c \in Client : Accounts(c, told[c])

(* What is settled stays so.                                                  *)
LEMMA SettledStays ==
    ASSUME TypeOK, Traffic, Ledger, [Next]_vars, NEW a, NEW x \in Job, Settled(a, x)
    PROVE  Settled(a, x)'
<1>t. heard \in [Client -> Seq(Job)]
  BY DEF TypeOK
<1>1. WasSaid(x)' /\ WasSaid(x) /\ x.no = a.no /\ x.target \in Client /\ x.target \in Dest /\ None \in Dest
  BY KnownStays DEF Settled, Dest
<1>2. ASSUME NEW d \in Dest, \A p \in Place : ~Brings(p, x, d)
      PROVE  \A p \in Place : ~Brings(p, x, d)'
  BY <1>1, <1>2, Flow DEF Quiet, Carried, Spoken
<1>3. PICK s \in Seq(Job) : s = heard[x.target]
  BY <1>1, <1>t
<1>4. heard'[x.target] = s \/ \E y \in Job : /\ ToSet(heard'[x.target]) = ToSet(s) \cup {y}
                                             /\ \E p \in Place : Brings(p, y, x.target)
  <2>1. heard'[x.target] = heard[x.target] \/ \E y \in Job : Arrives(x.target, y)
    BY <1>1, HeardBy DEF Ledger
  <2>2. \A y \in Job : ToSet(Append(s, y)) = ToSet(s) \cup {y}
    BY ToSetAppend
  <2> QED BY <2>1, <2>2, <1>3 DEF Arrives
<1>5. x \in ToSet(heard[x.target]) => x \in ToSet(heard'[x.target])
  BY <1>3, <1>4
<1>6. ASSUME x \notin ToSet(heard[x.target]), \A p \in Place, d \in Dest : ~Brings(p, x, d)
      PROVE  x \notin ToSet(heard'[x.target])
  BY <1>1, <1>3, <1>4, <1>6
<1>7. \A p \in Place : ~Brings(p, x, None)'
  BY <1>1, <1>2 DEF Settled
<1>8. ~a.ok => (\A p \in Place, d \in Dest : ~Brings(p, x, d)') /\ x \notin ToSet(heard'[x.target])
  BY <1>2, <1>6 DEF Settled
<1>9. a.ok /\ Home[x.target] = Home[x.client] => x \in ToSet(heard'[x.target])
  BY <1>5 DEF Settled
<1> QED BY <1>1, <1>7, <1>8, <1>9 DEF Settled

LEMMA NewlySettled ==
    ASSUME TypeOK, Traffic, Ledger, [Next]_vars, NEW x \in Job, NEW e \in Answer, Answering(x, e)
    PROVE  Settled(e, x)' /\ WasSaid(x) /\ \A a, y : Settled(a, y) /\ y.client = x.client => a.no # e.no
<1>t. x.client \in Client /\ x.target \in Client /\ x.target \in Dest /\ None \in Dest /\ e.no = x.no
  BY DEF Answering, Dest
<1>1. PICK p \in Place : Brings(p, x, None) /\ (~e.ok => \A d \in Dest : Brings(p, x, d))
  BY DEF Answering
<1>2. WasSaid(x)
  BY <1>1, <1>t DEF Ledger, Genuine
<1>3. WasSaid(x)'
  BY <1>2, KnownStays
<1>4. ~e.ok => x \notin ToSet(heard'[x.target])
  <2>1. ~e.ok => x \notin ToSet(heard[x.target])
    BY <1>1, <1>t DEF Ledger, Unheard
  <2> QED BY <2>1 DEF Answering
<1>5. Settled(e, x)'
  BY <1>t, <1>3, <1>4 DEF Settled, Answering
<1>6. ASSUME NEW a, NEW y, Settled(a, y), y.client = x.client
      PROVE  a.no # e.no
  <2> SUFFICES ASSUME a.no = e.no
               PROVE  FALSE
    OBVIOUS
  <2>1. y = x
    BY <1>2, <1>6, <1>t DEF Settled, WasSaid
  <2> QED BY <2>1, <1>1, <1>6 DEF Settled
<1> QED BY <1>2, <1>5, <1>6

LEMMA AnsweredStep == TypeOK /\ Traffic /\ Ledger /\ Answered /\ [Next]_vars => Answered'
<1> SUFFICES ASSUME TypeOK, Traffic, Ledger, Answered, [Next]_vars, NEW c \in Client
             PROVE  Accounts(c, told[c])'
  BY DEF Answered
<1>t. told \in [Client -> Seq(Answer)]
  BY DEF TypeOK, Answer
<1>1. PICK r \in Seq(Answer) : r = told[c] /\ Accounts(c, r)
  BY <1>t DEF Answered
<1>2. ASSUME NEW k \in DOMAIN r
      PROVE  \E x \in Job : x.client = c /\ Settled(r[k], x)'
  <2>1. PICK x \in Job : x.client = c /\ Settled(r[k], x)
    BY <1>1 DEF Accounts
  <2>2. Settled(r[k], x)'
    BY <2>1, SettledStays
  <2> QED BY <2>1, <2>2
<1>3. Accounts(c, r)'
  BY <1>1, <1>2 DEF Accounts
<1>4. CASE told'[c] = r
  BY <1>3, <1>4 DEF Accounts
<1>5. ASSUME NEW x \in Job, NEW e \in Answer, Answering(x, e), x.client = c
      PROVE  Accounts(c, told[c])'
  <2>1. PICK s \in Seq(Answer) : s = Append(r, e)
    <3>1. r \in Seq(Answer) /\ e \in Answer
      BY <1>1, <1>5
    <3>2. \A S : \A q \in Seq(S), i \in S : Append(q, i) \in Seq(S)
      OBVIOUS
    <3> QED BY <3>1, <3>2
  <2>2. told'[c] = s
    BY <2>1, <1>1, <1>5, <1>t DEF Answering
  <2>3. /\ Settled(e, x)'
        /\ \A k \in DOMAIN r : r[k].no # e.no
    BY <1>1, <1>5, NewlySettled DEF Accounts
  <2>4. /\ DOMAIN s = 1..(Len(r) + 1) /\ DOMAIN r = 1..Len(r) /\ Len(r) \in Nat
        /\ \A k \in 1..Len(r) : s[k] = r[k]
        /\ s[Len(r) + 1] = e
    BY <2>1
  <2>5. \A k \in DOMAIN s : k \in DOMAIN r \/ k = Len(r) + 1
    BY <2>4
  <2>6. \A k \in DOMAIN s : \E y \in Job : y.client = c /\ Settled(s[k], y)'
    <3> TAKE k \in DOMAIN s
    <3>1. CASE k \in DOMAIN r
      BY <3>1, <2>4, <1>2
    <3>2. CASE k = Len(r) + 1
      BY <3>2, <2>3, <2>4, <1>5
    <3> QED BY <3>1, <3>2, <2>5
  <2>7. \A k, l \in DOMAIN s : s[k].no = s[l].no => k = l
    BY <1>1, <2>3, <2>4, <2>5 DEF Accounts
  <2>8. Accounts(c, s)'
    BY <2>6, <2>7 DEF Accounts
  <2> QED BY <2>2, <2>8 DEF Accounts
<1>6. CASE UNCHANGED told
  BY <1>6, <1>1, <1>4
<1>7. ASSUME NEW x \in Job, NEW e \in Answer, Answering(x, e), x.client # c
      PROVE  Accounts(c, told[c])'
  <2>1. told'[c] = r
    BY <1>1, <1>7, <1>t DEF Answering
  <2> QED BY <2>1, <1>4
<1> QED BY <1>5, <1>6, <1>7, ToldBy DEF Ledger

LEMMA AnsweredTrue == TypeOK /\ Answered => AnswersAreTrue
<1> SUFFICES ASSUME TypeOK, Answered, NEW c \in Client, NEW k \in DOMAIN told[c]
             PROVE  LET j == asked[c][told[c][k].no]
                        read == j.target \in Client /\ Contains(heard[j.target], Message(j))
                    IN /\ Outcomes(c, told[c][k].no) = {k}
                       /\ ~told[c][k].ok => ~read
                       /\ told[c][k].ok /\ Home[j.target] = Home[c] => read
  BY DEF AnswersAreTrue
<1> DEFINE j == asked[c][told[c][k].no]
<1>t. asked \in [Client -> Seq(Job)] /\ heard \in [Client -> Seq(Job)]
  BY DEF TypeOK
<1>1. PICK x \in Job : x.client = c /\ Settled(told[c][k], x)
  BY DEF Answered, Accounts
<1>2. /\ x.no \in 1..Len(asked[c]) /\ x.no = told[c][k].no /\ x.target \in Client
      /\ Message(asked[c][x.no]) = x
  BY <1>1 DEF Settled, WasSaid
<1>3. j \in Job /\ Message(j) = x
  BY <1>2, <1>t
<1>4. j.target = x.target
  BY <1>3, Messages
<1>5. Contains(heard[x.target], x) <=> x \in ToSet(heard[x.target])
  <2>1. PICK s \in Seq(Job) : s = heard[x.target]
    BY <1>2, <1>t
  <2>2. DOMAIN s = 1..Len(s)
    OBVIOUS
  <2>3. Contains(s, x) <=> x \in ToSet(s)
    BY <2>2 DEF Contains, ToSet
  <2> QED BY <2>1, <2>3
<1>6. Outcomes(c, told[c][k].no) = {k}
  BY DEF Outcomes, Answered, Accounts
<1> HIDE DEF j
<1>7. /\ ~told[c][k].ok => x \notin ToSet(heard[x.target])
      /\ told[c][k].ok /\ Home[x.target] = Home[c] => x \in ToSet(heard[x.target])
  BY <1>1 DEF Settled
<1>8. /\ ~told[c][k].ok => ~(j.target \in Client /\ Contains(heard[j.target], Message(j)))
      /\ told[c][k].ok /\ Home[j.target] = Home[c] => j.target \in Client /\ Contains(heard[j.target], Message(j))
  BY <1>2, <1>3, <1>4, <1>5, <1>7
<1> QED BY <1>6, <1>8 DEF j

(* HandlePrivateMsg and HandleS2SRouteMsg answer a message once at most: what *)
(* they call delivered to a client of the same server was read, what they     *)
(* call undeliverable never is, whatever runs next to them and whatever links *)
(* break.                                                                     *)
THEOREM AnswersHold == Safety => []AnswersAreTrue
<1>1. Init => Answered
  BY DEF Init, Answered, Accounts
<1> QED BY <1>1, InitLedger, TrafficAlways, LedgerStep, AnsweredStep, AnsweredTrue, PTL DEF Safety

-----------------------------------------------------------------------------
(* Rooms.  Serves: worker w of client c's server handles a packet of c, or    *)
(* what it sends on.                                                          *)
Serves(n, w, c) == frame[n][w].pc # "idle" /\ frame[n][w].job.client = c
Halfway == {"test first", "insert", "erase"}

(* What a step does to a worker outside the handlers of rooms: none is caught *)
(* between the two sets of rooms, and only Start gives it a client.           *)
Elsewhere(n, w) ==
    LET f == frame[n][w] g == frame'[n][w] IN
    /\ f.pc \notin Halfway /\ g.pc \notin Halfway
    /\ g.pc # "idle" /\ g.job.client \in Client => f.pc # "idle" /\ g.job.client = f.job.client

LEMMA OnwardsProceed ==
    ASSUME NEW f \in Frame
    PROVE  /\ Proceed(f).pc \in {"send", "remove", "report", "idle"}
           /\ Proceed(f) = Idle \/ Proceed(f).job = f.job
<1>1. /\ [f EXCEPT !.pc = "send", !.peer = None].pc = "send"
      /\ [f EXCEPT !.pc = "send", !.peer = None].job = f.job
      /\ [f EXCEPT !.pc = "remove", !.peer = None].pc = "remove"
      /\ [f EXCEPT !.pc = "remove", !.peer = None].job = f.job
      /\ [f EXCEPT !.pc = "report", !.peer = None].pc = "report"
      /\ [f EXCEPT !.pc = "report", !.peer = None].job = f.job
  BY DEF Frame
<1>2. Idle.pc = "idle"
  BY DEF Idle
<1> QED BY <1>1, <1>2 DEF Proceed

LEMMA OnwardsSends ==
    ASSUME NEW f \in Frame, NEW j \in Job, NEW T \in SUBSET Server
    PROVE  /\ Sends(f, j, T).pc \in {"send", "remove", "report", "idle"}
           /\ Sends(f, j, T) = Idle \/ Sends(f, j, T).job = j
<1>1. [f EXCEPT !.job = j, !.todo = T] \in Frame /\ [f EXCEPT !.job = j, !.todo = T].job = j
  BY DEF Frame
<1> QED BY <1>1, OnwardsProceed DEF Sends

LEMMA OnwardsDelivered ==
    ASSUME NEW f \in Frame, f.pc = "deliver"
    PROVE  /\ Delivered(f).pc \in {"deliver", "servers", "idle"}
           /\ Delivered(f) = Idle \/ Delivered(f).job = f.job
<1>1. [f EXCEPT !.pc = "servers"].pc = "servers" /\ [f EXCEPT !.pc = "servers"].job = f.job
  BY DEF Frame
<1>2. Idle.pc = "idle"
  BY DEF Idle
<1> QED BY <1>1, <1>2 DEF Delivered

(* A thread whose frame keeps its packet, or is done with it.                 *)
LEMMA Onwards ==
    ASSUME FramesTyped, NEW n \in Server, NEW t \in Thread, NEW g \in Frame, Moves(n, t, g),
           frame[n][t].pc \notin Halfway \cup {"idle"}, g.pc \notin Halfway,
           g = Idle \/ g.job = frame[n][t].job \/ g.job.client \notin Client
    PROVE  Elsewhere(n, t)
<1>1. frame'[n][t] = g
  BY MovesOne DEF FramesTyped
<1>2. g.pc = "idle" \/ g.job = frame[n][t].job \/ g.job.client \notin Client
  BY DEF Idle
<1> QED BY <1>1, <1>2 DEF Elsewhere

LEMMA ThreadElsewhere ==
    ASSUME TypeOK, NEW n \in Server, NEW t \in Thread, ThreadStep(n, t)
    PROVE  Elsewhere(n, t)
<1> DEFINE f == frame[n][t]
<1>y. FramesTyped
  BY TypeParts
<1>f. f \in Frame
  BY <1>y DEF FramesTyped
<1>j. f.job \in Job /\ f.todo \in SUBSET Server
  BY <1>f DEF Frame
<1>i. Idle.pc = "idle"
  BY DEF Idle
<1>l. {"unlink", "clear users", "clear rooms"} \subseteq Label
  BY LabelValues
<1>1. ASSUME NEW m \in Server, Send(n, t, m)
      PROVE  Elsewhere(n, t)
  <2> DEFINE g == [f EXCEPT !.todo = f.todo \ {m}]
  <2>1. f.pc = "send" /\ Moves(n, t, Proceed(g))
    BY <1>1 DEF Send
  <2>2. g \in Frame /\ g.job = f.job
    BY <1>f, <1>j DEF Frame
  <2> HIDE DEF g
  <2>3. /\ Proceed(g) \in Frame /\ Proceed(g).pc \notin Halfway
        /\ Proceed(g) = Idle \/ Proceed(g).job = f.job
    BY <2>2, ProceedType, OnwardsProceed DEF Halfway
  <2> QED BY <2>1, <2>3, <1>y, Onwards DEF Halfway
<1>2. ASSUME NEW m \in Server, SendFails(n, t, m)
      PROVE  Elsewhere(n, t)
  <2> DEFINE g == [f EXCEPT !.pc = "unlink", !.todo = f.todo \ {m}, !.peer = m]
  <2>1. f.pc = "send" /\ Moves(n, t, g)
    BY <1>2 DEF SendFails
  <2>2. g \in Frame /\ g.job = f.job /\ g.pc = "unlink"
    BY <1>f, <1>j, <1>l DEF Frame
  <2> HIDE DEF g
  <2> QED BY <2>1, <2>2, <1>y, Onwards DEF Halfway
<1>3. CASE Unlink(n, t)
  <2> DEFINE g == [f EXCEPT !.pc = "clear users"]
  <2>1. f.pc = "unlink" /\ Moves(n, t, g)
    BY <1>3 DEF Unlink, Goes
  <2>2. g \in Frame /\ g.job = f.job /\ g.pc = "clear users"
    BY <1>f, <1>l DEF Frame
  <2> HIDE DEF g
  <2> QED BY <2>1, <2>2, <1>y, Onwards DEF Halfway
<1>4. CASE ClearUsers(n, t)
  <2> DEFINE g == [f EXCEPT !.pc = "clear rooms"]
  <2>1. f.pc = "clear users" /\ Moves(n, t, g)
    BY <1>4 DEF ClearUsers, Goes, Doing
  <2>2. g \in Frame /\ g.job = f.job /\ g.pc = "clear rooms"
    BY <1>f, <1>l DEF Frame
  <2> HIDE DEF g
  <2> QED BY <2>1, <2>2, <1>y, Onwards DEF Halfway
<1>5. CASE ClearRooms(n, t)
  <2>1. f.pc = "clear rooms" /\ Moves(n, t, Proceed(f))
    BY <1>5 DEF ClearRooms
  <2>3. /\ Proceed(f) \in Frame /\ Proceed(f).pc \notin Halfway
        /\ Proceed(f) = Idle \/ Proceed(f).job = f.job
    BY <1>f, ProceedType, OnwardsProceed DEF Halfway
  <2> QED BY <2>1, <2>3, <1>y, Onwards DEF Halfway
<1> QED BY <1>1, <1>2, <1>3, <1>4, <1>5 DEF ThreadStep

LEMMA MessageElsewhere ==
    ASSUME TypeOK, Traffic, NEW n \in Server, NEW w \in Worker, MessageStep(n, w)
    PROVE  Elsewhere(n, w)
<1> DEFINE f == frame[n][w]
<1>y. FramesTyped /\ TablesTyped /\ w \in Thread
  BY TypeParts DEF Thread
<1>f. f \in Frame /\ InFrame(n, f)
  BY <1>y DEF FramesTyped, Traffic, FramesTrue
<1>j. f.job \in Job /\ f.to \in SUBSET Client
  BY <1>f DEF Frame
<1>l. {"deliver", "hand over"} \subseteq Label
  BY LabelValues
<1>m. Message(f.job) \in Job /\ Message(f.job).client = f.job.client
  BY <1>j, JobTypes DEF Message, Job
<1>i. Idle \in Frame /\ Idle.pc \notin Halfway
  BY IdleType DEF Idle, Halfway
<1>d. ASSUME NEW g \in Frame, g.pc = "deliver", g.job = f.job, Moves(n, w, Delivered(g)),
             f.pc \in {"members", "sessions", "deliver"}
      PROVE  Elsewhere(n, w)
  <2>1. /\ Delivered(g) \in Frame /\ Delivered(g).pc \notin Halfway
        /\ Delivered(g) = Idle \/ Delivered(g).job = f.job
    BY <1>d, DeliveredType, OnwardsDelivered DEF Halfway
  <2> QED BY <2>1, <1>d, <1>y, Onwards DEF Halfway
<1>s. ASSUME NEW T \in SUBSET Server, Moves(n, w, Sends(f, Message(f.job), T)), f.pc \in {"servers", "locate"}
      PROVE  Elsewhere(n, w)
  <2> DEFINE g == Sends(f, Message(f.job), T)
  <2>1. g \in Frame /\ g.pc \in {"send", "remove", "report", "idle"} /\ (g = Idle \/ g.job = Message(f.job))
    BY <1>s, <1>f, <1>m, SendsType, OnwardsSends
  <2>2. Moves(n, w, g)
    BY <1>s
  <2> HIDE DEF g
  <2>3. frame'[n][w] = g
    BY <2>1, <2>2, <1>y, MovesOne DEF FramesTyped
  <2>4. g.pc = "idle" \/ g.job.client = f.job.client
    BY <2>1, <1>m DEF Idle
  <2> QED BY <2>1, <2>3, <2>4, <1>s DEF Elsewhere, Halfway
<1>1. CASE GetMembers(n, w)
  <2> DEFINE g == [f EXCEPT !.pc = "deliver", !.to = LocalMembers(n, f.job.target)]
  <2>1. f.pc = "members" /\ Moves(n, w, Delivered(g))
    BY <1>1 DEF GetMembers
  <2>2. LocalMembers(n, f.job.target) \in SUBSET Client
    BY <2>1, <1>f, <1>y DEF InFrame, Truthful, LocalMembers, TablesTyped
  <2>3. g \in Frame /\ g.pc = "deliver" /\ g.job = f.job
    BY <2>2, <1>f, <1>l DEF Frame
  <2> HIDE DEF g
  <2> QED BY <2>1, <2>3, <1>d
<1>2. CASE GetAllSessions(n, w)
  <2> DEFINE g == [f EXCEPT !.pc = "deliver", !.to = Sessions(n)]
  <2>1. f.pc = "sessions" /\ Moves(n, w, Delivered(g))
    BY <1>2 DEF GetAllSessions
  <2>2. Sessions(n) \in SUBSET Client
    BY <1>y DEF Sessions, TablesTyped
  <2>3. g \in Frame /\ g.pc = "deliver" /\ g.job = f.job
    BY <2>2, <1>f, <1>l DEF Frame
  <2> HIDE DEF g
  <2> QED BY <2>1, <2>3, <1>d
<1>3. ASSUME NEW c, Deliver(n, w, c)
      PROVE  Elsewhere(n, w)
  <2> DEFINE g == [f EXCEPT !.to = f.to \ {c}]
  <2>1. f.pc = "deliver" /\ Moves(n, w, Delivered(g))
    BY <1>3 DEF Deliver
  <2>3. g \in Frame /\ g.pc = "deliver" /\ g.job = f.job
    BY <2>1, <1>f, <1>j DEF Frame
  <2> HIDE DEF g
  <2> QED BY <2>1, <2>3, <1>d
<1>4. CASE GetServers(n, w)
  <2> DEFINE T == IF f.job.kind = "shout" THEN Peers(n) ELSE remote[n][f.job.target]
  <2>1. f.pc = "servers" /\ Moves(n, w, Sends(f, Message(f.job), T))
    BY <1>4 DEF GetServers
  <2>2. f.job.kind = "say" => f.job.target \in Room
    BY <1>f DEF InFrame, Truthful
  <2>3. T \in SUBSET Server
    BY <2>1, <2>2, <1>f, <1>y DEF InFrame, TablesTyped, Peers
  <2> HIDE DEF T
  <2> QED BY <2>1, <2>3, <1>s
<1>5. CASE Locate(n, w)
  <2>1. f.pc = "locate" /\ f.job.target \in Client
    BY <1>5, <1>f DEF Locate, InFrame, Truthful
  <2>2. Home[f.job.target] \in Server
    BY <2>1, Homes
  <2>3. CASE Moves(n, w, Idle)
    BY <2>1, <2>3, <1>i, <1>y, Onwards DEF Halfway
  <2>4. CASE Goes(n, w, "hand over")
    <3> DEFINE g == [f EXCEPT !.pc = "hand over"]
    <3>1. Moves(n, w, g)
      BY <2>4 DEF Goes
    <3>2. g \in Frame /\ g.job = f.job /\ g.pc = "hand over"
      BY <1>f, <1>l DEF Frame
    <3> HIDE DEF g
    <3> QED BY <3>1, <3>2, <2>1, <1>y, Onwards DEF Halfway
  <2>5. CASE Moves(n, w, Sends(f, Message(f.job), {Home[f.job.target]}))
    BY <2>1, <2>2, <2>5, <1>s
  <2>6. \/ Moves(n, w, Idle) \/ Goes(n, w, "hand over")
        \/ Moves(n, w, Sends(f, Message(f.job), {Home[f.job.target]}))
    BY <1>5, Zenon DEF Locate
  <2> QED BY <2>3, <2>4, <2>5, <2>6
<1>6. CASE HandOver(n, w)
  BY <1>6, <1>i, <1>y, Onwards DEF HandOver, Doing, Halfway
<1>7. CASE Report(n, w)
  BY <1>7, <1>i, <1>y, Onwards DEF Report, Doing, Halfway
<1> QED BY <1>1, <1>2, <1>3, <1>4, <1>5, <1>6, <1>7 DEF MessageStep

(* One thread at a time: whichever moves, the other frames stay.              *)
Moving(n, t) == \E g : Moves(n, t, g)

LEMMA WorkerMoving ==
    ASSUME NEW n, NEW t, WorkerStep(n, t) \/ ThreadStep(n, t) \/ (t = Listener /\ ListenerStep(n))
    PROVE  Moving(n, t)
<1>1. Goes(n, t, "test first") \/ Goes(n, t, "erase") \/ Goes(n, t, "test last") \/ Goes(n, t, "clear users")
        \/ Goes(n, t, "clear rooms") \/ Goes(n, t, "depart") \/ Goes(n, t, "members") \/ Goes(n, t, "hand over")
        => Moving(n, t)
  BY Zenon DEF Goes, Moving
<1>2. ASSUME ThreadStep(n, t)
      PROVE  Moving(n, t)
  <2>1. ASSUME NEW m, Send(n, t, m) \/ SendFails(n, t, m)
        PROVE  Moving(n, t)
    BY <2>1, Zenon DEF Send, SendFails, Moving
  <2>2. CASE Unlink(n, t) \/ ClearUsers(n, t) \/ ClearRooms(n, t)
    BY <2>2, <1>1, Zenon DEF Unlink, ClearUsers, ClearRooms, Moving
  <2> QED BY <1>2, <2>1, <2>2 DEF ThreadStep
<1>3. ASSUME RoomStep(n, t)
      PROVE  Moving(n, t)
  <2>1. CASE Enter(n, t) \/ Depart(n, t) \/ Erase(n, t)
    BY <2>1, <1>1, Zenon DEF Enter, Depart, Erase
  <2>2. CASE TestFirst(n, t) \/ Insert(n, t)
    BY <2>2, Zenon DEF TestFirst, Insert, Moving
  <2>3. CASE TestMember(n, t)
    BY <2>3, <1>1, Zenon DEF TestMember, Moving
  <2>4. CASE TestLast(n, t)
    BY <2>4, Zenon DEF TestLast, Moving
  <2> QED BY <1>3, <2>1, <2>2, <2>3, <2>4 DEF RoomStep
<1>4. ASSUME MessageStep(n, t)
      PROVE  Moving(n, t)
  <2>1. CASE GetMembers(n, t) \/ GetAllSessions(n, t)
    BY <2>1, Zenon DEF GetMembers, GetAllSessions, Moving
  <2>2. CASE GetServers(n, t)
    BY <2>2, Zenon DEF GetServers, Moving
  <2>3. ASSUME NEW c, Deliver(n, t, c)
        PROVE  Moving(n, t)
    BY <2>3, Zenon DEF Deliver, Moving
  <2>4. CASE Locate(n, t)
    BY <2>4, <1>1, Zenon DEF Locate, Moving
  <2>5. CASE HandOver(n, t) \/ Report(n, t)
    BY <2>5, Zenon DEF HandOver, Report, Moving
  <2> QED BY <1>4, <2>1, <2>2, <2>3, <2>4, <2>5 DEF MessageStep
<1>5. ASSUME Start(n, t) \/ Apply(n, t)
      PROVE  Moving(n, t)
  BY <1>5, Zenon DEF Start, Apply, Moving
<1>6. ASSUME t = Listener, ListenerStep(n)
      PROVE  Moving(n, t)
  <2>1. CASE Unregister(n) \/ RemoveSession(n)
    BY <2>1, <1>6, Zenon DEF Unregister, RemoveSession, Moving
  <2> QED BY <1>6, <1>2, <2>1 DEF ListenerStep
<1> QED BY <1>2, <1>3, <1>4, <1>5, <1>6 DEF WorkerStep

LEMMA OthersStay ==
    ASSUME FramesTyped, NEW n \in Server, NEW t \in Thread, Moving(n, t),
           NEW k \in Server, NEW x \in Thread, k # n \/ x # t
    PROVE  frame'[k][x] = frame[k][x]
<1>1. PICK g : Moves(n, t, g)
  BY DEF Moving
<1> QED BY <1>1 DEF FramesTyped, Moves

LEMMA ApplyElsewhere ==
    ASSUME TypeOK, NEW n \in Server, NEW w \in Worker, Apply(n, w)
    PROVE  Elsewhere(n, w)
<1>1. FramesTyped /\ w \in Thread /\ Idle \in Frame /\ Idle.pc \notin Halfway
  BY TypeParts, IdleType DEF Thread, Idle, Halfway
<1> QED BY <1>1, Onwards DEF Apply, Doing, Halfway

(* What happens to worker w in any step of the cluster.                       *)
LEMMA WorkerMoves ==
    ASSUME TypeOK, Traffic, [Next]_vars, NEW n \in Server, NEW w \in Worker
    PROVE  \/ frame'[n][w] = frame[n][w]
           \/ RoomStep(n, w) \/ Start(n, w) \/ Elsewhere(n, w)
<1> DEFINE Good == \/ frame'[n][w] = frame[n][w]
                   \/ RoomStep(n, w) \/ Start(n, w) \/ Elsewhere(n, w)
<1>y. FramesTyped /\ w \in Thread /\ Listener \in Thread /\ w # Listener
  BY TypeParts, MessagesAssumption DEF Thread
<1>1. ASSUME NEW k \in Server, NEW v \in Worker, WorkerStep(k, v)
      PROVE  Good
  <2>1. CASE k = n /\ v = w
    BY <1>1, <1>y, <2>1, ThreadElsewhere, MessageElsewhere, ApplyElsewhere DEF WorkerStep
  <2>2. CASE k # n \/ v # w
    <3>1. Moving(k, v) /\ v \in Thread
      BY <1>1, WorkerMoving DEF Thread
    <3> QED BY <3>1, <2>2, <1>y, OthersStay
  <2> QED BY <2>1, <2>2
<1>2. ASSUME NEW k \in Server, ListenerStep(k) \/ Moving(k, Listener)
      PROVE  Good
  <2>1. Moving(k, Listener)
    BY <1>2, WorkerMoving
  <2> QED BY <2>1, <1>y, OthersStay
<1>3. ASSUME NEW c \in Client, ClientStep(c)
      PROVE  Good
  <2>1. Home[c] \in Server
    BY Homes
  <2>2. CASE HangUp(c)
    <3>1. Moving(Home[c], Listener)
      BY <2>2, Zenon DEF HangUp, Moving
    <3> QED BY <3>1, <2>1, <1>2
  <2>3. CASE UNCHANGED frame
    BY <2>3
  <2> QED BY <1>3, <2>2, <2>3 DEF ClientStep, Ask
<1>4. ASSUME NEW k \in Server, NEW m \in Server, SocketStep(k, m) \/ NetBreak(k, m)
      PROVE  Good
  <2>1. CASE PeerEof(k, m)
    <3>1. Moving(k, Listener)
      BY <2>1, Zenon DEF PeerEof, Moving
    <3> QED BY <3>1, <1>2
  <2>2. CASE UNCHANGED frame
    BY <2>2
  <2> QED BY <1>4, <2>1, <2>2 DEF SocketStep, ReadPeer, NetBreak
<1>5. CASE UNCHANGED vars
  BY <1>5 DEF vars
<1> QED BY <1>1, <1>2, <1>3, <1>4, <1>5 DEF Next

(* What the session's set should be, for the member lists' set R, while a     *)
(* worker is where f says.                                                    *)
Due(f, R) == CASE f.pc \in {"test first", "insert"} -> R \cup {f.job.target}
               [] f.pc = "erase" -> R \ {f.job.target}
               [] OTHER -> R

RoomsOf(c) == {r \in Room : c \in members[Home[c]][r]}

(* A step of a room handler: whose it is, and what it does to the two sets.   *)
LEMMA RoomMove ==
    ASSUME TypeOK, Traffic, NEW n \in Server, NEW w \in Worker, RoomStep(n, w),
           NEW f, f = frame[n][w], NEW g, g = frame'[n][w]
    PROVE  /\ f.pc # "idle" /\ f.job.client \in Client /\ Home[f.job.client] = n
           /\ g.pc = "idle" \/ g.job.client \notin Client \/ g.job = f.job
           /\ g.pc \in Halfway => g.job = f.job
           /\ \A c \in Client : c # f.job.client => joined'[c] = joined[c] /\ RoomsOf(c)' = RoomsOf(c)
           /\ joined[f.job.client] = Due(f, RoomsOf(f.job.client)) =>
                  joined'[f.job.client] = Due(g, RoomsOf(f.job.client)')
<1>y. FramesTyped /\ TablesTyped /\ w \in Thread
  BY TypeParts DEF Thread
<1>f. f \in Frame /\ InFrame(n, f)
  BY <1>y DEF FramesTyped, Traffic, FramesTrue
<1>p. PICK p : p = f.pc
  OBVIOUS
<1>k. /\ p \in {"enter", "test first", "insert", "test member", "depart", "erase", "test last"}
      /\ f.job.kind \in {"join", "leave", "say"}
  BY <1>p, <1>f DEF RoomStep, Enter, TestFirst, Insert, TestMember, Depart, Erase, TestLast, Doing, InFrame
<1>c. PICK d \in Client, r \in Room : d = f.job.client /\ r = f.job.target /\ Home[d] = n
  BY <1>k, <1>f DEF InFrame, Truthful, OfClient
<1>i. Idle \in Frame /\ Idle.pc = "idle"
  BY IdleType DEF Idle
<1>n. None \notin Client /\ None \notin Room
  BY Homes
<1>g. ASSUME NEW h \in Frame, Moves(n, w, h)
      PROVE  g = h
  BY <1>g, <1>y, MovesOne DEF FramesTyped
<1>l. LabelValues!1
  BY LabelValues
<1>o. ASSUME NEW h \in Label, Goes(n, w, h)
      PROVE  g.pc = h /\ g.job = f.job
  <2> DEFINE u == [f EXCEPT !.pc = h]
  <2>1. u \in Frame /\ u.pc = h /\ u.job = f.job
    BY <1>f DEF Frame
  <2>2. Moves(n, w, u)
    BY <1>o DEF Goes
  <2> HIDE DEF u
  <2> QED BY <2>1, <2>2, <1>g
<1> DEFINE Kept == joined' = joined /\ members' = members
           Rest == g.pc = "idle" \/ g.job.client \notin Client \/ g.job = f.job
           Others == \A c \in Client : c # d => joined'[c] = joined[c] /\ RoomsOf(c)' = RoomsOf(c)
           Mine == joined[d] = Due(f, RoomsOf(d)) => joined'[d] = Due(g, RoomsOf(d)')
<1>s. ASSUME NEW k \in OfMembership, NEW T \in SUBSET Server, Moves(n, w, Sends(f, Sync(n, r, k), T))
      PROVE  Rest /\ g.pc \notin Halfway
  <2> DEFINE h == Sends(f, Sync(n, r, k), T)
  <2>1. Sync(n, r, k) \in Job /\ Sync(n, r, k).client = None
    BY JobTypes DEF Sync
  <2>2. h \in Frame /\ h.pc \in {"send", "remove", "report", "idle"} /\ (h = Idle \/ h.job = Sync(n, r, k))
    BY <2>1, <1>f, SendsType, OnwardsSends
  <2>3. h.pc \notin Halfway /\ (h.pc = "idle" \/ h.job.client = None)
    BY <2>1, <2>2, <1>i DEF Halfway
  <2>4. Moves(n, w, h)
    BY <1>s
  <2> HIDE DEF h
  <2> QED BY <2>2, <2>3, <2>4, <1>g, <1>n
<1> SUFFICES Rest /\ (g.pc \in Halfway => g.job = f.job) /\ Others /\ Mine
  BY <1>p, <1>k, <1>c
<1>a. Kept => Others /\ \A c \in Client : joined'[c] = joined[c] /\ RoomsOf(c)' = RoomsOf(c)
  BY DEF RoomsOf
<1>1. CASE Enter(n, w)
  <2>1. /\ f.pc = "enter" /\ Goes(n, w, "test first") /\ members' = members
        /\ joined' = [joined EXCEPT ![d] = joined[d] \cup {r}]
    BY <1>1, <1>c DEF Enter, Doing
  <2>2. g.pc = "test first" /\ g.job = f.job
    BY <2>1, <1>o, <1>l
  <2>3. joined'[d] = joined[d] \cup {r} /\ \A c \in Client : c # d => joined'[c] = joined[c]
    BY <2>1, <1>y DEF TablesTyped
  <2>4. \A c \in Client : RoomsOf(c)' = RoomsOf(c)
    BY <2>1 DEF RoomsOf
  <2>5. Mine
    BY <2>1, <2>2, <2>3, <2>4, <1>c DEF Due
  <2> QED BY <2>2, <2>3, <2>4, <2>5
<1>2. CASE TestFirst(n, w)
  <2> DEFINE T == IF members[n][f.job.target] = {} THEN Peers(n) ELSE {}
             h == [f EXCEPT !.pc = "insert", !.todo = T]
  <2>1. f.pc = "test first" /\ Moves(n, w, h) /\ Kept
    BY <1>2 DEF TestFirst, roomVars
  <2>2. T \in SUBSET Server
    BY DEF Peers
  <2> HIDE DEF T
  <2>3. h \in Frame /\ h.pc = "insert" /\ h.job = f.job
    BY <2>2, <1>f, <1>l DEF Frame
  <2> HIDE DEF h
  <2>4. g.pc = "insert" /\ g.job = f.job
    BY <2>1, <2>3, <1>g
  <2>5. Mine
    BY <2>1, <2>4, <1>a, <1>c DEF Due
  <2> QED BY <2>1, <2>4, <2>5, <1>a
<1>3. CASE Insert(n, w)
  <2>1. /\ f.pc = "insert" /\ Moves(n, w, Sends(f, Sync(n, r, "active"), f.todo)) /\ joined' = joined
        /\ members' = [members EXCEPT ![n][r] = members[n][r] \cup {d}]
    BY <1>3, <1>c DEF Insert
  <2>2. f.todo \in SUBSET Server
    BY <1>f DEF Frame
  <2>3. Rest /\ g.pc \notin Halfway
    BY <2>1, <2>2, <1>s DEF OfMembership
  <2>4. \A k \in Server, q \in Room : members'[k][q] = IF k = n /\ q = r THEN members[n][r] \cup {d} ELSE members[k][q]
    BY <2>1, <1>y, OneEntry DEF TablesTyped
  <2>5. RoomsOf(d)' = RoomsOf(d) \cup {r}
    BY <2>4, <1>c DEF RoomsOf
  <2>6. \A c \in Client : c # d => RoomsOf(c)' = RoomsOf(c)
    BY <2>4, Homes DEF RoomsOf
  <2>7. Mine
    BY <2>1, <2>3, <2>5, <1>c DEF Due, Halfway
  <2> QED BY <2>1, <2>3, <2>6, <2>7
<1>4. CASE TestMember(n, w)
  <2>1. f.pc = "test member" /\ Kept
    BY <1>4 DEF TestMember, Doing, roomVars
  <2>2. {"depart", "members"} \subseteq Label
    BY LabelValues
  <2>3. Moves(n, w, Idle) \/ Goes(n, w, "depart") \/ Goes(n, w, "members")
    BY <1>4 DEF TestMember
  <2>4. g.pc \in {"idle", "depart", "members"} /\ (g.pc = "idle" \/ g.job = f.job)
    <3>1. CASE Moves(n, w, Idle)
      BY <3>1, <1>i, <1>g
    <3>2. CASE Goes(n, w, "depart")
      BY <3>2, <2>2, <1>o
    <3>3. CASE Goes(n, w, "members")
      BY <3>3, <2>2, <1>o
    <3> QED BY <2>3, <3>1, <3>2, <3>3
  <2>5. Mine
    BY <2>1, <2>4, <1>a, <1>c DEF Due
  <2> QED BY <2>1, <2>4, <2>5, <1>a DEF Halfway
<1>5. CASE Depart(n, w)
  <2>1. /\ f.pc = "depart" /\ Goes(n, w, "erase") /\ members' = members
        /\ joined' = [joined EXCEPT ![d] = joined[d] \ {r}]
    BY <1>5, <1>c DEF Depart, Doing, LeftRooms
  <2>2. g.pc = "erase" /\ g.job = f.job
    BY <2>1, <1>o, <1>l
  <2>3. joined'[d] = joined[d] \ {r} /\ \A c \in Client : c # d => joined'[c] = joined[c]
    BY <2>1, <1>y DEF TablesTyped
  <2>4. \A c \in Client : RoomsOf(c)' = RoomsOf(c)
    BY <2>1 DEF RoomsOf
  <2>5. Mine
    BY <2>1, <2>2, <2>3, <2>4, <1>c DEF Due
  <2> QED BY <2>2, <2>3, <2>4, <2>5
<1>6. CASE Erase(n, w)
  <2>0. members[n][r] \subseteq Client
    BY <1>c, <1>y DEF TablesTyped
  <2>a. PICK S \in SUBSET Client : S = members[n][r] \ {d}
    BY <2>0
  <2>1. /\ f.pc = "erase" /\ Goes(n, w, "test last") /\ joined' = joined
        /\ members' = [members EXCEPT ![n][r] = S]
    BY <1>6, <1>c, <2>a DEF Erase, Doing
  <2>3. g.pc = "test last" /\ g.job = f.job
    BY <2>1, <1>o, <1>l
  <2>b. \A k \in Server, q \in Room : members'[k][q] = IF k = n /\ q = r THEN S ELSE members[k][q]
    <3>1. members \in [Server -> [Room -> SUBSET Client]]
      BY <1>y DEF TablesTyped
    <3>2. members' = [members EXCEPT ![n][r] = S]
      BY <2>1
    <3> QED BY <3>1, <3>2, <1>c
  <2>4. \A k \in Server, q \in Room : members'[k][q] = IF k = n /\ q = r THEN members[n][r] \ {d} ELSE members[k][q]
    BY <2>a, <2>b
  <2>5. RoomsOf(d)' = RoomsOf(d) \ {r}
    BY <2>4, <1>c DEF RoomsOf
  <2>6. \A c \in Client : c # d => RoomsOf(c)' = RoomsOf(c)
    BY <2>4, Homes DEF RoomsOf
  <2>7. Mine
    BY <2>1, <2>3, <2>5, <1>c DEF Due
  <2> QED BY <2>1, <2>3, <2>6, <2>7
<1>7. CASE TestLast(n, w)
  <2>1. f.pc = "test last" /\ Kept
    BY <1>7 DEF TestLast, roomVars
  <2>2. Moves(n, w, Idle) \/ Moves(n, w, Sends(f, Sync(n, r, "inactive"), Peers(n)))
    BY <1>7, <1>c DEF TestLast
  <2>3. Rest /\ g.pc \notin Halfway
    <3>1. CASE Moves(n, w, Idle)
      BY <3>1, <1>i, <1>g DEF Halfway
    <3>2. CASE Moves(n, w, Sends(f, Sync(n, r, "inactive"), Peers(n)))
      BY <3>2, <1>s DEF OfMembership, Peers
    <3> QED BY <2>2, <3>1, <3>2
  <2>5. Mine
    BY <2>1, <2>3, <1>a, <1>c DEF Due, Halfway
  <2> QED BY <2>1, <2>3, <2>5, <1>a
<1> QED BY <1>1, <1>2, <1>3, <1>4, <1>5, <1>6, <1>7 DEF RoomStep

(* Only Start gives a worker a client.                                        *)
LEMMA Served ==
    ASSUME TypeOK, Traffic, [Next]_vars, NEW n \in Server, NEW w \in Worker, NEW c \in Client,
           ~Start(n, w), Serves(n, w, c)'
    PROVE  Serves(n, w, c)
<1>1. CASE frame'[n][w] = frame[n][w]
  BY <1>1 DEF Serves
<1>2. CASE Elsewhere(n, w)
  BY <1>2 DEF Elsewhere, Serves
<1>3. CASE RoomStep(n, w)
  <2>1. PICK f, g : f = frame[n][w] /\ g = frame'[n][w]
    OBVIOUS
  <2>2. f.pc # "idle" /\ (g.pc = "idle" \/ g.job.client \notin Client \/ g.job = f.job)
    BY <2>1, <1>3, RoomMove
  <2> QED BY <2>1, <2>2 DEF Serves
<1> QED BY <1>1, <1>2, <1>3, WorkerMoves

LEMMA StartServes ==
    ASSUME TypeOK, NEW n \in Server, NEW w \in Worker, Start(n, w)
    PROVE  /\ queue[n] # <<>> /\ queue'[n] = Tail(queue[n])
           /\ frame[n][w].pc = "idle" /\ frame'[n][w].pc \notin Halfway
           /\ frame'[n][w].job = queue[n][1]
           /\ \A v \in Worker : v # w => frame'[n][v] = frame[n][v]
<1>1. FramesTyped /\ PacketsTyped /\ w \in Thread /\ Worker \subseteq Thread
  BY TypeParts DEF Thread
<1> DEFINE j == Head(queue[n])
           h == [Idle EXCEPT !.pc = Entry(j.kind), !.job = j]
<1>2. /\ frame[n][w].pc = "idle" /\ queue[n] # <<>> /\ queue' = [queue EXCEPT ![n] = Tail(queue[n])]
      /\ Moves(n, w, h)
  BY DEF Start, Doing
<1>3. queue[n] \in Seq(Job)
  BY <1>1 DEF PacketsTyped
<1>4. j \in Job /\ j = queue[n][1]
  BY <1>2, <1>3
<1>5. Entry(j.kind) \in Label /\ Entry(j.kind) \notin Halfway
  <2>1. Entry(j.kind) \in Label
    BY <1>4, EntryType
  <2>2. j.kind \in {"join", "leave", "say", "tell", "shout", "room", "private",
                    "broadcast", "active", "inactive", "gone"}
    BY <1>4 DEF Job
  <2>3. Entry(j.kind) \in {"enter", "test member", "locate", "hand over", "members", "sessions", "apply"}
    BY <2>2, Zenon DEF Entry
  <2> QED BY <2>1, <2>3 DEF Halfway
<1> HIDE DEF j
<1>6. h \in Frame /\ h.pc = Entry(j.kind) /\ h.job = j
  BY <1>4, <1>5, IdleType DEF Frame
<1> HIDE DEF h
<1>7. frame'[n][w] = h /\ \A v \in Worker : v # w => frame'[n][v] = frame[n][v]
  BY <1>1, <1>2, <1>6, MovesOne DEF FramesTyped
<1>8. queue'[n] = Tail(queue[n])
  BY <1>1, <1>2 DEF PacketsTyped
<1> QED BY <1>2, <1>4, <1>5, <1>6, <1>7, <1>8

(* What is added to a server's pool: a packet of one of its own clients, who  *)
(* waits for its last one if it is patient, or nobody's of that server.       *)
LEMMA PoolStep ==
    ASSUME TypeOK, Traffic, [Next]_vars, NEW n \in Server, \A w \in Worker : ~Start(n, w)
    PROVE  \/ queue'[n] = queue[n]
           \/ \E j \in Job : /\ queue'[n] = Append(queue[n], j)
                             /\ \A c \in Client : Home[c] = n /\ j.client = c /\ Patient => ~Pending(c)
<1> DEFINE Good == \/ queue'[n] = queue[n]
                   \/ \E j \in Job : /\ queue'[n] = Append(queue[n], j)
                                     /\ \A c \in Client : Home[c] = n /\ j.client = c /\ Patient => ~Pending(c)
<1>y. PacketsTyped
  BY TypeParts
<1>1. ASSUME NEW c \in Client, NEW k \in Will[c], NEW x \in Addressees(c, k), Ask(c, k, x)
      PROVE  Good
  <2>1. k \in OfClient /\ x \in Target
    <3>1. Will \in [Client -> SUBSET (OfClient \cup {"hang up"})]
      BY MessagesAssumption DEF OfClient
    <3>2. k \in OfClient \cup {"hang up"}
      BY <3>1
    <3> QED BY <3>2 DEF Addressees, OfClient, Target
  <2>2. asked[c] \in Seq(Job) /\ Len(asked[c]) + 1 \in Nat
    BY <1>y DEF PacketsTyped
  <2>3. PICK j \in Job : j = Command(c, k, x, Len(asked[c]) + 1)
    BY <2>1, <2>2, JobTypes
  <2>4. j.client = c
    BY <2>3 DEF Command
  <2>5. queue' = [queue EXCEPT ![Home[c]] = Append(queue[Home[c]], j)] /\ (Patient => ~Pending(c))
    BY <1>1, <2>3 DEF Ask
  <2>6. queue'[n] = queue[n] \/ queue'[n] = Append(queue[n], j)
    BY <2>5, <1>y DEF PacketsTyped
  <2> QED BY <2>4, <2>5, <2>6
<1>2. ASSUME NEW k \in Server, NEW m \in Server, ReadPeer(k, m)
      PROVE  Good
  <2>1. /\ chan[m][k] # <<>> /\ chan[m][k] \in Seq(Job)
        /\ queue' = [queue EXCEPT ![k] = Append(queue[k], Head(chan[m][k]))]
    BY <1>2, <1>y DEF ReadPeer, PacketsTyped
  <2>2. PICK j \in Job : j = Head(chan[m][k])
    BY <2>1
  <2>3. j \in ToSet(chan[m][k])
    BY <2>1, <2>2, ToSetHeadTail
  <2>4. OnWire(m, k, j)
    BY <2>3 DEF Traffic, LinksTrue
  <2>5. \A c \in Client : Home[c] = k => j.client # c
    BY <2>4, Homes DEF OnWire, Sendable, Truthful, OfServer, OfSender, OfMembership
  <2>6. queue'[n] = queue[n] \/ (k = n /\ queue'[n] = Append(queue[n], j))
    BY <2>1, <2>2, <1>y DEF PacketsTyped
  <2> QED BY <2>5, <2>6
<1>3. ASSUME NEW k \in Server, NEW v \in Worker, Start(k, v)
      PROVE  queue'[n] = queue[n]
  <2>1. k # n
    BY <1>3
  <2>2. queue' = [queue EXCEPT ![k] = Tail(queue[k])]
    BY <1>3 DEF Start
  <2> QED BY <2>1, <2>2, <1>y DEF PacketsTyped
<1>4. \A k, t : ThreadStep(k, t) => UNCHANGED queue
  <2> SUFFICES ASSUME NEW k, NEW t, ThreadStep(k, t)
               PROVE  UNCHANGED queue
    OBVIOUS
  <2>1. ASSUME NEW m, Send(k, t, m) \/ SendFails(k, t, m)
        PROVE  UNCHANGED queue
    BY <2>1, Zenon DEF Send, SendFails
  <2>2. CASE Unlink(k, t) \/ ClearUsers(k, t) \/ ClearRooms(k, t)
    BY <2>2, Zenon DEF Unlink, ClearUsers, ClearRooms
  <2> QED BY <2>1, <2>2 DEF ThreadStep
<1>5. \A k, t : RoomStep(k, t) => UNCHANGED queue
  <2> SUFFICES ASSUME NEW k, NEW t, RoomStep(k, t)
               PROVE  UNCHANGED queue
    OBVIOUS
  <2>1. CASE Enter(k, t) \/ TestFirst(k, t) \/ Insert(k, t)
    BY <2>1, Zenon DEF Enter, TestFirst, Insert
  <2>2. CASE TestMember(k, t) \/ Depart(k, t)
    BY <2>2, Zenon DEF TestMember, Depart
  <2>3. CASE Erase(k, t) \/ TestLast(k, t)
    BY <2>3, Zenon DEF Erase, TestLast
  <2> QED BY <2>1, <2>2, <2>3 DEF RoomStep
<1>6. \A k, t : MessageStep(k, t) => UNCHANGED queue
  <2> SUFFICES ASSUME NEW k, NEW t, MessageStep(k, t)
               PROVE  UNCHANGED queue
    OBVIOUS
  <2>1. CASE Locate(k, t)
    BY <2>1, Zenon DEF Locate
  <2>2. CASE GetMembers(k, t) \/ GetAllSessions(k, t) \/ GetServers(k, t)
    BY <2>2, Zenon DEF GetMembers, GetAllSessions, GetServers
  <2>3. CASE HandOver(k, t) \/ Report(k, t) \/ \E c \in Client : Deliver(k, t, c)
    BY <2>3, Zenon DEF HandOver, Report, Deliver
  <2> QED BY <2>1, <2>2, <2>3 DEF MessageStep
<1>7. \A k, t : Apply(k, t) => UNCHANGED queue
  BY DEF Apply
<1>8. \A k \in Server : ListenerStep(k) => UNCHANGED queue
  BY <1>4 DEF ListenerStep, Unregister, RemoveSession
<1>9. \A k, m \in Server : PeerEof(k, m) \/ NetBreak(k, m) => UNCHANGED queue
  BY DEF PeerEof, NetBreak
<1>10. \A c \in Client : HangUp(c) => UNCHANGED queue
  BY DEF HangUp
<1>11. UNCHANGED vars => UNCHANGED queue
  BY DEF vars
<1>12. UNCHANGED queue => Good
  OBVIOUS
<1> QED BY <1>1, <1>2, <1>3, <1>4, <1>5, <1>6, <1>7, <1>8, <1>9, <1>10, <1>11, <1>12
        DEF Next, ClientStep, WorkerStep, SocketStep

(* A patient client has one packet in its server's pool or one worker busy    *)
(* with it, never both.                                                       *)
Alone(c) ==
    LET q == queue[Home[c]] IN
    /\ \A i, k \in DOMAIN q : q[i].client = c /\ q[k].client = c => i = k
    /\ \A v, w \in Worker : Serves(Home[c], v, c) /\ Serves(Home[c], w, c) => v = w
    /\ \A i \in DOMAIN q, w \in Worker : ~(q[i].client = c /\ Serves(Home[c], w, c))

(* While its worker is between the two sets they differ as Due says.          *)
Midway(w, c) == frame[Home[c]][w].pc \in Halfway /\ frame[Home[c]][w].job.client = c
Keeping(c) ==
    /\ (\A w \in Worker : ~Midway(w, c)) => joined[c] = RoomsOf(c)
    /\ \A w \in Worker : Midway(w, c) => joined[c] = Due(frame[Home[c]][w], RoomsOf(c))

RoomsKept == Patient => \A c \in Client : Alone(c) /\ Keeping(c)

LEMMA AloneStep ==
    ASSUME TypeOK, Traffic, [Next]_vars, Patient, NEW c \in Client, Alone(c)
    PROVE  Alone(c)'
<1> DEFINE n == Home[c]
<1>n. n \in Server /\ Home' = Home
  BY Homes
<1>q. PICK q \in Seq(Job) : q = queue[n]
  BY <1>n DEF TypeOK
<1>a. /\ \A i, k \in 1..Len(q) : q[i].client = c /\ q[k].client = c => i = k
      /\ \A v, w \in Worker : Serves(n, v, c) /\ Serves(n, w, c) => v = w
      /\ \A i \in 1..Len(q), w \in Worker : ~(q[i].client = c /\ Serves(n, w, c))
  <2>1. DOMAIN q = 1..Len(q)
    BY <1>q
  <2> QED BY <1>q, <2>1 DEF Alone
<1>g. ASSUME NEW p \in Seq(Job), p = queue'[n],
             \A i, k \in 1..Len(p) : p[i].client = c /\ p[k].client = c => i = k,
             \A v, w \in Worker : Serves(n, v, c)' /\ Serves(n, w, c)' => v = w,
             \A i \in 1..Len(p), w \in Worker : ~(p[i].client = c /\ Serves(n, w, c)')
      PROVE  Alone(c)'
  <2>1. DOMAIN p = 1..Len(p)
    BY <1>g
  <2> QED BY <1>g, <1>n, <2>1 DEF Alone
<1>1. CASE \A w \in Worker : ~Start(n, w)
  <2>1. \A w \in Worker : Serves(n, w, c)' => Serves(n, w, c)
    BY <1>1, <1>n, Served
  <2>2. CASE queue'[n] = queue[n]
    BY <2>1, <2>2, <1>a, <1>g, <1>q
  <2>3. ASSUME NEW j \in Job, queue'[n] = Append(queue[n], j),
               j.client = c => ~Pending(c)
        PROVE  Alone(c)'
    <3>1. PICK p \in Seq(Job) : p = queue'[n]
      <4>1. Append(q, j) \in Seq(Job)
        BY <2>3, <1>q
      <4> QED BY <4>1, <2>3, <1>q
    <3>2. Len(p) = Len(q) + 1 /\ p[Len(q) + 1] = j /\ \A i \in 1..Len(q) : p[i] = q[i]
      BY <3>1, <2>3, <1>q
    <3>3. j.client = c => (\A i \in 1..Len(q) : q[i].client # c) /\ \A w \in Worker : ~Serves(n, w, c)
      BY <2>3, <1>q DEF Pending, Serves, Doing
    <3>4. \A i \in 1..Len(p) : i \in 1..Len(q) \/ i = Len(q) + 1
      BY <3>2, <1>q
    <3>5. \A i, k \in 1..Len(p) : p[i].client = c /\ p[k].client = c => i = k
      BY <3>2, <3>3, <3>4, <1>a
    <3>6. \A i \in 1..Len(p), w \in Worker : ~(p[i].client = c /\ Serves(n, w, c)')
      BY <3>2, <3>3, <3>4, <1>a, <2>1
    <3> QED BY <3>1, <3>5, <3>6, <2>1, <1>a, <1>g
  <2> QED BY <2>2, <2>3, <1>1, <1>n, PoolStep
<1>2. ASSUME NEW w \in Worker, Start(n, w)
      PROVE  Alone(c)'
  <2>1. /\ q # <<>> /\ queue'[n] = Tail(q) /\ frame[n][w].pc = "idle"
        /\ frame'[n][w].job = q[1]
        /\ \A v \in Worker : v # w => frame'[n][v] = frame[n][v]
    BY <1>2, <1>n, <1>q, StartServes
  <2>2. PICK p \in Seq(Job) : p = Tail(q)
    BY <2>1, <1>q, ToSetHeadTail
  <2>3. Len(q) \in Nat \ {0} /\ Len(p) = Len(q) - 1 /\ \A i \in 1..Len(p) : p[i] = q[i + 1]
    BY <2>1, <2>2, <1>q
  <2>4. 1 \in 1..Len(q) /\ \A i \in 1..Len(p) : i + 1 \in 1..Len(q) /\ i + 1 # 1
    BY <2>3
  <2>5. \A v \in Worker : Serves(n, v, c)' => Serves(n, v, c) \/ (v = w /\ q[1].client = c)
    BY <2>1 DEF Serves
  <2>6. ~Serves(n, w, c)
    BY <2>1 DEF Serves
  <2>7. \A i, k \in 1..Len(p) : p[i].client = c /\ p[k].client = c => i = k
    <3> SUFFICES ASSUME NEW i \in 1..Len(p), NEW k \in 1..Len(p), p[i].client = c, p[k].client = c
                 PROVE  i = k
      OBVIOUS
    <3>1. i + 1 = k + 1
      BY <2>3, <2>4, <1>a
    <3> QED BY <3>1, <2>3
  <2>8. \A u, v \in Worker : Serves(n, u, c)' /\ Serves(n, v, c)' => u = v
    BY <2>4, <2>5, <1>a
  <2>9. \A i \in 1..Len(p), v \in Worker : ~(p[i].client = c /\ Serves(n, v, c)')
    BY <2>3, <2>4, <2>5, <1>a
  <2> QED BY <2>1, <2>2, <2>7, <2>8, <2>9, <1>g
<1> QED BY <1>1, <1>2

LEMMA KeepingStep ==
    ASSUME TypeOK, Traffic, [Next]_vars, NEW c \in Client, Alone(c), Keeping(c)
    PROVE  Keeping(c)'
<1> DEFINE n == Home[c]
<1>n. n \in Server
  BY Homes
<1>t. FramesTyped /\ Worker \subseteq Thread
  BY TypeParts DEF Thread
<1>1. CASE \A k \in Server, v \in Worker : ~RoomStep(k, v)
  <2>1. joined' = joined /\ RoomsOf(c)' = RoomsOf(c)
    BY <1>1, RoomsStep DEF RoomsOf
  <2>2. ASSUME NEW w \in Worker
        PROVE  frame'[n][w] = frame[n][w] \/ (~Midway(w, c) /\ ~Midway(w, c)')
    <3>1. CASE Start(n, w)
      <4>1. frame[n][w].pc = "idle" /\ frame'[n][w].pc \notin Halfway
        BY <3>1, <1>n, StartServes
      <4> QED BY <4>1 DEF Midway, Halfway
    <3>2. CASE Elsewhere(n, w)
      BY <3>2 DEF Elsewhere, Midway
    <3> QED BY <1>1, <1>n, <3>1, <3>2, WorkerMoves
  <2>3. \A w \in Worker : Midway(w, c)' <=> Midway(w, c)
    BY <2>2 DEF Midway
  <2>4. \A w \in Worker : Midway(w, c) => Due(frame'[n][w], RoomsOf(c)') = Due(frame[n][w], RoomsOf(c))
    BY <2>1, <2>2
  <2> QED BY <2>1, <2>3, <2>4 DEF Keeping
<1>2. ASSUME NEW k \in Server, NEW v \in Worker, RoomStep(k, v)
      PROVE  Keeping(c)'
  <2>1. PICK f, g : f = frame[k][v] /\ g = frame'[k][v]
    OBVIOUS
  <2>2. /\ f.pc # "idle" /\ f.job.client \in Client /\ Home[f.job.client] = k
        /\ g.pc \in Halfway => g.job = f.job
        /\ \A d \in Client : d # f.job.client => joined'[d] = joined[d] /\ RoomsOf(d)' = RoomsOf(d)
        /\ joined[f.job.client] = Due(f, RoomsOf(f.job.client)) =>
               joined'[f.job.client] = Due(g, RoomsOf(f.job.client)')
    BY <1>2, <2>1, RoomMove
  <2>3. \A l \in Server, w \in Worker : l # k \/ w # v => frame'[l][w] = frame[l][w]
    <3>1. Moving(k, v)
      BY <1>2, WorkerMoving DEF WorkerStep
    <3> QED BY <3>1, <1>t, OthersStay
  <2>4. CASE c # f.job.client
    <3>1. joined'[c] = joined[c] /\ RoomsOf(c)' = RoomsOf(c)
      BY <2>2, <2>4
    <3>2. \A w \in Worker : frame'[n][w] = frame[n][w] \/ (~Midway(w, c) /\ ~Midway(w, c)')
      <4> SUFFICES ASSUME NEW w \in Worker, n = k /\ w = v
                   PROVE  ~Midway(w, c) /\ ~Midway(w, c)'
        BY <2>3, <1>n
      <4> QED BY <2>1, <2>2, <2>4 DEF Midway
    <3>3. \A w \in Worker : Midway(w, c)' <=> Midway(w, c)
      BY <3>2 DEF Midway
    <3>4. \A w \in Worker : Midway(w, c) => Due(frame'[n][w], RoomsOf(c)') = Due(frame[n][w], RoomsOf(c))
      BY <3>1, <3>2
    <3> QED BY <3>1, <3>3, <3>4 DEF Keeping
  <2>5. CASE c = f.job.client
    <3>1. k = n /\ Serves(n, v, c)
      BY <2>1, <2>2, <2>5 DEF Serves
    <3>2. \A w \in Worker : w # v => ~Midway(w, c)
      BY <3>1 DEF Alone, Serves, Midway, Halfway
    <3>3. \A w \in Worker : w # v => ~Midway(w, c)'
      BY <3>1, <3>2, <2>3, <1>n DEF Midway
    <3>4. joined[c] = Due(f, RoomsOf(c))
      <4>1. CASE Midway(v, c)
        BY <4>1, <2>1, <3>1 DEF Keeping
      <4>2. CASE ~Midway(v, c)
        <5>1. f.pc \notin Halfway
          BY <4>2, <2>1, <2>5, <3>1 DEF Midway
        <5>2. Due(f, RoomsOf(c)) = RoomsOf(c)
          BY <5>1 DEF Due, Halfway
        <5> QED BY <4>2, <5>2, <3>2 DEF Keeping
      <4> QED BY <4>1, <4>2
    <3>5. joined'[c] = Due(g, RoomsOf(c)')
      BY <3>4, <2>2, <2>5
    <3>6. ~Midway(v, c)' => Due(g, RoomsOf(c)') = RoomsOf(c)'
      <4>1. ~Midway(v, c)' => g.pc \notin Halfway
        BY <2>1, <2>2, <2>5, <3>1 DEF Midway
      <4> QED BY <4>1 DEF Due, Halfway
    <3> QED BY <2>1, <3>1, <3>3, <3>5, <3>6 DEF Keeping
  <2> QED BY <2>4, <2>5
<1> QED BY <1>1, <1>2

LEMMA InitRooms == Init => RoomsKept
<1> SUFFICES ASSUME Init, NEW c \in Client
             PROVE  Alone(c) /\ Keeping(c)
  BY DEF RoomsKept
<1>1. Home[c] \in Server /\ Idle.pc = "idle"
  BY Homes DEF Idle
<1>2. queue[Home[c]] = <<>> /\ \A w \in Worker : frame[Home[c]][w].pc = "idle"
  BY <1>1 DEF Init, Thread
<1>3. joined[c] = {} /\ RoomsOf(c) = {}
  BY <1>1 DEF Init, RoomsOf
<1>4. Alone(c)
  BY <1>2 DEF Alone, Serves
<1>5. Keeping(c)
  BY <1>2, <1>3 DEF Keeping, Midway, Halfway
<1> QED BY <1>4, <1>5

(* The session's rooms and the member lists of its server, two sets under two *)
(* locks that HandleRoomJoin and HandleRoomLeave write one after the other,   *)
(* agree whenever nothing of the client is pending, for any cluster.          *)
THEOREM RoomSetsAgree == Safety => []RoomsAgree
<1>1. TypeOK /\ Traffic /\ RoomsKept /\ [Next]_vars => RoomsKept'
  <2> SUFFICES ASSUME TypeOK, Traffic, RoomsKept, [Next]_vars, Patient, NEW c \in Client
               PROVE  Alone(c)' /\ Keeping(c)'
    BY DEF RoomsKept
  <2>1. Alone(c) /\ Keeping(c)
    BY DEF RoomsKept
  <2> QED BY <2>1, AloneStep, KeepingStep
<1>2. RoomsKept => RoomsAgree
  <2> SUFFICES ASSUME RoomsKept, Patient, NEW c \in Client, ~Pending(c)
               PROVE  joined[c] = RoomsOf(c)
    BY DEF RoomsAgree, RoomsOf
  <2>1. \A w \in Worker : ~Midway(w, c)
    BY DEF Pending, Midway, Halfway, Doing
  <2> QED BY <2>1 DEF RoomsKept, Keeping
<1> QED BY <1>1, <1>2, InitRooms, TrafficAlways, PTL DEF Safety
=============================================================================
