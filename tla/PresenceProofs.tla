--------------------------- MODULE PresenceProofs ---------------------------
(* Proofs about Presence for any cluster, any clients and any bounds.         *)
EXTENDS Presence, SequenceFacts, FiniteSetTheorems, FunctionTheorems

-----------------------------------------------------------------------------
(* The strengthening.  Truthful: what a task claims of a client goes back to  *)
(* a LOGIN packet of that client.  The rest says where which tasks occur: in  *)
(* the pool of a server, on a link, and in the hands of a thread.             *)
Asked(s, u) == s \in Session /\ u \in ToSet(asked[s])

Truthful(j) ==
    /\ j.kind = "login" => Asked(j.ses, j.user)
    /\ j.kind = "online" => Asked(j.ses, j.user) /\ j.from = Home[j.ses] /\ j.user \notin Invalid
    /\ j.kind = "offline" => /\ j.ses \in Session /\ j.from = Home[j.ses]
                             /\ j.user = NoName \/ Asked(j.ses, j.user)

InQueue(n, j) ==
    /\ Truthful(j)
    /\ j.kind = "login" => Home[j.ses] = n
    /\ j.kind \in {"online", "offline", "hello"} => j.from \in Peers(n)
    /\ j.kind = "offline" => j.user # NoName

OnWire(m, n, j) ==
    /\ Truthful(j)
    /\ m # n
    /\ j.kind \in {"online", "offline", "hello"}
    /\ j.from = m
    /\ j.kind = "offline" => j.user # NoName

InFrame(n, f) ==
    /\ Truthful(f.job)
    /\ f.pc \in {"check", "register", "auth"} => f.job.kind = "login" /\ Home[f.job.ses] = n
    /\ f.pc \in {"register", "auth"} => f.job.user \notin Invalid
    /\ f.pc = "apply" => /\ f.job.kind \in {"online", "offline"}
                         /\ f.job.from \in Peers(n)
                         /\ f.job.user # NoName
    /\ f.pc = "promote" => f.job.from \in Peers(n)
    /\ f.pc \in {"unlink", "clear"} => f.peer \in Peers(n)
    /\ f.pc = "unregister" => /\ f.job.kind = "offline" /\ f.job.from = n
                              /\ f.job.user # NoName
    /\ f.todo \subseteq Peers(n)
    /\ f.todo # {} => /\ f.job.kind \in {"online", "offline"} /\ f.job.from = n
                      /\ f.job.user # NoName

Traffic ==
    /\ \A s \in Session : username[s] = NoName \/ Asked(s, username[s])
    /\ \A n \in Server : \A j \in ToSet(queue[n]) : InQueue(n, j)
    /\ \A m, n \in Server : \A j \in ToSet(chan[m][n]) : OnWire(m, n, j)
    /\ \A n \in Server, t \in Thread : InFrame(n, frame[n][t])

-----------------------------------------------------------------------------
(* The tasks and the frames that the handlers build have their types.         *)
LEMMA JobTypes ==
    ASSUME NEW s \in Session, NEW u \in Name \cup {NoName}
    PROVE  Login(s, u) \in Job /\ Online(s, u) \in Job /\ Offline(s, u) \in Job
  BY PresenceAssumption DEF Job, Login, Online, Offline

LEMMA LinkJobTypes == Junk \in Job /\ \A n \in Server : Hello(n) \in Job
  BY DEF Job, Hello, Junk

LEMMA IdleType == Idle \in Frame
  BY LinkJobTypes DEF Idle, Frame, Label

LEMMA ProceedType ==
    ASSUME NEW f \in Frame
    PROVE  Proceed(f) \in Frame
<1>1. /\ "announce" \in Label /\ "remove" \in Label
      /\ NoServer \in Server \cup {NoServer}
  BY DEF Label
<1>2. [f EXCEPT !.pc = "announce", !.peer = NoServer] \in Frame
  BY <1>1 DEF Frame
<1>3. [f EXCEPT !.pc = "remove", !.peer = NoServer] \in Frame
  BY <1>1 DEF Frame
<1> QED BY <1>2, <1>3, IdleType DEF Proceed

(* A thread that moves changes its own frame only.                            *)
LEMMA MovesOne ==
    ASSUME NEW n \in Server, NEW t \in Thread, NEW f \in Frame,
           frame \in [Server -> [Thread -> Frame]], Moves(n, t, f)
    PROVE  /\ frame' \in [Server -> [Thread -> Frame]]
           /\ frame'[n][t] = f
           /\ \A k \in Server, x \in Thread : k # n \/ x # t => frame'[k][x] = frame[k][x]
  BY DEF Moves

LEMMA LabelValues ==
    /\ "idle" \in Label /\ "check" \in Label /\ "register" \in Label /\ "auth" \in Label
    /\ "announce" \in Label /\ "unregister" \in Label /\ "remove" \in Label
    /\ "apply" \in Label /\ "promote" \in Label /\ "unlink" \in Label /\ "clear" \in Label
  BY DEF Label

LEMMA EntryType == \A j \in Job : Entry(j.kind) \in Label
  BY DEF Job, Entry, Label

-----------------------------------------------------------------------------
LEMMA TypeStep == TypeOK /\ Traffic /\ [Next]_vars => TypeOK'
<1> SUFFICES ASSUME TypeOK, Traffic, [Next]_vars
             PROVE  TypeOK'
  OBVIOUS
<1> DEFINE Framed == frame' \in [Server -> [Thread -> Frame]]
<1> USE PresenceAssumption, LabelValues
<1>t. Listener \in Thread /\ Heartbeat \in Thread /\ \A w \in Worker : w \in Thread
  BY DEF Thread
<1>1. ASSUME NEW s \in Session, NEW u \in MayUse[s], SendLogin(s, u)
      PROVE  TypeOK'
  BY <1>1 DEF SendLogin, TypeOK, sessionVars, linkVars
<1>2. ASSUME NEW s \in Session, HangUp(s)
      PROVE  TypeOK'
  BY <1>2 DEF HangUp, TypeOK, sessionVars, linkVars
<1>3. ASSUME NEW s \in Session, Accept(s)
      PROVE  TypeOK'
  BY <1>3 DEF Accept, TypeOK, linkVars
<1>4. ASSUME NEW s \in Session, ReadLogin(s)
      PROVE  TypeOK'
  <2>1. asked[s] \in Seq(Name) /\ taken[s] + 1 \in 1..Len(asked[s])
    BY <1>4 DEF ReadLogin, TypeOK
  <2>2. Login(s, asked[s][taken[s] + 1]) \in Job
    BY <2>1, JobTypes
  <2> QED BY <1>4, <2>2 DEF ReadLogin, TypeOK, sessionVars, linkVars
<1>5. ASSUME NEW s \in Session, ReadEof(s)
      PROVE  TypeOK'
  <2>1. Offline(s, username[s]) \in Job
    BY JobTypes DEF TypeOK
  <2>2. [Idle EXCEPT !.pc = IF username[s] = NoName THEN "remove" ELSE "unregister",
                     !.job = Offline(s, username[s])] \in Frame
    BY <2>1, IdleType DEF Frame
  <2>3. Framed
    BY <1>5, <1>t, <2>2, MovesOne DEF ReadEof, TypeOK, Thread
  <2> QED BY <1>5, <2>3 DEF ReadEof, TypeOK, clientVars, sessionVars, linkVars
<1>6. ASSUME NEW n \in Server, Unregister(n)
      PROVE  TypeOK'
  <2>1. Proceed([frame[n][Listener] EXCEPT !.todo = Peers(n)]) \in Frame
    <3>1. frame[n][Listener] \in Frame /\ Peers(n) \in SUBSET Server
      BY DEF TypeOK, Thread, Peers
    <3>2. [frame[n][Listener] EXCEPT !.todo = Peers(n)] \in Frame
      BY <3>1 DEF Frame
    <3> QED BY <3>2, ProceedType
  <2>2. Framed
    BY <1>6, <2>1, MovesOne DEF Unregister, TypeOK, Thread
  <2> QED BY <1>6, <2>2 DEF Unregister, TypeOK, clientVars, sessionVars, linkVars
<1>7. ASSUME NEW n \in Server, RemoveSession(n)
      PROVE  TypeOK'
  <2>1. Framed
    BY <1>7, IdleType, MovesOne DEF RemoveSession, TypeOK, Thread
  <2>2. ForgetName(n, frame[n][Listener].job.ses) \in [Name -> Session \cup {NoSession}]
    BY DEF ForgetName, TypeOK
  <2> QED BY <1>7, <2>1, <2>2 DEF RemoveSession, TypeOK, clientVars, linkVars
<1>8. ASSUME NEW n \in Server, NEW t \in Thread, ThreadStep(n, t)
      PROVE  TypeOK'
  <2>f. frame[n][t] \in Frame
    BY DEF TypeOK
  <2>1. ASSUME NEW m \in Server, Announce(n, t, m)
        PROVE  TypeOK'
    <3>1. frame[n][t].todo \ {m} \in SUBSET Server /\ frame[n][t].job \in Job
      BY <2>f DEF Frame
    <3>2. [frame[n][t] EXCEPT !.todo = @ \ {m}] \in Frame
      BY <2>f, <3>1 DEF Frame
    <3>3. Framed
      BY <2>1, <3>2, ProceedType, MovesOne DEF Announce, TypeOK
    <3>4. chan' \in [Server -> [Server -> Seq(Job)]]
      BY <2>1, <3>1 DEF Announce, Send, TypeOK
    <3> QED BY <2>1, <3>3, <3>4 DEF Announce, TypeOK, clientVars, sessionVars
  <2>2. ASSUME NEW m \in Server, SendFails(n, t, m)
        PROVE  TypeOK'
    <3>1. [frame[n][t] EXCEPT !.pc = "unlink", !.todo = @ \ {m}, !.peer = m] \in Frame
      BY <2>f DEF Frame
    <3>2. Framed
      BY <2>2, <3>1, MovesOne DEF SendFails, TypeOK
    <3> QED BY <2>2, <3>2 DEF SendFails, TypeOK, clientVars, sessionVars, linkVars
  <2>3. CASE Unlink(n, t)
    <3>1. [frame[n][t] EXCEPT !.pc = "clear"] \in Frame
      BY <2>f DEF Frame
    <3>2. Framed
      BY <2>3, <3>1, MovesOne DEF Unlink, Goes, TypeOK
    <3>m. frame[n][t].peer \in Peers(n)
      BY <2>3 DEF Unlink, Traffic, InFrame
    <3>p. frame[n][t].peer \in Server /\ frame[n][t].peer # n
      BY <3>m DEF Peers
    <3>3. /\ peer' \in [Server -> [Server -> {"down", "up", "lost"}]]
          /\ raw' \in [Server -> [Server -> {"none", "up", "lost"}]]
          /\ \A k \in Server : peer'[k][k] = "down" /\ raw'[k][k] = "none"
      <4>1. CASE peer[n][frame[n][t].peer] = "up"
        <5> DEFINE m == frame[n][t].peer
                   st == IF raw[m][n] = "none" THEN Cut(peer[m][n]) ELSE peer[m][n]
        <5>1. m \in Server /\ m # n /\ st \in {"down", "up", "lost"}
          BY <3>p DEF TypeOK, Cut
        <5>2. peer' = [peer EXCEPT ![n][m] = "down", ![m][n] = st]
          BY <2>3, <4>1, <5>1 DEF Unlink, TypeOK
        <5>3. raw' = [raw EXCEPT ![m][n] = Cut(raw[m][n])]
          BY <2>3, <4>1, <5>1 DEF Unlink, TypeOK
        <5> HIDE DEF m, st
        <5>t. peer \in [Server -> [Server -> {"down", "up", "lost"}]] /\ \A k \in Server : peer[k][k] = "down"
          BY DEF TypeOK
        <5>4. peer' \in [Server -> [Server -> {"down", "up", "lost"}]]
          <6> DEFINE A == [peer EXCEPT ![n][m] = "down"]
          <6>1. A \in [Server -> [Server -> {"down", "up", "lost"}]]
            BY <5>1, <5>t
          <6>2. peer' = [A EXCEPT ![m][n] = st]
            BY <5>2
          <6> HIDE DEF A
          <6> QED BY <5>1, <6>1, <6>2
        <5>5. \A k \in Server : peer'[k][k] = "down"
          BY <5>1, <5>2, <5>t
        <5>6. raw' \in [Server -> [Server -> {"none", "up", "lost"}]]
          BY <5>1, <5>3 DEF TypeOK, Cut
        <5>7. \A k \in Server : raw'[k][k] = "none"
          BY <5>1, <5>3 DEF TypeOK
        <5> QED BY <5>4, <5>5, <5>6, <5>7
      <4>2. CASE peer[n][frame[n][t].peer] # "up"
        <5>1. peer' = [peer EXCEPT ![n][frame[n][t].peer] = "down"] /\ raw' = raw
          BY <2>3, <4>2 DEF Unlink
        <5>2. peer \in [Server -> [Server -> {"down", "up", "lost"}]] /\ \A k \in Server : peer[k][k] = "down"
          BY DEF TypeOK
        <5>3. peer' \in [Server -> [Server -> {"down", "up", "lost"}]]
          BY <5>1, <5>2, <3>p
        <5>4. \A k \in Server : peer'[k][k] = "down"
          BY <5>1, <5>2, <3>p
        <5> QED BY <5>1, <5>3, <5>4 DEF TypeOK
      <4> QED BY <4>1, <4>2
    <3>4. chan' \in [Server -> [Server -> Seq(Job)]]
      BY <2>3, <3>p DEF Unlink, TypeOK
    <3> QED BY <2>3, <3>2, <3>3, <3>4 DEF Unlink, TypeOK, clientVars, sessionVars
  <2>4. CASE Clear(n, t)
    <3>1. Framed
      BY <2>4, <2>f, ProceedType, MovesOne DEF Clear, TypeOK
    <3>2. ClearServerUsers(n, frame[n][t].peer) \in [Name -> Server \cup {NoServer}]
      BY DEF ClearServerUsers, TypeOK
    <3> QED BY <2>4, <3>1, <3>2 DEF Clear, TypeOK, clientVars, sessionVars, linkVars
  <2> QED BY <1>8, <2>1, <2>2, <2>3, <2>4 DEF ThreadStep
<1>9. ASSUME NEW n \in Server, NEW w \in Worker, WorkerStep(n, w)
      PROVE  TypeOK'
  <2>f. w \in Thread /\ frame[n][w] \in Frame /\ frame[n][w].job \in Job
    BY DEF TypeOK, Thread, Frame
  <2>1. CASE Start(n, w)
    <3>1. Head(queue[n]) \in Job /\ Tail(queue[n]) \in Seq(Job)
      BY <2>1, ToSetHeadTail DEF Start, TypeOK
    <3>2. [Idle EXCEPT !.pc = Entry(Head(queue[n]).kind), !.job = Head(queue[n])] \in Frame
      BY <3>1, IdleType, EntryType DEF Frame
    <3>3. Framed
      BY <2>1, <2>f, <3>2, MovesOne DEF Start, TypeOK
    <3> QED BY <2>1, <3>1, <3>3 DEF Start, TypeOK, clientVars, sessionVars, linkVars
  <2>2. CASE Check(n, w)
    <3>1. [frame[n][w] EXCEPT !.pc = "register"] \in Frame
      BY <2>f DEF Frame
    <3>2. Framed
      BY <2>2, <2>f, <3>1, IdleType, MovesOne DEF Check, Goes, TypeOK
    <3>3. answered' \in [Session -> Nat]
      <4>1. answered \in [Session -> Nat]
        BY DEF TypeOK
      <4>2. \/ answered' = answered
            \/ answered' = [answered EXCEPT ![frame[n][w].job.ses] = @ + 1]
        BY <2>2 DEF Check
      <4> QED BY <4>1, <4>2
    <3> QED BY <2>2, <3>2, <3>3 DEF Check, TypeOK, sessionVars, linkVars
  <2>3. CASE Register(n, w)
    <3>1. [frame[n][w] EXCEPT !.pc = "auth"] \in Frame
      BY <2>f DEF Frame
    <3>2. Framed
      BY <2>3, <2>f, <3>1, MovesOne DEF Register, Goes, TypeOK
    <3> QED BY <2>3, <3>2 DEF Register, TypeOK, clientVars, sessionVars, linkVars
  <2>4. CASE Auth(n, w)
    <3>j. frame[n][w].job.ses \in Session /\ frame[n][w].job.user \in Name
      <4>1. InFrame(n, frame[n][w]) /\ frame[n][w].pc = "auth"
        BY <2>4, <2>f DEF Auth, Traffic
      <4>2. Asked(frame[n][w].job.ses, frame[n][w].job.user)
        BY <4>1 DEF InFrame, Truthful
      <4> QED BY <4>2, ToSetOfSeq DEF Asked, TypeOK
    <3>1. Proceed([Idle EXCEPT !.job = Online(frame[n][w].job.ses, frame[n][w].job.user),
                               !.todo = Peers(n)]) \in Frame
      <4>1. /\ Online(frame[n][w].job.ses, frame[n][w].job.user) \in Job
            /\ Peers(n) \in SUBSET Server
        BY <3>j, JobTypes DEF Peers
      <4>2. [Idle EXCEPT !.job = Online(frame[n][w].job.ses, frame[n][w].job.user),
                         !.todo = Peers(n)] \in Frame
        BY <4>1, IdleType DEF Frame
      <4> QED BY <4>2, ProceedType
    <3>2. Framed
      BY <2>4, <2>f, <3>1, MovesOne DEF Auth, TypeOK
    <3>3. username' \in [Session -> Name \cup {NoName}]
      BY <2>4, <3>j DEF Auth, SetName, TypeOK
    <3>4. byName' \in [Server -> [Name -> Session \cup {NoSession}]]
      BY <2>4, <3>j DEF Auth, IndexKey, TypeOK
    <3>5. answered' \in [Session -> Nat]
      <4>1. answered \in [Session -> Nat]
        BY DEF TypeOK
      <4>2. \/ answered' = answered
            \/ answered' = [answered EXCEPT ![frame[n][w].job.ses] = @ + 1]
        BY <2>4 DEF Auth
      <4> QED BY <4>1, <4>2
    <3> QED BY <2>4, <3>2, <3>3, <3>4, <3>5 DEF Auth, TypeOK, linkVars
  <2>5. CASE Apply(n, w)
    <3>1. Framed
      BY <2>5, <2>f, IdleType, MovesOne DEF Apply, TypeOK
    <3>2. frame[n][w].job.from \in Server \cup {NoServer}
      BY <2>f DEF Job
    <3> QED BY <2>5, <3>1, <3>2 DEF Apply, TypeOK, clientVars, sessionVars, linkVars
  <2>6. CASE Promote(n, w)
    <3>1. Framed
      BY <2>6, <2>f, IdleType, MovesOne DEF Promote, TypeOK
    <3>2. frame[n][w].job.from \in Server /\ frame[n][w].job.from # n
      BY <2>6, <2>f DEF Promote, Traffic, InFrame, Peers
    <3>3. /\ peer' \in [Server -> [Server -> {"down", "up", "lost"}]]
          /\ raw' \in [Server -> [Server -> {"none", "up", "lost"}]]
          /\ \A k \in Server : peer'[k][k] = "down" /\ raw'[k][k] = "none"
      BY <2>6, <3>2 DEF Promote, TypeOK
    <3> QED BY <2>6, <3>1, <3>3 DEF Promote, TypeOK, clientVars, sessionVars
  <2> QED BY <1>8, <1>9, <2>1, <2>2, <2>3, <2>4, <2>5, <2>6, <2>f DEF WorkerStep
<1>10. ASSUME NEW n \in Server, NEW m \in Server, HeartbeatTimeout(n, m)
       PROVE  TypeOK'
  <2>1. [Idle EXCEPT !.pc = "unlink", !.peer = m] \in Frame
    BY IdleType DEF Frame
  <2>2. Framed
    BY <1>10, <2>1, MovesOne DEF HeartbeatTimeout, TypeOK, Thread
  <2> QED BY <1>10, <2>2 DEF HeartbeatTimeout, TypeOK, clientVars, sessionVars, linkVars
<1>11. ASSUME NEW n \in Server, NEW m \in Server, SocketStep(n, m)
       PROVE  TypeOK'
  <2>1. CASE ReadPeer(n, m)
    <3>1. Head(chan[m][n]) \in Job /\ Tail(chan[m][n]) \in Seq(Job)
      BY <2>1, ToSetHeadTail DEF ReadPeer, TypeOK
    <3>2. AsClientPacket(Head(chan[m][n])) \in Job
      BY <3>1, LinkJobTypes DEF AsClientPacket
    <3> QED BY <2>1, <3>1, <3>2 DEF ReadPeer, TypeOK, clientVars, sessionVars
  <2>2. CASE PeerEof(n, m)
    <3>1. [Idle EXCEPT !.pc = "unlink", !.peer = m] \in Frame
      BY IdleType DEF Frame
    <3>2. Framed
      BY <2>2, <3>1, MovesOne DEF PeerEof, TypeOK, Thread
    <3> QED BY <2>2, <3>2 DEF PeerEof, TypeOK, clientVars, sessionVars, linkVars
  <2>3. CASE RawEof(n, m)
    BY <2>3 DEF RawEof, TypeOK, clientVars, sessionVars
  <2> QED BY <1>11, <2>1, <2>2, <2>3 DEF SocketStep
<1>12. ASSUME NEW n \in Server, NEW m \in Server, Dial(n, m)
       PROVE  TypeOK'
  <2>1. <<Hello(n)>> \in Seq(Job) /\ <<>> \in Seq(Job)
    BY LinkJobTypes
  <2>2. chan' \in [Server -> [Server -> Seq(Job)]]
    BY <1>12, <2>1 DEF Dial, TypeOK
  <2>3. /\ peer' \in [Server -> [Server -> {"down", "up", "lost"}]]
        /\ raw' \in [Server -> [Server -> {"none", "up", "lost"}]]
        /\ \A k \in Server : peer'[k][k] = "down" /\ raw'[k][k] = "none"
    BY <1>12 DEF Dial, Peers, TypeOK
  <2>4. dials' \in Nat
    BY <1>12 DEF Dial, TypeOK
  <2> QED BY <1>12, <2>2, <2>3, <2>4 DEF Dial, TypeOK, clientVars, sessionVars
<1>13. ASSUME NEW n \in Server, NEW m \in Server, NetBreak(n, m)
       PROVE  TypeOK'
  <2>0. n # m
    BY <1>13 DEF NetBreak
  <2>1. chan' \in [Server -> [Server -> Seq(Job)]]
    <3>1. PICK i \in 0..Len(chan[n][m]), k \in 0..Len(chan[m][n]) :
              chan' = [chan EXCEPT ![n][m] = SubSeq(@, 1, i), ![m][n] = SubSeq(@, 1, k)]
      BY <1>13 DEF NetBreak
    <3>2. SubSeq(chan[n][m], 1, i) \in Seq(Job) /\ SubSeq(chan[m][n], 1, k) \in Seq(Job)
      BY ToSetPrefix DEF TypeOK
    <3>3. chan' = [chan EXCEPT ![n][m] = SubSeq(chan[n][m], 1, i),
                               ![m][n] = SubSeq(chan[m][n], 1, k)]
      BY <2>0, <3>1 DEF TypeOK
    <3>4. chan \in [Server -> [Server -> Seq(Job)]]
      BY DEF TypeOK
    <3> DEFINE A == [chan EXCEPT ![n][m] = SubSeq(chan[n][m], 1, i)]
    <3>5. A \in [Server -> [Server -> Seq(Job)]]
      BY <3>2, <3>4
    <3>6. chan' = [A EXCEPT ![m][n] = SubSeq(chan[m][n], 1, k)]
      BY <3>3
    <3> HIDE DEF A
    <3> QED BY <3>2, <3>5, <3>6
  <2>2. peer' \in [Server -> [Server -> {"down", "up", "lost"}]] /\ \A k \in Server : peer'[k][k] = "down"
    <3> DEFINE st == IF raw[m][n] = "none" THEN Cut(peer[m][n]) ELSE peer[m][n]
    <3>1. st \in {"down", "up", "lost"}
      BY DEF Cut, TypeOK
    <3>2. peer' = [peer EXCEPT ![n][m] = "lost", ![m][n] = st]
      BY <1>13, <2>0 DEF NetBreak, TypeOK
    <3> HIDE DEF st
    <3>3. peer \in [Server -> [Server -> {"down", "up", "lost"}]] /\ \A k \in Server : peer[k][k] = "down"
      BY DEF TypeOK
    <3>4. peer' \in [Server -> [Server -> {"down", "up", "lost"}]]
      <4> DEFINE A == [peer EXCEPT ![n][m] = "lost"]
      <4>1. A \in [Server -> [Server -> {"down", "up", "lost"}]]
        BY <3>3
      <4>2. peer' = [A EXCEPT ![m][n] = st]
        BY <3>2
      <4> HIDE DEF A
      <4> QED BY <3>1, <4>1, <4>2
    <3>5. \A k \in Server : peer'[k][k] = "down"
      BY <2>0, <3>1, <3>2, <3>3
    <3> QED BY <3>4, <3>5
  <2>3. raw' \in [Server -> [Server -> {"none", "up", "lost"}]] /\ \A k \in Server : raw'[k][k] = "none"
    BY <1>13, <2>0 DEF NetBreak, Cut, TypeOK
  <2>4. breaks' \in Nat
    BY <1>13 DEF NetBreak, TypeOK
  <2> QED BY <1>13, <2>1, <2>2, <2>3, <2>4 DEF NetBreak, TypeOK, clientVars, sessionVars
<1>14. CASE UNCHANGED vars
  BY <1>14 DEF TypeOK, vars, clientVars, sessionVars, linkVars
<1>15. ASSUME NEW s \in Session, ClientStep(s) \/ Accept(s) \/ ReadLogin(s) \/ ReadEof(s)
       PROVE  TypeOK'
  BY <1>15, <1>1, <1>2, <1>3, <1>4, <1>5 DEF ClientStep
<1>16. ASSUME NEW n \in Server, HeartbeatStep(n) \/ DisconnectStep(n)
       PROVE  TypeOK'
  BY <1>16, <1>6, <1>7, <1>8, <1>10, <1>t DEF HeartbeatStep, DisconnectStep
<1> QED BY <1>9, <1>11, <1>12, <1>13, <1>14, <1>15, <1>16 DEF Next

-----------------------------------------------------------------------------
(* A step keeps Traffic when it takes back no LOGIN and everything it adds is *)
(* as it should be.                                                           *)
AskedGrows == \A s \in Session : ToSet(asked[s]) \subseteq ToSet(asked'[s])
NamesKept == \A s \in Session : username'[s] = username[s] \/ Asked(s, username'[s])
QueuesKept == \A n \in Server : \A j \in ToSet(queue'[n]) : j \in ToSet(queue[n]) \/ InQueue(n, j)
WiresKept == \A m, n \in Server : \A j \in ToSet(chan'[m][n]) : j \in ToSet(chan[m][n]) \/ OnWire(m, n, j)
FramesKept == \A n \in Server, t \in Thread : frame'[n][t] = frame[n][t] \/ InFrame(n, frame'[n][t])

LEMMA TrafficKept ==
    ASSUME Traffic, AskedGrows, NamesKept, QueuesKept, WiresKept, FramesKept
    PROVE  Traffic'
<1>1. ASSUME NEW s \in Session
      PROVE  (username[s] = NoName \/ Asked(s, username[s]))'
  BY DEF Traffic, NamesKept, AskedGrows, Asked
<1>2. ASSUME NEW n \in Server, NEW j \in ToSet(queue'[n])
      PROVE  InQueue(n, j)'
  <2>1. InQueue(n, j)
    BY DEF QueuesKept, Traffic
  <2> QED BY <2>1 DEF InQueue, Truthful, Asked, AskedGrows, Peers
<1>3. ASSUME NEW m \in Server, NEW n \in Server, NEW j \in ToSet(chan'[m][n])
      PROVE  OnWire(m, n, j)'
  <2>1. OnWire(m, n, j)
    BY DEF WiresKept, Traffic
  <2> QED BY <2>1 DEF OnWire, Truthful, Asked, AskedGrows
<1>4. ASSUME NEW n \in Server, NEW t \in Thread
      PROVE  InFrame(n, frame[n][t])'
  <2>1. InFrame(n, frame'[n][t])
    BY DEF FramesKept, Traffic
  <2> QED BY <2>1 DEF InFrame, Truthful, Asked, AskedGrows, Peers
<1> QED BY <1>1, <1>2, <1>3, <1>4 DEF Traffic

LEMMA FrameMoves ==
    ASSUME NEW n \in Server, NEW t \in Thread, NEW f \in Frame,
           frame \in [Server -> [Thread -> Frame]], Moves(n, t, f), InFrame(n, f)
    PROVE  FramesKept
  BY MovesOne DEF FramesKept

LEMMA InFrameIdle == \A n \in Server : InFrame(n, Idle)
  BY DEF InFrame, Idle, Junk, Truthful

LEMMA InFrameProceed ==
    ASSUME NEW n \in Server, NEW f \in Frame, Truthful(f.job), f.todo \subseteq Peers(n),
           f.todo # {} => /\ f.job.kind \in {"online", "offline"} /\ f.job.from = n
                          /\ f.job.user # NoName
    PROVE  InFrame(n, Proceed(f))
<1>1. CASE f.todo # {}
  <2>1. Proceed(f) = [f EXCEPT !.pc = "announce", !.peer = NoServer]
    BY <1>1 DEF Proceed
  <2>2. /\ Proceed(f).pc = "announce" /\ Proceed(f).todo = f.todo /\ Proceed(f).job = f.job
    BY <2>1 DEF Frame
  <2> QED BY <2>2 DEF InFrame
<1>2. CASE f.todo = {} /\ f.job.kind = "offline"
  <2>1. Proceed(f) = [f EXCEPT !.pc = "remove", !.peer = NoServer]
    BY <1>2 DEF Proceed
  <2>2. /\ Proceed(f).pc = "remove" /\ Proceed(f).todo = f.todo /\ Proceed(f).job = f.job
    BY <2>1 DEF Frame
  <2> QED BY <2>2, <1>2 DEF InFrame
<1>3. CASE f.todo = {} /\ f.job.kind # "offline"
  BY <1>3, InFrameIdle DEF Proceed
<1> QED BY <1>1, <1>2, <1>3

LEMMA TrafficStep == TypeOK /\ Traffic /\ [Next]_vars => Traffic'
<1> SUFFICES ASSUME TypeOK, Traffic, [Next]_vars
             PROVE  Traffic'
  OBVIOUS
<1> USE PresenceAssumption, TrafficKept, LabelValues
<1>t. Listener \in Thread /\ Heartbeat \in Thread /\ \A w \in Worker : w \in Thread
  BY DEF Thread
<1>a. UNCHANGED asked => AskedGrows
  BY DEF AskedGrows
<1>b. UNCHANGED username => NamesKept
  BY DEF NamesKept
<1>c. UNCHANGED queue => QueuesKept
  BY DEF QueuesKept
<1>d. UNCHANGED chan => WiresKept
  BY DEF WiresKept
<1>e. UNCHANGED frame => FramesKept
  BY DEF FramesKept
<1>f. ASSUME NEW n \in Server, NEW t \in Thread, NEW f \in Frame, Moves(n, t, f), InFrame(n, f)
      PROVE  FramesKept
  BY <1>f, FrameMoves DEF TypeOK
<1>1. ASSUME NEW s \in Session, NEW u \in MayUse[s], SendLogin(s, u)
      PROVE  Traffic'
  <2>1. u \in Name /\ asked[s] \in Seq(Name)
    BY DEF TypeOK
  <2>2. AskedGrows
    <3>1. ToSet(Append(asked[s], u)) = ToSet(asked[s]) \cup {u}
      BY <2>1, ToSetAppend
    <3>2. asked' = [asked EXCEPT ![s] = Append(@, u)] /\ asked \in [Session -> Seq(Name)]
      BY <1>1 DEF SendLogin, TypeOK
    <3>3. \A r \in Session : asked'[r] = IF r = s THEN Append(asked[s], u) ELSE asked[r]
      BY <3>2
    <3> QED BY <3>1, <3>3 DEF AskedGrows
  <2> QED BY <1>1, <2>2, <1>b, <1>c, <1>d, <1>e DEF SendLogin, sessionVars, linkVars
<1>2. ASSUME NEW s \in Session, HangUp(s) \/ Accept(s)
      PROVE  Traffic'
  BY <1>2, <1>a, <1>b, <1>c, <1>d, <1>e DEF HangUp, Accept, sessionVars, linkVars
<1>3. ASSUME NEW s \in Session, ReadLogin(s)
      PROVE  Traffic'
  <2> DEFINE j == Login(s, asked[s][taken[s] + 1])
  <2>1. Asked(s, asked[s][taken[s] + 1]) /\ asked[s][taken[s] + 1] \in Name
    BY <1>3, ToSetOfSeq DEF ReadLogin, TypeOK, Asked, ToSet
  <2>2. j \in Job /\ InQueue(Home[s], j)
    BY <2>1, JobTypes DEF InQueue, Truthful, Login
  <2>3. queue' = [queue EXCEPT ![Home[s]] = Append(@, j)]
    BY <1>3 DEF ReadLogin
  <2> HIDE DEF j
  <2>4. \A n \in Server : ToSet(queue'[n]) \subseteq ToSet(queue[n]) \cup (IF n = Home[s] THEN {j} ELSE {})
    BY <2>2, <2>3, ToSetAppend DEF TypeOK
  <2>5. QueuesKept
    BY <2>2, <2>4 DEF QueuesKept
  <2> QED BY <1>3, <2>5, <1>a, <1>b, <1>d, <1>e DEF ReadLogin, sessionVars, linkVars
<1>4. ASSUME NEW s \in Session, ReadEof(s)
      PROVE  Traffic'
  <2> DEFINE f == [Idle EXCEPT !.pc = IF username[s] = NoName THEN "remove" ELSE "unregister",
                               !.job = Offline(s, username[s])]
  <2>1. Offline(s, username[s]) \in Job
    BY JobTypes DEF TypeOK
  <2>2. f \in Frame
    BY <2>1, IdleType DEF Frame
  <2>3. username[s] = NoName \/ Asked(s, username[s])
    BY DEF Traffic
  <2>4. InFrame(Home[s], f)
    BY <2>3 DEF InFrame, Idle, Truthful, Offline
  <2>5. FramesKept
    BY <1>4, <1>f, <1>t, <2>2, <2>4 DEF ReadEof
  <2> QED BY <1>4, <2>5, <1>a, <1>b, <1>c, <1>d DEF ReadEof, clientVars, sessionVars, linkVars
<1>5. ASSUME NEW n \in Server, Unregister(n)
      PROVE  Traffic'
  <2> DEFINE f == [frame[n][Listener] EXCEPT !.todo = Peers(n)]
  <2>1. f \in Frame
    <3>1. frame[n][Listener] \in Frame /\ Peers(n) \in SUBSET Server
      BY <1>t DEF TypeOK, Peers
    <3> QED BY <3>1 DEF Frame
  <2>2. /\ f.job = frame[n][Listener].job /\ f.todo = Peers(n)
        /\ InFrame(n, frame[n][Listener]) /\ frame[n][Listener].pc = "unregister"
    BY <1>5, <1>t DEF Unregister, Traffic, TypeOK, Frame
  <2> HIDE DEF f
  <2>3. InFrame(n, Proceed(f))
    BY <2>1, <2>2, InFrameProceed DEF InFrame
  <2>4. Proceed(f) \in Frame
    BY <2>1, ProceedType
  <2>5. FramesKept
    BY <1>5, <1>f, <1>t, <2>3, <2>4 DEF Unregister, f
  <2> QED BY <1>5, <2>5, <1>a, <1>b, <1>c, <1>d DEF Unregister, clientVars, sessionVars, linkVars
<1>6. ASSUME NEW n \in Server, RemoveSession(n)
      PROVE  Traffic'
  <2>1. FramesKept
    BY <1>6, <1>f, <1>t, IdleType, InFrameIdle DEF RemoveSession
  <2> QED BY <1>6, <2>1, <1>a, <1>b, <1>c, <1>d DEF RemoveSession, clientVars, linkVars
<1>7. ASSUME NEW n \in Server, NEW t \in Thread, ThreadStep(n, t)
      PROVE  Traffic'
  <2>f. frame[n][t] \in Frame /\ InFrame(n, frame[n][t])
    BY DEF TypeOK, Traffic
  <2>1. ASSUME NEW m \in Server, Announce(n, t, m)
        PROVE  Traffic'
    <3> DEFINE f == [frame[n][t] EXCEPT !.todo = @ \ {m}]
    <3>1. f \in Frame
      BY <2>f DEF Frame
    <3>2. f.job = frame[n][t].job /\ f.todo = frame[n][t].todo \ {m} /\ frame[n][t].todo # {}
      BY <2>1, <2>f DEF Announce, Frame
    <3> HIDE DEF f
    <3>3. InFrame(n, Proceed(f))
      BY <2>f, <3>1, <3>2, InFrameProceed DEF InFrame
    <3>4. Proceed(f) \in Frame
      BY <3>1, ProceedType
    <3>5. FramesKept
      BY <2>1, <1>f, <3>3, <3>4 DEF Announce, f
    <3>6. WiresKept
      <4>1. frame[n][t].job \in Job /\ OnWire(n, m, frame[n][t].job)
        BY <2>1, <2>f DEF Announce, InFrame, OnWire, Peers, Frame
      <4>2. \/ chan' = chan
            \/ chan' = [chan EXCEPT ![n][m] = Append(@, frame[n][t].job)]
        BY <2>1 DEF Announce, Send
      <4>3. ToSet(Append(chan[n][m], frame[n][t].job)) = ToSet(chan[n][m]) \cup {frame[n][t].job}
        BY <4>1, ToSetAppend DEF TypeOK
      <4>4. \A k, l \in Server : \/ chan'[k][l] = chan[k][l]
                                 \/ k = n /\ l = m /\ chan'[k][l] = Append(chan[n][m], frame[n][t].job)
        <5>1. chan \in [Server -> [Server -> Seq(Job)]]
          BY DEF TypeOK
        <5> QED BY <4>2, <5>1, SMTT(20)
      <4>5. ASSUME NEW k \in Server, NEW l \in Server, NEW j \in ToSet(chan'[k][l])
            PROVE  j \in ToSet(chan[k][l]) \/ OnWire(k, l, j)
        <5>1. CASE chan'[k][l] = chan[k][l]
          BY <5>1
        <5>2. CASE k = n /\ l = m /\ chan'[k][l] = Append(chan[n][m], frame[n][t].job)
          BY <4>1, <4>3, <5>2, SMTT(20)
        <5> QED BY <4>4, <5>1, <5>2
      <4> QED BY <4>5 DEF WiresKept
    <3> QED BY <2>1, <3>5, <3>6, <1>a, <1>b, <1>c DEF Announce, clientVars, sessionVars
  <2>2. ASSUME NEW m \in Server, SendFails(n, t, m)
        PROVE  Traffic'
    <3> DEFINE f == [frame[n][t] EXCEPT !.pc = "unlink", !.todo = @ \ {m}, !.peer = m]
    <3>1. f \in Frame
      BY <2>f DEF Frame
    <3>2. /\ f.pc = "unlink" /\ f.job = frame[n][t].job /\ f.peer = m /\ m \in frame[n][t].todo
          /\ f.todo = frame[n][t].todo \ {m}
      BY <2>2, <2>f DEF SendFails, Frame
    <3> HIDE DEF f
    <3>3. InFrame(n, f)
      BY <2>f, <3>2 DEF InFrame
    <3>4. FramesKept
      BY <2>2, <1>f, <3>1, <3>3 DEF SendFails, f
    <3> QED BY <2>2, <3>4, <1>a, <1>b, <1>c, <1>d DEF SendFails, clientVars, sessionVars, linkVars
  <2>3. CASE Unlink(n, t)
    <3> DEFINE f == [frame[n][t] EXCEPT !.pc = "clear"]
    <3>1. f \in Frame /\ frame[n][t].pc = "unlink"
      BY <2>3, <2>f DEF Frame, Unlink
    <3>2. /\ f.pc = "clear" /\ f.job = frame[n][t].job /\ f.peer = frame[n][t].peer
          /\ f.todo = frame[n][t].todo
      BY <2>f DEF Frame
    <3> HIDE DEF f
    <3>3. InFrame(n, f)
      BY <2>f, <3>1, <3>2 DEF InFrame
    <3>4. FramesKept
      BY <2>3, <1>f, <3>1, <3>3 DEF Unlink, Goes, f
    <3>5. WiresKept
      <4>1. frame[n][t].peer \in Server
        BY <2>f, <3>1 DEF InFrame, Peers
      <4>2. \/ chan' = chan
            \/ chan' = [chan EXCEPT ![frame[n][t].peer][n] = <<>>]
        BY <2>3 DEF Unlink
      <4>3. \A k, l \in Server : chan'[k][l] = chan[k][l] \/ chan'[k][l] = <<>>
        <5> DEFINE m == frame[n][t].peer
        <5>1. chan \in [Server -> [Server -> Seq(Job)]] /\ m \in Server
          BY <4>1 DEF TypeOK
        <5>2. chan' = chan \/ chan' = [chan EXCEPT ![m][n] = <<>>]
          BY <4>2
        <5> HIDE DEF m
        <5>3. CASE chan' = chan
          BY <5>3
        <5>4. CASE chan' = [chan EXCEPT ![m][n] = <<>>]
          <6>1. \A k, l \in Server : chan'[k][l] = IF k = m /\ l = n THEN <<>> ELSE chan[k][l]
            BY <5>1, <5>4
          <6> QED BY <6>1
        <5> QED BY <5>2, <5>3, <5>4
      <4>4. \A k, l \in Server : ToSet(chan'[k][l]) \subseteq ToSet(chan[k][l])
        <5> SUFFICES ASSUME NEW k \in Server, NEW l \in Server
                     PROVE  ToSet(chan'[k][l]) \subseteq ToSet(chan[k][l])
          OBVIOUS
        <5>1. CASE chan'[k][l] = chan[k][l]
          BY <5>1
        <5>2. CASE chan'[k][l] = <<>>
          BY <5>2, ToSetEmpty
        <5> QED BY <4>3, <5>1, <5>2
      <4> QED BY <4>4 DEF WiresKept
    <3> QED BY <2>3, <3>4, <3>5, <1>a, <1>b, <1>c DEF Unlink, clientVars, sessionVars
  <2>4. CASE Clear(n, t)
    <3>1. InFrame(n, Proceed(frame[n][t])) /\ Proceed(frame[n][t]) \in Frame
      BY <2>f, InFrameProceed, ProceedType DEF InFrame
    <3>2. FramesKept
      BY <2>4, <1>f, <3>1 DEF Clear
    <3> QED BY <2>4, <3>2, <1>a, <1>b, <1>c, <1>d DEF Clear, clientVars, sessionVars, linkVars
  <2> QED BY <1>7, <2>1, <2>2, <2>3, <2>4 DEF ThreadStep
<1>8. ASSUME NEW n \in Server, NEW w \in Worker, WorkerStep(n, w)
      PROVE  Traffic'
  <2> DEFINE j == frame[n][w].job
  <2>f. w \in Thread /\ frame[n][w] \in Frame /\ InFrame(n, frame[n][w]) /\ j \in Job
    BY <1>t DEF TypeOK, Traffic, Frame
  <2>1. CASE Start(n, w)
    <3> DEFINE h == Head(queue[n])
               f == [Idle EXCEPT !.pc = Entry(h.kind), !.job = h]
    <3>1. /\ h \in Job /\ h \in ToSet(queue[n])
          /\ ToSet(Tail(queue[n])) \subseteq ToSet(queue[n])
      BY <2>1, ToSetHeadTail DEF Start, TypeOK
    <3>2. InQueue(n, h)
      BY <3>1 DEF Traffic
    <3>3. f \in Frame
      BY <3>1, IdleType, EntryType DEF Frame
    <3>4. f.pc = Entry(h.kind) /\ f.job = h /\ f.todo = {}
      BY DEF Idle
    <3>5. h.kind \in {"login", "online", "offline", "hello", "junk"}
      BY <3>1 DEF Job
    <3>6. h.kind = "online" => h.user # NoName
      BY <3>2, ToSetOfSeq DEF InQueue, Truthful, Asked, TypeOK
    <3>7. InFrame(n, f)
      BY <3>2, <3>4, <3>5, <3>6 DEF InFrame, InQueue, Entry
    <3>8. FramesKept
      BY <2>1, <2>f, <1>f, <3>3, <3>7 DEF Start
    <3>9. QueuesKept
      BY <2>1, <3>1 DEF Start, QueuesKept, TypeOK
    <3> QED BY <2>1, <3>8, <3>9, <1>a, <1>b, <1>d DEF Start, clientVars, sessionVars, linkVars
  <2>2. CASE Check(n, w)
    <3> DEFINE f == [frame[n][w] EXCEPT !.pc = "register"]
    <3>1. CASE Refused(n, j.user)
      BY <2>2, <3>1, <2>f, <1>f, <1>a, <1>b, <1>c, <1>d, IdleType, InFrameIdle
         DEF Check, sessionVars, linkVars
    <3>2. CASE ~Refused(n, j.user)
      <4>1. f \in Frame
        BY <2>f DEF Frame
      <4>2. f.pc = "register" /\ f.job = j /\ f.todo = frame[n][w].todo /\ frame[n][w].pc = "check"
        BY <2>2, <2>f DEF Check, Frame
      <4>3. j.user \notin Invalid
        BY <3>2 DEF Refused
      <4>4. InFrame(n, f)
        BY <2>f, <4>2, <4>3 DEF InFrame
      <4>5. FramesKept
        BY <2>2, <3>2, <2>f, <1>f, <4>1, <4>4 DEF Check, Goes
      <4> QED BY <2>2, <4>5, <1>a, <1>b, <1>c, <1>d DEF Check, sessionVars, linkVars
    <3> QED BY <3>1, <3>2
  <2>3. CASE Register(n, w)
    <3> DEFINE f == [frame[n][w] EXCEPT !.pc = "auth"]
    <3>1. f \in Frame
      BY <2>f DEF Frame
    <3>2. f.pc = "auth" /\ f.job = j /\ f.todo = frame[n][w].todo /\ frame[n][w].pc = "register"
      BY <2>3, <2>f DEF Register, Frame
    <3>3. InFrame(n, f)
      BY <2>f, <3>2 DEF InFrame
    <3>4. FramesKept
      BY <2>3, <2>f, <1>f, <3>1, <3>3 DEF Register, Goes
    <3> QED BY <2>3, <3>4, <1>a, <1>b, <1>c, <1>d DEF Register, clientVars, sessionVars, linkVars
  <2>4. CASE Auth(n, w)
    <3> DEFINE g == [Idle EXCEPT !.job = Online(j.ses, j.user), !.todo = Peers(n)]
    <3>1. Asked(j.ses, j.user) /\ Home[j.ses] = n /\ j.user \notin Invalid
      BY <2>4, <2>f DEF Auth, InFrame, Truthful
    <3>2. j.ses \in Session /\ j.user \in Name
      BY <3>1, ToSetOfSeq DEF Asked, TypeOK
    <3>3. Online(j.ses, j.user) \in Job /\ Peers(n) \in SUBSET Server
      BY <3>2, JobTypes DEF Peers
    <3>4. g \in Frame
      BY <3>3, IdleType DEF Frame
    <3>5. g.job = Online(j.ses, j.user) /\ g.todo = Peers(n)
      BY DEF Idle
    <3> HIDE DEF g
    <3>6. InFrame(n, Proceed(g))
      BY <3>1, <3>2, <3>4, <3>5, InFrameProceed DEF Truthful, Online
    <3>7. FramesKept
      BY <2>4, <2>f, <1>f, <3>4, <3>6, ProceedType DEF Auth, g
    <3>8. NamesKept
      BY <2>4, <3>1, <3>2 DEF Auth, SetName, NamesKept, TypeOK
    <3> QED BY <2>4, <3>7, <3>8, <1>a, <1>c, <1>d DEF Auth, linkVars
  <2>5. CASE Apply(n, w) \/ Promote(n, w)
    <3>1. Moves(n, w, Idle)
      BY <2>5 DEF Apply, Promote
    <3>2. FramesKept
      BY <3>1, <2>f, <1>f, IdleType, InFrameIdle
    <3> QED BY <2>5, <3>2, <1>a, <1>b, <1>c, <1>d DEF Apply, Promote, clientVars, sessionVars, linkVars
  <2> QED BY <1>7, <1>8, <2>1, <2>2, <2>3, <2>4, <2>5, <2>f DEF WorkerStep
<1>9. ASSUME NEW n \in Server, NEW m \in Server, HeartbeatTimeout(n, m) \/ PeerEof(n, m)
      PROVE  Traffic'
  <2> DEFINE f == [Idle EXCEPT !.pc = "unlink", !.peer = m]
  <2>1. f \in Frame
    BY IdleType DEF Frame
  <2>2. f.pc = "unlink" /\ f.peer = m /\ f.todo = {} /\ f.job = Junk
    BY DEF Idle
  <2>3. m \in Peers(n)
    BY <1>9 DEF HeartbeatTimeout, PeerEof, Peers, TypeOK
  <2> HIDE DEF f
  <2>4. InFrame(n, f)
    BY <2>2, <2>3 DEF InFrame, Truthful, Junk
  <2>5. Moves(n, Heartbeat, f) \/ Moves(n, Listener, f)
    BY <1>9 DEF HeartbeatTimeout, PeerEof, f
  <2>6. FramesKept
    BY <2>1, <2>4, <2>5, <1>f, <1>t
  <2> QED BY <1>9, <2>6, <1>a, <1>b, <1>c, <1>d
          DEF HeartbeatTimeout, PeerEof, clientVars, sessionVars, linkVars
<1>10. ASSUME NEW n \in Server, NEW m \in Server, ReadPeer(n, m)
       PROVE  Traffic'
  <2> DEFINE h == Head(chan[m][n])
             j == IF raw[n][m] # "none" THEN AsClientPacket(h) ELSE h
  <2>1. /\ h \in Job /\ h \in ToSet(chan[m][n])
        /\ ToSet(Tail(chan[m][n])) \subseteq ToSet(chan[m][n])
    BY <1>10, ToSetHeadTail DEF ReadPeer, TypeOK
  <2>2. OnWire(m, n, h)
    BY <2>1 DEF Traffic
  <2>3. j \in Job /\ InQueue(n, j)
    <3>1. CASE j = h
      BY <2>1, <2>2, <3>1 DEF InQueue, OnWire, Peers
    <3>2. CASE j = Junk
      BY <3>2, LinkJobTypes DEF InQueue, Junk, Truthful
    <3> QED BY <3>1, <3>2 DEF AsClientPacket
  <2>4. queue' = [queue EXCEPT ![n] = Append(@, j)]
    BY <1>10 DEF ReadPeer
  <2>5. chan' = [chan EXCEPT ![m][n] = Tail(@)]
    BY <1>10 DEF ReadPeer
  <2> HIDE DEF j
  <2>6. \A k \in Server : ToSet(queue'[k]) \subseteq ToSet(queue[k]) \cup (IF k = n THEN {j} ELSE {})
    BY <2>3, <2>4, ToSetAppend DEF TypeOK
  <2>7. QueuesKept
    BY <2>3, <2>6 DEF QueuesKept
  <2>8. WiresKept
    BY <2>1, <2>5 DEF WiresKept, TypeOK
  <2> QED BY <1>10, <2>7, <2>8, <1>a, <1>b, <1>e DEF ReadPeer, clientVars, sessionVars
<1>11. ASSUME NEW n \in Server, NEW m \in Server, RawEof(n, m)
       PROVE  Traffic'
  BY <1>11, <1>a, <1>b, <1>c, <1>d, <1>e DEF RawEof, clientVars, sessionVars
<1>12. ASSUME NEW n \in Server, NEW m \in Server, Dial(n, m)
       PROVE  Traffic'
  <2>1. n # m
    BY <1>12 DEF Dial, Peers
  <2>2. OnWire(n, m, Hello(n)) /\ ToSet(<<Hello(n)>>) = {Hello(n)}
    BY <2>1 DEF OnWire, Truthful, Hello, ToSet
  <2>3. \A k, l \in Server : chan'[k][l] \in {chan[k][l], <<>>} \/ (k = n /\ l = m /\ chan'[k][l] = <<Hello(n)>>)
    BY <1>12, <2>1 DEF Dial, TypeOK
  <2>4. WiresKept
    BY <2>2, <2>3, ToSetEmpty DEF WiresKept
  <2> QED BY <1>12, <2>4, <1>a, <1>b, <1>c, <1>e DEF Dial, clientVars, sessionVars
<1>13. ASSUME NEW n \in Server, NEW m \in Server, NetBreak(n, m)
       PROVE  Traffic'
  <2>1. PICK i \in 0..Len(chan[n][m]), k \in 0..Len(chan[m][n]) :
            chan' = [chan EXCEPT ![n][m] = SubSeq(@, 1, i), ![m][n] = SubSeq(@, 1, k)]
    BY <1>13 DEF NetBreak
  <2>2. n # m
    BY <1>13 DEF NetBreak
  <2>3. /\ ToSet(SubSeq(chan[n][m], 1, i)) \subseteq ToSet(chan[n][m])
        /\ ToSet(SubSeq(chan[m][n], 1, k)) \subseteq ToSet(chan[m][n])
    BY ToSetPrefix DEF TypeOK
  <2>4. \A x, y \in Server : \/ chan'[x][y] = chan[x][y]
                             \/ x = n /\ y = m /\ chan'[x][y] = SubSeq(chan[n][m], 1, i)
                             \/ x = m /\ y = n /\ chan'[x][y] = SubSeq(chan[m][n], 1, k)
    BY <2>1, <2>2 DEF TypeOK
  <2>5. WiresKept
    BY <2>3, <2>4 DEF WiresKept
  <2> QED BY <1>13, <2>5, <1>a, <1>b, <1>c, <1>e DEF NetBreak, clientVars, sessionVars
<1>14. CASE UNCHANGED vars
  BY <1>14, <1>a, <1>b, <1>c, <1>d, <1>e DEF vars, clientVars, sessionVars, linkVars
<1>15. ASSUME NEW s \in Session, ClientStep(s) \/ Accept(s) \/ ReadLogin(s) \/ ReadEof(s)
       PROVE  Traffic'
  BY <1>15, <1>1, <1>2, <1>3, <1>4 DEF ClientStep
<1>16. ASSUME NEW n \in Server, HeartbeatStep(n) \/ DisconnectStep(n)
       PROVE  Traffic'
  BY <1>16, <1>5, <1>6, <1>7, <1>9, <1>t DEF HeartbeatStep, DisconnectStep
<1> QED BY <1>8, <1>9, <1>10, <1>11, <1>12, <1>13, <1>14, <1>15, <1>16 DEF Next, SocketStep

LEMMA InitTraffic == Init => TypeOK /\ Traffic
<1> SUFFICES ASSUME Init
             PROVE  TypeOK /\ Traffic
  OBVIOUS
<1> USE PresenceAssumption
<1>1. <<>> \in Seq(Name) /\ <<>> \in Seq(Job) /\ Idle \in Frame
  BY IdleType
<1>2. TypeOK
  BY <1>1 DEF Init, TypeOK, Peers
<1>3. \A n \in Server, t \in Thread : InFrame(n, frame[n][t])
  BY InFrameIdle DEF Init
<1>4. /\ \A s \in Session : username[s] = NoName
      /\ \A n \in Server : ToSet(queue[n]) = {}
      /\ \A m, n \in Server : ToSet(chan[m][n]) = {}
  BY ToSetEmpty DEF Init
<1>5. Traffic
  BY <1>3, <1>4 DEF Traffic
<1> QED BY <1>2, <1>5

LEMMA TrafficAlways == Safety => [](TypeOK /\ Traffic)
  BY InitTraffic, TypeStep, TrafficStep, PTL DEF Safety

(* Every table, channel and frame keeps its type, whatever the cluster, and   *)
(* no server becomes a peer of its own.                                       *)
THEOREM TypeCorrect == Safety => []TypeOK
  BY TrafficAlways, PTL

-----------------------------------------------------------------------------
(* Who writes the tables: every other step leaves them alone.                 *)
LEMMA ThreadStepKeeps ==
    ASSUME NEW n, NEW t, ThreadStep(n, t)
    PROVE  UNCHANGED <<clientVars, sessionVars>> /\ (UNCHANGED users \/ Clear(n, t))
<1>1. ASSUME NEW m \in Server, Announce(n, t, m)
      PROVE  UNCHANGED <<clientVars, sessionVars, users>>
  BY <1>1 DEF Announce
<1>2. ASSUME NEW m \in Server, SendFails(n, t, m)
      PROVE  UNCHANGED <<clientVars, sessionVars, users>>
  BY <1>2 DEF SendFails
<1>3. CASE Unlink(n, t)
  <2>1. UNCHANGED <<clientVars, sessionVars, users>>
    BY <1>3, Zenon DEF Unlink
  <2> QED BY <2>1
<1>4. CASE Clear(n, t)
  BY <1>4 DEF Clear
<1> QED BY <1>1, <1>2, <1>3, <1>4 DEF ThreadStep

LEMMA AskedStep == TypeOK /\ [Next]_vars => AskedGrows
<1> SUFFICES ASSUME TypeOK, [Next]_vars
             PROVE  AskedGrows
  OBVIOUS
<1>1. ASSUME NEW s \in Session, NEW u \in MayUse[s], SendLogin(s, u)
      PROVE  AskedGrows
  <2>1. u \in Name /\ asked[s] \in Seq(Name)
    BY PresenceAssumption DEF TypeOK
  <2>2. ToSet(Append(asked[s], u)) = ToSet(asked[s]) \cup {u}
    BY <2>1, ToSetAppend
  <2>3. asked' = [asked EXCEPT ![s] = Append(@, u)] /\ asked \in [Session -> Seq(Name)]
    BY <1>1 DEF SendLogin, TypeOK
  <2>4. \A r \in Session : asked'[r] = IF r = s THEN Append(asked[s], u) ELSE asked[r]
    BY <2>3
  <2> QED BY <2>2, <2>4 DEF AskedGrows
<1>2. CASE UNCHANGED asked
  BY <1>2 DEF AskedGrows
<1>3. ASSUME ~ \E s \in Session : \E u \in MayUse[s] : SendLogin(s, u)
      PROVE  UNCHANGED asked
  <2>1. \A n, t : ThreadStep(n, t) => UNCHANGED asked
    BY ThreadStepKeeps DEF clientVars
  <2>2. \A n \in Server, w \in Worker : WorkerStep(n, w) => UNCHANGED asked
    <3>1. \A n, w : Start(n, w) \/ Check(n, w) \/ Register(n, w) => UNCHANGED asked
      BY DEF Start, Check, Register, clientVars
    <3>2. \A n, w : Auth(n, w) \/ Apply(n, w) \/ Promote(n, w) => UNCHANGED asked
      BY DEF Auth, Apply, Promote, clientVars
    <3> QED BY <2>1, <3>1, <3>2 DEF WorkerStep
  <2>3. \A n \in Server : HeartbeatStep(n) \/ DisconnectStep(n) => UNCHANGED asked
    BY <2>1 DEF HeartbeatStep, DisconnectStep, Unregister, RemoveSession, HeartbeatTimeout, clientVars
  <2>4. \A n, m \in Server : SocketStep(n, m) \/ Dial(n, m) \/ NetBreak(n, m) => UNCHANGED asked
    BY DEF SocketStep, ReadPeer, PeerEof, RawEof, Dial, NetBreak, clientVars
  <2>5. \A s \in Session : ClientStep(s) \/ Accept(s) \/ ReadLogin(s) \/ ReadEof(s) => UNCHANGED asked
    BY <1>3 DEF ClientStep, HangUp, Accept, ReadLogin, ReadEof, clientVars
  <2>6. UNCHANGED vars => UNCHANGED asked
    BY DEF vars, clientVars
  <2> QED BY <2>2, <2>3, <2>4, <2>5, <2>6 DEF Next
<1> QED BY <1>1, <1>2, <1>3

LEMMA UsersStep ==
    ASSUME [Next]_vars
    PROVE  \/ UNCHANGED users
           \/ \E n \in Server : Unregister(n)
           \/ \E n \in Server, t \in Thread : Clear(n, t)
           \/ \E n \in Server, w \in Worker : Register(n, w) \/ Apply(n, w)
<1>1. \A n, t : ThreadStep(n, t) => UNCHANGED users \/ Clear(n, t)
  BY ThreadStepKeeps
<1>2. \A n \in Server, w \in Worker : WorkerStep(n, w) =>
          UNCHANGED users \/ Clear(n, w) \/ Register(n, w) \/ Apply(n, w)
  <2>1. \A n, w : Start(n, w) \/ Check(n, w) => UNCHANGED users
    BY DEF Start, Check
  <2>2. \A n, w : Auth(n, w) \/ Promote(n, w) => UNCHANGED users
    BY DEF Auth, Promote
  <2> QED BY <1>1, <2>1, <2>2 DEF WorkerStep, Thread
<1>3. \A n \in Server : HeartbeatStep(n) \/ DisconnectStep(n) =>
          UNCHANGED users \/ Unregister(n) \/ \E t \in Thread : Clear(n, t)
  BY <1>1 DEF HeartbeatStep, DisconnectStep, RemoveSession, HeartbeatTimeout, Thread
<1>4. \A n, m \in Server : SocketStep(n, m) \/ Dial(n, m) \/ NetBreak(n, m) => UNCHANGED users
  BY DEF SocketStep, ReadPeer, PeerEof, RawEof, Dial, NetBreak
<1>5. \A s \in Session : ClientStep(s) \/ Accept(s) \/ ReadLogin(s) \/ ReadEof(s) => UNCHANGED users
  BY DEF ClientStep, SendLogin, HangUp, Accept, ReadLogin, ReadEof
<1>6. UNCHANGED vars => UNCHANGED users
  BY DEF vars
<1> QED BY <1>2, <1>3, <1>4, <1>5, <1>6 DEF Next, Thread

LEMMA IndexStep ==
    ASSUME [Next]_vars
    PROVE  \/ UNCHANGED <<username, byName>>
           \/ \E n \in Server : RemoveSession(n)
           \/ \E n \in Server, w \in Worker : Auth(n, w)
<1>1. \A n, t : ThreadStep(n, t) => UNCHANGED <<username, byName>>
  BY ThreadStepKeeps DEF sessionVars
<1>2. \A n \in Server, w \in Worker : WorkerStep(n, w) => UNCHANGED <<username, byName>> \/ Auth(n, w)
  <2>1. \A n, w : Start(n, w) \/ Check(n, w) \/ Register(n, w) => UNCHANGED <<username, byName>>
    BY DEF Start, Check, Register, sessionVars
  <2>2. \A n, w : Apply(n, w) \/ Promote(n, w) => UNCHANGED <<username, byName>>
    BY DEF Apply, Promote, sessionVars
  <2> QED BY <1>1, <2>1, <2>2 DEF WorkerStep, Thread
<1>3. \A n \in Server : HeartbeatStep(n) \/ DisconnectStep(n) =>
          UNCHANGED <<username, byName>> \/ RemoveSession(n)
  BY <1>1 DEF HeartbeatStep, DisconnectStep, Unregister, HeartbeatTimeout, Thread, sessionVars
<1>4. \A n, m \in Server : SocketStep(n, m) \/ Dial(n, m) \/ NetBreak(n, m) => UNCHANGED <<username, byName>>
  BY DEF SocketStep, ReadPeer, PeerEof, RawEof, Dial, NetBreak, sessionVars
<1>5. \A s \in Session : ClientStep(s) \/ Accept(s) \/ ReadLogin(s) \/ ReadEof(s) =>
          UNCHANGED <<username, byName>>
  BY DEF ClientStep, SendLogin, HangUp, Accept, ReadLogin, ReadEof, sessionVars
<1>6. UNCHANGED vars => UNCHANGED <<username, byName>>
  BY DEF vars, sessionVars
<1> QED BY <1>2, <1>3, <1>4, <1>5, <1>6 DEF Next

-----------------------------------------------------------------------------
LEMMA LocationStep == TypeOK /\ Traffic /\ LocationHasCause /\ [Next]_vars => LocationHasCause'
<1> SUFFICES ASSUME TypeOK, Traffic, LocationHasCause, [Next]_vars,
                    NEW n \in Server, NEW m \in Server, NEW u \in Name, users'[n][u] = m
             PROVE  AskedAt(m, u)' /\ u \notin Invalid
  BY DEF LocationHasCause
<1> USE PresenceAssumption
<1>1. AskedAt(m, u) => AskedAt(m, u)'
  BY AskedStep DEF AskedAt, AskedGrows
<1>2. CASE users[n][u] = m
  BY <1>1, <1>2 DEF LocationHasCause
<1>3. CASE users[n][u] # m
  <2>t. users \in [Server -> [Name -> Server \cup {NoServer}]] /\ m # NoServer
    BY DEF TypeOK
  <2>1. ASSUME NEW k \in Server, Unregister(k)
        PROVE  FALSE
    BY <1>3, <2>1, <2>t DEF Unregister
  <2>2. ASSUME NEW k \in Server, NEW t \in Thread, Clear(k, t)
        PROVE  FALSE
    BY <1>3, <2>2, <2>t DEF Clear, ClearServerUsers
  <2>3. ASSUME NEW k \in Server, NEW w \in Worker, Register(k, w)
        PROVE  AskedAt(m, u) /\ u \notin Invalid
    <3>1. k = n /\ k = m /\ frame[k][w].job.user = u /\ frame[k][w].pc = "register"
      BY <1>3, <2>3, <2>t DEF Register
    <3>2. InFrame(k, frame[k][w])
      BY DEF Traffic, Thread
    <3> QED BY <3>1, <3>2 DEF InFrame, Truthful, Asked, AskedAt
  <2>4. ASSUME NEW k \in Server, NEW w \in Worker, Apply(k, w)
        PROVE  AskedAt(m, u) /\ u \notin Invalid
    <3>1. /\ k = n /\ frame[k][w].job.user = u /\ frame[k][w].pc = "apply"
          /\ frame[k][w].job.kind = "online" /\ frame[k][w].job.from = m
      BY <1>3, <2>4, <2>t DEF Apply
    <3>2. InFrame(k, frame[k][w])
      BY DEF Traffic, Thread
    <3> QED BY <3>1, <3>2 DEF InFrame, Truthful, Asked, AskedAt
  <2> QED BY <1>1, <1>3, <2>1, <2>2, <2>3, <2>4, UsersStep
<1> QED BY <1>2, <1>3

(* No reordering, loss or clearing makes a server believe in a client that    *)
(* never asked the server it is located at: HandleS2SReplicateUser repeats    *)
(* what a HandleLogin registered.                                             *)
THEOREM LocationsHaveCauses == Safety => []LocationHasCause
<1>1. Init => LocationHasCause
  BY PresenceAssumption DEF Init, LocationHasCause
<1> QED BY <1>1, TrafficAlways, LocationStep, PTL DEF Safety

-----------------------------------------------------------------------------
LEMMA IndexSoundStep == TypeOK /\ Traffic /\ IndexSound /\ [Next]_vars => IndexSound'
<1> SUFFICES ASSUME TypeOK, Traffic, IndexSound, [Next]_vars,
                    NEW n \in Server, NEW u \in Name, NEW s, s = byName'[n][u], s # NoSession
             PROVE  Home[s] = n /\ u \in ToSet(asked'[s]) /\ username'[s] # NoName
  BY DEF IndexSound
<1> USE PresenceAssumption
<1>1. s \in Session
  BY TypeStep DEF TypeOK
<1>2. u \in ToSet(asked[s]) => u \in ToSet(asked'[s])
  BY <1>1, AskedStep DEF AskedGrows
<1>t. /\ byName \in [Server -> [Name -> Session \cup {NoSession}]]
      /\ username \in [Session -> Name \cup {NoName}]
  BY DEF TypeOK
<1>3. CASE UNCHANGED <<username, byName>>
  BY <1>2, <1>3 DEF IndexSound
<1>4. ASSUME NEW k \in Server, RemoveSession(k)
      PROVE  Home[s] = n /\ u \in ToSet(asked'[s]) /\ username'[s] # NoName
  <2>1. byName[n][u] = s /\ username' = username
    BY <1>4, <1>t DEF RemoveSession, ForgetName
  <2> QED BY <1>2, <2>1 DEF IndexSound
<1>5. ASSUME NEW k \in Server, NEW w \in Worker, Auth(k, w)
      PROVE  Home[s] = n /\ u \in ToSet(asked'[s]) /\ username'[s] # NoName
  <2> DEFINE j == frame[k][w].job
  <2>1. Asked(j.ses, j.user) /\ Home[j.ses] = k
    <3>1. InFrame(k, frame[k][w]) /\ j.kind = "login" => Asked(j.ses, j.user)
      BY DEF Traffic, InFrame, Truthful, Thread
    <3>2. InFrame(k, frame[k][w]) /\ frame[k][w].pc = "auth"
      BY <1>5 DEF Auth, Traffic, Thread
    <3> QED BY <3>1, <3>2 DEF InFrame
  <2>2. j.user \in Name /\ j.ses \in Session
    BY <2>1, ToSetOfSeq DEF Asked, TypeOK
  <2>3. /\ byName' = [byName EXCEPT ![k][j.user] = j.ses]
        /\ username' = [username EXCEPT ![j.ses] = j.user]
    BY <1>5 DEF Auth, IndexKey, SetName
  <2> HIDE DEF j
  <2>4. CASE k = n /\ u = j.user
    BY <1>2, <1>t, <2>1, <2>2, <2>3, <2>4 DEF Asked
  <2>5. CASE ~(k = n /\ u = j.user)
    <3>1. byName[n][u] = s
      BY <1>t, <2>2, <2>3, <2>5
    <3>2. username'[s] = username[s] \/ username'[s] = j.user
      BY <1>1, <1>t, <2>2, <2>3
    <3> QED BY <1>2, <2>2, <3>1, <3>2 DEF IndexSound
  <2> QED BY <2>4, <2>5
<1> QED BY <1>3, <1>4, <1>5, IndexStep

(* What GetSessionByUsername finds is a welcomed client of this server that   *)
(* asked for the name, for any number of concurrent logins and logouts.       *)
THEOREM IndexIsSound == Safety => []IndexSound
<1>1. Init => IndexSound
  BY DEF Init, IndexSound
<1> QED BY <1>1, TrafficAlways, IndexSoundStep, PTL DEF Safety

-----------------------------------------------------------------------------
(* A frame changes by a step of its thread.                                   *)
Moved(k, t) ==
    \/ t \in Worker /\ (Start(k, t) \/ Check(k, t) \/ Register(k, t) \/ Auth(k, t) \/ Apply(k, t) \/ Promote(k, t))
    \/ t = Heartbeat /\ \E m \in Server : HeartbeatTimeout(k, m)
    \/ t = Listener /\ (Unregister(k) \/ RemoveSession(k) \/ \E m \in Server : PeerEof(k, m))
    \/ t = Listener /\ \E s \in Session : Home[s] = k /\ ReadEof(s)
    \/ ThreadStep(k, t)

LEMMA MoverIsOwn ==
    ASSUME TypeOK, Next, NEW k \in Server, NEW t \in Thread
    PROVE  frame'[k][t] = frame[k][t] \/ Moved(k, t)
<1>0. frame \in [Server -> [Thread -> Frame]]
  BY DEF TypeOK
<1>1. ASSUME NEW n \in Server, NEW x \in Thread, NEW f, Moves(n, x, f), n # k \/ x # t
      PROVE  frame'[k][t] = frame[k][t]
  BY <1>0, <1>1 DEF Moves
<1>2. ASSUME NEW n \in Server, NEW x \in Thread, ThreadStep(n, x)
      PROVE  frame'[k][t] = frame[k][t] \/ Moved(k, t)
  <2>1. \E f : Moves(n, x, f)
    BY <1>2 DEF ThreadStep, Announce, SendFails, Unlink, Clear, Goes
  <2>2. n = k /\ x = t => Moved(k, t)
    BY <1>2 DEF Moved
  <2> QED BY <1>1, <2>1, <2>2
<1>3. ASSUME NEW n \in Server, NEW w \in Worker, WorkerStep(n, w)
      PROVE  frame'[k][t] = frame[k][t] \/ Moved(k, t)
  <2>1. CASE ThreadStep(n, w)
    BY <1>2, <2>1 DEF Thread
  <2>2. CASE Start(n, w) \/ Check(n, w) \/ Register(n, w) \/ Auth(n, w) \/ Apply(n, w) \/ Promote(n, w)
    <3>1. \E f : Moves(n, w, f)
      BY <2>2 DEF Start, Check, Register, Auth, Apply, Promote, Goes
    <3>2. n = k /\ w = t => Moved(k, t)
      BY <2>2 DEF Moved
    <3> QED BY <1>1, <3>1, <3>2 DEF Thread
  <2> QED BY <1>3, <2>1, <2>2 DEF WorkerStep
<1>4. ASSUME NEW n \in Server, HeartbeatStep(n)
      PROVE  frame'[k][t] = frame[k][t] \/ Moved(k, t)
  <2>1. CASE ThreadStep(n, Heartbeat)
    BY <1>2, <2>1 DEF Thread
  <2>2. CASE \E m \in Server : HeartbeatTimeout(n, m)
    <3>1. \E f : Moves(n, Heartbeat, f)
      BY <2>2 DEF HeartbeatTimeout
    <3>2. n = k /\ Heartbeat = t => Moved(k, t)
      BY <2>2 DEF Moved
    <3> QED BY <1>1, <3>1, <3>2 DEF Thread
  <2> QED BY <1>4, <2>1, <2>2 DEF HeartbeatStep
<1>5. ASSUME NEW n \in Server, DisconnectStep(n)
      PROVE  frame'[k][t] = frame[k][t] \/ Moved(k, t)
  <2>1. CASE ThreadStep(n, Listener)
    BY <1>2, <2>1 DEF Thread
  <2>2. CASE Unregister(n) \/ RemoveSession(n)
    <3>1. \E f : Moves(n, Listener, f)
      BY <2>2 DEF Unregister, RemoveSession
    <3>2. n = k /\ Listener = t => Moved(k, t)
      BY <2>2 DEF Moved
    <3> QED BY <1>1, <3>1, <3>2 DEF Thread
  <2> QED BY <1>5, <2>1, <2>2 DEF DisconnectStep
<1>6. ASSUME NEW n \in Server, NEW m \in Server, SocketStep(n, m) \/ Dial(n, m) \/ NetBreak(n, m)
      PROVE  frame'[k][t] = frame[k][t] \/ Moved(k, t)
  <2>1. CASE PeerEof(n, m)
    <3>1. \E f : Moves(n, Listener, f)
      BY <2>1 DEF PeerEof
    <3>2. n = k /\ Listener = t => Moved(k, t)
      BY <2>1 DEF Moved
    <3> QED BY <1>1, <3>1, <3>2 DEF Thread
  <2> QED BY <1>6, <2>1 DEF SocketStep, ReadPeer, RawEof, Dial, NetBreak
<1>7. ASSUME NEW s \in Session, ClientStep(s) \/ Accept(s) \/ ReadLogin(s) \/ ReadEof(s)
      PROVE  frame'[k][t] = frame[k][t] \/ Moved(k, t)
  <2>1. CASE ReadEof(s)
    <3>1. Home[s] \in Server /\ \E f : Moves(Home[s], Listener, f)
      BY <2>1, PresenceAssumption DEF ReadEof
    <3>2. Home[s] = k /\ Listener = t => Moved(k, t)
      BY <2>1 DEF Moved
    <3> QED BY <1>1, <3>1, <3>2 DEF Thread
  <2> QED BY <1>7, <2>1 DEF ClientStep, SendLogin, HangUp, Accept, ReadLogin
<1> QED BY <1>3, <1>4, <1>5, <1>6, <1>7 DEF Next

(* The listener tears one session down at a time, to the end.                 *)
Staying(s) == s \in bySocket[Home[s]] /\ ~Leaving(s)
TearsDown == \A n \in Server : LET f == frame[n][Listener] IN
    f.job.ses \in Session \/ f.pc = "remove" => f.job.kind = "offline"

LEMMA ListenerEffect ==
    ASSUME TypeOK, Next, NEW n \in Server
    PROVE  LET f == frame[n][Listener] g == frame'[n][Listener] IN
           \/ g = f
           \/ g = Idle /\ (f.job.kind = "offline" => RemoveSession(n))
           \/ f.pc = "idle" /\ \/ g.job = Junk /\ g.pc = "unlink"
                               \/ \E s \in Session : g.job = Offline(s, username[s])
           \/ g.job = f.job /\ f.pc # "idle" /\ g.pc # "idle" /\ (g.pc = "remove" => f.job.kind = "offline")
<1> DEFINE f == frame[n][Listener]
           g == frame'[n][Listener]
<1>0. f \in Frame /\ Listener \in Thread /\ Listener \notin Worker /\ Listener # Heartbeat
  BY PresenceAssumption DEF TypeOK, Thread
<1>1. ASSUME NEW h, Moves(n, Listener, h) PROVE g = h
  BY <1>0, <1>1 DEF Moves, TypeOK
<1>2. ASSUME NEW h \in Frame PROVE \/ Proceed(h) = Idle /\ h.job.kind # "offline"
                                   \/ /\ Proceed(h).job = h.job /\ Proceed(h).pc # "idle"
                                      /\ Proceed(h).pc = "remove" => h.job.kind = "offline"
  BY DEF Proceed, Frame
<1>3. ASSUME NEW l, NEW T, NEW m PROVE
        /\ [f EXCEPT !.pc = l].job = f.job /\ [f EXCEPT !.pc = l].pc = l
        /\ [f EXCEPT !.pc = l, !.todo = T, !.peer = m].job = f.job
        /\ [f EXCEPT !.pc = l, !.todo = T, !.peer = m].pc = l
        /\ [f EXCEPT !.todo = T].job = f.job
  BY <1>0 DEF Frame
<1>4. \A T \in SUBSET Server : [f EXCEPT !.todo = T] \in Frame
  BY <1>0 DEF Frame
<1>a. ASSUME NEW T \in SUBSET Server, g = Proceed([f EXCEPT !.todo = T]), f.pc # "idle"
      PROVE  \/ g = Idle /\ f.job.kind # "offline"
             \/ g.job = f.job /\ f.pc # "idle" /\ g.pc # "idle" /\ (g.pc = "remove" => f.job.kind = "offline")
  <2> DEFINE h == [f EXCEPT !.todo = T]
  <2>1. h \in Frame /\ h.job = f.job /\ g = Proceed(h)
    BY <1>3, <1>4, <1>a
  <2> HIDE DEF h
  <2> QED BY <1>2, <1>a, <2>1
<1> HIDE DEF f
<1>5. CASE Unregister(n)
  <2>1. g = Proceed([f EXCEPT !.todo = Peers(n)]) /\ f.pc = "unregister"
    BY <1>1, <1>5 DEF Unregister, f
  <2>2. Peers(n) \in SUBSET Server
    BY DEF Peers
  <2> QED BY <1>a, <2>1, <2>2 DEF f
<1>6. CASE RemoveSession(n)
  BY <1>1, <1>6 DEF RemoveSession
<1>7. CASE \E m \in Server : PeerEof(n, m)
  <2>1. PICK m \in Server : PeerEof(n, m)
    BY <1>7
  <2>2. g = [Idle EXCEPT !.pc = "unlink", !.peer = m] /\ f.pc = "idle"
    BY <1>1, <2>1 DEF PeerEof, Listening, f
  <2>3. g.job = Junk /\ g.pc = "unlink"
    BY <2>2 DEF Idle
  <2> QED BY <2>2, <2>3 DEF f
<1>8. CASE \E s \in Session : Home[s] = n /\ ReadEof(s)
  <2>1. PICK s \in Session : Home[s] = n /\ ReadEof(s)
    BY <1>8
  <2>2. f.pc = "idle" /\ g.job = Offline(s, username[s])
    BY <1>1, <2>1 DEF ReadEof, Listening, Idle, f
  <2> QED BY <2>2 DEF f
<1>9. CASE ThreadStep(n, Listener)
  <2>1. CASE \E m \in Server : Announce(n, Listener, m)
    <3>1. PICK m \in Server : Announce(n, Listener, m)
      BY <2>1
    <3>2. g = Proceed([f EXCEPT !.todo = @ \ {m}]) /\ f.pc = "announce"
      BY <1>1, <3>1 DEF Announce, f
    <3>3. f.todo \ {m} \in SUBSET Server
      BY <1>0 DEF Frame, f
    <3> QED BY <1>a, <3>2, <3>3 DEF f
  <2>2. CASE \E m \in Server : SendFails(n, Listener, m)
    <3>1. PICK m \in Server : SendFails(n, Listener, m)
      BY <2>2
    <3>2. g = [f EXCEPT !.pc = "unlink", !.todo = @ \ {m}, !.peer = m] /\ f.pc = "announce"
      BY <1>1, <3>1 DEF SendFails, f
    <3> QED BY <1>3, <3>2 DEF f
  <2>3. CASE Unlink(n, Listener)
    <3>1. g = [f EXCEPT !.pc = "clear"] /\ f.pc = "unlink"
      BY <1>1, <2>3 DEF Unlink, Goes, f
    <3> QED BY <1>3, <3>1 DEF f
  <2>4. CASE Clear(n, Listener)
    <3>1. g = Proceed(f) /\ f.pc = "clear"
      BY <1>1, <2>4 DEF Clear, f
    <3> QED BY <1>0, <1>2, <3>1 DEF f
  <2> QED BY <1>9, <2>1, <2>2, <2>3, <2>4 DEF ThreadStep
<1> QED BY <1>0, <1>5, <1>6, <1>7, <1>8, <1>9, MoverIsOwn DEF Moved, f

LEMMA TearsDownStep ==
    ASSUME TypeOK, TearsDown, Next
    PROVE  TearsDown'
<1> SUFFICES ASSUME NEW n \in Server,
                    frame'[n][Listener].job.ses \in Session \/ frame'[n][Listener].pc = "remove"
             PROVE  frame'[n][Listener].job.kind = "offline"
  BY DEF TearsDown
<1>1. Idle.job = Junk /\ Idle.pc = "idle" /\ Junk.ses = NoSession /\ NoSession \notin Session
  BY PresenceAssumption DEF Idle, Junk
<1>2. \A s \in Session : Offline(s, username[s]).kind = "offline"
  BY DEF Offline
<1> QED BY <1>1, <1>2, ListenerEffect DEF TearsDown

-----------------------------------------------------------------------------
(* The client's end, and m_sessionsBySocket.                                  *)
LEMMA ClientEffect ==
    ASSUME Next
    PROVE  \/ UNCHANGED <<sock, asked>>
           \/ \E s \in Session : Accept(s) \/ HangUp(s) \/ \E u \in MayUse[s] : SendLogin(s, u)
<1>1. \A n, t : ThreadStep(n, t) => UNCHANGED <<sock, asked>>
  BY ThreadStepKeeps DEF clientVars
<1>2. \A n \in Server, w \in Worker : WorkerStep(n, w) => UNCHANGED <<sock, asked>>
  <2>1. \A n, w : Start(n, w) \/ Check(n, w) \/ Register(n, w) => UNCHANGED <<sock, asked>>
    BY DEF Start, Check, Register, clientVars
  <2>2. \A n, w : Auth(n, w) \/ Apply(n, w) \/ Promote(n, w) => UNCHANGED <<sock, asked>>
    BY DEF Auth, Apply, Promote, clientVars
  <2> QED BY <1>1, <2>1, <2>2 DEF WorkerStep
<1>3. \A n \in Server : HeartbeatStep(n) \/ DisconnectStep(n) => UNCHANGED <<sock, asked>>
  BY <1>1 DEF HeartbeatStep, DisconnectStep, Unregister, RemoveSession, HeartbeatTimeout, clientVars
<1>4. \A n, m \in Server : SocketStep(n, m) \/ Dial(n, m) \/ NetBreak(n, m) => UNCHANGED <<sock, asked>>
  BY DEF SocketStep, ReadPeer, PeerEof, RawEof, Dial, NetBreak, clientVars
<1>5. \A s \in Session : ReadLogin(s) \/ ReadEof(s) => UNCHANGED <<sock, asked>>
  BY DEF ReadLogin, ReadEof, clientVars
<1> QED BY <1>2, <1>3, <1>4, <1>5 DEF Next, ClientStep

LEMMA SessionsEffect ==
    ASSUME Next
    PROVE  \/ UNCHANGED bySocket
           \/ \E s \in Session : Accept(s)
           \/ \E n \in Server : RemoveSession(n)
<1>1. \A n, t : ThreadStep(n, t) => UNCHANGED bySocket
  BY ThreadStepKeeps DEF sessionVars
<1>2. \A n \in Server, w \in Worker : WorkerStep(n, w) => UNCHANGED bySocket
  <2>1. \A n, w : Start(n, w) \/ Check(n, w) \/ Register(n, w) => UNCHANGED bySocket
    BY DEF Start, Check, Register, sessionVars
  <2>2. \A n, w : Auth(n, w) \/ Apply(n, w) \/ Promote(n, w) => UNCHANGED bySocket
    BY DEF Auth, Apply, Promote, sessionVars
  <2> QED BY <1>1, <2>1, <2>2 DEF WorkerStep
<1>3. \A n \in Server : HeartbeatStep(n) \/ DisconnectStep(n) => UNCHANGED bySocket \/ RemoveSession(n)
  BY <1>1 DEF HeartbeatStep, DisconnectStep, Unregister, HeartbeatTimeout, sessionVars
<1>4. \A n, m \in Server : SocketStep(n, m) \/ Dial(n, m) \/ NetBreak(n, m) => UNCHANGED bySocket
  BY DEF SocketStep, ReadPeer, PeerEof, RawEof, Dial, NetBreak, sessionVars
<1>5. \A s \in Session : ClientStep(s) \/ ReadLogin(s) \/ ReadEof(s) => UNCHANGED bySocket
  BY DEF ClientStep, SendLogin, HangUp, ReadLogin, ReadEof, sessionVars
<1> QED BY <1>2, <1>3, <1>4, <1>5 DEF Next

(* A client asks for its own names, once it is connected.                     *)
AsksOwn == \A s \in Session : /\ ToSet(asked[s]) \subseteq MayUse[s]
                              /\ sock[s] = "none" => asked[s] = <<>>

LEMMA AsksOwnStep ==
    ASSUME TypeOK, AsksOwn, Next
    PROVE  AsksOwn'
<1> SUFFICES ASSUME NEW s \in Session
             PROVE  ToSet(asked'[s]) \subseteq MayUse[s] /\ (sock'[s] = "none" => asked'[s] = <<>>)
  BY DEF AsksOwn
<1>1. ToSet(asked[s]) \subseteq MayUse[s] /\ (sock[s] = "none" => asked[s] = <<>>)
  BY DEF AsksOwn
<1>2. CASE \E r \in Session : Accept(r) \/ HangUp(r)
  <2>1. asked' = asked /\ (sock'[s] = "none" => sock[s] = "none")
    BY <1>2 DEF Accept, HangUp, TypeOK
  <2> QED BY <1>1, <2>1
<1>3. ASSUME NEW r \in Session, NEW u \in MayUse[r], SendLogin(r, u)
      PROVE  ToSet(asked'[s]) \subseteq MayUse[s] /\ (sock'[s] = "none" => asked'[s] = <<>>)
  <2>1. asked[s] \in Seq(Name) /\ u \in Name
    BY PresenceAssumption DEF TypeOK
  <2>2. CASE r = s
    <3>1. asked'[s] = Append(asked[s], u) /\ sock'[s] = "open"
      BY <1>3, <2>2 DEF SendLogin, TypeOK
    <3> QED BY <1>1, <2>1, <2>2, <3>1, ToSetAppend
  <2>3. CASE r # s
    BY <1>1, <1>3, <2>3 DEF SendLogin, TypeOK
  <2> QED BY <2>2, <2>3
<1>4. CASE UNCHANGED <<sock, asked>>
  BY <1>1, <1>4
<1> QED BY <1>2, <1>3, <1>4, ClientEffect

(* A session with a LOGIN that stays was there before.                        *)
LEMMA StayingStep ==
    ASSUME TypeOK, AsksOwn, TearsDown, Next, NEW s \in Session, asked[s] # <<>>, Staying(s)'
    PROVE  Staying(s)
<1> DEFINE n == Home[s]
<1>0. n \in Server /\ s \in bySocket'[n] /\ ~Leaving(s)'
  BY PresenceAssumption DEF Staying
<1>1. s \in bySocket[n]
  <2>1. ~Accept(s)
    BY DEF AsksOwn, Accept
  <2>2. \A r \in Session : Accept(r) /\ r # s => s \in bySocket[n]
    BY <1>0, PresenceAssumption DEF Accept, TypeOK
  <2>3. \A k \in Server : RemoveSession(k) => s \in bySocket[n]
    BY <1>0 DEF RemoveSession, TypeOK
  <2> QED BY <1>0, <2>1, <2>2, <2>3, SessionsEffect
<1>2. SUFFICES ASSUME Leaving(s) PROVE FALSE
  BY <1>1 DEF Staying
<1>3. frame[n][Listener].pc # "idle" /\ frame[n][Listener].job.ses = s /\ frame[n][Listener].job.kind = "offline"
  BY <1>0, <1>2 DEF Leaving, Listening, TearsDown
<1>4. RemoveSession(n)
  <2> DEFINE f == frame[n][Listener]
             g == frame'[n][Listener]
  <2>1. ~(g.pc # "idle" /\ g.job.ses = s)
    BY <1>0 DEF Leaving, Listening
  <2>2. \/ g = f
        \/ f.job.kind = "offline" => RemoveSession(n)
        \/ f.pc = "idle"
        \/ g.job = f.job /\ g.pc # "idle"
    BY <1>0, ListenerEffect
  <2> HIDE DEF f, g
  <2>3. f.pc # "idle" /\ f.job.ses = s /\ f.job.kind = "offline"
    BY <1>3 DEF f
  <2> QED BY <2>1, <2>2, <2>3
<1> QED BY <1>0, <1>3, <1>4 DEF RemoveSession, TypeOK

-----------------------------------------------------------------------------
(* If a name is used by one client, only the teardown of its session takes it *)
(* out of its server's table: a logout that a peer replicates is about a      *)
(* client of that peer.                                                       *)
LEMMA NameIsOwn ==
    ASSUME AsksOwn, NEW r \in Session, NEW s \in Session, NEW u, OwnName(u), Asked(r, u), Asked(s, u)
    PROVE  r = s
<1>1. u \in MayUse[r] \cap MayUse[s]
  BY DEF AsksOwn, Asked
<1> QED BY <1>1 DEF OwnName

LEMMA LocationKept ==
    ASSUME TypeOK, Traffic, AsksOwn, Next,
           NEW s \in Session, NEW u \in Name, OwnName(u), Asked(s, u), Staying(s), users[Home[s]][u] = Home[s]
    PROVE  users'[Home[s]][u] = Home[s]
<1> DEFINE n == Home[s]
<1>0. n \in Server /\ NoServer \notin Server /\ Listener \in Thread /\ Worker \subseteq Thread
  BY PresenceAssumption DEF Thread
<1>t. users \in [Server -> [Name -> Server \cup {NoServer}]]
  BY DEF TypeOK
<1> HIDE DEF n
<1>1. ASSUME NEW k \in Server, Unregister(k) PROVE users'[n][u] = n
  <2> DEFINE f == frame[k][Listener]
  <2>1. f.pc = "unregister" /\ users' = [users EXCEPT ![k][f.job.user] = NoServer]
    BY <1>1 DEF Unregister
  <2>2. InFrame(k, f)
    BY <1>0 DEF Traffic
  <2>3. f.job.kind = "offline" /\ f.job.user # NoName
    BY <2>1, <2>2 DEF InFrame
  <2>4. f.job.ses \in Session /\ Asked(f.job.ses, f.job.user) /\ f.job.from = k /\ f.job.from = Home[f.job.ses]
    BY <2>1, <2>2, <2>3 DEF InFrame, Truthful
  <2>5. ~(k = n /\ f.job.user = u)
    <3>1. SUFFICES ASSUME k = n, f.job.user = u PROVE FALSE
      OBVIOUS
    <3>2. f.job.ses = s
      BY <2>4, <3>1, NameIsOwn
    <3> QED BY <2>1, <3>1, <3>2 DEF Staying, Leaving, Listening, n
  <2> HIDE DEF f
  <2> QED BY <1>0, <1>t, <2>1, <2>5 DEF n
<1>2. ASSUME NEW k \in Server, NEW t \in Thread, Clear(k, t) PROVE users'[n][u] = n
  <2>1. InFrame(k, frame[k][t]) /\ frame[k][t].pc = "clear"
    BY <1>2 DEF Traffic, Clear
  <2>2. frame[k][t].peer # k
    BY <2>1 DEF InFrame, Peers
  <2>3. users' = [users EXCEPT ![k] = ClearServerUsers(k, frame[k][t].peer)]
    BY <1>2 DEF Clear
  <2>4. k = n => ClearServerUsers(k, frame[k][t].peer)[u] = n
    BY <2>2 DEF ClearServerUsers, n
  <2> QED BY <1>0, <1>t, <2>3, <2>4 DEF n
<1>3. ASSUME NEW k \in Server, NEW w \in Worker, Register(k, w) PROVE users'[n][u] = n
  <2>1. users' = [users EXCEPT ![k][frame[k][w].job.user] = k]
    BY <1>3 DEF Register
  <2> QED BY <1>0, <1>t, <2>1 DEF n
<1>4. ASSUME NEW k \in Server, NEW w \in Worker, Apply(k, w) PROVE users'[n][u] = n
  <2> DEFINE j == frame[k][w].job
  <2>1. frame[k][w].pc = "apply" /\ users' = [users EXCEPT ![k][j.user] = IF j.kind = "online" THEN j.from ELSE NoServer]
    BY <1>4 DEF Apply
  <2>2. InFrame(k, frame[k][w])
    BY <1>0 DEF Traffic
  <2>3. j.kind \in {"online", "offline"} /\ j.from \in Peers(k) /\ Asked(j.ses, j.user) /\ j.from = Home[j.ses]
    BY <2>1, <2>2 DEF InFrame, Truthful
  <2>4. ~(k = n /\ j.user = u)
    <3>1. SUFFICES ASSUME k = n, j.user = u PROVE FALSE
      OBVIOUS
    <3>2. j.ses = s
      BY <2>3, <3>1, NameIsOwn DEF Asked
    <3> QED BY <2>3, <3>1, <3>2 DEF Peers, n
  <2> HIDE DEF j
  <2> QED BY <1>0, <1>t, <2>1, <2>4 DEF n
<1>5. CASE UNCHANGED users
  BY <1>5
<1> QED BY <1>1, <1>2, <1>3, <1>4, <1>5, UsersStep DEF n

(* HandleLogin has registered the user before it authenticates the session.   *)
RegisteredFirst == \A n \in Server, w \in Worker, s \in Session :
    LET j == frame[n][w].job IN
    frame[n][w].pc = "auth" /\ j.ses = s /\ OwnName(j.user) /\ Staying(s) => users[n][j.user] = n

LEMMA AuthAfterRegister ==
    ASSUME TypeOK, Next, NEW n \in Server, NEW w \in Worker, frame'[n][w].pc = "auth"
    PROVE  frame'[n][w] = frame[n][w] \/ (Register(n, w) /\ frame'[n][w].job = frame[n][w].job)
<1> DEFINE f == frame[n][w]
<1>0. f \in Frame /\ w \in Thread /\ w # Listener /\ w # Heartbeat
  BY PresenceAssumption DEF TypeOK, Thread
<1>1. ASSUME NEW h, Moves(n, w, h) PROVE frame'[n][w] = h
  BY <1>0, <1>1 DEF Moves, TypeOK
<1>2. ASSUME NEW h \in Frame PROVE Proceed(h).pc # "auth"
  BY DEF Proceed, Idle, Frame
<1>3. ASSUME NEW l PROVE [f EXCEPT !.pc = l].pc = l /\ [f EXCEPT !.pc = l].job = f.job
  BY <1>0 DEF Frame
<1>4. CASE Register(n, w)
  <2>1. frame'[n][w] = [f EXCEPT !.pc = "auth"]
    BY <1>1, <1>4 DEF Register, Goes
  <2> QED BY <1>3, <1>4, <2>1
<1>5. ~Start(n, w)
  <2>1. \A k : Entry(k) # "auth" \/ k \notin {"login", "online", "offline", "hello", "junk"}
    BY DEF Entry
  <2>2. SUFFICES ASSUME Start(n, w) PROVE FALSE
    OBVIOUS
  <2>3. queue[n] \in Seq(Job) /\ queue[n] # <<>>
    BY <2>2 DEF Start, TypeOK
  <2>4. Head(queue[n]) \in Job
    BY <2>3, ToSetHeadTail
  <2>5. frame'[n][w].pc = Entry(Head(queue[n]).kind)
    BY <1>1, <2>2 DEF Start, Idle
  <2> QED BY <2>1, <2>4, <2>5 DEF Job
<1>6. ~Check(n, w) /\ ~Apply(n, w) /\ ~Promote(n, w)
  <2>1. Idle.pc # "auth"
    BY DEF Idle
  <2>2. ~Check(n, w)
    <3>1. Check(n, w) => frame'[n][w] = Idle \/ frame'[n][w] = [f EXCEPT !.pc = "register"]
      BY <1>1 DEF Check, Goes
    <3> QED BY <1>3, <2>1, <3>1
  <2>3. Apply(n, w) \/ Promote(n, w) => frame'[n][w] = Idle
    BY <1>1 DEF Apply, Promote
  <2> QED BY <2>1, <2>2, <2>3
<1>7. ~Auth(n, w)
  <2>1. SUFFICES ASSUME Auth(n, w) PROVE FALSE
    OBVIOUS
  <2> DEFINE h == [Idle EXCEPT !.job = Online(f.job.ses, f.job.user), !.todo = Peers(n)]
  <2>2. frame'[n][w] = Proceed(h)
    BY <1>1, <2>1 DEF Auth
  <2>3. Proceed(h).pc # "auth"
    BY DEF Proceed, Idle
  <2> QED BY <2>2, <2>3
<1>8. ~ThreadStep(n, w)
  <2>1. \A m \in Server : ~Announce(n, w, m)
    <3>1. SUFFICES ASSUME NEW m \in Server, Announce(n, w, m) PROVE FALSE
      OBVIOUS
    <3>2. [f EXCEPT !.todo = @ \ {m}] \in Frame
      BY <1>0 DEF Frame
    <3>3. frame'[n][w] = Proceed([f EXCEPT !.todo = @ \ {m}])
      BY <1>1, <3>1 DEF Announce
    <3> QED BY <1>2, <3>2, <3>3
  <2>2. \A m \in Server : ~SendFails(n, w, m)
    <3>1. SUFFICES ASSUME NEW m \in Server, SendFails(n, w, m) PROVE FALSE
      OBVIOUS
    <3>2. frame'[n][w] = [f EXCEPT !.pc = "unlink", !.todo = @ \ {m}, !.peer = m]
      BY <1>1, <3>1 DEF SendFails
    <3> QED BY <1>0, <3>2 DEF Frame
  <2>3. ~Unlink(n, w)
    BY <1>1, <1>3 DEF Unlink, Goes
  <2>4. ~Clear(n, w)
    BY <1>0, <1>1, <1>2 DEF Clear
  <2> QED BY <2>1, <2>2, <2>3, <2>4 DEF ThreadStep
<1> QED BY <1>0, <1>4, <1>5, <1>6, <1>7, <1>8, MoverIsOwn DEF Moved

LEMMA RegisteredFirstStep ==
    ASSUME TypeOK, Traffic, AsksOwn, TearsDown, RegisteredFirst, Next
    PROVE  RegisteredFirst'
<1> SUFFICES ASSUME NEW n \in Server, NEW w \in Worker, NEW s \in Session,
                    frame'[n][w].pc = "auth", frame'[n][w].job.ses = s,
                    OwnName(frame'[n][w].job.user), Staying(s)'
             PROVE  users'[n][frame'[n][w].job.user] = n
  BY DEF RegisteredFirst, OwnName
<1> DEFINE j == frame[n][w].job
<1>1. frame'[n][w].job = j /\ (frame[n][w].pc = "auth" \/ Register(n, w))
  BY AuthAfterRegister
<1>2. InFrame(n, frame[n][w]) /\ frame[n][w].pc \in {"register", "auth"}
  BY <1>1 DEF Traffic, Thread, Register
<1>3. j.kind = "login" /\ Home[j.ses] = n /\ Asked(j.ses, j.user)
  BY <1>2 DEF InFrame, Truthful
<1>4. j.ses \in Session /\ j.user \in Name /\ asked[j.ses] # <<>>
  BY <1>3, ToSetOfSeq, ToSetEmpty DEF Asked, TypeOK
<1>5. CASE Register(n, w)
  BY <1>1, <1>4, <1>5 DEF Register, TypeOK
<1>6. CASE frame[n][w].pc = "auth"
  <2>1. s = j.ses
    BY <1>1
  <2>2. Staying(s)
    BY <1>4, <2>1, StayingStep
  <2>3. users[n][j.user] = n
    BY <1>1, <1>6, <2>1, <2>2 DEF RegisteredFirst
  <2>4. PICK u \in Name : u = j.user
    BY <1>4
  <2> QED BY <1>1, <1>3, <2>1, <2>2, <2>3, <2>4, LocationKept
<1> QED BY <1>1, <1>5, <1>6

LEMMA ReachableStep ==
    ASSUME TypeOK, Traffic, AsksOwn, TearsDown, RegisteredFirst, WelcomedIsReachable, Next
    PROVE  WelcomedIsReachable'
<1> SUFFICES ASSUME NEW s \in Session, Staying(s)', username'[s] # NoName, OwnName(username'[s])
             PROVE  byName'[Home[s]][username'[s]] = s /\ users'[Home[s]][username'[s]] = Home[s]
  BY DEF WelcomedIsReachable, Staying, OwnName
<1> DEFINE n == Home[s]
<1>0. /\ n \in Server /\ NoSession \notin Session
      /\ byName \in [Server -> [Name -> Session \cup {NoSession}]]
      /\ username \in [Session -> Name \cup {NoName}]
  BY PresenceAssumption DEF TypeOK
<1>1. CASE username'[s] = username[s]
  <2>1. PICK u \in Name : u = username[s]
    BY <1>0, <1>1
  <2>2. Asked(s, u) /\ asked[s] # <<>>
    BY <1>1, <2>1, ToSetEmpty DEF Traffic, Asked
  <2>3. Staying(s)
    BY <2>2, StayingStep
  <2>4. byName[n][u] = s /\ users[n][u] = n
    BY <1>1, <2>1, <2>3 DEF WelcomedIsReachable, Staying
  <2>5. users'[n][u] = n
    BY <1>1, <2>1, <2>2, <2>3, <2>4, LocationKept
  <2>6. byName'[n][u] = s
    <3>1. ASSUME NEW k \in Server, RemoveSession(k) PROVE byName'[n][u] = s
      <4> DEFINE r == frame[k][Listener].job.ses
      <4>1. frame[k][Listener].pc = "remove" /\ byName' = [byName EXCEPT ![k] = ForgetName(k, r)]
        BY <3>1 DEF RemoveSession
      <4>2. k = n => ForgetName(k, r)[u] = s
        <5>1. CASE username[r] = NoName
          BY <2>4, <5>1 DEF ForgetName
        <5>2. CASE username[r] # u
          BY <1>0, <2>4, <5>2 DEF ForgetName
        <5>3. CASE k = n /\ r = s
          BY <2>3, <4>1, <5>3 DEF Staying, Leaving, Listening
        <5>4. CASE username[r] = u /\ r # s
          <6>1. InFrame(k, frame[k][Listener]) /\ frame[k][Listener].job.kind = "offline"
            BY <4>1 DEF Traffic, TearsDown, Thread
          <6>2. r \in Session
            BY <6>1 DEF InFrame, Truthful, Asked
          <6>3. Asked(r, u)
            BY <2>1, <5>4, <6>2, PresenceAssumption DEF Traffic
          <6> QED BY <1>1, <2>1, <2>2, <5>4, <6>2, <6>3, NameIsOwn
        <5> QED BY <5>1, <5>2, <5>3, <5>4
      <4> HIDE DEF r
      <4> QED BY <1>0, <2>4, <4>1, <4>2
    <3>2. ASSUME NEW k \in Server, NEW w \in Worker, Auth(k, w) PROVE byName'[n][u] = s
      <4> DEFINE j == frame[k][w].job
      <4>1. frame[k][w].pc = "auth" /\ byName' = [byName EXCEPT ![k][j.user] = j.ses]
        BY <3>2 DEF Auth, IndexKey
      <4>2. InFrame(k, frame[k][w])
        BY DEF Traffic, Thread
      <4>3. Asked(j.ses, j.user)
        BY <4>1, <4>2 DEF InFrame, Truthful
      <4>4. j.user = u => j.ses = s
        BY <1>1, <2>1, <2>2, <4>3, NameIsOwn DEF Asked
      <4> HIDE DEF j
      <4> QED BY <1>0, <2>4, <4>1, <4>4
    <3> QED BY <2>4, <3>1, <3>2, IndexStep
  <2> QED BY <1>1, <2>1, <2>5, <2>6
<1>2. CASE username'[s] # username[s]
  <2>1. PICK k \in Server, w \in Worker : Auth(k, w)
    BY <1>2, IndexStep DEF RemoveSession
  <2> DEFINE j == frame[k][w].job
  <2>2. /\ frame[k][w].pc = "auth" /\ byName' = [byName EXCEPT ![k][j.user] = j.ses]
        /\ username' = [username EXCEPT ![j.ses] = j.user] /\ users' = users
    BY <2>1 DEF Auth, IndexKey, SetName
  <2>3. InFrame(k, frame[k][w])
    BY DEF Traffic, Thread
  <2>4. Asked(j.ses, j.user) /\ Home[j.ses] = k
    BY <2>2, <2>3 DEF InFrame, Truthful
  <2>5. j.ses = s /\ j.user \in Name /\ username'[s] = j.user /\ asked[s] # <<>>
    <3>1. j.ses = s
      BY <1>0, <1>2, <2>2
    <3> QED BY <1>0, <2>2, <2>4, <3>1, ToSetOfSeq, ToSetEmpty DEF Asked, TypeOK
  <2>6. Staying(s)
    BY <2>5, StayingStep
  <2>7. users[k][j.user] = k
    BY <2>2, <2>5, <2>6 DEF RegisteredFirst
  <2> HIDE DEF j
  <2> QED BY <1>0, <2>2, <2>4, <2>5, <2>7
<1> QED BY <1>1, <1>2

LEMMA TeardownAlways == Safety => [](AsksOwn /\ TearsDown)
<1>1. Init => AsksOwn /\ TearsDown
  <2> SUFFICES ASSUME Init PROVE AsksOwn /\ TearsDown
    OBVIOUS
  <2>1. \A n \in Server : frame[n][Listener] = Idle
    BY DEF Init, Thread
  <2>2. Idle.pc = "idle" /\ Idle.job.ses \notin Session
    BY PresenceAssumption DEF Idle, Junk
  <2> QED BY <2>1, <2>2, ToSetEmpty DEF Init, AsksOwn, TearsDown
<1>2. TypeOK /\ AsksOwn /\ TearsDown /\ [Next]_vars => (AsksOwn /\ TearsDown)'
  <2> SUFFICES ASSUME UNCHANGED vars, AsksOwn, TearsDown
               PROVE  AsksOwn' /\ TearsDown'
    BY AsksOwnStep, TearsDownStep
  <2> QED BY DEF vars, clientVars, AsksOwn, TearsDown
<1> QED BY <1>1, <1>2, TrafficAlways, PTL DEF Safety

(* HandleLogin against the disconnect code, the replicated logins and logouts *)
(* of peers and HandlePeerDisconnect: a welcomed client that is not leaving   *)
(* is what both tables say of its name, if no other client uses that name,    *)
(* for any number of clients, workers, servers, cuts and logins.              *)
THEOREM WelcomedAreReachable == Safety => []WelcomedIsReachable
<1> DEFINE Inv == RegisteredFirst /\ WelcomedIsReachable
<1>1. Init => Inv
  <2> SUFFICES ASSUME Init PROVE Inv
    OBVIOUS
  <2>1. \A n \in Server, t \in Thread : frame[n][t] = Idle
    BY DEF Init
  <2>2. Idle.pc = "idle"
    BY DEF Idle
  <2>3. WelcomedIsReachable
    BY DEF Init, WelcomedIsReachable
  <2> QED BY <2>1, <2>2, <2>3 DEF RegisteredFirst, Thread
<1>2. TypeOK /\ Traffic /\ AsksOwn /\ TearsDown /\ Inv /\ [Next]_vars => Inv'
  <2> SUFFICES ASSUME TypeOK, Traffic, AsksOwn, TearsDown, Inv, [Next]_vars PROVE Inv'
    OBVIOUS
  <2>1. CASE Next
    <3>1. RegisteredFirst'
      BY <2>1, RegisteredFirstStep
    <3>2. WelcomedIsReachable'
      BY <2>1, ReachableStep
    <3> QED BY <3>1, <3>2
  <2>2. CASE UNCHANGED vars
    <3>1. RegisteredFirst'
      BY <2>2 DEF vars, sessionVars, RegisteredFirst, OwnName, Staying, Leaving, Listening
    <3>2. WelcomedIsReachable'
      BY <2>2 DEF vars, sessionVars, WelcomedIsReachable, OwnName, Leaving, Listening
    <3> QED BY <3>1, <3>2
  <2> QED BY <2>1, <2>2
<1> QED BY <1>1, <1>2, TrafficAlways, TeardownAlways, PTL DEF Safety

-----------------------------------------------------------------------------
(* Counting.  The places of a queue that hold a member of P.                  *)
Places(q, P) == {i \in DOMAIN q : q[i] \in P}

LEMMA PlacesFinite ==
    ASSUME NEW S, NEW q \in Seq(S), NEW P
    PROVE  IsFiniteSet(Places(q, P)) /\ Cardinality(Places(q, P)) \in Nat
<1>1. IsFiniteSet(1..Len(q))
  BY FS_Interval
<1>2. Places(q, P) \in SUBSET (1..Len(q))
  BY DEF Places
<1>3. IsFiniteSet(Places(q, P))
  BY <1>1, <1>2, FS_Subset
<1> QED BY <1>3, FS_CardinalityType

LEMMA PlacesAppend ==
    ASSUME NEW S, NEW q \in Seq(S), NEW e \in S, NEW P
    PROVE  Cardinality(Places(Append(q, e), P)) = Cardinality(Places(q, P)) + (IF e \in P THEN 1 ELSE 0)
<1> DEFINE L == Len(q) + 1
<1>1. /\ DOMAIN q = 1..Len(q) /\ DOMAIN Append(q, e) = 1..L /\ Append(q, e)[L] = e
      /\ \A i \in 1..Len(q) : Append(q, e)[i] = q[i]
  OBVIOUS
<1>2. 1..L = (1..Len(q)) \cup {L} /\ L \notin 1..Len(q)
  OBVIOUS
<1> HIDE DEF L
<1>3. Places(Append(q, e), P) = IF e \in P THEN Places(q, P) \cup {L} ELSE Places(q, P)
  BY <1>1, <1>2 DEF Places
<1>4. L \notin Places(q, P)
  BY <1>1, <1>2 DEF Places
<1>5. IsFiniteSet(Places(q, P)) /\ Cardinality(Places(q, P)) \in Nat
  BY PlacesFinite
<1>6. Cardinality(Places(q, P) \cup {L}) = Cardinality(Places(q, P)) + 1
  BY <1>4, <1>5, FS_AddElement
<1> QED BY <1>3, <1>5, <1>6

LEMMA PlacesTail ==
    ASSUME NEW S, NEW q \in Seq(S), q # <<>>, NEW P
    PROVE  Cardinality(Places(q, P)) = Cardinality(Places(Tail(q), P)) + (IF Head(q) \in P THEN 1 ELSE 0)
<1> DEFINE A == Places(Tail(q), P)
           B == Places(q, P) \ {1}
           F == [i \in A |-> i + 1]
<1>1. /\ DOMAIN q = 1..Len(q) /\ Len(q) \in Nat \ {0} /\ Head(q) = q[1] /\ Tail(q) \in Seq(S)
      /\ DOMAIN Tail(q) = 1..(Len(q) - 1)
      /\ \A i \in 1..(Len(q) - 1) : Tail(q)[i] = q[i + 1]
  OBVIOUS
<1>2. \A i \in A : i \in 1..(Len(q) - 1) /\ q[i + 1] \in P
  BY <1>1 DEF Places
<1>3. \A i \in A : i + 1 \in B
  BY <1>1, <1>2 DEF Places
<1>4. \A k \in B : k \in 2..Len(q) /\ q[k] \in P
  BY <1>1 DEF Places
<1>5. \A k \in B : k - 1 \in A /\ (k - 1) + 1 = k
  <2> TAKE k \in B
  <2>1. k \in 2..Len(q) /\ q[k] \in P
    BY <1>4
  <2>2. k - 1 \in 1..(Len(q) - 1) /\ (k - 1) + 1 = k
    BY <2>1, <1>1
  <2>3. Tail(q)[k - 1] = q[k]
    BY <2>2, <1>1
  <2> QED BY <2>1, <2>2, <2>3, <1>1 DEF Places
<1>6. F \in [A -> B]
  BY <1>3
<1>7. \A i, k \in A : F[i] = F[k] => i = k
  BY <1>2
<1>8. \A k \in B : \E i \in A : F[i] = k
  BY <1>5
<1>9. ExistsBijection(A, B)
  <2> HIDE DEF A, B, F
  <2>1. F \in Injection(A, B)
    BY <1>6, <1>7, Fun_IsInj
  <2>2. F \in Surjection(A, B)
    BY <1>6, <1>8, Fun_IsSurj
  <2> QED BY <2>1, <2>2 DEF ExistsBijection, Bijection
<1>10. IsFiniteSet(A) /\ Cardinality(A) \in Nat /\ IsFiniteSet(Places(q, P)) /\ Cardinality(Places(q, P)) \in Nat
  BY <1>1, PlacesFinite
<1>11. Cardinality(B) = Cardinality(A)
  <2> HIDE DEF A, B
  <2> QED BY <1>9, <1>10, FS_Bijection
<1>12. Cardinality(B) = IF 1 \in Places(q, P) THEN Cardinality(Places(q, P)) - 1 ELSE Cardinality(Places(q, P))
  BY <1>10, FS_RemoveElement
<1>13. 1 \in Places(q, P) <=> Head(q) \in P
  BY <1>1 DEF Places
<1> QED BY <1>10, <1>11, <1>12, <1>13

(* Who counts and queues: every other step leaves the three alone.            *)
LEMMA CountsEffect ==
    ASSUME Next
    PROVE  \/ UNCHANGED <<taken, answered, queue>>
           \/ \E s \in Session : ReadLogin(s)
           \/ \E n, m \in Server : ReadPeer(n, m)
           \/ \E n \in Server, w \in Worker : Start(n, w) \/ Check(n, w) \/ Auth(n, w)
<1> DEFINE Same == UNCHANGED <<taken, answered, queue>>
<1>1. \A n, t : ThreadStep(n, t) => Same
  <2> SUFFICES ASSUME NEW n, NEW t, ThreadStep(n, t)
               PROVE  UNCHANGED queue
    BY ThreadStepKeeps DEF clientVars
  <2>1. ASSUME NEW m, Announce(n, t, m) \/ SendFails(n, t, m)
        PROVE  UNCHANGED queue
    BY <2>1, Zenon DEF Announce, SendFails
  <2>2. CASE Unlink(n, t) \/ Clear(n, t)
    BY <2>2, Zenon DEF Unlink, Clear
  <2> QED BY <2>1, <2>2 DEF ThreadStep
<1>2. \A n, w : Register(n, w) \/ Apply(n, w) \/ Promote(n, w) => Same
  BY DEF Register, Apply, Promote, clientVars
<1>3. \A n \in Server : HeartbeatStep(n) \/ DisconnectStep(n) => Same
  BY <1>1 DEF HeartbeatStep, DisconnectStep, Unregister, RemoveSession, HeartbeatTimeout, clientVars
<1>4. \A n, m \in Server : PeerEof(n, m) \/ RawEof(n, m) \/ Dial(n, m) \/ NetBreak(n, m) => Same
  BY DEF PeerEof, RawEof, Dial, NetBreak, clientVars
<1>5. \A s \in Session : ClientStep(s) \/ Accept(s) \/ ReadEof(s) => Same
  BY DEF ClientStep, SendLogin, HangUp, Accept, ReadEof, clientVars
<1> HIDE DEF Same
<1>6. \/ Same
      \/ \E s \in Session : ReadLogin(s)
      \/ \E n, m \in Server : ReadPeer(n, m)
      \/ \E n \in Server, w \in Worker : Start(n, w) \/ Check(n, w) \/ Auth(n, w)
  BY <1>1, <1>2, <1>3, <1>4, <1>5 DEF Next, WorkerStep, SocketStep
<1> QED BY <1>6 DEF Same

(* A worker is in HandleLogin from Start to the answer.                       *)
InLogin == {"check", "register", "auth"}

LEMMA ProceedPc ==
    ASSUME NEW h \in Frame
    PROVE  Proceed(h).pc \in {"idle", "announce", "remove"}
  BY DEF Proceed, Idle, Frame

LEMMA LoginMoves ==
    ASSUME TypeOK, Next, NEW n \in Server, NEW w \in Worker
    PROVE  \/ frame'[n][w] = frame[n][w]
           \/ Start(n, w) \/ Check(n, w) \/ Register(n, w) \/ Auth(n, w)
           \/ frame[n][w].pc \notin InLogin /\ frame'[n][w].pc \notin InLogin
<1> DEFINE f == frame[n][w]
           Out == f.pc \notin InLogin /\ frame'[n][w].pc \notin InLogin
<1>0. f \in Frame /\ w \in Thread /\ w # Listener /\ w # Heartbeat
  BY PresenceAssumption DEF TypeOK, Thread
<1>1. ASSUME NEW h, Moves(n, w, h) PROVE frame'[n][w] = h
  BY <1>0, <1>1 DEF Moves, TypeOK
<1>2. CASE Apply(n, w) \/ Promote(n, w)
  <2>1. f.pc \in {"apply", "promote"} /\ frame'[n][w] = Idle
    BY <1>1, <1>2 DEF Apply, Promote
  <2> QED BY <2>1 DEF Idle, InLogin
<1>3. CASE ThreadStep(n, w)
  <2>1. ASSUME NEW m \in Server, Announce(n, w, m)
        PROVE  Out
    <3> DEFINE h == [f EXCEPT !.todo = f.todo \ {m}]
    <3>1. h \in Frame
      BY <1>0 DEF Frame
    <3>2. frame'[n][w] = Proceed(h) /\ f.pc = "announce"
      BY <1>1, <2>1 DEF Announce
    <3> HIDE DEF h
    <3> QED BY <3>1, <3>2, ProceedPc DEF InLogin
  <2>2. ASSUME NEW m \in Server, SendFails(n, w, m)
        PROVE  Out
    <3>1. frame'[n][w] = [f EXCEPT !.pc = "unlink", !.todo = @ \ {m}, !.peer = m] /\ f.pc = "announce"
      BY <1>1, <2>2 DEF SendFails
    <3> QED BY <1>0, <3>1 DEF Frame, InLogin
  <2>3. CASE Unlink(n, w)
    <3>1. frame'[n][w] = [f EXCEPT !.pc = "clear"] /\ f.pc = "unlink"
      BY <1>1, <2>3 DEF Unlink, Goes
    <3> QED BY <1>0, <3>1 DEF Frame, InLogin
  <2>4. CASE Clear(n, w)
    <3>1. frame'[n][w] = Proceed(f) /\ f.pc = "clear"
      BY <1>1, <2>4 DEF Clear
    <3> QED BY <1>0, <3>1, ProceedPc DEF InLogin
  <2> QED BY <1>3, <2>1, <2>2, <2>3, <2>4 DEF ThreadStep
<1> QED BY <1>0, <1>2, <1>3, MoverIsOwn DEF Moved

(* The two parts of Handling: the LOGINs of s in the pool, and the workers in *)
(* HandleLogin for s.                                                         *)
Logins(s) == {j \in Job : j.kind = "login" /\ j.ses = s}
Serves(w, s) == frame[Home[s]][w].pc \in InLogin /\ frame[Home[s]][w].job.ses = s
Waiting(s) == Cardinality(Places(queue[Home[s]], Logins(s)))
Serving(s) == {w \in Worker : Serves(w, s)}

InParts == \A s \in Session :
    Handling(s) = Waiting(s) + Cardinality(Serving(s))

LEMMA HandlingParts == TypeOK => InParts
<1> SUFFICES ASSUME TypeOK, NEW s \in Session
             PROVE  Handling(s) = Waiting(s) + Cardinality(Serving(s))
  BY DEF InParts
<1>1. Home[s] \in Server
  BY PresenceAssumption
<1>2. queue[Home[s]] \in Seq(Job)
  BY <1>1 DEF TypeOK
<1>3. \A i \in DOMAIN queue[Home[s]] : queue[Home[s]][i] \in Job
  BY <1>2
<1>4. Places(queue[Home[s]], Logins(s))
        = {i \in DOMAIN queue[Home[s]] : queue[Home[s]][i].kind = "login" /\ queue[Home[s]][i].ses = s}
  BY <1>3 DEF Places, Logins
<1> QED BY <1>4 DEF Handling, Waiting, Serving, Serves, InLogin

LEMMA ServingFinite ==
    ASSUME NEW s \in Session
    PROVE  IsFiniteSet(Serving(s)) /\ Cardinality(Serving(s)) \in Nat
<1>1. IsFiniteSet(Worker) /\ Serving(s) \in SUBSET Worker
  BY PresenceAssumption DEF Serving
<1>2. IsFiniteSet(Serving(s))
  BY <1>1, FS_Subset
<1> QED BY <1>2, FS_CardinalityType

(* A step that takes a LOGIN over: read, started or answered, the balance is  *)
(* the same after it.                                                         *)
LEMMA Balance ==
    ASSUME TypeOK, TypeOK', NEW s \in Session, taken[s] = answered[s] + Handling(s),
           answered'[s] + Waiting(s)' + Cardinality(Serving(s)') - taken'[s]
             = answered[s] + Waiting(s) + Cardinality(Serving(s)) - taken[s]
    PROVE  taken'[s] = answered'[s] + Handling(s)'
<1>1. Handling(s) = Waiting(s) + Cardinality(Serving(s))
  BY HandlingParts DEF InParts
<1>0. TypeOK' => InParts'
  BY HandlingParts, PTL
<1>2. Handling(s)' = Waiting(s)' + Cardinality(Serving(s)')
  BY <1>0 DEF InParts
<1>3. Home[s] \in Server
  BY PresenceAssumption
<1>4. /\ queue[Home[s]] \in Seq(Job) /\ queue'[Home[s]] \in Seq(Job)
      /\ taken[s] \in Nat /\ answered[s] \in Nat /\ taken'[s] \in Nat /\ answered'[s] \in Nat
  BY <1>3 DEF TypeOK
<1>5. Waiting(s) \in Nat /\ Cardinality(Serving(s)) \in Nat
  BY <1>4, PlacesFinite, ServingFinite DEF Waiting
<1>6. Waiting(s)' \in Nat /\ Cardinality(Serving(s)') \in Nat
  <2>1. Waiting(s)' \in Nat
    BY <1>4, PlacesFinite DEF Waiting
  <2>2. PICK T \in SUBSET Worker : T = Serving(s)'
    BY DEF Serving
  <2>3. IsFiniteSet(T)
    BY <2>2, FS_Subset, PresenceAssumption
  <2>4. Cardinality(T) \in Nat
    BY <2>3, FS_CardinalityType
  <2> QED BY <2>1, <2>2, <2>4
<1>7. PICK t \in Nat, a \in Nat, q \in Nat, w \in Nat :
          t = taken[s] /\ a = answered[s] /\ q = Waiting(s) /\ w = Cardinality(Serving(s))
  BY <1>4, <1>5
<1>8. PICK tt \in Nat, aa \in Nat, qq \in Nat, ww \in Nat :
          tt = taken'[s] /\ aa = answered'[s] /\ qq = Waiting(s)' /\ ww = Cardinality(Serving(s)')
  BY <1>4, <1>6
<1>9. t = a + (q + w) /\ aa + qq + ww - tt = a + q + w - t
  BY <1>1, <1>7, <1>8
<1>10. tt = aa + (qq + ww)
  BY <1>9
<1> QED BY <1>2, <1>8, <1>10

(* Packets that are added to a pool.                                          *)
LEMMA PoolGrows ==
    ASSUME TypeOK, TypeOK', NEW s \in Session, taken[s] = answered[s] + Handling(s),
           UNCHANGED <<answered, frame>>,
           NEW k \in Server, NEW e \in Job, queue' = [queue EXCEPT ![k] = Append(queue[k], e)],
           e \in Logins(s) => k = Home[s],
           taken'[s] = taken[s] + (IF e \in Logins(s) THEN 1 ELSE 0)
    PROVE  taken'[s] = answered'[s] + Handling(s)'
<1> DEFINE n == Home[s]
           a == IF e \in Logins(s) THEN 1 ELSE 0
<1>1. n \in Server
  BY PresenceAssumption
<1>2. queue \in [Server -> Seq(Job)] /\ queue[n] \in Seq(Job) /\ answered[s] \in Nat
  BY <1>1 DEF TypeOK
<1>3. queue'[n] = IF k = n THEN Append(queue[n], e) ELSE queue[n]
  BY <1>1, <1>2
<1>4. Waiting(s) \in Nat
  BY <1>2, PlacesFinite DEF Waiting
<1>5. Waiting(s)' = Waiting(s) + a
  <2>1. CASE k = n
    BY <2>1, <1>2, <1>3, PlacesAppend DEF Waiting
  <2>2. CASE k # n
    BY <2>2, <1>3, <1>4 DEF Waiting
  <2> QED BY <2>1, <2>2
<1>6. Serving(s)' = Serving(s)
  BY DEF Serving, Serves
<1>7. Cardinality(Serving(s)) \in Nat /\ a \in Int
  BY ServingFinite
<1>8. answered'[s] = answered[s] /\ taken'[s] = taken[s] + a /\ taken[s] \in Nat
  BY DEF TypeOK
<1> HIDE DEF a
<1>9. answered'[s] + Waiting(s)' + Cardinality(Serving(s)') - taken'[s]
        = answered[s] + Waiting(s) + Cardinality(Serving(s)) - taken[s]
  BY <1>2, <1>4, <1>5, <1>6, <1>7, <1>8
<1> QED BY <1>9, Balance

(* A worker that takes a packet.                                              *)
LEMMA StartTakes ==
    ASSUME TypeOK, TypeOK', NEW s \in Session, taken[s] = answered[s] + Handling(s),
           NEW k \in Server, NEW w \in Worker, Start(k, w)
    PROVE  taken'[s] = answered'[s] + Handling(s)'
<1> DEFINE n == Home[s]
           j == Head(queue[k])
           h == [Idle EXCEPT !.pc = Entry(j.kind), !.job = j]
<1>1. n \in Server /\ w \in Thread /\ Worker \subseteq Thread
  BY PresenceAssumption DEF Thread
<1>2. /\ queue \in [Server -> Seq(Job)] /\ frame \in [Server -> [Thread -> Frame]]
      /\ taken[s] \in Nat /\ answered[s] \in Nat
  BY DEF TypeOK
<1>3. /\ frame[k][w].pc = "idle" /\ queue[k] # <<>> /\ queue' = [queue EXCEPT ![k] = Tail(queue[k])]
      /\ Moves(k, w, h) /\ UNCHANGED <<taken, answered>>
  BY DEF Start, clientVars
<1>4. j \in Job /\ queue[k] \in Seq(Job)
  BY <1>2, <1>3, ToSetHeadTail
<1>5. Entry(j.kind) \in Label /\ (Entry(j.kind) \in InLogin <=> j.kind = "login")
  BY <1>4, EntryType DEF Job, Entry, InLogin
<1>q. queue'[n] = IF k = n THEN Tail(queue[n]) ELSE queue[n]
  BY <1>1, <1>2, <1>3
<1> HIDE DEF j
<1>6. h \in Frame /\ h.pc = Entry(j.kind) /\ h.job = j
  BY <1>4, <1>5, IdleType DEF Frame
<1> HIDE DEF h
<1>7. /\ frame'[k][w] = h
      /\ \A m \in Server, x \in Thread : m # k \/ x # w => frame'[m][x] = frame[m][x]
  BY <1>1, <1>2, <1>3, <1>6, MovesOne
<1>8. \A v \in Worker : k # n \/ v # w => (Serves(v, s)' <=> Serves(v, s))
  BY <1>1, <1>7 DEF Serves
<1>f. /\ IsFiniteSet(Serving(s)) /\ Cardinality(Serving(s)) \in Nat
      /\ Waiting(s) \in Nat
  BY <1>1, <1>2, ServingFinite, PlacesFinite DEF Waiting
<1>9. CASE k = n /\ j \in Logins(s)
  <2>1. w \notin Serving(s)
    BY <1>3, <1>9 DEF Serving, Serves, InLogin
  <2>2. Serving(s)' = Serving(s) \cup {w}
    BY <1>5, <1>6, <1>7, <1>8, <1>9 DEF Serving, Serves, Logins
  <2>3. Cardinality(Serving(s)') = Cardinality(Serving(s)) + 1
    BY <2>1, <2>2, <1>f, FS_AddElement
  <2>4. Waiting(s) = Cardinality(Places(Tail(queue[n]), Logins(s))) + 1
    BY <1>3, <1>4, <1>9, PlacesTail DEF j, Waiting
  <2>5. Tail(queue[n]) \in Seq(Job)
    BY <1>3, <1>4, <1>9, ToSetHeadTail
  <2>6. Cardinality(Places(Tail(queue[n]), Logins(s))) \in Nat
    BY <2>5, PlacesFinite
  <2>7. Waiting(s) = Waiting(s)' + 1 /\ Waiting(s)' \in Nat
    BY <2>4, <2>6, <1>q, <1>9 DEF Waiting
  <2>8. taken'[s] = taken[s] /\ answered'[s] = answered[s]
    BY <1>3
  <2>9. answered'[s] + Waiting(s)' + Cardinality(Serving(s)') - taken'[s]
          = answered[s] + Waiting(s) + Cardinality(Serving(s)) - taken[s]
    <3>1. PICK a \in Nat, q \in Nat, v \in Nat, t \in Nat :
              a = answered[s] /\ q = Waiting(s)' /\ v = Cardinality(Serving(s)) /\ t = taken[s]
      BY <2>7, <1>2, <1>f
    <3>2. a + q + (v + 1) - t = a + (q + 1) + v - t
      BY <3>1
    <3> QED BY <3>1, <3>2, <2>3, <2>7, <2>8
  <2> QED BY <2>9, Balance
<1>10. CASE ~(k = n /\ j \in Logins(s))
  <2>1. Serving(s)' = Serving(s)
    <3>1. k = n => ~Serves(w, s)
      BY <1>3 DEF Serves, InLogin
    <3>2. k = n => ~Serves(w, s)'
      BY <1>4, <1>5, <1>6, <1>7, <1>10 DEF Serves, Logins
    <3> QED BY <3>1, <3>2, <1>8 DEF Serving
  <2>2. Waiting(s)' = Waiting(s)
    <3>1. CASE k = n
      <4>1. Tail(queue[n]) \in Seq(Job)
        BY <1>3, <1>4, <3>1, ToSetHeadTail
      <4>2. Cardinality(Places(Tail(queue[n]), Logins(s))) \in Nat
        BY <4>1, PlacesFinite
      <4>3. Waiting(s) = Cardinality(Places(Tail(queue[n]), Logins(s))) + 0
        BY <1>3, <1>4, <1>10, <3>1, PlacesTail DEF j, Waiting
      <4> QED BY <4>2, <4>3, <3>1, <1>q DEF Waiting
    <3>2. CASE k # n
      BY <3>2, <1>q DEF Waiting
    <3> QED BY <3>1, <3>2
  <2>3. taken'[s] = taken[s] /\ answered'[s] = answered[s]
    BY <1>3
  <2>4. answered'[s] + Waiting(s)' + Cardinality(Serving(s)') - taken'[s]
          = answered[s] + Waiting(s) + Cardinality(Serving(s)) - taken[s]
    BY <2>1, <2>2, <2>3
  <2> QED BY <2>4, Balance
<1> QED BY <1>9, <1>10

(* A worker that stays in HandleLogin with its packet, or answers it.         *)
LEMMA LoginGoesOn ==
    ASSUME TypeOK, TypeOK', NEW s \in Session, taken[s] = answered[s] + Handling(s),
           UNCHANGED <<taken, answered, queue>>,
           \A w \in Worker : Serves(w, s)' <=> Serves(w, s)
    PROVE  taken'[s] = answered'[s] + Handling(s)'
<1>1. Serving(s)' = Serving(s) /\ Waiting(s)' = Waiting(s)
  BY DEF Serving, Waiting
<1>2. answered'[s] + Waiting(s)' + Cardinality(Serving(s)') - taken'[s]
        = answered[s] + Waiting(s) + Cardinality(Serving(s)) - taken[s]
  BY <1>1
<1> QED BY <1>2, Balance

LEMMA LoginAnswers ==
    ASSUME TypeOK, TypeOK', Traffic, NEW s \in Session, taken[s] = answered[s] + Handling(s),
           UNCHANGED <<taken, queue>>,
           NEW k \in Server, NEW w \in Worker, frame[k][w].pc \in InLogin,
           answered' = [answered EXCEPT ![frame[k][w].job.ses] = answered[frame[k][w].job.ses] + 1],
           NEW h \in Frame, h.pc \notin InLogin, Moves(k, w, h)
    PROVE  taken'[s] = answered'[s] + Handling(s)'
<1> DEFINE n == Home[s]
           r == frame[k][w].job.ses
<1>1. n \in Server /\ w \in Thread /\ Worker \subseteq Thread
  BY PresenceAssumption DEF Thread
<1>2. /\ queue[n] \in Seq(Job) /\ frame \in [Server -> [Thread -> Frame]]
      /\ taken[s] \in Nat /\ answered \in [Session -> Nat] /\ answered[s] \in Nat
  BY <1>1 DEF TypeOK
<1>3. r \in Session /\ Home[r] = k
  BY <1>1 DEF Traffic, InFrame, Truthful, Asked, InLogin
<1>4. /\ frame'[k][w] = h
      /\ \A m \in Server, x \in Thread : m # k \/ x # w => frame'[m][x] = frame[m][x]
  BY <1>1, <1>2, MovesOne
<1>5. \A v \in Worker : k # n \/ v # w => (Serves(v, s)' <=> Serves(v, s))
  BY <1>1, <1>4 DEF Serves
<1>f. /\ IsFiniteSet(Serving(s)) /\ Cardinality(Serving(s)) \in Nat
      /\ Waiting(s) \in Nat
  BY <1>2, ServingFinite, PlacesFinite DEF Waiting
<1>6. k = n => ~Serves(w, s)'
  BY <1>4 DEF Serves
<1>7. CASE r = s
  <2>1. w \in Serving(s) /\ Serving(s)' = Serving(s) \ {w}
    BY <1>3, <1>5, <1>6, <1>7 DEF Serving, Serves
  <2>2. Cardinality(Serving(s)') = Cardinality(Serving(s)) - 1
    BY <2>1, <1>f, FS_RemoveElement
  <2>3. taken'[s] = taken[s] /\ answered'[s] = answered[s] + 1 /\ Waiting(s)' = Waiting(s)
    BY <1>2, <1>7 DEF Waiting
  <2>4. answered'[s] + Waiting(s)' + Cardinality(Serving(s)') - taken'[s]
          = answered[s] + Waiting(s) + Cardinality(Serving(s)) - taken[s]
    <3>1. PICK a \in Nat, q \in Nat, v \in Nat, t \in Nat :
              a = answered[s] /\ q = Waiting(s) /\ v = Cardinality(Serving(s)) /\ t = taken[s]
      BY <1>2, <1>f
    <3>2. (a + 1) + q + (v - 1) - t = a + q + v - t
      BY <3>1
    <3> QED BY <3>1, <3>2, <2>2, <2>3
  <2> QED BY <2>4, Balance
<1>8. CASE r # s
  <2>1. Serving(s)' = Serving(s)
    BY <1>5, <1>6, <1>8 DEF Serving, Serves
  <2>2. taken'[s] = taken[s] /\ answered'[s] = answered[s] /\ Waiting(s)' = Waiting(s)
    BY <1>2, <1>3, <1>8 DEF Waiting
  <2>3. answered'[s] + Waiting(s)' + Cardinality(Serving(s)') - taken'[s]
          = answered[s] + Waiting(s) + Cardinality(Serving(s)) - taken[s]
    BY <2>1, <2>2
  <2> QED BY <2>3, Balance
<1> QED BY <1>7, <1>8

LEMMA AccountedStep ==
    ASSUME TypeOK, TypeOK', Traffic, LoginAccounted, Next
    PROVE  LoginAccounted'
<1> SUFFICES ASSUME NEW s \in Session
             PROVE  taken'[s] = answered'[s] + Handling(s)'
  BY DEF LoginAccounted
<1>0. taken[s] = answered[s] + Handling(s)
  BY DEF LoginAccounted
<1>t. /\ Home \in [Session -> Server] /\ taken \in [Session -> Nat]
      /\ asked \in [Session -> Seq(Name)] /\ chan \in [Server -> [Server -> Seq(Job)]]
      /\ Worker \subseteq Thread /\ frame \in [Server -> [Thread -> Frame]]
  BY PresenceAssumption DEF TypeOK, Thread
<1>1. ASSUME NEW r \in Session, ReadLogin(r)
      PROVE  taken'[s] = answered'[s] + Handling(s)'
  <2>1. taken[r] + 1 \in 1..Len(asked[r]) /\ asked[r] \in Seq(Name)
    BY <1>1, <1>t DEF ReadLogin
  <2>2. asked[r][taken[r] + 1] \in Name
    BY <2>1
  <2>3. PICK e \in Job : e = Login(r, asked[r][taken[r] + 1])
    BY <2>2, JobTypes
  <2>4. e \in Logins(s) <=> r = s
    BY <2>3 DEF Login, Logins
  <2>5. queue' = [queue EXCEPT ![Home[r]] = Append(queue[Home[r]], e)] /\ UNCHANGED <<answered, frame>>
    BY <1>1, <2>3 DEF ReadLogin
  <2>6. taken'[s] = taken[s] + (IF e \in Logins(s) THEN 1 ELSE 0)
    BY <1>1, <1>t, <2>4 DEF ReadLogin
  <2>7. Home[r] \in Server
    BY <1>t
  <2> QED BY <1>0, <2>4, <2>5, <2>6, <2>7, PoolGrows
<1>2. ASSUME NEW n \in Server, NEW m \in Server, ReadPeer(n, m)
      PROVE  taken'[s] = answered'[s] + Handling(s)'
  <2> DEFINE j == Head(chan[m][n])
  <2>1. chan[m][n] \in Seq(Job) /\ chan[m][n] # <<>>
    BY <1>2, <1>t DEF ReadPeer
  <2>2. j \in Job /\ j \in ToSet(chan[m][n])
    BY <2>1, ToSetHeadTail
  <2>3. j.kind # "login"
    BY <2>2 DEF Traffic, OnWire
  <2>4. PICK e \in Job : e = (IF raw[n][m] # "none" THEN AsClientPacket(j) ELSE j)
    BY <2>2, LinkJobTypes DEF AsClientPacket
  <2>5. e \notin Logins(s)
    BY <2>3, <2>4 DEF AsClientPacket, Junk, Logins
  <2>6. queue' = [queue EXCEPT ![n] = Append(queue[n], e)] /\ UNCHANGED <<answered, frame, taken>>
    BY <1>2, <2>4 DEF ReadPeer, clientVars
  <2>7. taken'[s] = taken[s] + (IF e \in Logins(s) THEN 1 ELSE 0)
    BY <2>5, <2>6, <1>t
  <2> QED BY <1>0, <2>5, <2>6, <2>7, PoolGrows
<1>3. ASSUME NEW n \in Server, NEW w \in Worker, Start(n, w)
      PROVE  taken'[s] = answered'[s] + Handling(s)'
  BY <1>0, <1>3, StartTakes
<1>i. Idle \in Frame /\ Idle.pc \notin InLogin
  BY IdleType DEF Idle, InLogin
<1>m. ASSUME NEW n \in Server, NEW w \in Worker, NEW l \in InLogin, Goes(n, w, l), frame[n][w].pc \in InLogin
      PROVE  \A v \in Worker : Serves(v, s)' <=> Serves(v, s)
  <2> DEFINE h == [frame[n][w] EXCEPT !.pc = l]
  <2>1. w \in Thread /\ frame[n][w] \in Frame /\ l \in Label
    BY <1>t, LabelValues DEF InLogin
  <2>2. h \in Frame /\ h.pc = l /\ h.job = frame[n][w].job
    BY <2>1 DEF Frame
  <2>3. Moves(n, w, h)
    BY <1>m DEF Goes
  <2> HIDE DEF h
  <2>4. /\ frame'[n][w] = h
        /\ \A k \in Server, x \in Thread : k # n \/ x # w => frame'[k][x] = frame[k][x]
    BY <2>1, <2>2, <2>3, <1>t, MovesOne
  <2>5. Home[s] \in Server
    BY <1>t
  <2> QED BY <2>2, <2>4, <2>5, <1>m, <1>t DEF Serves
<1>4. ASSUME NEW n \in Server, NEW w \in Worker, Check(n, w)
      PROVE  taken'[s] = answered'[s] + Handling(s)'
  <2> DEFINE j == frame[n][w].job
  <2>1. frame[n][w].pc = "check" /\ UNCHANGED <<taken, queue>>
    BY <1>4 DEF Check
  <2>2. CASE Refused(n, j.user)
    <3>1. answered' = [answered EXCEPT ![j.ses] = answered[j.ses] + 1] /\ Moves(n, w, Idle)
      BY <1>4, <2>2 DEF Check
    <3> QED BY <1>0, <1>i, <2>1, <3>1, LoginAnswers DEF InLogin
  <2>3. CASE ~Refused(n, j.user)
    <3>1. UNCHANGED answered /\ Goes(n, w, "register")
      BY <1>4, <2>3 DEF Check
    <3>2. \A v \in Worker : Serves(v, s)' <=> Serves(v, s)
      BY <1>m, <2>1, <3>1 DEF InLogin
    <3> QED BY <1>0, <2>1, <3>1, <3>2, LoginGoesOn
  <2> QED BY <2>2, <2>3
<1>5. ASSUME NEW n \in Server, NEW w \in Worker, Auth(n, w)
      PROVE  taken'[s] = answered'[s] + Handling(s)'
  <2> DEFINE j == frame[n][w].job
             g == [Idle EXCEPT !.job = Online(j.ses, j.user), !.todo = Peers(n)]
  <2>1. /\ frame[n][w].pc = "auth" /\ UNCHANGED <<taken, queue>>
        /\ answered' = [answered EXCEPT ![j.ses] = answered[j.ses] + 1]
        /\ Moves(n, w, Proceed(g))
    BY <1>5 DEF Auth
  <2>2. j.ses \in Session /\ j.user \in Name
    <3>1. Asked(j.ses, j.user)
      BY <1>t, <2>1 DEF Traffic, InFrame, Truthful
    <3> QED BY <3>1, <1>t, ToSetOfSeq DEF Asked
  <2>3. Online(j.ses, j.user) \in Job
    BY <2>2, JobTypes
  <2>4. g \in Frame
    BY <2>3, <1>i DEF Frame, Peers
  <2> HIDE DEF g
  <2>5. Proceed(g) \in Frame /\ Proceed(g).pc \notin InLogin
    BY <2>4, ProceedType, ProceedPc DEF InLogin
  <2> QED BY <1>0, <2>1, <2>5, LoginAnswers DEF InLogin
<1>6. ASSUME ~ \E r \in Session : ReadLogin(r), ~ \E n, m \in Server : ReadPeer(n, m),
             ~ \E n \in Server, w \in Worker : Start(n, w) \/ Check(n, w) \/ Auth(n, w)
      PROVE  taken'[s] = answered'[s] + Handling(s)'
  <2>1. UNCHANGED <<taken, answered, queue>>
    BY <1>6, CountsEffect
  <2>2. CASE \E n \in Server, w \in Worker : Register(n, w)
    <3>1. PICK n \in Server, w \in Worker : Register(n, w)
      BY <2>2
    <3>2. Goes(n, w, "auth") /\ frame[n][w].pc = "register"
      BY <3>1 DEF Register
    <3>3. \A v \in Worker : Serves(v, s)' <=> Serves(v, s)
      BY <3>2, <1>m DEF InLogin
    <3> QED BY <1>0, <2>1, <3>3, LoginGoesOn
  <2>3. CASE ~ \E n \in Server, w \in Worker : Register(n, w)
    <3>1. \A v \in Worker : Serves(v, s)' <=> Serves(v, s)
      <4> TAKE v \in Worker
      <4>1. Home[s] \in Server
        BY <1>t
      <4>2. \/ frame'[Home[s]][v] = frame[Home[s]][v]
            \/ frame[Home[s]][v].pc \notin InLogin /\ frame'[Home[s]][v].pc \notin InLogin
        BY <4>1, <1>6, <2>3, LoginMoves
      <4> QED BY <4>2 DEF Serves
    <3> QED BY <1>0, <2>1, <3>1, LoginGoesOn
  <2> QED BY <2>2, <2>3
<1> QED BY <1>1, <1>2, <1>3, <1>4, <1>5, <1>6

(* Every LOGIN packet that the listener has read is answered once or in the   *)
(* pool or in the hands of one worker, for any cluster, pool and clients:     *)
(* neither the task queue nor HandleLogin drops or repeats one.               *)
THEOREM LoginsAreAccounted == Safety => []LoginAccounted
<1>1. Init => LoginAccounted
  <2> SUFFICES ASSUME Init, NEW s \in Session
               PROVE  taken[s] = answered[s] + Handling(s)
    BY DEF LoginAccounted
  <2>1. Home[s] \in Server /\ Idle.pc \notin InLogin
    BY PresenceAssumption DEF Idle, InLogin
  <2>2. TypeOK
    BY InitTraffic
  <2>3. queue[Home[s]] = <<>> /\ \A w \in Worker : frame[Home[s]][w] = Idle
    BY <2>1 DEF Init, Thread
  <2>4. Places(queue[Home[s]], Logins(s)) = {} /\ Serving(s) = {}
    BY <2>1, <2>3 DEF Places, Serving, Serves
  <2>5. Cardinality({}) = 0
    BY FS_EmptySet
  <2>6. Handling(s) = 0 + 0
    BY <2>2, <2>4, <2>5, HandlingParts DEF InParts, Waiting
  <2> QED BY <2>6 DEF Init
<1>2. TypeOK /\ TypeOK' /\ Traffic /\ LoginAccounted /\ [Next]_vars => LoginAccounted'
  <2> SUFFICES ASSUME UNCHANGED vars, LoginAccounted
               PROVE  LoginAccounted'
    BY AccountedStep
  <2> QED BY DEF vars, clientVars, LoginAccounted, Handling
<1> QED BY <1>1, <1>2, TrafficAlways, PTL DEF Safety

-----------------------------------------------------------------------------
(* Clients that leave.  What the tables say of a name that only one client    *)
(* uses, and of a session that is being torn down.                            *)

(* A client that logs in again does it with the name it has.                  *)
OneName == \A s \in Session : \A u, v \in MayUse[s] \ Invalid : u = v

(* The pace of a patient client: it hangs up when every LOGIN is answered.    *)
Paced(s) ==
    /\ taken[s] <= Len(asked[s])
    /\ sock[s] = "open" => s \in bySocket[Home[s]]
    /\ sock[s] = "shut" => answered[s] = Len(asked[s])

(* A name in the tables of its server is the session's m_username, or a       *)
(* worker has registered it and is about to authenticate the session.         *)
Authing(w, s, u) ==
    LET f == frame[Home[s]][w] IN f.pc = "auth" /\ f.job.ses = s /\ f.job.user = u
Owned(s) ==
    /\ username[s] \notin Invalid
    /\ \A u \in MayUse[s] :
          /\ users[Home[s]][u] = Home[s] => username[s] = u \/ \E w \in Worker : Authing(w, s, u)
          /\ byName[Home[s]][u] = s => username[s] = u

(* The teardown uses the name that the session still has, and from            *)
(* UnregisterUser on the location is gone.                                    *)
Dropped(s) == \A u \in MayUse[s] : users[Home[s]][u] # Home[s]
Leaves(s) ==
    LET f == frame[Home[s]][Listener] IN
    Leaving(s) => /\ sock[s] = "shut" /\ f.job.user = username[s]
                  /\ f.pc # "unregister" => Dropped(s)

Forgotten(s) == Gone(s) => \A u \in MayUse[s] :
                    users[Home[s]][u] # Home[s] /\ byName[Home[s]][u] # s

Departs == \A s \in Session : Paced(s) /\ Owned(s) /\ Leaves(s) /\ Forgotten(s)

(* After a patient client has hung up no worker handles a LOGIN of it.        *)
LEMMA Unserved ==
    ASSUME TypeOK, LoginAccounted, NEW s \in Session, Paced(s), sock[s] = "shut"
    PROVE  \A w \in Worker : ~Serves(w, s)
<1>1. SUFFICES ASSUME NEW w \in Worker, Serves(w, s)
               PROVE  FALSE
  OBVIOUS
<1>2. Home[s] \in Server
  BY PresenceAssumption
<1>3. queue[Home[s]] \in Seq(Job) /\ answered[s] \in Nat /\ taken[s] \in Nat /\ asked[s] \in Seq(Name)
  BY <1>2 DEF TypeOK
<1>4. Waiting(s) \in Nat /\ IsFiniteSet(Serving(s)) /\ Cardinality(Serving(s)) \in Nat
  BY <1>3, PlacesFinite, ServingFinite DEF Waiting
<1>5. Serving(s) # {}
  BY <1>1 DEF Serving
<1>6. Cardinality(Serving(s)) # 0
  BY <1>4, <1>5, FS_EmptySet
<1>7. taken[s] = answered[s] + (Waiting(s) + Cardinality(Serving(s)))
  BY HandlingParts DEF InParts, LoginAccounted
<1>8. PICK a \in Nat, q \in Nat, v \in Nat, t \in Nat, l \in Nat :
          /\ a = answered[s] /\ q = Waiting(s) /\ v = Cardinality(Serving(s))
          /\ t = taken[s] /\ l = Len(asked[s])
  BY <1>3, <1>4
<1>9. t = a + (q + v) /\ v # 0 /\ t <= l /\ a = l
  BY <1>6, <1>7, <1>8 DEF Paced
<1> QED BY <1>9

(* Where the listener can be with a session.                                  *)
LEMMA LeavingEffect ==
    ASSUME TypeOK, Next, NEW s \in Session, Leaving(s)'
    PROVE  LET f == frame[Home[s]][Listener] g == frame'[Home[s]][Listener] IN
           \/ g = f
           \/ ReadEof(s) /\ g.job = Offline(s, username[s])
                         /\ g.pc = IF username[s] = NoName THEN "remove" ELSE "unregister"
           \/ Leaving(s) /\ g.job = f.job /\ g.pc # "unregister" /\ (f.pc = "unregister" => Unregister(Home[s]))
<1> DEFINE n == Home[s]
           f == frame[n][Listener]
           g == frame'[n][Listener]
           Goal == \/ g = f
                   \/ ReadEof(s) /\ g.job = Offline(s, username[s])
                                 /\ g.pc = IF username[s] = NoName THEN "remove" ELSE "unregister"
                   \/ Leaving(s) /\ g.job = f.job /\ g.pc # "unregister" /\ (f.pc = "unregister" => Unregister(n))
<1> SUFFICES Goal
  OBVIOUS
<1>0. n \in Server /\ f \in Frame /\ Listener \in Thread /\ Listener \notin Worker /\ Listener # Heartbeat
  BY PresenceAssumption DEF TypeOK, Thread
<1>1. ASSUME NEW h, Moves(n, Listener, h) PROVE g = h
  BY <1>0, <1>1 DEF Moves, TypeOK
<1>2. g.pc # "idle" /\ g.job.ses = s /\ g # Idle
  <2>1. g.pc # "idle" /\ g.job.ses = s
    BY DEF Leaving, Listening
  <2> QED BY <2>1 DEF Idle
<1>j. Junk.ses # s
  BY PresenceAssumption DEF Junk
<1>3. ASSUME NEW h \in Frame, g = Proceed(h), h.job = f.job, f.pc # "idle"
      PROVE  Leaving(s) /\ g.job = f.job /\ g.pc # "unregister"
  <2>1. Proceed(h).job = h.job \/ Proceed(h) = Idle
    BY DEF Proceed, Frame
  <2>2. g.job = f.job /\ g.pc # "unregister"
    BY <1>2, <1>3, <2>1, ProceedPc
  <2> QED BY <1>2, <1>3, <2>2 DEF Leaving, Listening
<1>4. CASE Unregister(n)
  <2> DEFINE h == [f EXCEPT !.todo = Peers(n)]
  <2>1. g = Proceed(h) /\ f.pc = "unregister"
    BY <1>1, <1>4 DEF Unregister
  <2>2. h \in Frame /\ h.job = f.job
    BY <1>0 DEF Frame, Peers
  <2> HIDE DEF h, f, g
  <2> QED BY <1>3, <1>4, <2>1, <2>2
<1>5. CASE RemoveSession(n)
  BY <1>1, <1>2, <1>5 DEF RemoveSession
<1>6. CASE \E m \in Server : PeerEof(n, m)
  <2>1. PICK m \in Server : PeerEof(n, m)
    BY <1>6
  <2>2. g = [Idle EXCEPT !.pc = "unlink", !.peer = m]
    BY <1>1, <2>1 DEF PeerEof
  <2>3. g.job = Junk
    BY <2>2 DEF Idle
  <2> QED BY <1>2, <1>j, <2>3
<1>7. CASE \E r \in Session : Home[r] = n /\ ReadEof(r)
  <2>1. PICK r \in Session : Home[r] = n /\ ReadEof(r)
    BY <1>7
  <2>2. g = [Idle EXCEPT !.pc = IF username[r] = NoName THEN "remove" ELSE "unregister",
                         !.job = Offline(r, username[r])]
    BY <1>1, <2>1 DEF ReadEof
  <2>3. g.job = Offline(r, username[r]) /\ g.pc = IF username[r] = NoName THEN "remove" ELSE "unregister"
    BY <2>2 DEF Idle
  <2>4. r = s
    BY <1>2, <2>3 DEF Offline
  <2> QED BY <2>1, <2>3, <2>4
<1>8. CASE ThreadStep(n, Listener)
  <2>1. ASSUME NEW m \in Server, Announce(n, Listener, m)
        PROVE  Goal
    <3> DEFINE h == [f EXCEPT !.todo = f.todo \ {m}]
    <3>1. h \in Frame /\ h.job = f.job
      BY <1>0 DEF Frame
    <3>2. g = Proceed(h) /\ f.pc = "announce"
      BY <1>1, <2>1 DEF Announce
    <3> HIDE DEF h, f, g
    <3> QED BY <1>3, <3>1, <3>2
  <2>2. ASSUME NEW m \in Server, SendFails(n, Listener, m)
        PROVE  Goal
    <3>1. g = [f EXCEPT !.pc = "unlink", !.todo = @ \ {m}, !.peer = m] /\ f.pc = "announce"
      BY <1>1, <2>2 DEF SendFails
    <3>2. g.job = f.job /\ g.pc = "unlink"
      BY <1>0, <3>1 DEF Frame
    <3> QED BY <1>2, <3>1, <3>2 DEF Leaving, Listening
  <2>3. CASE Unlink(n, Listener)
    <3>1. g = [f EXCEPT !.pc = "clear"] /\ f.pc = "unlink"
      BY <1>1, <2>3 DEF Unlink, Goes
    <3>2. g.job = f.job /\ g.pc = "clear"
      BY <1>0, <3>1 DEF Frame
    <3> QED BY <1>2, <3>1, <3>2 DEF Leaving, Listening
  <2>4. CASE Clear(n, Listener)
    <3>1. g = Proceed(f) /\ f.pc = "clear"
      BY <1>1, <2>4 DEF Clear
    <3> HIDE DEF f, g
    <3> QED BY <1>0, <1>3, <3>1
  <2> QED BY <1>8, <2>1, <2>2, <2>3, <2>4 DEF ThreadStep
<1> QED BY <1>0, <1>4, <1>5, <1>6, <1>7, <1>8, MoverIsOwn DEF Moved

(* Every write about a session is made by a worker in HandleLogin for it.     *)
LEMMA AnswerIsServed ==
    ASSUME TypeOK, Traffic, Next, NEW s \in Session, answered'[s] # answered[s]
    PROVE  \E w \in Worker : Serves(w, s)
<1>1. PICK n \in Server, w \in Worker : Check(n, w) \/ Auth(n, w)
  BY CountsEffect DEF ReadLogin, ReadPeer, Start, clientVars
<1> DEFINE j == frame[n][w].job
<1>2. frame[n][w].pc \in InLogin
  BY <1>1 DEF Check, Auth, InLogin
<1>3. Home[j.ses] = n
  BY <1>2 DEF Traffic, InFrame, InLogin, Thread
<1>4. answered' = answered \/ answered' = [answered EXCEPT ![j.ses] = answered[j.ses] + 1]
  BY <1>1 DEF Check, Auth
<1>5. answered \in [Session -> Nat]
  BY DEF TypeOK
<1> HIDE DEF j
<1>6. j.ses = s
  BY <1>4, <1>5
<1> QED BY <1>2, <1>3, <1>6 DEF Serves, j

LEMMA LocationIsServed ==
    ASSUME DistinctNames, TypeOK, Traffic, AsksOwn, Next,
           NEW s \in Session, NEW u \in MayUse[s],
           users'[Home[s]][u] = Home[s], users[Home[s]][u] # Home[s]
    PROVE  \E w \in Worker : Serves(w, s) /\ Authing(w, s, u)'
<1> DEFINE n == Home[s]
<1>0. n \in Server /\ u \in Name /\ NoServer \notin Server /\ Worker \subseteq Thread
  BY PresenceAssumption DEF Thread
<1>t. users \in [Server -> [Name -> Server \cup {NoServer}]] /\ frame \in [Server -> [Thread -> Frame]]
  BY DEF TypeOK
<1> HIDE DEF n
<1>1. ASSUME NEW k \in Server, Unregister(k) PROVE FALSE
  BY <1>0, <1>1, <1>t DEF Unregister, n
<1>2. ASSUME NEW k \in Server, NEW t \in Thread, Clear(k, t) PROVE FALSE
  <2>1. users' = [users EXCEPT ![k] = ClearServerUsers(k, frame[k][t].peer)]
    BY <1>2 DEF Clear
  <2>2. ClearServerUsers(k, frame[k][t].peer)[u] \in {users[k][u], NoServer}
    BY <1>0 DEF ClearServerUsers
  <2> QED BY <1>0, <1>t, <2>1, <2>2 DEF n
<1>3. ASSUME NEW k \in Server, NEW w \in Worker, Apply(k, w) PROVE FALSE
  <2> DEFINE j == frame[k][w].job
  <2>1. frame[k][w].pc = "apply" /\ users' = [users EXCEPT ![k][j.user] = IF j.kind = "online" THEN j.from ELSE NoServer]
    BY <1>3 DEF Apply
  <2>2. j.from # k
    BY <1>0, <2>1 DEF Traffic, InFrame, Peers
  <2> HIDE DEF j
  <2> QED BY <1>0, <1>t, <2>1, <2>2 DEF n
<1>4. ASSUME NEW k \in Server, NEW w \in Worker, Register(k, w)
      PROVE  Serves(w, s) /\ Authing(w, s, u)'
  <2> DEFINE f == frame[k][w]
             h == [f EXCEPT !.pc = "auth"]
  <2>1. f.pc = "register" /\ users' = [users EXCEPT ![k][f.job.user] = k] /\ Moves(k, w, h)
    BY <1>4 DEF Register, Goes
  <2>2. f \in Frame /\ w \in Thread
    BY <1>0, <1>t
  <2>3. h \in Frame /\ h.pc = "auth" /\ h.job = f.job
    BY <2>2, LabelValues DEF Frame
  <2>4. Asked(f.job.ses, f.job.user) /\ Home[f.job.ses] = k
    BY <2>1, <2>2 DEF Traffic, InFrame, Truthful
  <2> HIDE DEF h, f
  <2>5. k = n /\ f.job.user = u
    BY <1>0, <1>t, <2>1 DEF n
  <2>6. f.job.ses \in Session /\ u \in MayUse[f.job.ses]
    BY <2>4, <2>5 DEF AsksOwn, Asked
  <2>7. f.job.ses = s
    BY <2>6 DEF DistinctNames
  <2>8. frame'[k][w] = h
    BY <1>t, <2>1, <2>2, <2>3, MovesOne
  <2> QED BY <2>1, <2>3, <2>5, <2>7, <2>8 DEF Serves, Authing, InLogin, n, f
<1> QED BY <1>1, <1>2, <1>3, <1>4, UsersStep DEF n

LEMMA NameIsServed ==
    ASSUME TypeOK, Traffic, AsksOwn, Next, NEW s \in Session,
           \/ username'[s] # username[s]
           \/ \E n \in Server, u \in Name : byName'[n][u] = s /\ byName[n][u] # s
    PROVE  \E w \in Worker, u \in MayUse[s] :
               /\ Serves(w, s) /\ Auth(Home[s], w) /\ u = frame[Home[s]][w].job.user /\ u \notin Invalid
               /\ username'[s] = u
               /\ \A v \in Name : byName'[Home[s]][v] = s => v = u \/ byName[Home[s]][v] = s
<1>t. /\ byName \in [Server -> [Name -> Session \cup {NoSession}]]
      /\ username \in [Session -> Name \cup {NoName}]
      /\ NoSession \notin Session
  BY PresenceAssumption DEF TypeOK
<1>1. ~ \E k \in Server : RemoveSession(k)
  <2>1. SUFFICES ASSUME NEW k \in Server, RemoveSession(k) PROVE FALSE
    OBVIOUS
  <2>2. username' = username /\ byName' = [byName EXCEPT ![k] = ForgetName(k, frame[k][Listener].job.ses)]
    BY <2>1 DEF RemoveSession
  <2>3. \A u \in Name : ForgetName(k, frame[k][Listener].job.ses)[u] \in {byName[k][u], NoSession}
    BY <1>t DEF ForgetName
  <2> QED BY <1>t, <2>2, <2>3
<1>2. PICK k \in Server, w \in Worker : Auth(k, w)
  BY <1>1, IndexStep
<1> DEFINE j == frame[k][w].job
<1>3. /\ frame[k][w].pc = "auth" /\ byName' = [byName EXCEPT ![k][j.user] = j.ses]
      /\ username' = [username EXCEPT ![j.ses] = j.user]
  BY <1>2 DEF Auth, IndexKey, SetName
<1>4. InFrame(k, frame[k][w])
  BY DEF Traffic, Thread
<1>5. Asked(j.ses, j.user) /\ Home[j.ses] = k /\ j.user \notin Invalid
  BY <1>3, <1>4 DEF InFrame, Truthful
<1>6. j.user \in MayUse[j.ses] /\ j.user \in Name /\ j.ses \in Session
  BY <1>5, ToSetOfSeq DEF AsksOwn, Asked, TypeOK
<1>7. j.ses = s
  <2> HIDE DEF j
  <2> QED BY <1>t, <1>3, <1>6
<1>8. Serves(w, s) /\ Auth(Home[s], w)
  BY <1>2, <1>3, <1>5, <1>7 DEF Serves, InLogin
<1>9. username'[s] = j.user
  BY <1>t, <1>3, <1>7
<1>10. \A v \in Name : byName'[k][v] = s => v = j.user \/ byName[k][v] = s
  <2> HIDE DEF j
  <2> QED BY <1>t, <1>3, <1>6
<1>11. k = Home[s]
  BY <1>5, <1>7
<1> QED BY <1>5, <1>6, <1>7, <1>8, <1>9, <1>10, <1>11

LEMMA PacedStep ==
    ASSUME Patient, TypeOK, Traffic, LoginAccounted, AsksOwn, Departs, Next, NEW s \in Session
    PROVE  Paced(s)'
<1> DEFINE n == Home[s]
<1>0. n \in Server /\ Paced(s) /\ Leaves(s) /\ Home \in [Session -> Server]
  BY PresenceAssumption DEF Departs
<1>t. /\ sock \in [Session -> {"none", "open", "shut"}] /\ asked \in [Session -> Seq(Name)]
      /\ taken \in [Session -> Nat] /\ answered \in [Session -> Nat]
      /\ bySocket \in [Server -> SUBSET Session]
  BY DEF TypeOK
<1>1. Len(asked'[s]) \in Nat /\ Len(asked[s]) \in Nat /\ Len(asked[s]) <= Len(asked'[s])
  <2>1. ASSUME NEW r \in Session, NEW u \in MayUse[r], SendLogin(r, u)
        PROVE  asked'[s] \in {asked[s], Append(asked[s], u)} /\ u \in Name
    BY <2>1, <1>t, PresenceAssumption DEF SendLogin
  <2>2. (\A r \in Session : \A u \in MayUse[r] : ~SendLogin(r, u)) => asked' = asked
    BY ClientEffect DEF Accept, HangUp
  <2>3. CASE asked' = asked
    BY <2>3, <1>t
  <2>4. ASSUME NEW u \in Name, asked'[s] = Append(asked[s], u)
        PROVE  Len(asked'[s]) \in Nat /\ Len(asked[s]) \in Nat /\ Len(asked[s]) <= Len(asked'[s])
    BY <2>4, <1>t
  <2>5. CASE asked' # asked
    <3>1. PICK r \in Session : \E u \in MayUse[r] : SendLogin(r, u)
      BY <2>2, <2>5
    <3>2. PICK u \in MayUse[r] : SendLogin(r, u)
      BY <3>1
    <3>3. u \in Name /\ (asked'[s] = asked[s] \/ asked'[s] = Append(asked[s], u))
      BY <2>1, <3>2
    <3>4. CASE asked'[s] = asked[s]
      BY <3>4, <1>t
    <3> QED BY <2>4, <3>3, <3>4
  <2> QED BY <2>3, <2>5
<1>2. taken'[s] <= Len(asked'[s])
  <2>1. ASSUME NEW r \in Session, ReadLogin(r)
        PROVE  taken'[s] <= Len(asked[s])
    BY <2>1, <1>t, <1>0 DEF ReadLogin, Paced
  <2>2. taken'[s] = taken[s] \/ \E r \in Session : ReadLogin(r)
    BY CountsEffect DEF ReadPeer, Start, Check, Auth, clientVars
  <2>3. taken[s] <= Len(asked[s]) /\ taken[s] \in Nat
    BY <1>0, <1>t DEF Paced
  <2>4. taken'[s] <= Len(asked[s]) /\ taken'[s] \in Nat
    <3>1. ASSUME NEW r \in Session, ReadLogin(r) PROVE taken'[s] \in Nat
      BY <3>1, <1>t DEF ReadLogin
    <3> QED BY <2>1, <2>2, <2>3, <3>1
  <2> QED BY <2>4, <1>1
<1>3. ASSUME sock'[s] = "open" PROVE s \in bySocket'[n]
  <2>1. CASE Accept(s)
    BY <2>1, <1>0, <1>t DEF Accept
  <2>2. CASE ~Accept(s)
    <3>1. sock[s] = "open"
      BY <1>3, <2>2, <1>t, ClientEffect DEF Accept, HangUp, SendLogin
    <3>2. s \in bySocket[n]
      BY <3>1, <1>0 DEF Paced
    <3>3. \A r \in Session : Accept(r) => s \in bySocket'[n]
      BY <3>2, <1>0, <1>t DEF Accept
    <3>4. \A k \in Server : RemoveSession(k) => s \in bySocket'[n]
      <4> SUFFICES ASSUME NEW k \in Server, RemoveSession(k)
                   PROVE  s \in bySocket'[n]
        OBVIOUS
      <4>1. /\ frame[k][Listener].pc = "remove"
            /\ bySocket' = [bySocket EXCEPT ![k] = bySocket[k] \ {frame[k][Listener].job.ses}]
        BY DEF RemoveSession
      <4>2. ~(k = n /\ frame[k][Listener].job.ses = s)
        BY <4>1, <3>1, <1>0 DEF Leaves, Leaving, Listening
      <4> QED BY <4>1, <4>2, <3>2, <1>0, <1>t
    <3> QED BY <3>2, <3>3, <3>4, SessionsEffect
  <2> QED BY <2>1, <2>2
<1>4. ASSUME sock'[s] = "shut" PROVE answered'[s] = Len(asked'[s])
  <2>1. CASE HangUp(s)
    BY <2>1 DEF HangUp
  <2>2. CASE ~HangUp(s)
    <3>1. sock[s] = "shut"
      BY <1>4, <2>2, <1>t, ClientEffect DEF Accept, HangUp, SendLogin
    <3>2. answered'[s] = answered[s]
      BY <3>1, <1>0, Unserved, AnswerIsServed
    <3>3. asked'[s] = asked[s]
      BY <3>1, <1>t, ClientEffect DEF Accept, HangUp, SendLogin
    <3> QED BY <3>1, <3>2, <3>3, <1>0 DEF Paced
  <2> QED BY <2>1, <2>2
<1> QED BY <1>2, <1>3, <1>4 DEF Paced

(* After the end of the connection the tables learn nothing new of it.        *)
LEMMA ShutIsSettled ==
    ASSUME DistinctNames, TypeOK, Traffic, LoginAccounted, AsksOwn, Next,
           NEW s \in Session, Paced(s), sock[s] = "shut"
    PROVE  /\ sock'[s] = "shut" /\ username'[s] = username[s]
           /\ \A u \in MayUse[s] : /\ users'[Home[s]][u] = Home[s] => users[Home[s]][u] = Home[s]
                                   /\ byName'[Home[s]][u] = s => byName[Home[s]][u] = s
<1>1. \A w \in Worker : ~Serves(w, s)
  BY Unserved
<1>2. sock'[s] = "shut"
  BY ClientEffect DEF Accept, HangUp, SendLogin, TypeOK
<1>3. username'[s] = username[s]
  BY <1>1, NameIsServed
<1>4. \A u \in MayUse[s] : users'[Home[s]][u] = Home[s] => users[Home[s]][u] = Home[s]
  BY <1>1, LocationIsServed
<1>5. Home[s] \in Server /\ MayUse[s] \subseteq Name
  BY PresenceAssumption
<1>6. \A u \in MayUse[s] : byName'[Home[s]][u] = s => byName[Home[s]][u] = s
  BY <1>1, <1>5, NameIsServed
<1> QED BY <1>2, <1>3, <1>4, <1>6

LEMMA OwnedStep ==
    ASSUME DistinctNames, OneName, TypeOK, Traffic, LocationHasCause, AsksOwn, Departs, Next, NEW s \in Session
    PROVE  Owned(s)'
<1> DEFINE n == Home[s]
<1>0. n \in Server /\ Owned(s) /\ MayUse[s] \subseteq Name
  BY PresenceAssumption DEF Departs
<1>1. ASSUME username'[s] # username[s]
      PROVE  username'[s] \in MayUse[s] \ Invalid
  BY <1>1, NameIsServed
<1>2. username'[s] \notin Invalid
  BY <1>0, <1>1 DEF Owned
<1>3. ASSUME NEW u \in MayUse[s], users'[n][u] = n
      PROVE  username'[s] = u \/ \E w \in Worker : Authing(w, s, u)'
  <2>1. CASE users[n][u] # n
    BY <1>3, <2>1, LocationIsServed
  <2>2. CASE users[n][u] = n
    <3>1. u \in MayUse[s] \ Invalid
      BY <1>0, <2>2 DEF LocationHasCause
    <3>2. CASE username'[s] # username[s]
      BY <1>1, <3>1, <3>2 DEF OneName
    <3>3. CASE username'[s] = username[s] /\ username[s] # u
      <4>1. PICK w \in Worker : Authing(w, s, u)
        BY <1>0, <2>2, <3>3 DEF Owned
      <4>2. frame[n][w].pc = "auth" /\ frame[n][w].job.ses = s /\ frame[n][w].job.user = u
        BY <4>1 DEF Authing
      <4>3. ~Auth(n, w)
        BY <3>3, <4>2 DEF Auth, SetName, TypeOK
      <4>4. ~Start(n, w) /\ ~Check(n, w) /\ ~Register(n, w)
        BY <4>2 DEF Start, Check, Register
      <4>5. frame'[n][w] = frame[n][w]
        BY <1>0, <4>2, <4>3, <4>4, LoginMoves DEF InLogin
      <4> QED BY <4>2, <4>5 DEF Authing
    <3> QED BY <3>2, <3>3
  <2> QED BY <2>1, <2>2
<1>4. ASSUME NEW u \in MayUse[s], byName'[n][u] = s
      PROVE  username'[s] = u
  <2>1. CASE byName[n][u] # s
    BY <1>0, <1>4, <2>1, NameIsServed
  <2>2. CASE byName[n][u] = s
    <3>1. username[s] = u /\ u \in MayUse[s] \ Invalid
      BY <1>0, <2>2 DEF Owned
    <3> QED BY <1>1, <3>1 DEF OneName
  <2> QED BY <2>1, <2>2
<1> QED BY <1>2, <1>3, <1>4 DEF Owned

LEMMA LeavesStep ==
    ASSUME DistinctNames, TypeOK, Traffic, LoginAccounted, AsksOwn, Departs, Next, NEW s \in Session
    PROVE  Leaves(s)'
<1> DEFINE n == Home[s]
           f == frame[n][Listener]
           g == frame'[n][Listener]
<1>0. n \in Server /\ Paced(s) /\ Owned(s) /\ Leaves(s) /\ MayUse[s] \subseteq Name /\ NoName \notin Name
  BY PresenceAssumption DEF Departs
<1>1. SUFFICES ASSUME Leaving(s)'
               PROVE  /\ sock'[s] = "shut" /\ g.job.user = username'[s]
                      /\ g.pc # "unregister" => Dropped(s)'
  BY DEF Leaves
<1>2. sock[s] = "shut"
  <2>1. CASE ReadEof(s)
    BY <2>1 DEF ReadEof
  <2>2. CASE Leaving(s)
    BY <1>0, <2>2 DEF Leaves
  <2>3. g = f => Leaving(s)
    BY <1>1 DEF Leaving, Listening
  <2> QED BY <1>1, <2>1, <2>2, <2>3, LeavingEffect
<1>3. sock'[s] = "shut" /\ username'[s] = username[s] /\ (Dropped(s) => Dropped(s)')
  BY <1>0, <1>2, ShutIsSettled DEF Dropped
<1>4. \A w \in Worker, u \in MayUse[s] : ~Authing(w, s, u)
  BY <1>0, <1>2, Unserved DEF Serves, Authing, InLogin
<1>5. CASE g = f
  <2>1. Leaving(s)
    BY <1>1, <1>5 DEF Leaving, Listening
  <2> QED BY <1>0, <1>3, <1>5, <2>1 DEF Leaves
<1>6. CASE ReadEof(s) /\ g.job = Offline(s, username[s])
                      /\ g.pc = IF username[s] = NoName THEN "remove" ELSE "unregister"
  <2>1. g.job.user = username[s]
    BY <1>6 DEF Offline
  <2>2. username[s] = NoName => Dropped(s)
    BY <1>0, <1>4 DEF Dropped, Owned
  <2> QED BY <1>3, <1>6, <2>1, <2>2
<1>7. CASE Leaving(s) /\ g.job = f.job /\ g.pc # "unregister" /\ (f.pc = "unregister" => Unregister(n))
  <2>1. f.job.user = username[s] /\ (f.pc # "unregister" => Dropped(s))
    BY <1>0, <1>7 DEF Leaves
  <2>2. ASSUME f.pc = "unregister"
        PROVE  Dropped(s)'
    <3>1. users' = [users EXCEPT ![n][username[s]] = NoServer]
      BY <1>7, <2>1, <2>2 DEF Unregister
    <3>2. SUFFICES ASSUME NEW u \in MayUse[s], users'[n][u] = n
                   PROVE  FALSE
      BY DEF Dropped
    <3>3. users[n][u] = n
      BY <1>0, <1>2, <3>2, ShutIsSettled
    <3>4. username[s] = u
      BY <1>0, <1>4, <3>3 DEF Owned
    <3>5. users'[n][u] = NoServer
      BY <1>0, <3>1, <3>4 DEF TypeOK
    <3> QED BY <1>0, <3>2, <3>5, PresenceAssumption
  <2> QED BY <1>3, <1>7, <2>1, <2>2
<1> QED BY <1>1, <1>5, <1>6, <1>7, LeavingEffect

LEMMA ForgottenStep ==
    ASSUME DistinctNames, TypeOK, Traffic, LoginAccounted, AsksOwn, Departs, Next, NEW s \in Session
    PROVE  Forgotten(s)'
<1> DEFINE n == Home[s]
           f == frame[n][Listener]
<1>0. n \in Server /\ Paced(s) /\ Owned(s) /\ Leaves(s) /\ Forgotten(s)
  BY PresenceAssumption DEF Departs
<1>m. MayUse[s] \subseteq Name /\ NoName \notin Name /\ NoSession \notin Session
  BY PresenceAssumption
<1>1. SUFFICES ASSUME sock'[s] = "shut", s \notin bySocket'[n]
               PROVE  \A u \in MayUse[s] : users'[n][u] # n /\ byName'[n][u] # s
  BY DEF Forgotten, Gone
<1>2. sock[s] = "shut"
  <2>1. ~HangUp(s)
    BY <1>0, <1>1 DEF HangUp, Paced, sessionVars
  <2> QED BY <1>1, <2>1, ClientEffect DEF Accept, HangUp, SendLogin, TypeOK
<1>3. CASE s \notin bySocket[n]
  <2>1. \A u \in MayUse[s] : users[n][u] # n /\ byName[n][u] # s
    BY <1>0, <1>2, <1>3 DEF Forgotten, Gone
  <2> QED BY <1>0, <1>2, <2>1, ShutIsSettled
<1>4. CASE s \in bySocket[n]
  <2>1. RemoveSession(n) /\ f.job.ses = s
    <3>1. \A r \in Session : ~Accept(r)
      <4> SUFFICES ASSUME NEW r \in Session, Accept(r) PROVE FALSE
        OBVIOUS
      <4>1. PICK k \in Server : bySocket' = [bySocket EXCEPT ![k] = bySocket[k] \cup {r}]
        BY PresenceAssumption DEF Accept
      <4>2. bySocket \in [Server -> SUBSET Session]
        BY DEF TypeOK
      <4> QED BY <1>0, <1>1, <1>4, <4>1, <4>2
    <3>2. PICK k \in Server : RemoveSession(k)
      BY <1>1, <1>4, <3>1, SessionsEffect
    <3>3. bySocket' = [bySocket EXCEPT ![k] = bySocket[k] \ {frame[k][Listener].job.ses}]
      BY <3>2 DEF RemoveSession
    <3>4. k = n /\ frame[k][Listener].job.ses = s
      BY <1>0, <1>1, <1>4, <3>3 DEF TypeOK
    <3> QED BY <3>2, <3>4
  <2>2. f.pc = "remove" /\ byName' = [byName EXCEPT ![n] = ForgetName(n, s)]
    BY <2>1 DEF RemoveSession
  <2>3. Dropped(s)
    BY <1>0, <2>1, <2>2 DEF Leaves, Leaving, Listening
  <2>4. ASSUME NEW u \in MayUse[s], byName'[n][u] = s
        PROVE  FALSE
    <3>1. byName[n][u] = s
      BY <1>0, <1>2, <2>4, ShutIsSettled
    <3>2. username[s] = u /\ u # NoName
      BY <1>0, <1>m, <3>1 DEF Owned
    <3>3. byName'[n][u] = NoSession
      BY <1>0, <1>m, <2>2, <3>2 DEF ForgetName, TypeOK
    <3> QED BY <1>m, <2>4, <3>3
  <2>5. \A u \in MayUse[s] : users'[n][u] # n
    BY <1>0, <1>2, <2>3, ShutIsSettled DEF Dropped
  <2> QED BY <2>4, <2>5
<1> QED BY <1>3, <1>4

(* HandleLogin against the disconnect code: clients that wait for their       *)
(* answers, each with a name of its own, are forgotten by their server when   *)
(* the listener is done with the connection, for any number of clients,       *)
(* workers, servers, logins and cut links.  Without patience a worker may     *)
(* still write the name after the teardown, and of two names of one session   *)
(* the teardown finds the last only.                                          *)
THEOREM DepartedAreForgotten == Patient /\ DistinctNames /\ OneName => (Safety => []GoneIsGone)
<1> SUFFICES ASSUME Patient, DistinctNames, OneName
             PROVE  Safety => []GoneIsGone
  OBVIOUS
<1> DEFINE Known == TypeOK /\ Traffic /\ LoginAccounted /\ LocationHasCause /\ AsksOwn
<1>1. Init => Departs
  <2> SUFFICES ASSUME Init, NEW s \in Session
               PROVE  Paced(s) /\ Owned(s) /\ Leaves(s) /\ Forgotten(s)
    BY DEF Departs
  <2>1. Home[s] \in Server /\ MayUse[s] \subseteq Name /\ NoName \notin Name /\ Invalid \subseteq Name
    BY PresenceAssumption
  <2>2. NoServer \notin Server /\ NoSession \notin Session
    BY PresenceAssumption
  <2>3. Paced(s)
    BY DEF Init, Paced
  <2>4. Owned(s)
    BY <2>1, <2>2 DEF Init, Owned
  <2>5. frame[Home[s]][Listener].pc = "idle"
    BY <2>1 DEF Init, Thread, Idle
  <2>6. Leaves(s)
    BY <2>5 DEF Leaves, Leaving, Listening
  <2>7. Forgotten(s)
    BY DEF Init, Forgotten, Gone
  <2> QED BY <2>3, <2>4, <2>6, <2>7
<1>2. Known /\ Departs /\ [Next]_vars => Departs'
  <2>1. CASE Next
    <3>1. ASSUME Known, Departs, NEW s \in Session
          PROVE  Paced(s)' /\ Owned(s)' /\ Leaves(s)' /\ Forgotten(s)'
      BY <2>1, <3>1, PacedStep, OwnedStep, LeavesStep, ForgottenStep
    <3> QED BY <3>1 DEF Departs
  <2>2. CASE UNCHANGED vars
    <3>1. UNCHANGED <<sock, asked, taken, answered, username, bySocket, byName, users, frame>>
      BY <2>2 DEF vars, clientVars, sessionVars
    <3> QED BY <3>1 DEF Departs, Paced, Owned, Authing, Leaves, Leaving, Listening, Dropped, Forgotten, Gone
  <2> QED BY <2>1, <2>2
<1>3. Departs => GoneIsGone
  BY DEF Departs, Forgotten, GoneIsGone
<1>4. Safety => []Known
  BY TrafficAlways, LoginsAreAccounted, LocationsHaveCauses, TeardownAlways, PTL
<1> QED BY <1>1, <1>2, <1>3, <1>4, PTL DEF Safety
=============================================================================
