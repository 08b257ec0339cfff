-------------------------- MODULE VideoServerProofs --------------------------
(* The two threads of wifi_video_server.c share client_fds and               *)
(* video_collect_fd without a lock.  For any number of connections, slots,   *)
(* descriptors and frames no viewer is lost, and the collector's descriptor  *)
(* is open.                                                                  *)
EXTENDS VideoServer, TLAPS

Peers == {"off", "idle", "viewer", "collector", "sending", "gone"}

Types ==
  /\ peer \in [Conns -> Peers]
  /\ fd \in [Conns -> Nat] /\ \A c \in Conns : fd[c] # ListenFd
  /\ told \in [Conns -> {"no", "viewer", "collector"}] /\ lq \in Seq(Conns)
  /\ edge \cup batch \subseteq inEpoll \cup {ListenFd}
  /\ client_fds \in [Slots -> Int] /\ mj \in Nat /\ si \in Nat /\ sj \in Int
  /\ spc \in {"check", "lock", "waiting", "recheck", "read", "send", "compact", "moved"}

(* A connection is queued at most once, and not yet accepted then; only an   *)
(* accepted one is told CMD:SUCCESS.                                         *)
QueueInv ==
  /\ \A i, j \in 1 .. Len(lq) : lq[i] = lq[j] => i = j
  /\ \A i \in 1 .. Len(lq) : fd[lq[i]] = 0 /\ peer[lq[i]] # "off"
  /\ \A c \in Conns : peer[c] = "off" => fd[c] = 0
  /\ \A c \in Conns : told[c] # "no" => fd[c] # 0

(* The connection whose command the main thread has in hand is open and has  *)
(* no event left; the slot it is going to take is free until it does.        *)
ServeInv ==
  /\ mpc \in {"slots", "store", "success", "refuse", "assign", "leave", "joined"} =>
       /\ sockfd # 0 /\ sockfd \notin batch
       /\ \E c \in Conns : fd[c] = sockfd
  /\ mpc = "store" => mj \in Slots /\ client_fds[mj] = -1
  /\ mpc = "assign" => collect = -1

(* The slot that the video thread is about to overwrite or to free is in use *)
(* until it does, so that the main thread registers nobody there.            *)
CompactInv ==
  /\ spc \in {"compact", "moved"} => si \in Slots /\ sj \in Slots /\ si <= sj
  /\ spc = "compact" => client_fds[si] > 0
  /\ spc = "moved" => si < sj /\ client_fds[si] > 0 /\ client_fds[sj] > 0

Doomed == IF spc = "compact" THEN {si} ELSE IF spc = "moved" THEN {sj} ELSE {}

(* Every viewer, and the one that is about to be answered, has a slot that   *)
(* survives the compaction in progress, also when its descriptor is the      *)
(* number of the closed one in the slot that goes.                           *)
Kept(f) == \E j \in Slots \ Doomed : client_fds[j] = f

Registered ==
  /\ \A c \in Conns : told[c] = "viewer" => Kept(fd[c])
  /\ mpc = "success" => Kept(sockfd)

(* The collector's descriptor is not in epoll, whose events are what closes, *)
(* but for the step of the main thread that takes it out.                    *)
CollectInv ==
  /\ collect # -1 => /\ collect > 0 /\ \E c \in Conns : fd[c] = collect
                     /\ collect \in inEpoll => mpc = "leave" /\ collect = sockfd

IInv == Types /\ QueueInv /\ ServeInv /\ CompactInv /\ Registered /\ CollectInv

-----------------------------------------------------------------------------
LEMMA FdNumbers == \A f \in Fds : f \in Nat /\ f > 0 /\ f # ListenFd
  BY VideoAssumption DEF Fds, ListenFd

(* A step that touches neither the tables nor the threads' places, and at    *)
(* most moves a connection that had begun, or reports an event.              *)
LEMMA QuietStep ==
  ASSUME IInv, UNCHANGED <<lq, fd, inEpoll, told, batch, mpc, sockfd, mj, client_fds, collect, spc, si, sj>>,
         peer' \in [Conns -> Peers], edge' \subseteq edge \cup inEpoll,
         \A c \in Conns : peer'[c] = "off" <=> peer[c] = "off"
  PROVE  IInv'
<1>1. Types' /\ ServeInv' /\ CompactInv' /\ CollectInv'
  BY DEF IInv, Types, ServeInv, CompactInv, CollectInv, Slots
<1>2. QueueInv'
  BY DEF IInv, Types, QueueInv
<1>3. Registered'
  BY DEF IInv, Registered, Kept, Doomed, Slots
<1> QED
  BY <1>1, <1>2, <1>3 DEF IInv

LEMMA NextPeers ==
  ASSUME IInv, NEW c \in Conns,
         Takes(c) \/ Frame(c) \/ Leave(c) \/ Lost(c) \/ Ask(c, "viewer") \/ Ask(c, "collector")
  PROVE  IInv'
<1>1. /\ UNCHANGED <<lq, fd, inEpoll, told, batch, mpc, sockfd, mj, client_fds, collect, spc, si, sj>>
      /\ edge' \subseteq edge \cup inEpoll
  BY DEF Takes, Frame, Leave, Lost, Ask, Peer, Event, netVars, mainVars, threadVars
<1>2. /\ peer' \in [Conns -> Peers]
      /\ \A d \in Conns : peer'[d] = "off" <=> peer[d] = "off"
  BY DEF IInv, Types, Peers, Takes, Frame, Leave, Lost, Ask
<1> QED
  BY <1>1, <1>2, QuietStep

LEMMA NextConnect == ASSUME IInv, NEW c \in Conns, Connect(c) PROVE IInv'
<1>1. /\ UNCHANGED <<fd, inEpoll, told, batch, mpc, sockfd, mj, client_fds, collect, spc, si, sj>>
      /\ peer[c] = "off" /\ peer' = [peer EXCEPT ![c] = "idle"] /\ lq' = Append(lq, c)
      /\ edge' = edge \cup {ListenFd}
  BY DEF Connect, mainVars, threadVars
<1>2. Types' /\ ServeInv' /\ CompactInv' /\ CollectInv' /\ Registered'
  BY <1>1 DEF IInv, Types, Peers, ServeInv, CompactInv, CollectInv, Registered, Kept, Doomed, Slots
<1>3. QueueInv'
  <2>1. \A i \in 1 .. Len(lq) : lq'[i] = lq[i] /\ lq[i] \in Conns /\ lq[i] # c
    BY <1>1 DEF IInv, Types, QueueInv
  <2>2. Len(lq') = Len(lq) + 1 /\ lq'[Len(lq) + 1] = c /\ fd[c] = 0
    BY <1>1 DEF IInv, Types, QueueInv
  <2>3. ASSUME NEW i \in 1 .. Len(lq'), NEW j \in 1 .. Len(lq'), lq'[i] = lq'[j] PROVE i = j
    <3>1. Len(lq) \in Nat
      BY DEF IInv, Types
    <3>2. \A k \in 1 .. Len(lq') : k \in 1 .. Len(lq) \/ k = Len(lq) + 1
      BY <2>2, <3>1
    <3> QED
      BY <2>1, <2>2, <2>3, <3>2 DEF IInv, QueueInv
  <2>4. \A i \in 1 .. Len(lq') : fd'[lq'[i]] = 0 /\ peer'[lq'[i]] # "off"
    BY <1>1, <2>1, <2>2 DEF IInv, Types, QueueInv
  <2> QED
    BY <1>1, <2>3, <2>4 DEF IInv, Types, QueueInv
<1> QED
  BY <1>2, <1>3 DEF IInv

-----------------------------------------------------------------------------
(* The main thread.                                                          *)
LEMMA NextEpollWait == ASSUME IInv, EpollWait PROVE IInv'
<1>1. /\ UNCHANGED <<peer, lq, fd, inEpoll, told, sockfd, mj, client_fds, collect, spc, si, sj>>
      /\ mpc = "wait" /\ mpc' = "scan" /\ edge' \cup batch' \subseteq edge
  BY DEF EpollWait, connVars, threadVars
<1>2. Types' /\ QueueInv' /\ ServeInv' /\ CompactInv' /\ Registered' /\ CollectInv'
  BY <1>1 DEF IInv, Types, QueueInv, ServeInv, CompactInv, Registered, Kept, Doomed, CollectInv, Slots
<1> QED
  BY <1>2 DEF IInv

LEMMA NextAccept == ASSUME IInv, Accept PROVE IInv'
<1>1. /\ UNCHANGED <<peer, told, client_fds, collect, spc, si, sj>>
      /\ lq # << >> /\ lq' = Tail(lq) /\ mpc = "scan"
      /\ mpc' \in {"wait", "scan"} /\ batch' \subseteq batch /\ mj' = 0
  BY DEF Accept, Turn, connVars, threadVars
<1>2. PICK f \in Fds : /\ LowestFree(f) /\ fd' = [fd EXCEPT ![Head(lq)] = f]
                       /\ inEpoll' = inEpoll \cup {f} /\ edge' \subseteq edge \cup {f}
  BY DEF Accept
<1>3. f \in Nat /\ f > 0 /\ f # ListenFd /\ \A c \in Conns : fd[c] # f
  BY <1>2, FdNumbers DEF LowestFree
<1>4. /\ Head(lq) = lq[1] /\ Head(lq) \in Conns /\ lq' \in Seq(Conns) /\ Len(lq') = Len(lq) - 1
      /\ \A i \in 1 .. Len(lq') : lq'[i] = lq[i + 1]
  BY <1>1 DEF IInv, Types
<1>5. fd[Head(lq)] = 0 /\ peer[Head(lq)] # "off" /\ told[Head(lq)] = "no"
  BY <1>1, <1>4 DEF IInv, Types, QueueInv
<1>6. Types' /\ CompactInv' /\ ServeInv'
  BY <1>1, <1>2, <1>3, <1>4 DEF IInv, Types, CompactInv, ServeInv, Slots
<1>7. QueueInv'
  <2>1. \A i \in 1 .. Len(lq') : lq'[i] \in Conns /\ lq'[i] # Head(lq)
    BY <1>1, <1>4 DEF IInv, Types, QueueInv
  <2>2. \A i, j \in 1 .. Len(lq') : lq'[i] = lq'[j] => i = j
    BY <1>1, <1>4 DEF IInv, Types, QueueInv
  <2>3. \A i \in 1 .. Len(lq') : fd'[lq'[i]] = 0 /\ peer'[lq'[i]] # "off"
    BY <1>1, <1>2, <1>4, <2>1 DEF IInv, Types, QueueInv
  <2> QED
    BY <1>1, <1>2, <1>3, <1>5, <2>2, <2>3 DEF IInv, Types, QueueInv
<1>8. Registered'
  BY <1>1, <1>2, <1>5 DEF IInv, Types, Registered, Kept, Doomed, Slots
<1>9. CollectInv'
  <2> SUFFICES ASSUME collect # -1 PROVE CollectInv'
    BY <1>1 DEF CollectInv
  <2>1. collect > 0 /\ collect \notin inEpoll
    BY <1>1 DEF IInv, CollectInv
  <2>2. PICK c \in Conns : fd[c] = collect
    BY DEF IInv, CollectInv
  <2>3. c # Head(lq) /\ collect # f
    BY <1>3, <1>5, <2>1, <2>2
  <2> QED
    BY <1>1, <1>2, <1>4, <2>1, <2>2, <2>3 DEF IInv, Types, CollectInv
<1> QED
  BY <1>6, <1>7, <1>8, <1>9 DEF IInv

LEMMA NextReadCmd ==
  ASSUME IInv, NEW c \in Conns, NEW role, NEW to, ReadCmd(c, role, to),
         to \in {"slots", "refuse"} \/ (to = "assign" /\ collect = -1)
  PROVE  IInv'
<1>1. /\ UNCHANGED <<peer, lq, fd, inEpoll, edge, told, client_fds, collect, spc, si, sj>>
      /\ mpc = "scan" /\ mpc' = to /\ fd[c] # 0 /\ sockfd' = fd[c] /\ mj' = 0
      /\ batch' = batch \ {fd[c]}
  BY DEF ReadCmd, Reads, threadVars
<1>2. Types' /\ QueueInv' /\ ServeInv' /\ CompactInv' /\ Registered' /\ CollectInv'
  BY <1>1 DEF IInv, Types, QueueInv, ServeInv, CompactInv, Registered, Kept, Doomed, CollectInv, Slots
<1> QED
  BY <1>2 DEF IInv

(* The descriptor that is closed was in epoll.                               *)
LEMMA NextCloseConn == ASSUME IInv, NEW c \in Conns, CloseConn(c) PROVE IInv'
<1>1. /\ UNCHANGED <<lq, client_fds, collect, spc, si, sj>>
      /\ peer' = [peer EXCEPT ![c] = "gone"] /\ told' = [told EXCEPT ![c] = "no"]
      /\ fd' = [fd EXCEPT ![c] = 0] /\ inEpoll' = inEpoll \ {fd[c]} /\ edge' = edge \ {fd[c]}
      /\ fd[c] # 0 /\ fd[c] \in batch /\ batch' = batch \ {fd[c]}
      /\ mpc = "scan" /\ mpc' \in {"wait", "scan"} /\ mj' = 0
  BY DEF CloseConn, Reads, Turn, threadVars
<1>2. fd[c] \in inEpoll
  BY <1>1 DEF IInv, Types
<1>3. Types' /\ CompactInv' /\ ServeInv'
  BY <1>1 DEF IInv, Types, Peers, CompactInv, ServeInv, ListenFd, Slots
<1>4. QueueInv'
  <2>1. \A i \in 1 .. Len(lq) : lq[i] \in Conns
    BY DEF IInv, Types
  <2> QED
    BY <1>1, <2>1 DEF IInv, Types, QueueInv
<1>5. Registered'
  BY <1>1 DEF IInv, Types, Registered, Kept, Doomed, Slots
<1>6. CollectInv'
  BY <1>1, <1>2 DEF IInv, Types, CollectInv
<1> QED
  BY <1>3, <1>4, <1>5, <1>6 DEF IInv

(* Back to the loop over the events.                                         *)
LEMMA TurnStep ==
  ASSUME IInv, UNCHANGED <<peer, lq, fd, inEpoll, client_fds, collect, si, sj>>,
         NEW left, Turn(left), left \subseteq batch, edge' \subseteq edge \cup inEpoll,
         mpc # "leave", UNCHANGED spc \/ (spc = "waiting" /\ spc' = "recheck"),
         UNCHANGED told \/ \E c \in Conns : /\ fd[c] = sockfd /\ sockfd # 0 /\ mpc = "success"
                                            /\ told' = [told EXCEPT ![c] = "viewer"]
  PROVE  IInv'
<1>1. mpc' \in {"wait", "scan"} /\ batch' \subseteq batch /\ mj' = 0
  BY DEF Turn
<1>2. Doomed' = Doomed
  BY DEF Doomed
<1>3. told' \in [Conns -> {"no", "viewer", "collector"}]
  BY DEF IInv, Types
<1>4. Types' /\ ServeInv' /\ CompactInv'
  BY <1>1, <1>3 DEF IInv, Types, ServeInv, CompactInv, Slots
<1>5. QueueInv'
  BY DEF IInv, Types, QueueInv
<1>6. CollectInv'
  BY <1>1 DEF IInv, CollectInv
<1>7. Registered'
  <2>1. ASSUME NEW d \in Conns, told'[d] = "viewer" PROVE Kept(fd[d])
    <3>1. CASE told[d] = "viewer"
      BY <3>1 DEF IInv, Registered
    <3>2. CASE told[d] # "viewer"
      BY <2>1, <3>2 DEF IInv, Types, Registered
    <3> QED
      BY <3>1, <3>2
  <2> QED
    BY <1>1, <1>2, <2>1 DEF Registered, Kept, Slots
<1> QED
  BY <1>4, <1>5, <1>6, <1>7 DEF IInv

LEMMA WrittenEdge ==
  ASSUME NEW c \in Conns, Written(c) \/ NotWritten(c) \/ Sigpipe(c)
  PROVE  edge' \subseteq edge \cup inEpoll
  BY DEF Written, NotWritten, Sigpipe, Event

LEMMA NextAnswer ==
  ASSUME IInv, NEW c \in Conns, VideoAnswer(c) \/ Refuse(c) \/ CollectAnswer(c)
  PROVE  IInv'
<1>1. UNCHANGED <<peer, lq, fd, inEpoll, client_fds, collect, spc, si, sj>>
  BY DEF VideoAnswer, Refuse, CollectAnswer, Serves, threadVars
<1>2. edge' \subseteq edge \cup inEpoll /\ fd[c] = sockfd
  BY WrittenEdge DEF VideoAnswer, Refuse, CollectAnswer, Welcome, NoWelcome
<1>3. sockfd # 0 /\ mpc # "leave"
  BY DEF IInv, ServeInv, VideoAnswer, Refuse, CollectAnswer, Serves
<1>4. CASE VideoAnswer(c)
  BY <1>1, <1>2, <1>3, <1>4, TurnStep DEF VideoAnswer, Serves, Welcome, NoWelcome
<1>5. CASE Refuse(c)
  BY <1>1, <1>2, <1>3, <1>5, TurnStep DEF Refuse
<1>6. CASE CollectAnswer(c) /\ NoWelcome(c) /\ Turn(batch)
  BY <1>1, <1>2, <1>3, <1>6, TurnStep DEF NoWelcome
<1>7. CASE CollectAnswer(c) /\ Welcome(c, "collector") /\ mpc' = "signal" /\ UNCHANGED mj
  <2>1. UNCHANGED batch /\ mpc = "joined" /\ told' = [told EXCEPT ![c] = "collector"]
    BY <1>7 DEF CollectAnswer, Serves, Welcome
  <2>2. Types' /\ ServeInv' /\ CompactInv' /\ CollectInv'
    BY <1>1, <1>2, <1>7, <2>1 DEF IInv, Types, ServeInv, CompactInv, CollectInv, Slots
  <2>3. QueueInv'
    BY <1>1, <1>2, <1>3, <2>1 DEF IInv, Types, QueueInv
  <2>4. Registered'
    BY <1>1, <1>7, <2>1 DEF IInv, Types, Registered, Kept, Doomed, Slots
  <2> QED
    BY <2>2, <2>3, <2>4 DEF IInv
<1> QED
  BY <1>4, <1>5, <1>6, <1>7 DEF CollectAnswer

LEMMA NextLoopStep == ASSUME IInv, SignalCond \/ \E c \in Conns : ReadError(c) PROVE IInv'
<1>1. CASE SignalCond
  BY <1>1, TurnStep DEF SignalCond, connVars, netVars
<1>2. ASSUME NEW c \in Conns, ReadError(c) PROVE IInv'
  BY <1>2, TurnStep DEF ReadError, Reads, threadVars
<1> QED
  BY <1>1, <1>2

(* A new viewer goes to a free slot, which is not the one that is going to   *)
(* be overwritten or freed.                                                  *)
LEMMA NextSlots == ASSUME IInv, SlotTest \/ SlotStore PROVE IInv'
<1>1. /\ UNCHANGED <<peer, lq, fd, inEpoll, edge, told, batch, sockfd, collect, spc, si, sj>>
      /\ mpc \in {"slots", "store"}
  BY DEF SlotTest, SlotStore, Steps, Serves, threadVars
<1>2. QueueInv'
  BY <1>1 DEF IInv, Types, QueueInv
<1>3. CASE SlotTest
  <2>1. UNCHANGED client_fds /\ mj \in Slots /\ mj' \in Nat
        /\ \/ mpc' = "slots"
           \/ mpc' = "store" /\ mj' = mj /\ client_fds[mj] = -1
    BY <1>3 DEF SlotTest, Steps, IInv, Types
  <2>2. Types' /\ ServeInv' /\ CompactInv' /\ CollectInv' /\ Registered'
    BY <1>1, <2>1 DEF IInv, Types, ServeInv, CompactInv, CollectInv, Registered, Kept, Doomed, Slots
  <2> QED
    BY <1>2, <2>2 DEF IInv
<1>4. CASE SlotStore
  <2>1. /\ mpc = "store" /\ mpc' = "success" /\ UNCHANGED mj
        /\ client_fds' = [client_fds EXCEPT ![mj] = sockfd]
        /\ mj \in Slots /\ client_fds[mj] = -1
    BY <1>4 DEF SlotStore, Steps, Serves, IInv, ServeInv
  <2>2. sockfd \in Nat /\ sockfd > 0
    BY <1>1 DEF IInv, Types, ServeInv
  <2>3. mj \notin Doomed /\ Doomed' = Doomed
    BY <1>1, <2>1 DEF IInv, CompactInv, Doomed
  <2>4. Types' /\ ServeInv' /\ CollectInv'
    BY <1>1, <2>1, <2>2 DEF IInv, Types, ServeInv, CollectInv, Slots
  <2>5. CompactInv'
    BY <1>1, <2>1, <2>2 DEF IInv, Types, CompactInv, Slots
  <2>6. client_fds'[mj] = sockfd /\ \A k \in Slots : k # mj => client_fds'[k] = client_fds[k]
    BY <2>1 DEF IInv, Types
  <2>7. Registered'
    <3>1. ASSUME NEW d \in Conns, told[d] = "viewer"
          PROVE \E k \in Slots \ Doomed : client_fds'[k] = fd[d]
      <4>1. PICK k \in Slots \ Doomed : client_fds[k] = fd[d]
        BY <3>1 DEF IInv, Registered, Kept
      <4>2. k # mj
        BY <2>1, <4>1 DEF IInv, Types
      <4> QED
        BY <2>6, <4>1, <4>2
    <3>2. \E k \in Slots \ Doomed : client_fds'[k] = sockfd
      BY <2>1, <2>3, <2>6
    <3> QED
      BY <1>1, <2>3, <3>1, <3>2 DEF Registered, Kept, Slots
  <2> QED
    BY <1>2, <2>4, <2>5, <2>7 DEF IInv
<1> QED
  BY <1>3, <1>4

LEMMA NextCollect == ASSUME IInv, CollectAssign \/ LeaveEpoll PROVE IInv'
<1>1. /\ UNCHANGED <<peer, lq, fd, told, batch, sockfd, mj, client_fds, spc, si, sj>>
      /\ mpc \in {"assign", "leave"} /\ mpc' \in {"leave", "joined"}
      /\ sockfd # 0 /\ sockfd \notin batch /\ \E c \in Conns : fd[c] = sockfd
  BY DEF CollectAssign, LeaveEpoll, Steps, Serves, threadVars, IInv, ServeInv
<1>2. sockfd \in Nat
  BY <1>1 DEF IInv, Types
<1>3. QueueInv' /\ CompactInv' /\ Registered'
  BY <1>1 DEF IInv, Types, QueueInv, CompactInv, Registered, Kept, Doomed, Slots
<1>4. CASE CollectAssign
  <2>1. UNCHANGED <<inEpoll, edge>> /\ mpc' = "leave" /\ collect' = sockfd
    BY <1>4 DEF CollectAssign, Steps
  <2> QED
    BY <1>1, <1>2, <1>3, <2>1 DEF IInv, Types, ServeInv, CollectInv, Slots
<1>5. CASE LeaveEpoll
  <2>1. /\ inEpoll' = inEpoll \ {sockfd} /\ edge' = edge \ {sockfd} /\ UNCHANGED collect
        /\ mpc = "leave" /\ mpc' = "joined"
    BY <1>5 DEF LeaveEpoll, Steps, Serves
  <2> QED
    BY <1>1, <1>3, <2>1 DEF IInv, Types, ServeInv, CollectInv, Slots
<1> QED
  BY <1>4, <1>5

-----------------------------------------------------------------------------
(* Steps of the video thread that leave client_fds alone and stay out of the *)
(* compaction, or come out of it.                                            *)
LEMMA PlaceStep ==
  ASSUME IInv, UNCHANGED <<peer, lq, fd, inEpoll, told, batch, mpc, sockfd, mj, client_fds>>,
         edge' \subseteq edge \cup inEpoll,
         collect' \in {collect, -1}, spc \notin {"compact", "moved"},
         spc' \in {"check", "lock", "waiting", "recheck", "read", "send"},
         si' \in Nat, sj' \in Int
  PROVE  IInv'
<1>1. Types' /\ ServeInv' /\ CompactInv' /\ CollectInv'
  BY DEF IInv, Types, ServeInv, CompactInv, CollectInv, Slots
<1>2. QueueInv'
  BY DEF IInv, QueueInv
<1>3. Registered'
  BY DEF IInv, Registered, Kept, Doomed, Slots
<1> QED
  BY <1>1, <1>2, <1>3 DEF IInv

LEMMA NextRound ==
  ASSUME IInv,
         \/ Check \/ Wait \/ WaitEnds \/ Recheck \/ SendDone
         \/ \E c \in Conns : ReadCollector(c) \/ SendTo(c)
  PROVE  IInv'
<1>1. CASE Check \/ Wait \/ WaitEnds \/ Recheck \/ SendDone
  <2>1. /\ UNCHANGED <<peer, lq, fd, inEpoll, edge, told, batch, mpc, sockfd, mj, client_fds, collect>>
        /\ spc \notin {"compact", "moved"}
        /\ spc' \in {"check", "lock", "waiting", "recheck", "read", "send"}
        /\ si' \in {si, 0} /\ sj' \in {sj, 0}
    BY <1>1 DEF Check, Wait, WaitEnds, Recheck, SendDone, Idle, Thread, mainVars
  <2> QED
    BY <2>1, PlaceStep DEF IInv, Types
<1>2. ASSUME NEW c \in Conns, ReadCollector(c) PROVE IInv'
  <2>1. /\ UNCHANGED <<peer, lq, fd, inEpoll, edge, told, batch, mpc, sockfd, mj, client_fds, sj>>
        /\ spc = "read" /\ spc' \in {"send", "check"} /\ si' \in {si, 0} /\ collect' \in {collect, -1}
    BY <1>2 DEF ReadCollector, Thread, mainVars
  <2> QED
    BY <2>1, PlaceStep DEF IInv, Types
<1>3. ASSUME NEW c \in Conns, SendTo(c) PROVE IInv'
  <2>1. /\ UNCHANGED <<peer, lq, fd, inEpoll, told, batch, mpc, sockfd, mj, client_fds, collect, sj>>
        /\ spc = "send" /\ spc' \in {"send", "check"} /\ si' \in {si, si + 1, 0}
    BY <1>3 DEF SendTo, Thread, mainVars
  <2>2. edge' \subseteq edge \cup inEpoll
    BY <1>3, WrittenEdge DEF SendTo
  <2> QED
    BY <2>1, <2>2, PlaceStep DEF IInv, Types
<1> QED
  BY <1>1, <1>2, <1>3

(* What a step of the compaction leaves alone.                               *)
LEMMA CompactFrame ==
  ASSUME IInv, SendBadFd \/ CompactSkip \/ CompactMove \/ CompactFree
  PROVE  UNCHANGED <<peer, lq, fd, inEpoll, edge, told, batch, mpc, sockfd, mj, collect, si>>
  BY DEF SendBadFd, CompactSkip, CompactMove, CompactFree, Idle, Thread, mainVars

(* It preserves IInv if it does so for what is about the slots, and keeps    *)
(* the slot of every open connection that had one.                           *)
LEMMA CompactStep ==
  ASSUME IInv, UNCHANGED <<peer, lq, fd, inEpoll, edge, told, batch, mpc, sockfd, mj, collect, si>>,
         client_fds' \in [Slots -> Int], sj' \in Int, spc' \in {"send", "compact", "moved"},
         CompactInv', \A j \in Slots : client_fds[j] = -1 => client_fds'[j] = -1,
         \A c \in Conns : Kept(fd[c]) => Kept(fd[c])'
  PROVE  IInv'
<1>1. Types' /\ ServeInv' /\ CollectInv'
  BY DEF IInv, Types, ServeInv, CollectInv, Slots
<1>2. QueueInv'
  BY DEF IInv, QueueInv
<1>3. \A c \in Conns : told'[c] = "viewer" => Kept(fd[c])'
  BY DEF IInv, Registered
<1>4. ASSUME mpc = "success" PROVE Kept(sockfd)'
  <2>1. PICK c \in Conns : fd[c] = sockfd
    BY <1>4 DEF IInv, ServeInv
  <2>2. Kept(fd[c])
    BY <1>4, <2>1 DEF IInv, Registered
  <2>3. Kept(fd[c])'
    BY <2>2
  <2> QED
    BY <2>1, <2>3
<1>5. Registered'
  BY <1>3, <1>4 DEF Registered
<1> QED
  BY <1>1, <1>2, <1>5 DEF IInv

(* The descriptor of slot si belongs to nobody now, so nobody relies on that *)
(* slot.                                                                     *)
LEMMA NextSendBadFd == ASSUME IInv, SendBadFd PROVE IInv'
<1>1. /\ UNCHANGED <<fd, si, client_fds>>
      /\ spc = "send" /\ spc' = "compact" /\ sj' = VIDEO_CLIENT_MAX - 1
      /\ AtFd > 0 /\ \A c \in Conns : fd[c] # AtFd
  BY CompactFrame DEF SendBadFd, Idle, Thread
<1>2. si \in Slots /\ AtFd = client_fds[si] /\ sj' \in Slots /\ si <= sj'
  BY <1>1, VideoAssumption DEF AtFd, Slots
<1>3. CompactInv'
  BY <1>1, <1>2 DEF IInv, Types, CompactInv, Slots
<1>4. \A c \in Conns : Kept(fd[c]) => Kept(fd[c])'
  BY <1>1, <1>2 DEF Kept, Doomed, Slots
<1> QED
  BY <1>1, <1>2, <1>3, <1>4, CompactFrame, CompactStep, VideoAssumption DEF IInv, Types

LEMMA NextCompactSkip == ASSUME IInv, CompactSkip PROVE IInv'
<1>1. /\ UNCHANGED <<fd, si, client_fds>>
      /\ spc = "compact" /\ spc' = "compact" /\ sj > si /\ sj' = sj - 1
  BY CompactFrame DEF CompactSkip, Idle, Thread
<1>2. sj' \in Int /\ CompactInv'
  BY <1>1, VideoAssumption DEF IInv, Types, CompactInv, Slots
<1>3. \A c \in Conns : Kept(fd[c]) => Kept(fd[c])'
  BY <1>1 DEF Kept, Doomed, Slots
<1> QED
  BY <1>1, <1>2, <1>3, CompactFrame, CompactStep DEF IInv, Types

(* Who is in slot sj is in slot si as well now, any other keeps its slot.    *)
LEMMA NextCompactMove == ASSUME IInv, CompactMove PROVE IInv'
<1>1. /\ UNCHANGED <<fd, si, sj>>
      /\ spc = "compact" /\ spc' = "moved" /\ sj > si /\ client_fds[sj] > 0
      /\ client_fds' = [client_fds EXCEPT ![si] = client_fds[sj]]
  BY CompactFrame DEF CompactMove, Idle, Thread
<1>2. si \in Slots /\ sj \in Slots /\ si # sj /\ client_fds[si] > 0
  BY <1>1 DEF IInv, Types, CompactInv, Slots
<1>3. client_fds' \in [Slots -> Int] /\ CompactInv'
  BY <1>1, <1>2 DEF IInv, Types, CompactInv, Slots
<1>4. \A j \in Slots : client_fds[j] = -1 => client_fds'[j] = -1
  BY <1>1, <1>2 DEF IInv, Types
<1>5. ASSUME NEW c \in Conns, Kept(fd[c]) PROVE \E j \in Slots \ {sj} : client_fds'[j] = fd[c]
  <2>1. PICK j \in Slots \ {si} : client_fds[j] = fd[c]
    BY <1>1, <1>5 DEF Kept, Doomed
  <2>2. CASE j = sj
    <3>1. client_fds'[si] = fd[c]
      BY <1>1, <1>2, <2>1, <2>2 DEF IInv, Types
    <3> QED
      BY <1>2, <3>1
  <2>3. CASE j # sj
    BY <1>1, <2>1, <2>3 DEF IInv, Types
  <2> QED
    BY <2>2, <2>3
<1>6. \A c \in Conns : Kept(fd[c]) => Kept(fd[c])'
  BY <1>1, <1>5 DEF Kept, Doomed, Slots
<1> QED
  BY <1>1, <1>3, <1>4, <1>6, CompactFrame, CompactStep DEF IInv, Types

LEMMA NextCompactFree == ASSUME IInv, CompactFree PROVE IInv'
<1>1. /\ UNCHANGED <<fd, si, sj>>
      /\ spc' = "send" /\ client_fds' = [client_fds EXCEPT ![sj] = -1]
      /\ spc = "moved" \/ (spc = "compact" /\ sj = si)
  BY CompactFrame DEF CompactFree, Idle, Thread
<1>2. Doomed = {sj} /\ sj \in Slots
  BY <1>1 DEF IInv, CompactInv, Doomed
<1>3. client_fds' \in [Slots -> Int] /\ CompactInv'
  BY <1>1, <1>2 DEF IInv, Types, CompactInv, Slots
<1>4. \A j \in Slots : client_fds[j] = -1 => client_fds'[j] = -1
  BY <1>1, <1>2 DEF IInv, Types
<1>5. \A c \in Conns : Kept(fd[c]) => Kept(fd[c])'
  BY <1>1, <1>2 DEF IInv, Types, Kept, Doomed, Slots
<1> QED
  BY <1>1, <1>3, <1>4, <1>5, CompactFrame, CompactStep DEF IInv, Types

-----------------------------------------------------------------------------
LEMMA InitIInv == Init => IInv
<1> SUFFICES ASSUME Init PROVE IInv
  OBVIOUS
<1>1. Types /\ QueueInv
  BY DEF Init, Types, Peers, QueueInv, Slots, ListenFd
<1>2. ServeInv /\ CompactInv /\ Registered /\ CollectInv
  BY DEF Init, ServeInv, CompactInv, Registered, CollectInv, Doomed
<1> QED
  BY <1>1, <1>2 DEF IInv

LEMMA NextIInv == IInv /\ [Next]_vars => IInv'
<1> SUFFICES ASSUME IInv, [Next]_vars PROVE IInv'
  OBVIOUS
<1>1. ASSUME NEW c \in Conns, VideoGet(c) \/ CollectReg(c) PROVE IInv'
  BY <1>1, NextReadCmd DEF VideoGet, CollectReg
<1>2. CASE MainThread
  BY <1>1, <1>2, NextEpollWait, NextAccept, NextSlots, NextCollect, NextLoopStep, NextCloseConn, NextAnswer
     DEF MainThread
<1>3. CASE VideoThread
  BY <1>3, NextRound, NextSendBadFd, NextCompactSkip, NextCompactMove, NextCompactFree DEF VideoThread
<1>4. CASE UNCHANGED vars
  BY <1>4, QuietStep DEF IInv, Types, vars, connVars, netVars, mainVars, threadVars
<1> QED
  BY <1>2, <1>3, <1>4, NextConnect, NextPeers DEF Next

(* A viewer that was told CMD:SUCCESS stays in client_fds, however the       *)
(* compaction by the video thread and the registrations, closes and reuses   *)
(* of descriptors by the main thread interleave.                             *)
THEOREM ViewersKept == Spec => []NoViewerLost
<1>1. IInv => NoViewerLost
  BY DEF IInv, Registered, Kept, NoViewerLost
<1> QED
  BY <1>1, InitIInv, NextIInv, PTL DEF Spec

(* video_collect_fd is -1 or the descriptor of an open connection.           *)
THEOREM CollectorIsOpen == Spec => []CollectorOpen
<1>1. IInv => CollectorOpen
  BY DEF IInv, CollectInv, CollectorOpen
<1> QED
  BY <1>1, InitIInv, NextIInv, PTL DEF Spec
=============================================================================
