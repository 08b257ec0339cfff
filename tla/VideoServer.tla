----------------------------- MODULE VideoServer -----------------------------
(* demo/wifi_video_server.c with wifi_video_client.c (a viewer asks for the   *)
(* frames) and wifi_video_collect_client.c (a collector sends them).  The     *)
(* main thread accepts, answers commands and closes connections; the video    *)
(* thread reads the collector and writes every frame to the viewers of        *)
(* client_fds, which it also compacts.  Both use client_fds and               *)
(* video_collect_fd without a lock, so every access of these and every system *)
(* call on a connection is a step of its own.  A descriptor that is closed    *)
(* stays in client_fds and may be given to another connection meanwhile.      *)
(* Left out: failures of calls other than read and write, of which the        *)
(* program notices none.                                                     *)
EXTENDS Integers, Sequences, FiniteSets

CONSTANTS
  MaxConns,          \* connections, numbered in the order they are made
  Collectors,        \* those of them whose program may be a collector; any may be a viewer
  Lossy,             \* bound: those of them whose network may stop working
  VIDEO_CLIENT_MAX,  \* slots of client_fds
  MaxFd,             \* descriptors of connections are 2 .. MaxFd
  Room,              \* writes that fit into the buffers of a connection, unread
  BUF_SIZE,          \* frames that fill the buffer of the video thread
  MaxFrames          \* bound: frames the collectors send

ASSUME VideoAssumption ==
  /\ MaxConns \in Nat /\ VIDEO_CLIENT_MAX \in Nat \ {0} /\ MaxFd \in Nat
  /\ Room \in Nat \ {0} /\ BUF_SIZE \in Nat \ {0} /\ MaxFrames \in Nat

VARIABLES
  peer,        \* "off", "idle", "viewer", "collector", "sending", "gone"
  cmd,         \* the command that waits in the server's socket, "none" if none
  frames,      \* frames of a collector that wait in the server's socket
  made,        \* frames sent by all collectors
  unread,      \* writes of the server that wait for the program at the other end
  broken,      \* "no"; "rst" or "err": ECONNRESET or ETIMEDOUT waits in the socket;
               \* "end": nothing comes any more, and a write ends the process
  lq,          \* the listen queue
  fd,          \* a connection's descriptor, 0 before accept and after close
  inEpoll,     \* descriptors registered with epoll
  edge,        \* descriptors with an event to report
  told,        \* what a connection was answered CMD:SUCCESS for, "no" if it was not
  batch,       \* events in epoll_fds the main thread has not looked at
  mpc,         \* where the main thread is
  sockfd, mj,  \* its sockfd while it answers a command, 0 otherwise, and its j
  client_fds,  \* viewers' descriptors, -1 for a free slot
  collect,     \* video_collect_fd
  spc,         \* where the video thread is
  si, sj,      \* its i and j
  alive        \* FALSE once the process has ended

connVars == <<peer, cmd, frames, made, unread, broken>>
netVars == <<lq, fd, inEpoll, edge, told>>
mainVars == <<batch, mpc, sockfd, mj>>
threadVars == <<spc, si, sj>>
vars == <<connVars, netVars, mainVars, threadVars, client_fds, collect, alive>>

Conns == 1 .. MaxConns
ListenFd == 1
Fds == 2 .. MaxFd
Slots == 0 .. VIDEO_CLIENT_MAX - 1
EPOLL_FDS_MAX == VIDEO_CLIENT_MAX + 1

Init ==
  /\ peer = [c \in Conns |-> "off"] /\ cmd = [c \in Conns |-> "none"]
  /\ frames = [c \in Conns |-> 0] /\ made = 0
  /\ unread = [c \in Conns |-> 0] /\ broken = [c \in Conns |-> "no"]
  /\ lq = << >> /\ fd = [c \in Conns |-> 0]
  /\ inEpoll = {ListenFd} /\ edge = {} /\ told = [c \in Conns |-> "no"]
  /\ batch = {} /\ mpc = "wait" /\ sockfd = 0 /\ mj = 0
  /\ client_fds = [j \in Slots |-> -1]
  /\ collect = -1
  /\ spc = "check" /\ si = 0 /\ sj = 0
  /\ alive = TRUE

-----------------------------------------------------------------------------
(* The programs at the other end, and the network.                           *)
Event(c) == IF fd[c] \in inEpoll THEN edge \cup {fd[c]} ELSE edge

Peer(c) ==
  /\ alive /\ edge' = Event(c)
  /\ UNCHANGED <<made, lq, fd, inEpoll, told, mainVars, threadVars, client_fds, collect, alive>>

Connect(c) ==
  /\ alive /\ peer[c] = "off" /\ \A d \in Conns : d < c => peer[d] # "off"
  /\ peer' = [peer EXCEPT ![c] = "idle"]
  /\ lq' = Append(lq, c)
  /\ edge' = edge \cup {ListenFd}
  /\ UNCHANGED <<cmd, frames, made, unread, broken, fd, inEpoll, told, mainVars, threadVars, client_fds, collect, alive>>

Ask(c, role) ==
  /\ Peer(c) /\ peer[c] = "idle"
  /\ peer' = [peer EXCEPT ![c] = role]
  /\ cmd' = [cmd EXCEPT ![c] = IF broken[c] = "no" THEN role ELSE @]
  /\ UNCHANGED <<frames, unread, broken>>

\* A viewer reads on and on, a collector its answer only.
Takes(c) ==
  /\ unread[c] > 0
  /\ \/ peer[c] = "viewer" /\ UNCHANGED peer
     \/ /\ peer[c] = "collector" /\ told[c] = "collector"
        /\ peer' = [peer EXCEPT ![c] = "sending"]
  /\ unread' = [unread EXCEPT ![c] = 0]
  /\ UNCHANGED <<cmd, frames, made, broken, netVars, mainVars, threadVars, client_fds, collect, alive>>

Frame(c) ==
  /\ alive /\ peer[c] = "sending" /\ broken[c] = "no" /\ made < MaxFrames
  /\ frames' = [frames EXCEPT ![c] = @ + 1]
  /\ made' = made + 1
  /\ edge' = Event(c)
  /\ UNCHANGED <<peer, cmd, unread, broken, lq, fd, inEpoll, told, mainVars, threadVars, client_fds, collect, alive>>

\* A program that has asked ends, at any time; what it has not read makes a
\* reset of the end.
Leave(c) ==
  /\ Peer(c) /\ peer[c] \in {"viewer", "collector", "sending"}
  /\ peer' = [peer EXCEPT ![c] = "gone"]
  /\ broken' = [broken EXCEPT ![c] = IF unread[c] > 0 /\ @ = "no" THEN "rst" ELSE @]
  /\ UNCHANGED <<cmd, frames, unread>>

\* Nothing acknowledges what the server wrote: the kernel gives the connection up.
Lost(c) ==
  /\ Peer(c) /\ c \in Lossy /\ unread[c] > 0 /\ broken[c] = "no"
  /\ broken' = [broken EXCEPT ![c] = "err"]
  /\ UNCHANGED <<peer, cmd, frames, unread>>

-----------------------------------------------------------------------------
(* write to a connection.  It waits while the buffers are full.  What comes  *)
(* to a program that has ended is answered by a reset; an error that waits   *)
(* is the result, and after it SIGPIPE ends the process.                     *)
Ended(c) == peer[c] = "gone" \/ broken[c] # "no"
HasRoom(c) == unread[c] < Room \/ Ended(c)

Written(c) ==
  /\ HasRoom(c) /\ broken[c] = "no"
  /\ unread' = [unread EXCEPT ![c] = IF peer[c] = "gone" THEN @ ELSE @ + 1]
  /\ broken' = [broken EXCEPT ![c] = IF peer[c] = "gone" THEN "end" ELSE @]
  /\ edge' = IF peer[c] = "gone" THEN Event(c) ELSE edge
  /\ UNCHANGED alive

NotWritten(c) ==
  /\ broken[c] \in {"rst", "err"}
  /\ broken' = [broken EXCEPT ![c] = "end"]
  /\ UNCHANGED <<unread, edge, alive>>

Sigpipe(c) ==
  /\ broken[c] = "end"
  /\ alive' = FALSE
  /\ UNCHANGED <<unread, broken, edge>>

-----------------------------------------------------------------------------
(* The main thread.                                                          *)
Readable(c) == cmd[c] # "none" \/ frames[c] > 0 \/ Ended(c)
ReadableFds == {fd[c] : c \in {d \in Conns : Readable(d)}} \cup (IF lq # << >> THEN {ListenFd} ELSE {})

EpollWait ==
  /\ alive /\ mpc = "wait" /\ mpc' = "scan"
  /\ \E events \in SUBSET (edge \cap ReadableFds) :
       /\ events # {} /\ Cardinality(events) <= EPOLL_FDS_MAX
       /\ Cardinality(events) = EPOLL_FDS_MAX \/ events = edge \cap ReadableFds
       /\ batch' = events /\ edge' = edge \ events
  /\ UNCHANGED <<connVars, lq, fd, inEpoll, told, sockfd, mj, threadVars, client_fds, collect, alive>>

\* The loop goes on with the next event, or with epoll_wait after the last.
Turn(left) == mpc' = (IF left = {} THEN "wait" ELSE "scan") /\ batch' = left /\ sockfd' = 0 /\ mj' = 0

LowestFree(f) ==
  /\ \A c \in Conns : fd[c] # f
  /\ \A g \in Fds : g < f => \E c \in Conns : fd[c] = g

Accept ==
  /\ alive /\ mpc = "scan" /\ ListenFd \in batch /\ lq # << >>
  /\ \E f \in Fds :
       /\ LowestFree(f)
       /\ fd' = [fd EXCEPT ![Head(lq)] = f]
       /\ inEpoll' = inEpoll \cup {f}
       /\ edge' = edge \cup (IF Readable(Head(lq)) THEN {f} ELSE {})
  /\ lq' = Tail(lq)
  /\ Turn(batch \ {ListenFd})
  /\ UNCHANGED <<connVars, told, threadVars, client_fds, collect, alive>>

\* read of a connection with an event, one read per event.
Reads(c) ==
  /\ alive /\ mpc = "scan" /\ fd[c] # 0 /\ fd[c] \in batch
  /\ UNCHANGED <<made, lq, threadVars, client_fds, collect, alive>>

ReadCmd(c, role, to) ==
  /\ Reads(c) /\ cmd[c] = role /\ mpc' = to
  /\ cmd' = [cmd EXCEPT ![c] = "none"]
  /\ batch' = batch \ {fd[c]} /\ sockfd' = fd[c] /\ mj' = 0
  /\ UNCHANGED <<peer, frames, unread, broken, fd, inEpoll, edge, told>>

\* read returns 0, or ECONNRESET: closed.  client_fds keeps the descriptor.  The
\* program at the other end of a closed connection is followed no further.
CloseConn(c) ==
  /\ Reads(c) /\ cmd[c] = "none" /\ Ended(c) /\ broken[c] # "err"
  /\ fd' = [fd EXCEPT ![c] = 0]
  /\ inEpoll' = inEpoll \ {fd[c]} /\ edge' = edge \ {fd[c]}
  /\ told' = [told EXCEPT ![c] = "no"]
  /\ peer' = [peer EXCEPT ![c] = "gone"] /\ frames' = [frames EXCEPT ![c] = 0]
  /\ unread' = [unread EXCEPT ![c] = 0] /\ broken' = [broken EXCEPT ![c] = "no"]
  /\ Turn(batch \ {fd[c]})
  /\ UNCHANGED cmd

\* Any other error ends the loop over the events; those that are left are not
\* reported again.  The connection stays open.
ReadError(c) ==
  /\ Reads(c) /\ cmd[c] = "none" /\ broken[c] = "err"
  /\ broken' = [broken EXCEPT ![c] = "end"]
  /\ Turn({})
  /\ UNCHANGED <<peer, cmd, frames, unread, fd, inEpoll, edge, told>>

\* A step with a command in hand, and one that answers it.
Serves(from) ==
  /\ alive /\ mpc = from
  /\ UNCHANGED <<peer, cmd, frames, made, lq, fd, batch, threadVars>>

Steps(from, to) ==
  /\ Serves(from) /\ mpc' = to
  /\ UNCHANGED <<unread, broken, told, sockfd, alive>>

Welcome(c, role) ==
  fd[c] = sockfd /\ Written(c) /\ told' = [told EXCEPT ![c] = role]

NoWelcome(c) ==
  fd[c] = sockfd /\ (NotWritten(c) \/ Sigpipe(c)) /\ UNCHANGED told

\* CMD:VIDEO_GET: the slots are looked at one by one; the first free one is
\* taken in a later step, and CMD:SUCCESS or CMD:FAIL written in another.
VideoGet(c) == ReadCmd(c, "viewer", "slots")

SlotTest ==
  /\ mj \in Slots
  /\ \/ client_fds[mj] = -1 /\ Steps("slots", "store") /\ UNCHANGED mj
     \/ client_fds[mj] # -1 /\ Steps("slots", "slots") /\ mj' = mj + 1
  /\ UNCHANGED <<inEpoll, edge, client_fds, collect>>

SlotStore ==
  /\ Steps("store", "success")
  /\ client_fds' = [client_fds EXCEPT ![mj] = sockfd]
  /\ UNCHANGED <<inEpoll, edge, mj, collect>>

VideoAnswer(c) ==
  /\ Serves("success") /\ Turn(batch)
  /\ Welcome(c, "viewer") \/ NoWelcome(c)
  /\ UNCHANGED <<inEpoll, client_fds, collect>>

Refuse(c) ==
  /\ Serves("refuse") \/ (mj \notin Slots /\ Serves("slots"))
  /\ Turn(batch)
  /\ fd[c] = sockfd /\ (Written(c) \/ NotWritten(c) \/ Sigpipe(c))
  /\ UNCHANGED <<inEpoll, told, client_fds, collect>>

\* CMD:VIDEO_COLLECT_REG: the descriptor leaves epoll, and the condition is
\* signalled in a later step, if the answer could be written.
CollectReg(c) ==
  \/ collect = -1 /\ ReadCmd(c, "collector", "assign")
  \/ collect # -1 /\ ReadCmd(c, "collector", "refuse")

CollectAssign ==
  /\ Steps("assign", "leave")
  /\ collect' = sockfd
  /\ UNCHANGED <<inEpoll, edge, mj, client_fds>>

LeaveEpollStays ==
  /\ Steps("leave", "joined")
  /\ UNCHANGED <<inEpoll, edge, mj, client_fds, collect>>

LeaveEpoll ==
  /\ Steps("leave", "joined")
  /\ inEpoll' = inEpoll \ {sockfd} /\ edge' = edge \ {sockfd}
  /\ UNCHANGED <<mj, client_fds, collect>>

CollectAnswer(c) ==
  /\ Serves("joined")
  /\ \/ Welcome(c, "collector") /\ mpc' = "signal" /\ sockfd' = 0 /\ UNCHANGED mj
     \/ NoWelcome(c) /\ Turn(batch)
  /\ UNCHANGED <<inEpoll, client_fds, collect>>

\* pthread_cond_signal wakes the thread only if it waits by now.
SignalCond ==
  /\ alive /\ mpc = "signal" /\ Turn(batch)
  /\ spc' = IF spc = "waiting" THEN "recheck" ELSE spc
  /\ UNCHANGED <<connVars, netVars, si, sj, client_fds, collect, alive>>

-----------------------------------------------------------------------------
(* video_thread_run.                                                         *)
Thread(from, to) ==
  /\ alive /\ spc = from /\ spc' = to
  /\ UNCHANGED <<peer, cmd, made, lq, fd, inEpoll, told, mainVars>>

Idle(from, to) == Thread(from, to) /\ UNCHANGED <<frames, unread, broken, edge, alive>>

\* The test comes before the lock, so a signal may fall between the two.
Check ==
  /\ Idle("check", IF collect = -1 THEN "lock" ELSE "read")
  /\ UNCHANGED <<si, sj, client_fds, collect>>

Wait ==
  /\ Idle("lock", "waiting")
  /\ UNCHANGED <<si, sj, client_fds, collect>>

WaitsForEver ==
  /\ FALSE
  /\ UNCHANGED vars

\* The wait ends after 60 s at the latest, or for no reason.
WaitEnds ==
  /\ Idle("waiting", "recheck")
  /\ UNCHANGED <<si, sj, client_fds, collect>>

Recheck ==
  /\ Idle("recheck", IF collect = -1 THEN "check" ELSE "read")
  /\ UNCHANGED <<si, sj, client_fds, collect>>

\* read takes what is there, BUF_SIZE at most; after as much, or after an error,
\* buf[size] is outside buf, and the process goes on or ends.  The end of the
\* collector makes room for another; its descriptor is not closed.
ReadCollector(c) ==
  /\ fd[c] = collect
  /\ \/ /\ frames[c] > 0
        /\ frames' = [frames EXCEPT ![c] = IF @ > BUF_SIZE THEN @ - BUF_SIZE ELSE 0]
        /\ Thread("read", "send") /\ si' = 0
        /\ UNCHANGED <<broken, collect>>
        /\ alive' \in (IF frames[c] < BUF_SIZE THEN {TRUE} ELSE BOOLEAN)
     \/ /\ frames[c] = 0 /\ broken[c] \in {"rst", "err"}
        /\ broken' = [broken EXCEPT ![c] = "end"]
        /\ Thread("read", "check")
        /\ UNCHANGED <<frames, collect, si>>
        /\ alive' \in BOOLEAN
     \/ /\ frames[c] = 0 /\ Ended(c) /\ broken[c] \notin {"rst", "err"}
        /\ collect' = -1
        /\ Thread("read", "check")
        /\ UNCHANGED <<frames, broken, si, alive>>
  /\ UNCHANGED <<unread, edge, sj, client_fds>>

-----------------------------------------------------------------------------
(* video_send_data, from slot si on: it stops at the first free slot.        *)
AtFd == IF si \in Slots THEN client_fds[si] ELSE -1

SendDone ==
  /\ AtFd <= 0
  /\ Idle("send", "check")
  /\ si' = 0 /\ sj' = 0
  /\ UNCHANGED <<client_fds, collect>>

\* write to an open connection; one that fails ends the round.
SendTo(c) ==
  /\ AtFd > 0 /\ fd[c] = AtFd
  /\ \/ Written(c) /\ Thread("send", "send") /\ si' = si + 1
     \/ NotWritten(c) /\ Thread("send", "check") /\ si' = 0
     \/ Sigpipe(c) /\ Thread("send", "send") /\ si' = si
  /\ UNCHANGED <<frames, sj, client_fds, collect>>

\* EBADF: the last used slot is looked for, from the end.
SendBadFd ==
  /\ AtFd > 0 /\ \A c \in Conns : fd[c] # AtFd
  /\ Idle("send", "compact")
  /\ sj' = VIDEO_CLIENT_MAX - 1
  /\ UNCHANGED <<si, client_fds, collect>>

CompactSkip ==
  /\ sj > si /\ client_fds[sj] <= 0
  /\ Idle("compact", "compact")
  /\ sj' = sj - 1
  /\ UNCHANGED <<si, client_fds, collect>>

CompactMoveSwapped ==
  /\ sj > si /\ client_fds[sj] > 0
  /\ Idle("compact", "moved")
  /\ client_fds' = [client_fds EXCEPT ![sj] = -1, ![si] = -1]
  /\ UNCHANGED <<si, sj, collect>>

CompactMove ==
  /\ sj > si /\ client_fds[sj] > 0
  /\ Idle("compact", "moved")
  /\ client_fds' = [client_fds EXCEPT ![si] = client_fds[sj]]
  /\ UNCHANGED <<si, sj, collect>>

\* The slot that was moved, or the last one in use, is freed; the same slot is
\* sent to again.
CompactFree ==
  /\ \/ Idle("moved", "send")
     \/ sj = si /\ Idle("compact", "send")
  /\ client_fds' = [client_fds EXCEPT ![sj] = -1]
  /\ UNCHANGED <<si, sj, collect>>

-----------------------------------------------------------------------------
MainThread ==
  \/ EpollWait \/ Accept \/ SlotTest \/ SlotStore \/ CollectAssign \/ LeaveEpoll \/ SignalCond
  \/ \E c \in Conns : \/ VideoGet(c) \/ CollectReg(c) \/ CloseConn(c) \/ ReadError(c)
                      \/ VideoAnswer(c) \/ Refuse(c) \/ CollectAnswer(c)

VideoThread ==
  \/ Check \/ Wait \/ WaitEnds \/ Recheck \/ \E c \in Conns : ReadCollector(c) \/ SendTo(c)
  \/ SendDone \/ SendBadFd \/ CompactSkip \/ CompactMove \/ CompactFree

Next ==
  \/ \E c \in Conns : \/ Connect(c) \/ Takes(c) \/ Frame(c) \/ Leave(c) \/ Lost(c)
                      \/ Ask(c, "viewer") \/ (c \in Collectors /\ Ask(c, "collector"))
  \/ MainThread \/ VideoThread

Spec == Init /\ [][Next]_vars

\* Both threads run when they can.  Nothing is assumed of the programs at the
\* other end: one that does not read holds a write to it, and the thread, for good.
FairSpec == Spec /\ WF_vars(MainThread) /\ WF_vars(VideoThread)

-----------------------------------------------------------------------------
\* A viewer that was told CMD:SUCCESS is in client_fds as long as its
\* connection is open: the compaction of one thread and the registration of
\* the other, interleaved in any way, do not lose it.
NoViewerLost ==
  \A c \in Conns : told[c] = "viewer" => \E j \in Slots : client_fds[j] = fd[c]

\* The video thread never reads a descriptor that was closed or now belongs to
\* another connection: the collector's leaves epoll before its end can arrive.
CollectorOpen == collect # -1 => \E c \in Conns : fd[c] = collect

\* A frame of the registered collector is read, if every program that is
\* written to reads or ends: the wake-up that comes between the test of
\* video_collect_fd and the wait is made good by the time limit.
FrameWaits == \E c \in Conns : collect = fd[c] /\ frames[c] > 0
FramesRead == (\A c \in Conns : []<>HasRoom(c)) => (FrameWaits ~> ~FrameWaits \/ ~alive)

=============================================================================
