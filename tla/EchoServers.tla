----------------------------- MODULE EchoServers -----------------------------
(* The TCP servers of unpv13e/tcp_ser.c with the line clients of tcp_cli.c.   *)
(* The five variants of main are one server each: fork a child per client     *)
(* (main_1), accept and close (main_2), select (main_3), poll (main_4) and    *)
(* edge-triggered epoll (main_5, the one that is built).  A connection is     *)
(* modelled by counts of bytes: in the network, in the server's socket, and   *)
(* of the reply lines that wait for the client.  The network delivers a line  *)
(* in any pieces; one read takes what is there, MAXLINE bytes at most.  A     *)
(* read of as many is followed by a write past the end of buf, after which    *)
(* the program goes on or ends: it is not known what that memory is.          *)
(* Left out: exhaustion of descriptors, memory and processes, on which the    *)
(* wrappers of m_wrap.c end the program.                                      *)
EXTENDS Integers, Sequences, FiniteSets

CONSTANTS
  Clients,    \* client programs, each connects once
  Kinds,      \* the variants looked at
  Lengths,    \* bytes of a line a client sends; 0 is the empty line, and those of
              \* tcp_cli.c are shorter than MaxLine
  MaxLine,    \* MAXLINE
  Room,       \* replies that fit into the buffers of a connection, unread
  MaxLines,   \* bound: lines a client types
  FD_SETSIZE, \* entries of client[] in the select server
  PollSize    \* and for connections in the poll server: _SC_OPEN_MAX - 1, which is 3

ASSUME EchoAssumption ==
  /\ Clients # {} /\ IsFiniteSet(Clients)
  /\ Kinds \subseteq {"fork", "refuse", "select", "poll", "epoll"}
  /\ Lengths \subseteq Nat
  /\ MaxLine \in Nat \ {0} /\ Room \in Nat \ {0}
  /\ FD_SETSIZE \in Nat \ {0} /\ PollSize \in Nat \ {0}

VARIABLES
  kind,
  up,       \* the (parent) server process runs
  cli,      \* client: "off", "typing", "reading", "gone"
  typed,    \* lines a client has typed
  line,     \* bytes of the last of them
  flight,   \* bytes on their way to the server
  leaving,  \* what comes after them: "none", "fin", "rst"
  buf,      \* bytes in the server's receive buffer
  ended,    \* what has arrived after them: "none", "fin", "rst", or "err" when
            \* the kernel has given the connection up
  replies,  \* reply lines that wait for the client
  lq,       \* the listen queue
  fd,       \* the descriptor of a client's connection in the server, 0 for none
  child,    \* fork: the child of a client: "none", "read", "write", "zombie", "reaped"
  sigchld,  \* "none", "pending" or "handler": SIGCHLD in the parent
  table,    \* select, poll: client[], 0 for an unused entry
  maxi,     \* highest entry ever used, 0 for none
  allset,   \* select: descriptors watched
  maxfd,    \* select: the highest of them
  ready,    \* rset of select, revents of poll (entries), events of epoll
  nready,   \* descriptors of ready not yet looked at
  at,       \* entry the scan has reached
  edge,     \* epoll: descriptors with an event that is not yet reported
  pc        \* "wait", "accept", "scan", "write", "overrun"

netVars == <<flight, leaving, buf, ended, replies>>
cliVars == <<cli, typed, line>>
forkVars == <<child, sigchld>>
tableVars == <<table, maxi, allset, maxfd>>
loopVars == <<ready, nready, at, pc>>
vars == <<kind, up, cliVars, netVars, lq, fd, forkVars, tableVars, loopVars, edge>>

ListenFd == 1
Fds == 2 .. Cardinality(Clients) + 1
Entries == 1 .. (IF kind = "poll" THEN PollSize ELSE FD_SETSIZE)
All(v) == [c \in Clients |-> v]

Init ==
  /\ kind \in Kinds /\ up = TRUE
  /\ cli = All("off") /\ typed = All(0) /\ line = All(0)
  /\ flight = All(0) /\ leaving = All("none") /\ buf = All(0) /\ ended = All("none")
  /\ replies = All(0)
  /\ lq = << >> /\ fd = All(0)
  /\ child = All("none") /\ sigchld = "none"
  /\ table = [i \in Entries |-> 0] /\ maxi = 0
  /\ allset = {ListenFd} /\ maxfd = ListenFd
  /\ ready = {} /\ nready = 0 /\ at = 1 /\ edge = {}
  /\ pc = "wait"

-----------------------------------------------------------------------------
(* The clients.                                                              *)

\* The kernel completes the connection, whether or not the server accepts it.
Connect(c) ==
  /\ up /\ cli[c] = "off"
  /\ cli' = [cli EXCEPT ![c] = "typing"]
  /\ lq' = Append(lq, c)
  /\ edge' = IF kind = "epoll" THEN edge \cup {ListenFd} ELSE edge
  /\ UNCHANGED <<kind, up, typed, line, netVars, fd, forkVars, tableVars, loopVars>>

\* Fgets, the newline cut off, Writen of what is left, and Readline waits:
\* also after an empty line, for which nothing is written.  Writen of the client
\* may wait for the server; its bytes count as on their way at once.
TypeLine(c, n) ==
  /\ up /\ cli[c] = "typing" /\ typed[c] < MaxLines
  /\ cli' = [cli EXCEPT ![c] = "reading"]
  /\ typed' = [typed EXCEPT ![c] = @ + 1]
  /\ line' = [line EXCEPT ![c] = n]
  /\ flight' = [flight EXCEPT ![c] = @ + n]
  /\ UNCHANGED <<kind, up, leaving, buf, ended, replies, lq, fd, forkVars, tableVars, loopVars, edge>>

\* Readline returns one line; "OK" without a newline never ends one: its bytes
\* are taken, and Readline waits for more.
GetLine(c) ==
  /\ cli[c] = "reading" /\ replies[c] > 0
  /\ cli' = [cli EXCEPT ![c] = IF kind = "epoll" THEN "reading" ELSE "typing"]
  /\ replies' = [replies EXCEPT ![c] = @ - 1]
  /\ UNCHANGED <<kind, up, typed, line, flight, leaving, buf, ended, lq, fd, forkVars, tableVars, loopVars, edge>>

\* "exit", the end of the input or of the connection, or its user stops it: the
\* program ends and its socket is closed, with a reset if replies were not read.
Leave(c) ==
  /\ cli[c] \in {"typing", "reading"}
  /\ cli' = [cli EXCEPT ![c] = "gone"]
  /\ leaving' = [leaving EXCEPT ![c] = IF replies[c] > 0 THEN "rst" ELSE "fin"]
  /\ UNCHANGED <<kind, up, typed, line, flight, buf, ended, replies, lq, fd, forkVars, tableVars, loopVars, edge>>

\* The network brings bytes, or what follows the last of them; what comes for a
\* connection the kernel has given up is dropped.  The connections of a server
\* that has ended are followed no further.
Signal(c) == IF kind = "epoll" /\ fd[c] # 0 THEN edge \cup {fd[c]} ELSE edge

Deliver(c) ==
  /\ up
  /\ \/ \E n \in 1 .. flight[c] :
          /\ flight' = [flight EXCEPT ![c] = @ - n]
          /\ buf' = [buf EXCEPT ![c] = IF ended[c] = "err" THEN @ ELSE @ + n]
          /\ UNCHANGED <<leaving, ended>>
     \/ /\ flight[c] = 0 /\ leaving[c] # "none" /\ ended[c] # "err"
        /\ ended' = [ended EXCEPT ![c] = leaving[c]]
        /\ leaving' = [leaving EXCEPT ![c] = "none"]
        /\ UNCHANGED <<flight, buf>>
  /\ edge' = Signal(c)
  /\ UNCHANGED <<kind, up, cliVars, replies, lq, fd, forkVars, tableVars, loopVars>>

\* Nothing acknowledges a reply: the kernel gives the connection up with an
\* error other than ECONNRESET.
Lost(c) ==
  /\ up /\ replies[c] > 0 /\ ended[c] = "none"
  /\ ended' = [ended EXCEPT ![c] = "err"]
  /\ edge' = Signal(c)
  /\ UNCHANGED <<kind, up, cliVars, flight, leaving, buf, replies, lq, fd, forkVars, tableVars, loopVars>>

-----------------------------------------------------------------------------
(* What the servers have in common.                                          *)

\* The kernel gives the lowest descriptor that is free.
LowestFree(f) ==
  /\ \A c \in Clients : fd[c] # f
  /\ \A g \in Fds : g < f => \E c \in Clients : fd[c] = g

\* read has something to return.
Readable(c) == buf[c] > 0 \/ ended[c] # "none"

\* read(sockfd, buf, MAXLINE): what is over stays.
TakeBytes(c) == buf' = [buf EXCEPT ![c] = IF @ > MaxLine THEN @ - MaxLine ELSE 0]

\* buf[n] = '\0' is behind the end of buf, and the program ends at once or not.
Overruns(c) == buf[c] >= MaxLine

\* Writen fails on a connection that was reset or given up.
Broken(c) == ended[c] \in {"rst", "err"}

\* Writen waits for the client to read while its buffers are full.
HasRoom(c) == replies[c] < Room

\* The reply to what was read: a line, or "OK".  A program that has ended
\* answers it with a reset.
Reply(c) ==
  /\ HasRoom(c)
  /\ replies' = [replies EXCEPT ![c] = @ + 1]
  /\ leaving' = IF cli[c] = "gone" THEN [leaving EXCEPT ![c] = "rst"] ELSE leaving

\* Accept of m_wrap.c: a connection that was aborted in the queue is no reason
\* to stop, the call is made again, and waits if there is no other.
AcceptAborted ==
  /\ up /\ lq # << >> /\ pc = (IF kind \in {"fork", "refuse"} THEN "wait" ELSE "accept")
  /\ cli[Head(lq)] = "gone"
  /\ lq' = Tail(lq)
  /\ UNCHANGED <<kind, up, cliVars, netVars, fd, forkVars, tableVars, loopVars, edge>>

-----------------------------------------------------------------------------
(* main_2, and main_1: a child per client, and sig_chld.                     *)

RefuseAccept ==
  /\ kind = "refuse" /\ up /\ lq # << >>
  /\ lq' = Tail(lq)
  /\ UNCHANGED <<kind, up, cliVars, netVars, fd, forkVars, tableVars, loopVars, edge>>

\* accept, fork, and the parent closes its copy of the connection.
ForkAccept ==
  /\ kind = "fork" /\ up /\ lq # << >> /\ sigchld # "handler"
  /\ child' = [child EXCEPT ![Head(lq)] = "read"]
  /\ lq' = Tail(lq)
  /\ UNCHANGED <<kind, up, cliVars, netVars, fd, sigchld, tableVars, loopVars, edge>>

\* The child reads until the end or an error, and dies when it cannot write.
Exits(c) ==
  /\ child' = [child EXCEPT ![c] = "zombie"]
  /\ sigchld' = IF sigchld = "none" THEN "pending" ELSE sigchld

ChildRead(c) ==
  /\ child[c] = "read" /\ Readable(c)
  /\ \/ /\ buf[c] > 0
        /\ TakeBytes(c)
        /\ \/ child' = [child EXCEPT ![c] = "write"] /\ UNCHANGED sigchld
           \/ Overruns(c) /\ Exits(c)
     \/ buf[c] = 0 /\ Exits(c) /\ UNCHANGED buf
  /\ UNCHANGED <<kind, up, cliVars, flight, leaving, ended, replies, lq, fd, tableVars, loopVars, edge>>

ChildWrite(c) ==
  /\ child[c] = "write"
  /\ IF Broken(c)
     THEN Exits(c) /\ UNCHANGED <<replies, leaving>>
     ELSE Reply(c) /\ child' = [child EXCEPT ![c] = "read"] /\ UNCHANGED sigchld
  /\ UNCHANGED <<kind, up, cliVars, flight, buf, ended, lq, fd, tableVars, loopVars, edge>>

Zombies == {c \in Clients : child[c] = "zombie"}

HandlerStarts ==
  /\ sigchld = "pending"
  /\ sigchld' = "handler"
  /\ UNCHANGED <<kind, up, cliVars, netVars, lq, fd, child, tableVars, loopVars, edge>>

ReapOnce ==
  /\ sigchld = "handler"
  /\ \E c \in Zombies : child' = [child EXCEPT ![c] = "reaped"]
  /\ sigchld' = "none"
  /\ UNCHANGED <<kind, up, cliVars, netVars, lq, fd, tableVars, loopVars, edge>>

\* waitpid with WNOHANG until there is no child that has exited.
Reap ==
  /\ sigchld = "handler"
  /\ \E c \in Zombies : child' = [child EXCEPT ![c] = "reaped"]
  /\ UNCHANGED <<kind, up, cliVars, netVars, lq, fd, sigchld, tableVars, loopVars, edge>>

\* The signal was blocked meanwhile and signal() installed the handler with
\* SA_RESTART: accept goes on waiting.
HandlerEnds ==
  /\ sigchld = "handler" /\ Zombies = {}
  /\ sigchld' = "none"
  /\ UNCHANGED <<kind, up, cliVars, netVars, lq, fd, child, tableVars, loopVars, edge>>

-----------------------------------------------------------------------------
(* main_3 and main_4: one table of connections, scanned when select or poll  *)
(* returned.                                                                 *)
Scans == kind \in {"select", "poll"} /\ up

\* The open connections of the server that have something to read.
ReadableFds == {fd[c] : c \in {d \in Clients : fd[d] # 0 /\ Readable(d)}}
             \cup (IF lq # << >> THEN {ListenFd} ELSE {})

\* select looks at allset up to maxfd; poll at the entries up to maxi.
SelectedBelowMax == {f \in ReadableFds \cap allset : f < maxfd}
Selected == {f \in ReadableFds \cap allset : f <= maxfd}
Polled == {f \in ReadableFds : f = ListenFd \/ \E i \in 1 .. maxi : table[i] = f}

Wait ==
  /\ Scans /\ pc = "wait"
  /\ \E fds \in {IF kind = "select" THEN Selected ELSE Polled} :
       /\ fds # {}
       /\ nready' = Cardinality(fds)
       /\ ready' = IF kind = "select" THEN fds ELSE {i \in 1 .. maxi : table[i] \in fds}
       /\ pc' = IF ListenFd \in fds THEN "accept" ELSE "scan"
  /\ at' = 1
  /\ UNCHANGED <<kind, up, cliVars, netVars, lq, fd, forkVars, tableVars, edge>>

\* The new connection takes the first unused entry; with none the server ends
\* ("too many clients").  The rest of ready is looked at in the same round.
\* poll: revents of an entry that was never used is not initialized.
Free == {i \in Entries : table[i] = 0}

AcceptInto(i, f) ==
  /\ \A j \in Free : i <= j
  /\ table' = [table EXCEPT ![i] = f]
  /\ maxi' = IF i > maxi THEN i ELSE maxi
  /\ allset' = allset \cup {f}
  /\ maxfd' = IF f > maxfd THEN f ELSE maxfd
  /\ ready' \in (IF kind = "poll" /\ i > maxi THEN {ready, ready \cup {i}} ELSE {ready})

TableAccept ==
  /\ Scans /\ pc = "accept" /\ lq # << >>
  /\ \E f \in Fds : LowestFree(f) /\ fd' = [fd EXCEPT ![Head(lq)] = f]
                    /\ \E i \in Free : AcceptInto(i, f)
  /\ lq' = Tail(lq)
  /\ nready' = nready - 1
  /\ pc' = IF nready = 1 THEN "wait" ELSE "scan"
  /\ UNCHANGED <<kind, up, cliVars, netVars, forkVars, at, edge>>

TooManyClients ==
  /\ Scans /\ pc = "accept" /\ lq # << >> /\ Free = {}
  /\ up' = FALSE
  /\ UNCHANGED <<kind, cliVars, netVars, lq, fd, forkVars, tableVars, loopVars, edge>>

\* The next entry the scan stops at: used, and marked by select or poll.  There
\* is one as long as nready is positive, so the scan never runs past maxi.
Marked(i) == table[i] # 0 /\ (IF kind = "select" THEN table[i] \in ready ELSE i \in ready)
Stop(i) == i \in at .. maxi /\ Marked(i) /\ \A j \in at .. i - 1 : ~Marked(j)

Looked(i) ==
  /\ nready' = nready - 1
  /\ at' = IF nready = 1 THEN 1 ELSE i + 1
  /\ pc' = IF nready = 1 THEN "wait" ELSE "scan"

\* Read returned 0, or with poll ECONNRESET: close and free the entry.
CloseEntryKeepsBit(i, c) ==
  /\ fd' = [fd EXCEPT ![c] = 0]
  /\ table' = [table EXCEPT ![i] = 0]
  /\ UNCHANGED <<allset, maxi, maxfd>>

CloseEntry(i, c) ==
  /\ fd' = [fd EXCEPT ![c] = 0]
  /\ table' = [table EXCEPT ![i] = 0]
  /\ allset' = allset \ {fd[c]}
  /\ UNCHANGED <<maxi, maxfd>>

\* A read waits until there is something; Read of select ends the server on any
\* error, err_sys of poll on any but ECONNRESET.
Fatal(c) == ended[c] = "err" \/ (kind = "select" /\ ended[c] = "rst")

TableRead(i, c) ==
  /\ Scans /\ pc = "scan" /\ Stop(i) /\ fd[c] = table[i] /\ Readable(c)
  /\ \/ /\ buf[c] > 0
        /\ TakeBytes(c)
        /\ at' = i
        /\ \/ pc' = "write" /\ UNCHANGED up
           \/ Overruns(c) /\ pc' = "overrun" /\ up' = FALSE
        /\ UNCHANGED <<fd, tableVars, nready>>
     \/ /\ buf[c] = 0 /\ ~Fatal(c)
        /\ CloseEntry(i, c)
        /\ Looked(i)
        /\ UNCHANGED <<up, buf>>
     \/ /\ buf[c] = 0 /\ Fatal(c)
        /\ up' = FALSE
        /\ UNCHANGED <<buf, fd, tableVars, at, nready, pc>>
  /\ UNCHANGED <<kind, cliVars, flight, leaving, ended, replies, lq, forkVars, ready, edge>>

\* Writen: the server ends when the connection was reset meanwhile or lost.
TableWrite(c) ==
  /\ Scans /\ pc = "write" /\ fd[c] = table[at]
  /\ \/ ~Broken(c) /\ Reply(c) /\ Looked(at) /\ UNCHANGED up
     \/ Broken(c) /\ up' = FALSE /\ UNCHANGED <<replies, leaving, nready, at, pc>>
  /\ UNCHANGED <<kind, cliVars, flight, buf, ended, lq, fd, forkVars, tableVars, ready, edge>>

-----------------------------------------------------------------------------
(* main_5: epoll_wait reports a descriptor once for what has arrived since   *)
(* it was last reported, if it is still readable.                            *)
EpollWait ==
  /\ kind = "epoll" /\ up /\ pc = "wait" /\ edge \cap ReadableFds # {}
  /\ ready' = edge \cap ReadableFds
  /\ edge' = {}
  /\ pc' = "scan"
  /\ UNCHANGED <<kind, up, cliVars, netVars, lq, fd, forkVars, tableVars, nready, at>>

\* The events are taken in turn.
Took(f) ==
  /\ ready' = ready \ {f}
  /\ pc' = IF ready = {f} THEN "wait" ELSE "scan"

\* One connection is accepted.  epoll_ctl reports at once what it already has.
EpollAcceptLate ==
  /\ kind = "epoll" /\ up /\ pc = "scan" /\ ListenFd \in ready
  /\ \E f \in Fds : LowestFree(f) /\ fd' = [fd EXCEPT ![Head(lq)] = f]
  /\ lq' = Tail(lq)
  /\ UNCHANGED edge
  /\ Took(ListenFd)
  /\ UNCHANGED <<kind, up, cliVars, netVars, forkVars, tableVars, nready, at>>

EpollAccept ==
  /\ kind = "epoll" /\ up /\ pc = "scan" /\ ListenFd \in ready
  /\ \E f \in Fds : /\ LowestFree(f)
                    /\ fd' = [fd EXCEPT ![Head(lq)] = f]
                    /\ edge' = IF Readable(Head(lq)) THEN edge \cup {f} ELSE edge
  /\ lq' = Tail(lq)
  /\ Took(ListenFd)
  /\ UNCHANGED <<kind, up, cliVars, netVars, forkVars, tableVars, nready, at>>

\* One read per event: what it leaves has none.
EpollRead(c) ==
  /\ kind = "epoll" /\ up /\ pc = "scan" /\ fd[c] \in ready
  /\ \/ /\ buf[c] > 0
        /\ TakeBytes(c)
        /\ at' = fd[c]
        /\ \/ pc' = "write" /\ UNCHANGED up
           \/ Overruns(c) /\ pc' = "overrun" /\ up' = FALSE
        /\ UNCHANGED <<fd, ready, edge>>
     \/ /\ buf[c] = 0 /\ ended[c] # "err"
        /\ fd' = [fd EXCEPT ![c] = 0]
        /\ edge' = edge \ {fd[c]}
        /\ Took(fd[c])
        /\ UNCHANGED <<up, buf, at>>
     \/ /\ buf[c] = 0 /\ ended[c] = "err"
        /\ up' = FALSE
        /\ UNCHANGED <<buf, at, fd, edge, ready, pc>>
  /\ UNCHANGED <<kind, cliVars, flight, leaving, ended, replies, lq, forkVars, tableVars, nready>>

EpollWrite(c) ==
  /\ kind = "epoll" /\ up /\ pc = "write" /\ fd[c] = at
  /\ \/ ~Broken(c) /\ Reply(c) /\ Took(at) /\ UNCHANGED up
     \/ Broken(c) /\ up' = FALSE /\ UNCHANGED <<replies, leaving, ready, pc>>
  /\ at' = 1
  /\ UNCHANGED <<kind, cliVars, flight, buf, ended, lq, fd, forkVars, tableVars, nready, edge>>

-----------------------------------------------------------------------------
Server ==
  \/ AcceptAborted \/ RefuseAccept \/ ForkAccept
  \/ HandlerStarts \/ Reap \/ HandlerEnds
  \/ Wait \/ TableAccept \/ TooManyClients
  \/ EpollWait \/ EpollAccept
  \/ \E c \in Clients : \/ \E i \in Entries : TableRead(i, c)
                        \/ TableWrite(c) \/ EpollRead(c) \/ EpollWrite(c)

Child(c) == ChildRead(c) \/ ChildWrite(c)

Next ==
  \/ \E c \in Clients :
       \/ Connect(c) \/ (\E n \in Lengths : TypeLine(c, n)) \/ GetLine(c) \/ Leave(c)
       \/ Deliver(c) \/ Lost(c) \/ Child(c)
  \/ Server

Spec == Init /\ [][Next]_vars

\* The processes of the server run when they can, and TCP delivers.  Nothing is
\* assumed of the clients: they may stop typing and never read, and then a write
\* to them waits for ever.
FairSpec ==
  /\ Spec
  /\ WF_vars(Server)
  /\ \A c \in Clients : WF_vars(Child(c)) /\ WF_vars(Deliver(c))

-----------------------------------------------------------------------------
\* A child that has exited is always going to be reaped: SIGCHLD is not queued,
\* so the one delivery for several children that exit together, or while the
\* handler runs, has to do for all of them.
ZombiesNoticed == Zombies # {} => sigchld # "none"

\* While it waits, the select server watches its connections and no other
\* descriptor, and a new connection never inherits a bit or a bound that is
\* too low: entries, allset, maxi and maxfd agree with the open descriptors.
TableExact ==
  Scans /\ pc = "wait" =>
    LET used == {table[i] : i \in Entries} \ {0} IN
    /\ used = {fd[c] : c \in Clients} \ {0}
    /\ \A i \in Entries : table[i] # 0 => i <= maxi
    /\ kind = "select" => /\ allset = used \cup {ListenFd}
                          /\ \A f \in allset : f <= maxfd

\* No client can end the forking server, and the others end only on a broken
\* connection, a full table or a read that fills buf to the end.
StaysUp ==
  ~up => \/ \E c \in Clients : fd[c] # 0 /\ Broken(c)
         \/ kind \in {"select", "poll"} /\ pc = "accept" /\ Free = {}
         \/ kind \in {"select", "poll", "epoll"} /\ pc = "overrun"

\* Clients that come, go, abort and follow each other on a descriptor leave the
\* server running and its tables right.
ServerIntact == TableExact /\ StaysUp

\* Edge-triggered epoll with one read per event: bytes in an accepted
\* connection have an event to come, so no byte waits for good, as long as the
\* line they belong to fits into one read of MAXLINE bytes, as those of tcp_cli.c
\* do.  Of a longer one a rest may stay without an event.
BytesHaveEvent ==
  kind = "epoll" /\ up =>
    \A c \in Clients : fd[c] # 0 /\ buf[c] > 0 => fd[c] \in edge \cup ready \/ line[c] > MaxLine

\* A client takes its replies, or leaves: its buffers are not full for good.
Reads(c) == []<>(HasRoom(c) \/ cli[c] = "gone")

\* accept waits for a new client: the connection select had reported was aborted.
Held == pc = "accept" /\ lq = << >>

ReadOf(c) ==
  flight[c] + buf[c] > 0 ~> flight[c] + buf[c] = 0 \/ cli[c] = "gone" \/ ~up
                              \/ child[c] \in {"zombie", "reaped"}

\* The forking server reads every byte of a client that takes its replies,
\* whatever the other clients do.  The select server has one write for all: it
\* reads every byte if every client takes its replies, and accept does not hold
\* it for good.
Answered ==
  /\ \A c \in Clients : Reads(c) => (kind = "fork" => ReadOf(c))
  /\ (\A d \in Clients : Reads(d)) /\ []<>~Held =>
       (kind = "select" => \A c \in Clients : ReadOf(c))
=============================================================================
