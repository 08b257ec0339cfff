-------------------------- MODULE EchoServersProofs --------------------------
(* Three facts about the servers of tcp_ser.c for any number of clients and  *)
(* lines: sig_chld of main_1 misses no child; main_5, which reads once per   *)
(* edge-triggered event, leaves no byte of a line that fits into its buffer  *)
(* without an event to come; and no sequence of clients brings down the      *)
(* servers, or the tables of main_3 and main_4 out of step with the open     *)
(* connections, except as the code says.                                     *)
EXTENDS EchoServers, FiniteSetTheorems, TLAPS

LEMMA KindStays == [Next]_vars => kind' = kind
<1> SUFFICES ASSUME [Next]_vars PROVE kind' = kind
  OBVIOUS
<1>1. ASSUME NEW c \in Clients,
             \/ Connect(c) \/ (\E n \in Lengths : TypeLine(c, n)) \/ GetLine(c) \/ Leave(c)
             \/ Deliver(c) \/ Lost(c) \/ Child(c)
      PROVE  kind' = kind
  BY <1>1 DEF Connect, TypeLine, GetLine, Leave, Deliver, Lost, Child, ChildRead, ChildWrite
<1>2. CASE Server
  BY <1>2 DEF Server, AcceptAborted, RefuseAccept, ForkAccept, HandlerStarts, Reap, HandlerEnds,
              Wait, TableAccept, TooManyClients, EpollWait, EpollAccept, TableRead, TableWrite,
              EpollRead, EpollWrite
<1> QED
  BY <1>1, <1>2 DEF Next, vars

-----------------------------------------------------------------------------
(* SIGCHLD.  What the handler's loop needs: one signal is enough as long as  *)
(* it is pending, or the handler has still to look for children.             *)
ChildInv == child \in [Clients -> {"none", "read", "write", "zombie", "reaped"}] /\ ZombiesNoticed

LEMMA NextChild == ChildInv /\ [Next]_vars => ChildInv'
<1> SUFFICES ASSUME ChildInv, [Next]_vars PROVE ChildInv'
  OBVIOUS
<1>1. CASE UNCHANGED <<child, sigchld>>
  BY <1>1 DEF ChildInv, ZombiesNoticed, Zombies
<1>2. ASSUME NEW c \in Clients, ChildRead(c) PROVE ChildInv'
  BY <1>2 DEF ChildInv, ZombiesNoticed, Zombies, ChildRead, Exits
<1>3. ASSUME NEW c \in Clients, ChildWrite(c) PROVE ChildInv'
  BY <1>3 DEF ChildInv, ZombiesNoticed, Zombies, ChildWrite, Exits
<1>4. CASE ForkAccept
  BY <1>4 DEF ChildInv, ZombiesNoticed, Zombies, ForkAccept
<1>5. CASE HandlerStarts
  BY <1>5 DEF ChildInv, ZombiesNoticed, Zombies, HandlerStarts
<1>6. CASE Reap
  BY <1>6 DEF ChildInv, ZombiesNoticed, Zombies, Reap
<1>7. CASE HandlerEnds
  BY <1>7 DEF ChildInv, ZombiesNoticed, Zombies, HandlerEnds
<1>8. ASSUME NEW c \in Clients,
             \/ Connect(c) \/ (\E n \in Lengths : TypeLine(c, n)) \/ GetLine(c) \/ Leave(c)
             \/ Deliver(c) \/ Lost(c)
      PROVE  UNCHANGED <<child, sigchld>>
  BY <1>8 DEF Connect, TypeLine, GetLine, Leave, Deliver, Lost, forkVars
<1>9. CASE Server /\ ~ForkAccept /\ ~HandlerStarts /\ ~Reap /\ ~HandlerEnds
  BY <1>9, <1>1 DEF Server, AcceptAborted, RefuseAccept, Wait, TableAccept, TooManyClients,
              EpollWait, EpollAccept, TableRead, TableWrite, EpollRead, EpollWrite, forkVars
<1>10. CASE UNCHANGED vars
  BY <1>1, <1>10 DEF vars, forkVars
<1> QED
  BY <1>1, <1>2, <1>3, <1>4, <1>5, <1>6, <1>7, <1>8, <1>9, <1>10 DEF Next, Child

(* No child of the forking server stays a zombie unnoticed, however many     *)
(* exit together or while sig_chld runs.                                     *)
THEOREM NoChildMissed == Spec => []ZombiesNoticed
<1>1. Init => ChildInv
  BY DEF Init, All, ChildInv, ZombiesNoticed, Zombies
<1>2. ChildInv => ZombiesNoticed
  BY DEF ChildInv
<1> QED
  BY <1>1, <1>2, NextChild, PTL DEF Spec

-----------------------------------------------------------------------------
(* The epoll server.  Between the read and the write of one event, bytes     *)
(* that arrive have an event of their own; the events of a round are all     *)
(* taken before the next wait; no two connections share a descriptor.  A     *)
(* client that waits for the end of "OK" sends one line only, so what is on  *)
(* its way and in the buffer is no longer than that line.                    *)
Sent(c) ==
  /\ flight[c] + buf[c] <= line[c]
  /\ cli[c] \in {"off", "typing"} => flight[c] = 0 /\ buf[c] = 0

EpollState ==
  /\ child = All("none") /\ sigchld = "none" /\ pc \in {"wait", "scan", "write", "overrun"}
  /\ line \in [Clients -> Nat] /\ cli \in [Clients -> {"off", "typing", "reading", "gone"}]
  /\ \A c \in Clients : Sent(c)
  /\ lq \in Seq(Clients)
  /\ fd \in [Clients -> Nat] /\ buf \in [Clients -> Nat] /\ flight \in [Clients -> Nat]
  /\ \A c \in Clients : fd[c] # ListenFd
  /\ \A c, d \in Clients : fd[c] # 0 /\ fd[c] = fd[d] => c = d
  /\ pc = "wait" => ready = {}
  /\ ListenFd \in ready => lq # << >>

Covered(c) ==
  fd[c] # 0 /\ buf[c] > 0 =>
    fd[c] \in edge \cup (IF pc = "write" THEN ready \ {at} ELSE ready) \/ line[c] > MaxLine

EpollInv == kind = "epoll" => EpollState /\ (up => \A c \in Clients : Covered(c))

LEMMA FdNumbers == \A f \in Fds : f \in Nat /\ f # 0 /\ f # ListenFd
  BY EchoAssumption, FS_CardinalityType DEF Fds, ListenFd

LEMMA InitEpoll == Init => EpollInv
<1> SUFFICES ASSUME Init PROVE EpollInv
  OBVIOUS
<1>1. EpollState
  BY DEF Init, All, EpollState, ListenFd, Sent
<1>2. \A c \in Clients : Covered(c)
  BY DEF Init, All, Covered
<1> QED
  BY <1>1, <1>2 DEF EpollInv

LEMMA NextEpoll == EpollInv /\ [Next]_vars => EpollInv'
<1> SUFFICES ASSUME EpollInv, [Next]_vars, kind = "epoll"
             PROVE  EpollState' /\ (up' => \A c \in Clients : Covered(c)')
  BY KindStays DEF EpollInv
<1>a. EpollState /\ (up => \A c \in Clients : Covered(c))
  BY DEF EpollInv
<1>1. ASSUME NEW c \in Clients, Connect(c)
      PROVE  EpollState' /\ (up' => \A d \in Clients : Covered(d)')
  <2>1. UNCHANGED <<up, fd, buf, flight, line, child, sigchld, ready, pc, at>> /\ edge \subseteq edge'
    BY <1>1 DEF Connect, netVars, forkVars, loopVars
  <2>2. lq' \in Seq(Clients) /\ lq' # << >>
    BY <1>1, <1>a DEF Connect, EpollState
  <2>3. cli[c] = "off" /\ cli' = [cli EXCEPT ![c] = "typing"]
    BY <1>1 DEF Connect
  <2>4. \A d \in Clients : Sent(d)'
    BY <1>a, <2>1, <2>3 DEF EpollState, Sent
  <2> QED
    BY <1>a, <2>1, <2>2, <2>3, <2>4 DEF EpollState, Covered
<1>2. ASSUME NEW c \in Clients, NEW n \in Lengths, TypeLine(c, n)
      PROVE  EpollState' /\ (up' => \A d \in Clients : Covered(d)')
  <2>1. UNCHANGED <<up, lq, fd, buf, child, sigchld, ready, pc, at, edge>>
    BY <1>2 DEF TypeLine, forkVars, loopVars
  <2>2. /\ cli[c] = "typing" /\ cli' = [cli EXCEPT ![c] = "reading"]
        /\ flight' = [flight EXCEPT ![c] = @ + n] /\ line' = [line EXCEPT ![c] = n]
    BY <1>2 DEF TypeLine
  <2>3. n \in Nat /\ flight[c] = 0 /\ buf[c] = 0
    BY <1>a, <2>2, EchoAssumption DEF EpollState, Sent
  <2>4. flight' \in [Clients -> Nat] /\ line' \in [Clients -> Nat]
        /\ cli' \in [Clients -> {"off", "typing", "reading", "gone"}]
    BY <1>a, <2>2, <2>3 DEF EpollState
  <2>5. \A d \in Clients : Sent(d)'
    <3>1. Sent(c)'
      BY <1>a, <2>1, <2>2, <2>3 DEF EpollState, Sent
    <3>2. ASSUME NEW d \in Clients, d # c PROVE Sent(d)'
      BY <1>a, <2>1, <2>2, <3>2 DEF EpollState, Sent
    <3> QED
      BY <3>1, <3>2
  <2>6. ASSUME up', NEW d \in Clients PROVE Covered(d)'
    BY <1>a, <2>1, <2>2, <2>3, <2>6 DEF EpollState, Covered
  <2> QED
    BY <1>a, <2>1, <2>4, <2>5, <2>6 DEF EpollState
<1>3. ASSUME NEW c \in Clients, Leave(c) \/ GetLine(c)
      PROVE  EpollState' /\ (up' => \A d \in Clients : Covered(d)')
  <2>1. UNCHANGED <<up, lq, fd, buf, flight, line, child, sigchld, ready, pc, at, edge>>
    BY <1>3 DEF Leave, GetLine, forkVars, loopVars
  <2>2. cli' = [cli EXCEPT ![c] = "gone"] \/ cli' = [cli EXCEPT ![c] = "reading"]
    BY <1>3 DEF Leave, GetLine
  <2>3. \A d \in Clients : Sent(d)'
    BY <1>a, <2>1, <2>2 DEF EpollState, Sent
  <2> QED
    BY <1>a, <2>1, <2>2, <2>3 DEF EpollState, Covered
<1>4. ASSUME NEW c \in Clients, Deliver(c) \/ Lost(c)
      PROVE  EpollState' /\ (up' => \A d \in Clients : Covered(d)')
  <2>1. UNCHANGED <<up, lq, fd, line, cli, child, sigchld, ready, pc, at>>
    BY <1>4 DEF Deliver, Lost, cliVars, forkVars, loopVars
  <2>2. edge \subseteq edge' /\ (fd[c] # 0 => fd[c] \in edge')
    BY <1>4 DEF Deliver, Lost, Signal
  <2>3. /\ buf' \in [Clients -> Nat] /\ flight' \in [Clients -> Nat]
        /\ \A d \in Clients : d # c => buf'[d] = buf[d] /\ flight'[d] = flight[d]
        /\ flight'[c] + buf'[c] <= flight[c] + buf[c]
    <3>1. ASSUME NEW n \in 1 .. flight[c], flight' = [flight EXCEPT ![c] = @ - n],
                 buf' = [buf EXCEPT ![c] = IF ended[c] = "err" THEN @ ELSE @ + n]
          PROVE  /\ buf' \in [Clients -> Nat] /\ flight' \in [Clients -> Nat]
                 /\ \A d \in Clients : d # c => buf'[d] = buf[d] /\ flight'[d] = flight[d]
                 /\ flight'[c] + buf'[c] <= flight[c] + buf[c]
      <4>1. flight[c] \in Nat /\ buf[c] \in Nat /\ n \in Nat /\ n <= flight[c]
        BY <1>a, <3>1 DEF EpollState
      <4>2. flight'[c] = flight[c] - n /\ buf'[c] \in {buf[c], buf[c] + n}
        BY <1>a, <3>1 DEF EpollState
      <4> QED
        BY <1>a, <3>1, <4>1, <4>2 DEF EpollState
    <3>2. CASE UNCHANGED <<flight, buf>>
      BY <1>a, <3>2 DEF EpollState
    <3> QED
      BY <1>4, <3>1, <3>2 DEF Deliver, Lost
  <2>4. \A d \in Clients : Sent(d)'
    <3>1. Sent(c)'
      <4>1. flight'[c] \in Nat /\ buf'[c] \in Nat /\ flight[c] \in Nat /\ buf[c] \in Nat /\ line[c] \in Nat
        BY <1>a, <2>3 DEF EpollState
      <4>2. Sent(c)
        BY <1>a DEF EpollState
      <4>3. flight'[c] + buf'[c] <= flight[c] + buf[c] /\ line' = line /\ cli' = cli
        BY <2>1, <2>3
      <4> QED
        BY <4>1, <4>2, <4>3 DEF Sent
    <3>2. ASSUME NEW d \in Clients, d # c PROVE Sent(d)'
      <4>1. Sent(d) /\ flight'[d] = flight[d] /\ buf'[d] = buf[d]
        BY <1>a, <2>3, <3>2 DEF EpollState
      <4> QED
        BY <2>1, <4>1 DEF Sent
    <3> QED
      BY <3>1, <3>2
  <2>5. EpollState'
    BY <1>a, <2>1, <2>3, <2>4 DEF EpollState
  <2>6. ASSUME up', NEW d \in Clients PROVE Covered(d)'
    BY <1>a, <2>1, <2>2, <2>3, <2>6 DEF Covered
  <2> QED
    BY <2>5, <2>6
<1>5. ASSUME NEW c \in Clients, Child(c) PROVE FALSE
  BY <1>5, <1>a DEF Child, ChildRead, ChildWrite, EpollState, All
<1>6. CASE EpollWait
  <2>1. UNCHANGED <<up, lq, fd, buf, flight, line, cli, child, sigchld>>
    BY <1>6 DEF EpollWait, cliVars, netVars, forkVars
  <2>2. pc = "wait" /\ pc' = "scan" /\ ready = {} /\ ready' = edge \cap ReadableFds
    BY <1>6, <1>a DEF EpollWait, EpollState
  <2>3. ListenFd \in ready' => lq # << >>
    BY <1>a, <2>2 DEF ReadableFds, EpollState
  <2>4. \A d \in Clients : fd[d] # 0 /\ buf[d] > 0 => fd[d] \in ReadableFds
    BY DEF ReadableFds, Readable
  <2> QED
    BY <1>a, <2>1, <2>2, <2>3, <2>4 DEF EpollState, Covered, Sent
<1>7. CASE EpollAccept
  <2>1. UNCHANGED <<up, buf, flight, line, cli, child, sigchld, at>> /\ pc = "scan" /\ ListenFd \in ready
    BY <1>7 DEF EpollAccept, cliVars, netVars, forkVars
  <2>2. PICK f \in Fds : /\ LowestFree(f)
                         /\ fd' = [fd EXCEPT ![Head(lq)] = f]
                         /\ edge' = IF Readable(Head(lq)) THEN edge \cup {f} ELSE edge
    BY <1>7 DEF EpollAccept
  <2>3. Head(lq) \in Clients /\ lq' \in Seq(Clients)
    BY <1>7, <1>a, <2>1 DEF EpollAccept, EpollState
  <2>4. pc' \in {"wait", "scan"} /\ ready' = ready \ {ListenFd} /\ (pc' = "wait" => ready' = {})
    BY <1>7 DEF EpollAccept, Took
  <2>5. \A d \in Clients : fd[d] # f /\ fd'[d] = IF d = Head(lq) THEN f ELSE fd[d]
    BY <1>a, <2>2 DEF EpollState, LowestFree
  <2>6. f \in Nat /\ f # 0 /\ f # ListenFd
    BY FdNumbers
  <2>7. EpollState'
    <3>1. fd' \in [Clients -> Nat] /\ \A d \in Clients : fd'[d] # ListenFd
      BY <1>a, <2>2, <2>5, <2>6 DEF EpollState, ListenFd
    <3>2. \A c, d \in Clients : fd'[c] # 0 /\ fd'[c] = fd'[d] => c = d
      BY <1>a, <2>5 DEF EpollState
    <3> QED
      BY <1>a, <2>1, <2>3, <2>4, <3>1, <3>2 DEF EpollState, ListenFd, Sent
  <2>8. ASSUME up', NEW d \in Clients, fd'[d] # 0, buf'[d] > 0
        PROVE  fd'[d] \in edge' \cup ready' \/ line'[d] > MaxLine
    <3>1. CASE d = Head(lq)
      BY <2>1, <2>2, <2>5, <2>8, <3>1 DEF Readable
    <3>2. CASE d # Head(lq)
      BY <1>a, <2>1, <2>2, <2>4, <2>5, <2>8, <3>2 DEF Covered, EpollState
    <3> QED
      BY <3>1, <3>2
  <2> QED
    BY <2>4, <2>7, <2>8 DEF Covered
<1>8. ASSUME NEW c \in Clients, EpollRead(c)
      PROVE  EpollState' /\ (up' => \A d \in Clients : Covered(d)')
  <2>1. UNCHANGED <<lq, flight, line, cli, child, sigchld>> /\ pc = "scan" /\ fd[c] \in ready /\ up
    BY <1>8 DEF EpollRead, cliVars, forkVars
  <2>2. CASE buf[c] > 0
    <3>1. /\ UNCHANGED <<fd, ready, edge>> /\ at' = fd[c] /\ pc' \in {"write", "overrun"}
          /\ up' => pc' = "write"
          /\ buf' = [buf EXCEPT ![c] = IF @ > MaxLine THEN @ - MaxLine ELSE 0]
      <4>1. /\ TakeBytes(c) /\ at' = fd[c] /\ UNCHANGED <<fd, ready, edge>>
            /\ \/ pc' = "write" /\ UNCHANGED up
               \/ pc' = "overrun" /\ up' = FALSE
        <5>1. ~(buf[c] = 0)
          BY <2>2
        <5> QED
          BY <1>8, <5>1 DEF EpollRead
      <4> QED
        BY <4>1 DEF TakeBytes
    <3>2. flight[c] \in Nat /\ buf[c] \in Nat /\ line[c] \in Nat /\ MaxLine \in Nat /\ MaxLine > 0
      BY <1>a, EchoAssumption DEF EpollState
    <3>3. /\ buf' \in [Clients -> Nat] /\ buf'[c] <= buf[c]
          /\ buf'[c] > 0 => buf[c] > MaxLine
          /\ \A d \in Clients : d # c => buf'[d] = buf[d]
      BY <1>a, <3>1, <3>2 DEF EpollState
    <3>4. \A d \in Clients : Sent(d)'
      <4>1. Sent(c)'
        <5>1. buf'[c] \in Nat /\ flight[c] + buf[c] <= line[c]
          BY <1>a, <3>3 DEF EpollState, Sent
        <5>2. flight'[c] + buf'[c] <= line'[c]
          BY <2>1, <3>2, <3>3, <5>1
        <5>3. cli'[c] \in {"off", "typing"} => flight'[c] = 0 /\ buf'[c] = 0
          BY <1>a, <2>1, <2>2, <3>2 DEF EpollState, Sent
        <5> QED
          BY <5>2, <5>3 DEF Sent
      <4>2. ASSUME NEW d \in Clients, d # c PROVE Sent(d)'
        BY <1>a, <2>1, <3>3, <4>2 DEF EpollState, Sent
      <4> QED
        BY <4>1, <4>2
    <3>5. EpollState'
      BY <1>a, <2>1, <3>1, <3>3, <3>4 DEF EpollState
    <3>6. ASSUME up' PROVE Covered(c)'
      <4>1. buf'[c] > 0 => line[c] > MaxLine
        BY <1>a, <3>2, <3>3 DEF EpollState, Sent
      <4> QED
        BY <2>1, <4>1 DEF Covered
    <3>7. ASSUME up', NEW d \in Clients, d # c PROVE Covered(d)'
      BY <1>a, <2>1, <3>1, <3>3, <3>7 DEF EpollState, Covered
    <3> QED
      BY <3>5, <3>6, <3>7
  <2>3. CASE ~(buf[c] > 0) /\ ended[c] # "err"
    <3>1. /\ UNCHANGED <<up, buf, at>> /\ fd' = [fd EXCEPT ![c] = 0]
          /\ edge' = edge \ {fd[c]} /\ ready' = ready \ {fd[c]}
          /\ pc' \in {"wait", "scan"} /\ (pc' = "wait" => ready' = {})
      BY <1>8, <2>3 DEF EpollRead, Took
    <3>2. EpollState'
      <4>1. \A d \in Clients : Sent(d)'
        BY <1>a, <2>1, <3>1 DEF EpollState, Sent
      <4>2. fd' \in [Clients -> Nat] /\ \A d \in Clients : fd'[d] = fd[d] \/ fd'[d] = 0
        BY <1>a, <3>1 DEF EpollState
      <4>3. /\ \A d \in Clients : fd'[d] # ListenFd
            /\ \A d, e \in Clients : fd'[d] # 0 /\ fd'[d] = fd'[e] => d = e
        BY <1>a, <4>2 DEF EpollState, ListenFd
      <4>4. /\ child' = All("none") /\ sigchld' = "none" /\ pc' \in {"wait", "scan", "write", "overrun"}
            /\ line' \in [Clients -> Nat] /\ cli' \in [Clients -> {"off", "typing", "reading", "gone"}]
            /\ lq' \in Seq(Clients) /\ buf' \in [Clients -> Nat] /\ flight' \in [Clients -> Nat]
        BY <1>a, <2>1, <3>1 DEF EpollState, All
      <4>5. ListenFd \in ready' => lq' # << >>
        BY <1>a, <2>1, <3>1 DEF EpollState
      <4> QED
        BY <3>1, <4>1, <4>2, <4>3, <4>4, <4>5 DEF EpollState, All, ListenFd
    <3>3. ASSUME up', NEW d \in Clients, fd'[d] # 0, buf'[d] > 0
          PROVE  fd'[d] \in edge' \cup ready' \/ line'[d] > MaxLine
      <4>1. d # c /\ fd'[d] = fd[d] /\ fd[d] # fd[c]
        BY <1>a, <2>3, <3>1, <3>3 DEF EpollState
      <4> QED
        BY <1>a, <2>1, <3>1, <3>3, <4>1 DEF Covered
    <3> QED
      BY <3>1, <3>2, <3>3 DEF Covered
  <2>4. CASE ~(buf[c] > 0) /\ ended[c] = "err"
    <3>1. UNCHANGED <<buf, at, fd, edge, ready, pc>> /\ ~up'
      BY <1>8, <2>4 DEF EpollRead
    <3> QED
      BY <1>a, <2>1, <3>1 DEF EpollState, Sent
  <2> QED
    BY <2>2, <2>3, <2>4
<1>9. ASSUME NEW c \in Clients, EpollWrite(c)
      PROVE  EpollState' /\ (up' => \A d \in Clients : Covered(d)')
  <2>1. UNCHANGED <<lq, fd, buf, flight, line, cli, child, sigchld, edge>> /\ pc = "write" /\ up
    BY <1>9 DEF EpollWrite, cliVars, forkVars
  <2>2. CASE up' = FALSE /\ UNCHANGED <<ready, pc>>
    BY <1>a, <2>1, <2>2 DEF EpollState, Sent
  <2>3. CASE Took(at) /\ up' = up
    BY <1>a, <2>1, <2>3 DEF EpollState, Covered, Took, Sent
  <2> QED
    BY <1>9, <2>2, <2>3 DEF EpollWrite
<1>10. AcceptAborted \/ RefuseAccept \/ ForkAccept \/ HandlerStarts \/ Reap \/ HandlerEnds
         \/ Wait \/ TableAccept \/ TooManyClients
         \/ (\E c \in Clients : TableWrite(c) \/ \E i \in Entries : TableRead(i, c)) => FALSE
  BY <1>a DEF AcceptAborted, RefuseAccept, ForkAccept, HandlerStarts, Reap, HandlerEnds,
       Wait, TableAccept, TooManyClients, TableRead, TableWrite, Scans, EpollState
<1>11. CASE UNCHANGED vars
  BY <1>a, <1>11 DEF EpollState, Covered, Sent, vars, cliVars, netVars, forkVars, loopVars
<1> QED
  BY <1>1, <1>2, <1>3, <1>4, <1>5, <1>6, <1>7, <1>8, <1>9, <1>10, <1>11 DEF Next, Server

(* With one read of MAXLINE bytes per edge-triggered event, bytes in an      *)
(* accepted connection of the epoll server have an event that is reported or *)
(* will be, unless their line is longer than MAXLINE.                        *)
THEOREM EveryByteHasEvent == Spec => []BytesHaveEvent
<1>1. EpollInv => BytesHaveEvent
  BY DEF EpollInv, Covered, BytesHaveEvent
<1> QED
  BY <1>1, InitEpoll, NextEpoll, PTL DEF Spec

-----------------------------------------------------------------------------
(* The clients, as far as the servers depend on them.                        *)
PeerInv == cli \in [Clients -> {"off", "typing", "reading", "gone"}]

LEMMA NextPeer == PeerInv /\ [Next]_vars => PeerInv'
<1> SUFFICES ASSUME PeerInv, [Next]_vars PROVE PeerInv'
  OBVIOUS
<1>1. ASSUME NEW c \in Clients,
             Connect(c) \/ (\E n \in Lengths : TypeLine(c, n)) \/ GetLine(c) \/ Leave(c)
      PROVE  PeerInv'
  BY <1>1 DEF PeerInv, Connect, TypeLine, GetLine, Leave
<1>2. ASSUME NEW c \in Clients,
             Deliver(c) \/ Lost(c) \/ Child(c) \/ TableWrite(c) \/ EpollWrite(c) \/ EpollRead(c)
      PROVE  PeerInv'
  BY <1>2 DEF PeerInv, Deliver, Lost, Child, ChildRead, ChildWrite, TableWrite, EpollWrite, EpollRead, cliVars
<1>3. CASE AcceptAborted \/ RefuseAccept \/ ForkAccept \/ HandlerStarts \/ Reap \/ HandlerEnds
             \/ Wait \/ TableAccept \/ TooManyClients \/ EpollWait \/ EpollAccept
             \/ \E c \in Clients : \E i \in Entries : TableRead(i, c)
  BY <1>3 DEF PeerInv, AcceptAborted, RefuseAccept, ForkAccept, HandlerStarts, Reap, HandlerEnds,
     Wait, TableAccept, TooManyClients, EpollWait, EpollAccept, TableRead, cliVars
<1>4. CASE UNCHANGED vars
  BY <1>4 DEF PeerInv, vars, cliVars
<1> QED
  BY <1>1, <1>2, <1>3, <1>4 DEF Next, Server

-----------------------------------------------------------------------------
(* The table of main_3 and main_4, at every point of the loop and not only   *)
(* when the server waits.  A descriptor is in one entry, and a client that   *)
(* is still in the listen queue has none and is there once: the entry it     *)
(* gets is its only one.                                                     *)
QueueInv ==
  /\ lq \in Seq(Clients)
  /\ \A k \in 1 .. Len(lq) : cli[lq[k]] # "off" /\ fd[lq[k]] = 0
  /\ \A k, l \in 1 .. Len(lq) : lq[k] = lq[l] => k = l
  /\ \A c \in Clients : fd[c] # 0 => cli[c] # "off"

EntriesInv ==
  /\ table \in [Entries -> Nat] /\ maxi \in Nat /\ fd \in [Clients -> Nat]
  /\ \A c \in Clients : fd[c] # ListenFd
  /\ \A c, d \in Clients : fd[c] # 0 /\ fd[c] = fd[d] => c = d
  /\ \A i \in Entries : table[i] # 0 => i <= maxi /\ \E c \in Clients : fd[c] = table[i]
  /\ \A c \in Clients : fd[c] # 0 => \E i \in Entries : table[i] = fd[c]
  /\ \A i, j \in Entries : table[i] # 0 /\ table[i] = table[j] => i = j
  /\ pc = "write" => at \in Entries /\ table[at] # 0

WatchInv ==
  /\ allset \subseteq Nat /\ maxfd \in Nat
  /\ ListenFd \in allset
  /\ \A f \in allset : f <= maxfd /\ (f = ListenFd \/ \E c \in Clients : f # 0 /\ fd[c] = f)
  /\ \A c \in Clients : fd[c] # 0 => fd[c] \in allset

TableInv == kind \in {"select", "poll"} => QueueInv /\ EntriesInv /\ WatchInv

LEMMA EntriesFixed == kind' = kind => Entries' = Entries
  BY DEF Entries

LEMMA EntriesNat == Entries \subseteq Nat
  BY EchoAssumption DEF Entries

LEMMA InitTable == Init => TableInv
<1> SUFFICES ASSUME Init PROVE TableInv
  OBVIOUS
<1>1. QueueInv
  BY DEF Init, All, QueueInv
<1>2. EntriesInv
  BY DEF Init, All, EntriesInv, ListenFd
<1>3. WatchInv
  BY DEF Init, All, WatchInv, ListenFd
<1> QED
  BY <1>1, <1>2, <1>3 DEF TableInv

LEMMA TableFrame ==
  ASSUME QueueInv /\ EntriesInv /\ WatchInv, PeerInv,
         UNCHANGED <<kind, lq, fd, table, maxi, allset, maxfd>>,
         pc' # "write" \/ UNCHANGED <<pc, at>>,
         \A c \in Clients : cli[c] # "off" => cli'[c] # "off"
  PROVE  QueueInv' /\ EntriesInv' /\ WatchInv'
<1>1. QueueInv'
  BY DEF QueueInv
<1>2. EntriesInv'
  BY EntriesFixed DEF EntriesInv
<1>3. WatchInv'
  BY DEF WatchInv
<1> QED
  BY <1>1, <1>2, <1>3

LEMMA TailOf ==
  ASSUME NEW S, NEW s \in Seq(S), s # << >>
  PROVE  /\ Head(s) = s[1] /\ Head(s) \in S /\ 1 \in 1 .. Len(s) /\ Tail(s) \in Seq(S)
         /\ Len(Tail(s)) \in Nat /\ Len(Tail(s)) = Len(s) - 1
         /\ \A k \in 1 .. Len(Tail(s)) : Tail(s)[k] = s[k + 1] /\ k + 1 \in 1 .. Len(s) /\ k + 1 # 1
  OBVIOUS

\* Dropping the first client of the queue, whether or not it gets a descriptor.
LEMMA QueueTail ==
  ASSUME QueueInv, lq # << >>, lq' = Tail(lq), UNCHANGED cli,
         \A k \in 1 .. Len(lq) : lq[k] # Head(lq) => fd'[lq[k]] = fd[lq[k]],
         \A c \in Clients : fd'[c] # 0 => fd[c] # 0 \/ c = Head(lq)
  PROVE  QueueInv'
<1>1. /\ Head(lq) = lq[1] /\ Head(lq) \in Clients /\ 1 \in 1 .. Len(lq) /\ Tail(lq) \in Seq(Clients)
      /\ \A k \in 1 .. Len(Tail(lq)) : Tail(lq)[k] = lq[k + 1] /\ k + 1 \in 1 .. Len(lq) /\ k + 1 # 1
  BY TailOf DEF QueueInv
<1>2. \A k \in 1 .. Len(lq') : cli'[lq'[k]] # "off" /\ fd'[lq'[k]] = 0
  BY <1>1 DEF QueueInv
<1>3. \A k, l \in 1 .. Len(lq') : lq'[k] = lq'[l] => k = l
  <2> SUFFICES ASSUME NEW k \in 1 .. Len(lq'), NEW l \in 1 .. Len(lq'), lq'[k] = lq'[l] PROVE k = l
    OBVIOUS
  <2>1. k + 1 = l + 1
    BY <1>1 DEF QueueInv
  <2> QED
    BY <2>1
<1>4. \A c \in Clients : fd'[c] # 0 => cli'[c] # "off"
  BY <1>1 DEF QueueInv
<1> QED
  BY <1>1, <1>2, <1>3, <1>4 DEF QueueInv

LEMMA ConnectTable ==
  ASSUME NEW c \in Clients, QueueInv /\ EntriesInv /\ WatchInv, PeerInv, Connect(c)
  PROVE  QueueInv' /\ EntriesInv' /\ WatchInv'
<1>1. /\ UNCHANGED <<kind, fd, table, maxi, allset, maxfd, pc, at>>
      /\ cli[c] = "off" /\ cli' = [cli EXCEPT ![c] = "typing"] /\ lq' = Append(lq, c)
  BY DEF Connect, tableVars, loopVars
<1>2. EntriesInv' /\ WatchInv'
  BY <1>1, EntriesFixed DEF EntriesInv, WatchInv
<1>3. \A d \in Clients : cli'[d] = IF d = c THEN "typing" ELSE cli[d]
  BY <1>1 DEF PeerInv
<1>4. /\ lq \in Seq(Clients) /\ Len(lq) \in Nat /\ lq' \in Seq(Clients) /\ Len(lq') = Len(lq) + 1
      /\ \A k \in 1 .. Len(lq) : lq[k] \in Clients
      /\ \A k \in 1 .. Len(lq') : lq'[k] = IF k = Len(lq) + 1 THEN c ELSE lq[k]
      /\ \A k \in 1 .. Len(lq') : k # Len(lq) + 1 => k \in 1 .. Len(lq)
  BY <1>1 DEF QueueInv
<1>5. \A k \in 1 .. Len(lq) : lq[k] # c
  BY <1>1 DEF QueueInv
<1>6. \A k \in 1 .. Len(lq') : cli'[lq'[k]] # "off" /\ fd'[lq'[k]] = 0
  BY <1>1, <1>3, <1>4 DEF QueueInv
<1>7. \A k, l \in 1 .. Len(lq') : lq'[k] = lq'[l] => k = l
  BY <1>4, <1>5 DEF QueueInv
<1>8. \A d \in Clients : fd'[d] # 0 => cli'[d] # "off"
  BY <1>1, <1>3 DEF QueueInv
<1> QED
  BY <1>2, <1>4, <1>6, <1>7, <1>8 DEF QueueInv

LEMMA AcceptTable ==
  ASSUME QueueInv /\ EntriesInv /\ WatchInv, kind \in {"select", "poll"}, TableAccept
  PROVE  QueueInv' /\ EntriesInv' /\ WatchInv'
<1>1. UNCHANGED <<kind, cli>> /\ lq # << >> /\ lq' = Tail(lq) /\ pc' \in {"wait", "scan"}
  BY DEF TableAccept, cliVars
<1>2. PICK f \in Fds : LowestFree(f) /\ fd' = [fd EXCEPT ![Head(lq)] = f] /\ \E i \in Free : AcceptInto(i, f)
  BY DEF TableAccept
<1>3. PICK i \in Free : AcceptInto(i, f)
  BY <1>2
<1> DEFINE h == Head(lq)
<1>4. h \in Clients /\ h = lq[1] /\ fd[h] = 0
  BY <1>1, TailOf DEF QueueInv
<1>5. f \in Nat /\ f # 0 /\ f # ListenFd /\ \A c \in Clients : fd[c] # f
  BY <1>2, FdNumbers DEF LowestFree
<1>6. /\ i \in Entries /\ i \in Nat /\ table[i] = 0
      /\ table' = [table EXCEPT ![i] = f] /\ maxi' = IF i > maxi THEN i ELSE maxi
      /\ allset' = allset \cup {f} /\ maxfd' = IF f > maxfd THEN f ELSE maxfd
  BY <1>3, EntriesNat DEF Free, AcceptInto
<1> HIDE DEF h
<1>7. \A c \in Clients : fd'[c] = IF c = h THEN f ELSE fd[c]
  BY <1>2, <1>4 DEF EntriesInv, h
<1>8. \A j \in Entries : table'[j] = IF j = i THEN f ELSE table[j]
  BY <1>6 DEF EntriesInv
<1>9. QueueInv'
  <2>1. \A k \in 1 .. Len(lq) : lq[k] \in Clients
    BY DEF QueueInv
  <2> QED
    BY <1>1, <1>7, <2>1, QueueTail DEF h
<1>10. EntriesInv'
  <2> USE EntriesFixed, <1>1
  <2>1. table' \in [Entries' -> Nat] /\ maxi' \in Nat /\ maxi' >= maxi /\ maxi' >= i /\ fd' \in [Clients -> Nat]
    <3>1. table' \in [Entries' -> Nat]
      BY <1>5, <1>6 DEF EntriesInv
    <3>2. fd' \in [Clients -> Nat]
      BY <1>2, <1>5 DEF EntriesInv
    <3>3. maxi' \in Nat /\ maxi' >= maxi /\ maxi' >= i
      BY <1>6 DEF EntriesInv
    <3> QED
      BY <3>1, <3>2, <3>3
  <2>2. /\ \A c \in Clients : fd'[c] # ListenFd
        /\ \A c, d \in Clients : fd'[c] # 0 /\ fd'[c] = fd'[d] => c = d
    BY <1>5, <1>7 DEF EntriesInv
  <2>3. ASSUME NEW j \in Entries', table'[j] # 0 PROVE j <= maxi' /\ \E c \in Clients : fd'[c] = table'[j]
    <3>1. CASE j = i
      BY <1>4, <1>6, <1>7, <1>8, <2>1, <3>1
    <3>2. CASE j # i
      <4>1. j \in Nat /\ maxi \in Nat /\ j <= maxi /\ table'[j] = table[j] /\ table[j] # 0
        BY <1>8, <2>3, <3>2, EntriesNat DEF EntriesInv
      <4>2. PICK c \in Clients : fd[c] = table[j]
        BY <4>1, <2>3 DEF EntriesInv
      <4>3. fd'[c] = table'[j]
        BY <1>4, <1>7, <4>1, <4>2
      <4> QED
        BY <2>1, <4>1, <4>3
    <3> QED
      BY <3>1, <3>2
  <2>4. ASSUME NEW c \in Clients, fd'[c] # 0 PROVE \E j \in Entries' : table'[j] = fd'[c]
    <3>1. CASE c = h
      BY <1>6, <1>7, <1>8, <3>1
    <3>2. CASE c # h
      <4>1. PICK j \in Entries : table[j] = fd[c]
        BY <1>7, <2>4, <3>2 DEF EntriesInv
      <4> QED
        BY <1>6, <1>7, <1>8, <2>4, <3>2, <4>1
    <3> QED
      BY <3>1, <3>2
  <2>5. ASSUME NEW j \in Entries', NEW k \in Entries', table'[j] # 0, table'[j] = table'[k] PROVE j = k
    <3>1. \A l \in Entries : table[l] # f
      BY <1>5 DEF EntriesInv
    <3> QED
      BY <1>8, <2>5, <3>1 DEF EntriesInv
  <2> QED
    BY <2>1, <2>2, <2>3, <2>4, <2>5 DEF EntriesInv
<1>11. WatchInv'
  <2>1. allset' \subseteq Nat /\ maxfd' \in Nat /\ ListenFd \in allset' /\ \A g \in allset' : g <= maxfd'
    BY <1>5, <1>6 DEF WatchInv
  <2>2. ASSUME NEW g \in allset' PROVE g = ListenFd \/ \E c \in Clients : g # 0 /\ fd'[c] = g
    BY <1>4, <1>5, <1>6, <1>7 DEF WatchInv
  <2>3. \A c \in Clients : fd'[c] # 0 => fd'[c] \in allset'
    BY <1>6, <1>7 DEF WatchInv
  <2> QED
    BY <2>1, <2>2, <2>3 DEF WatchInv
<1> QED
  BY <1>9, <1>10, <1>11

LEMMA ReadTable ==
  ASSUME NEW c \in Clients, NEW i \in Entries, QueueInv /\ EntriesInv /\ WatchInv, TableRead(i, c)
  PROVE  QueueInv' /\ EntriesInv' /\ WatchInv'
<1>1. UNCHANGED <<kind, cli, lq>> /\ fd[c] = table[i] /\ table[i] # 0
  BY DEF TableRead, cliVars, Stop, Marked
<1> USE EntriesFixed
<1>2. CASE UNCHANGED <<fd, tableVars>> /\ at' = i /\ pc' = "write"
  <2>1. UNCHANGED <<fd, table, maxi, allset, maxfd>>
    BY <1>2 DEF tableVars
  <2> QED
    BY <1>1, <1>2, <2>1 DEF QueueInv, EntriesInv, WatchInv
<1>3. CASE CloseEntry(i, c) /\ pc' \in {"wait", "scan"}
  <2>1. /\ fd' = [fd EXCEPT ![c] = 0] /\ table' = [table EXCEPT ![i] = 0]
        /\ allset' = allset \ {fd[c]} /\ UNCHANGED <<maxi, maxfd>>
    BY <1>3 DEF CloseEntry
  <2>2. \A d \in Clients : fd'[d] = IF d = c THEN 0 ELSE fd[d]
    BY <2>1 DEF EntriesInv
  <2>3. \A j \in Entries : table'[j] = IF j = i THEN 0 ELSE table[j]
    BY <2>1 DEF EntriesInv
  <2>4. QueueInv'
    BY <1>1, <2>2 DEF QueueInv
  <2>5. EntriesInv'
    <3>1. table' \in [Entries' -> Nat] /\ maxi' \in Nat /\ fd' \in [Clients -> Nat]
      BY <1>1, <2>1 DEF EntriesInv
    <3>2. /\ \A d \in Clients : fd'[d] # ListenFd
          /\ \A d, e \in Clients : fd'[d] # 0 /\ fd'[d] = fd'[e] => d = e
          /\ \A j, k \in Entries' : table'[j] # 0 /\ table'[j] = table'[k] => j = k
      BY <1>1, <2>2, <2>3 DEF EntriesInv, ListenFd
    <3>3. ASSUME NEW j \in Entries', table'[j] # 0 PROVE j <= maxi' /\ \E d \in Clients : fd'[d] = table'[j]
      <4>1. j \in Entries /\ j # i /\ table'[j] = table[j]
        BY <1>1, <2>3, <3>3
      <4>2. PICK d \in Clients : fd[d] = table[j]
        BY <3>3, <4>1 DEF EntriesInv
      <4>3. d # c
        BY <1>1, <4>1, <4>2 DEF EntriesInv
      <4> QED
        BY <2>1, <2>2, <3>3, <4>1, <4>2, <4>3 DEF EntriesInv
    <3>4. ASSUME NEW d \in Clients, fd'[d] # 0 PROVE \E j \in Entries' : table'[j] = fd'[d]
      <4>1. d # c /\ fd'[d] = fd[d]
        BY <2>2, <3>4
      <4>2. PICK j \in Entries : table[j] = fd[d]
        BY <3>4, <4>1 DEF EntriesInv
      <4>3. j # i
        BY <1>1, <3>4, <4>1, <4>2 DEF EntriesInv
      <4> QED
        BY <1>1, <2>3, <4>1, <4>2, <4>3
    <3> QED
      BY <1>3, <3>1, <3>2, <3>3, <3>4 DEF EntriesInv
  <2>6. WatchInv'
    <3>1. \A d \in Clients : fd'[d] # 0 => fd'[d] # fd[c] /\ fd'[d] = fd[d]
      BY <2>2 DEF EntriesInv
    <3>2. ASSUME NEW g \in allset' PROVE g <= maxfd' /\ (g = ListenFd \/ \E d \in Clients : g # 0 /\ fd'[d] = g)
      BY <2>1, <2>2 DEF WatchInv
    <3>3. allset' \subseteq Nat /\ maxfd' \in Nat /\ ListenFd \in allset'
      BY <2>1 DEF WatchInv, EntriesInv
    <3> QED
      BY <2>1, <3>1, <3>2, <3>3 DEF WatchInv
  <2> QED
    BY <2>4, <2>5, <2>6
<1>4. CASE UNCHANGED <<fd, tableVars, at, pc>>
  <2>1. UNCHANGED <<fd, table, maxi, allset, maxfd, at, pc>>
    BY <1>4 DEF tableVars
  <2> QED
    BY <1>1, <2>1 DEF QueueInv, EntriesInv, WatchInv
<1>5. CASE UNCHANGED <<fd, tableVars>> /\ pc' = "overrun"
  <2>1. UNCHANGED <<fd, table, maxi, allset, maxfd>>
    BY <1>5 DEF tableVars
  <2> QED
    BY <1>1, <1>5, <2>1 DEF QueueInv, EntriesInv, WatchInv
<1> QED
  BY <1>2, <1>3, <1>4, <1>5 DEF TableRead, Looked

LEMMA NextTable == PeerInv /\ TableInv /\ [Next]_vars => TableInv'
<1> SUFFICES ASSUME PeerInv, QueueInv /\ EntriesInv /\ WatchInv, [Next]_vars, kind \in {"select", "poll"}
             PROVE  QueueInv' /\ EntriesInv' /\ WatchInv'
  BY KindStays DEF TableInv
<1>0. kind' = kind
  BY KindStays
<1>1. ASSUME NEW c \in Clients,
             \/ (\E n \in Lengths : TypeLine(c, n)) \/ GetLine(c) \/ Leave(c)
             \/ Deliver(c) \/ Lost(c) \/ Child(c) \/ TableWrite(c)
      PROVE  QueueInv' /\ EntriesInv' /\ WatchInv'
  <2>1. UNCHANGED <<lq, fd, table, maxi, allset, maxfd>> /\ (pc' # "write" \/ UNCHANGED <<pc, at>>)
    BY <1>1 DEF TypeLine, GetLine, Leave, Deliver, Lost, Child, ChildRead, ChildWrite, TableWrite, Looked,
       tableVars, loopVars
  <2>2. \A d \in Clients : cli[d] # "off" => cli'[d] # "off"
    BY <1>1 DEF TypeLine, GetLine, Leave, Deliver, Lost, Child, ChildRead, ChildWrite, TableWrite, cliVars, PeerInv
  <2> QED
    BY <1>0, <2>1, <2>2, TableFrame
<1>2. ASSUME NEW c \in Clients, Connect(c) PROVE QueueInv' /\ EntriesInv' /\ WatchInv'
  BY <1>2, ConnectTable
<1>3. CASE HandlerStarts \/ Reap \/ HandlerEnds \/ Wait \/ TooManyClients \/ UNCHANGED vars
  <2>1. UNCHANGED <<lq, cli, fd, table, maxi, allset, maxfd>> /\ (pc' # "write" \/ UNCHANGED <<pc, at>>)
    BY <1>3 DEF HandlerStarts, Reap, HandlerEnds, Wait, TooManyClients, vars, cliVars, tableVars, loopVars
  <2> QED
    BY <1>0, <2>1, TableFrame
<1>4. CASE AcceptAborted
  <2>1. UNCHANGED <<cli, fd, table, maxi, allset, maxfd, pc, at>> /\ lq # << >> /\ lq' = Tail(lq)
    BY <1>4 DEF AcceptAborted, cliVars, tableVars, loopVars
  <2>2. QueueInv'
    BY <2>1, QueueTail
  <2> QED
    BY <1>0, <2>1, <2>2, EntriesFixed DEF EntriesInv, WatchInv
<1>5. CASE TableAccept
  BY <1>5, AcceptTable
<1>6. ASSUME NEW c \in Clients, NEW i \in Entries, TableRead(i, c) PROVE QueueInv' /\ EntriesInv' /\ WatchInv'
  BY <1>6, ReadTable
<1>7. RefuseAccept \/ ForkAccept \/ EpollWait \/ EpollAccept
        \/ (\E c \in Clients : EpollRead(c) \/ EpollWrite(c)) => FALSE
  BY DEF RefuseAccept, ForkAccept, EpollWait, EpollAccept, EpollRead, EpollWrite
<1> QED
  BY <1>1, <1>2, <1>3, <1>4, <1>5, <1>6, <1>7 DEF Next, Server

-----------------------------------------------------------------------------
(* What ends a server stays to be seen: a connection of it that was broken,  *)
(* the full table or the full buffer.  The epoll server looks at open        *)
(* descriptors only.                                                         *)
EpollAt == kind = "epoll" => 0 \notin ready /\ (pc = "write" => at # 0)

IntactInv == PeerInv /\ TableInv /\ EpollAt /\ StaysUp

LEMMA NextEpollAt == EpollInv /\ EpollAt /\ [Next]_vars => EpollAt'
<1> SUFFICES ASSUME EpollInv, EpollAt, [Next]_vars, kind = "epoll"
             PROVE  0 \notin ready' /\ (pc' = "write" => at' # 0)
  BY KindStays DEF EpollAt
<1>1. ASSUME NEW c \in Clients,
             \/ Connect(c) \/ (\E n \in Lengths : TypeLine(c, n)) \/ GetLine(c) \/ Leave(c)
             \/ Deliver(c) \/ Lost(c) \/ Child(c)
      PROVE  UNCHANGED <<ready, pc, at>>
  BY <1>1 DEF Connect, TypeLine, GetLine, Leave, Deliver, Lost, Child, ChildRead, ChildWrite, loopVars
<1>2. CASE EpollWait
  BY <1>2 DEF EpollWait, ReadableFds, ListenFd
<1>3. CASE EpollAccept
  BY <1>3 DEF EpollAccept, Took, EpollAt
<1>4. ASSUME NEW c \in Clients, EpollRead(c) PROVE 0 \notin ready' /\ (pc' = "write" => at' # 0)
  BY <1>4 DEF EpollRead, Took, EpollAt
<1>5. ASSUME NEW c \in Clients, EpollWrite(c) PROVE 0 \notin ready' /\ (pc' = "write" => at' # 0)
  <2>1. at' = 1 /\ (ready' = ready \/ ready' = ready \ {at})
    BY <1>5 DEF EpollWrite, Took
  <2>2. 0 \notin ready
    BY DEF EpollAt
  <2> QED
    BY <2>1, <2>2
<1>6. CASE AcceptAborted \/ RefuseAccept \/ ForkAccept \/ HandlerStarts \/ Reap \/ HandlerEnds
             \/ Wait \/ TableAccept \/ TooManyClients
             \/ (\E c \in Clients : TableWrite(c) \/ \E i \in Entries : TableRead(i, c))
             \/ UNCHANGED vars
  <2>1. UNCHANGED <<ready, pc, at>>
    BY <1>6 DEF AcceptAborted, RefuseAccept, ForkAccept, HandlerStarts, Reap, HandlerEnds,
       Wait, TableAccept, TooManyClients, TableRead, TableWrite, Scans, vars, loopVars
  <2> QED
    BY <2>1 DEF EpollAt
<1> QED
  BY <1>1, <1>2, <1>3, <1>4, <1>5, <1>6 DEF Next, Server, EpollAt

LEMMA NextStaysUp == IntactInv /\ [Next]_vars => StaysUp'
<1> SUFFICES ASSUME IntactInv, [Next]_vars, ~up' PROVE StaysUp'
  BY DEF StaysUp
<1>0. kind' = kind /\ Entries' = Entries
  BY KindStays, EntriesFixed
<1>1. CASE ~up
  <2>1. UNCHANGED <<fd, table, pc>>
    <3>1. ASSUME NEW c \in Clients,
                 \/ Connect(c) \/ (\E n \in Lengths : TypeLine(c, n)) \/ GetLine(c) \/ Leave(c)
                 \/ Deliver(c) \/ Lost(c) \/ Child(c)
          PROVE  UNCHANGED <<fd, table, pc>>
      BY <3>1 DEF Connect, TypeLine, GetLine, Leave, Deliver, Lost, Child, ChildRead, ChildWrite,
         tableVars, loopVars
    <3>2. CASE Server
      BY <1>1, <3>2 DEF Server, AcceptAborted, RefuseAccept, ForkAccept, HandlerStarts, Reap, HandlerEnds,
         Wait, TableAccept, TooManyClients, EpollWait, EpollAccept, TableRead, TableWrite,
         EpollRead, EpollWrite, Scans, tableVars, loopVars
    <3> QED
      BY <3>1, <3>2 DEF Next, vars, tableVars, loopVars
  <2>2. UNCHANGED ended
    <3>1. ASSUME NEW c \in Clients,
                 \/ Connect(c) \/ (\E n \in Lengths : TypeLine(c, n)) \/ GetLine(c) \/ Leave(c)
                 \/ Deliver(c) \/ Lost(c) \/ Child(c)
          PROVE  UNCHANGED ended
      BY <1>1, <3>1 DEF Connect, TypeLine, GetLine, Leave, Deliver, Lost, Child, ChildRead, ChildWrite, netVars
    <3>2. CASE Server
      BY <3>2 DEF Server, AcceptAborted, RefuseAccept, ForkAccept, HandlerStarts, Reap, HandlerEnds,
         Wait, TableAccept, TooManyClients, EpollWait, EpollAccept, TableRead, TableWrite,
         EpollRead, EpollWrite, netVars
    <3> QED
      BY <3>1, <3>2 DEF Next, vars, netVars
  <2> QED
    BY <1>0, <1>1, <2>1, <2>2 DEF IntactInv, StaysUp, Free, Broken
<1>2. CASE up
  <2>1. CASE TooManyClients
    BY <1>0, <2>1 DEF TooManyClients, Scans, StaysUp, Free, tableVars, loopVars
  <2>2. ASSUME NEW c \in Clients, NEW i \in Entries, TableRead(i, c) PROVE StaysUp'
    <3>1. kind' \in {"select", "poll"} /\ fd[c] # 0
      BY <1>0, <2>2 DEF TableRead, Scans, Stop, Marked
    <3>2. pc' = "overrun" \/ (Fatal(c) /\ UNCHANGED <<fd, ended>>)
      BY <1>2, <2>2 DEF TableRead
    <3>3. Fatal(c) => Broken(c)
      BY DEF Fatal, Broken
    <3> QED
      BY <3>1, <3>2, <3>3 DEF StaysUp, Broken
  <2>3. ASSUME NEW c \in Clients, TableWrite(c) PROVE StaysUp'
    <3>1. fd[c] = table[at] /\ table[at] # 0 /\ Broken(c) /\ UNCHANGED <<fd, ended>>
      BY <1>2, <2>3 DEF TableWrite, Scans, IntactInv, TableInv, EntriesInv
    <3> QED
      BY <3>1 DEF StaysUp, Broken
  <2>4. ASSUME NEW c \in Clients, EpollWrite(c) PROVE StaysUp'
    <3>1. fd[c] # 0 /\ Broken(c) /\ UNCHANGED <<fd, ended>>
      BY <1>2, <2>4 DEF EpollWrite, IntactInv, EpollAt
    <3> QED
      BY <3>1 DEF StaysUp, Broken
  <2>5. ASSUME NEW c \in Clients,
               \/ Connect(c) \/ (\E n \in Lengths : TypeLine(c, n)) \/ GetLine(c) \/ Leave(c)
               \/ Deliver(c) \/ Lost(c) \/ Child(c)
        PROVE  FALSE
    BY <1>2, <2>5 DEF Connect, TypeLine, GetLine, Leave, Deliver, Lost, Child, ChildRead, ChildWrite
  <2>6. AcceptAborted \/ RefuseAccept \/ ForkAccept \/ HandlerStarts \/ Reap \/ HandlerEnds
          \/ Wait \/ TableAccept \/ EpollWait \/ EpollAccept \/ UNCHANGED vars => FALSE
    BY <1>2 DEF AcceptAborted, RefuseAccept, ForkAccept, HandlerStarts, Reap, HandlerEnds,
       Wait, TableAccept, EpollWait, EpollAccept, vars
  <2>7. ASSUME NEW c \in Clients, EpollRead(c) PROVE StaysUp'
    <3>1. kind' = "epoll" /\ fd[c] # 0
      BY <1>0, <2>7 DEF EpollRead, IntactInv, EpollAt
    <3>2. pc' = "overrun" \/ (ended[c] = "err" /\ UNCHANGED <<fd, ended>>)
      BY <1>2, <2>7 DEF EpollRead
    <3> QED
      BY <3>1, <3>2 DEF StaysUp, Broken
  <2> QED
    BY <2>1, <2>2, <2>3, <2>4, <2>5, <2>6, <2>7 DEF Next, Server
<1> QED
  BY <1>1, <1>2

(* Clients that come, go, abort and follow each other on a descriptor leave  *)
(* client[], maxi, allset and maxfd of main_3 and main_4 in agreement with   *)
(* the open connections, and every server up unless a connection of it was   *)
(* broken, its table is full or a read has filled its buffer to the end.     *)
THEOREM ServersIntact == Spec => []ServerIntact
<1>1. Init => EpollInv /\ IntactInv
  <2>1. Init => PeerInv
    BY DEF Init, All, PeerInv
  <2>2. Init => EpollAt /\ StaysUp
    BY DEF Init, EpollAt, StaysUp
  <2> QED
    BY <2>1, <2>2, InitEpoll, InitTable DEF IntactInv
<1>2. (EpollInv /\ IntactInv) /\ [Next]_vars => (EpollInv /\ IntactInv)'
  BY NextEpoll, NextPeer, NextTable, NextEpollAt, NextStaysUp DEF IntactInv
<1>3. IntactInv => ServerIntact
  <2> SUFFICES ASSUME IntactInv PROVE TableExact
    BY DEF IntactInv, ServerIntact
  <2> SUFFICES ASSUME kind \in {"select", "poll"}
               PROVE  LET used == {table[i] : i \in Entries} \ {0} IN
                      /\ used = {fd[c] : c \in Clients} \ {0}
                      /\ \A i \in Entries : table[i] # 0 => i <= maxi
                      /\ kind = "select" => /\ allset = used \cup {ListenFd}
                                            /\ \A f \in allset : f <= maxfd
    BY DEF TableExact, Scans
  <2> DEFINE used == {table[i] : i \in Entries} \ {0}
  <2>1. EntriesInv /\ WatchInv
    BY DEF IntactInv, TableInv
  <2>2. used = {fd[c] : c \in Clients} \ {0}
    BY <2>1 DEF EntriesInv
  <2>3. allset = used \cup {ListenFd}
    BY <2>1, <2>2 DEF WatchInv
  <2> QED
    BY <2>1, <2>2, <2>3 DEF EntriesInv, WatchInv
<1> QED
  BY <1>1, <1>2, <1>3, PTL DEF Spec
=============================================================================
