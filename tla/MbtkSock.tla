------------------------------ MODULE MbtkSock ------------------------------
(* The table of client sockets of lib/mbtk_sock.c: mbtk_sock_open,           *)
(* mbtk_sock_conn and mbtk_sock_close, called one after the other by one     *)
(* thread, together with the kernel's sockets and the one alarm timer of the *)
(* process.  A call that waits (select in a non-blocking connect, connect in *)
(* a blocking one) is two steps, so that the network and the alarm fall in   *)
(* between.                                                                  *)
EXTENDS Integers

CONSTANTS
  MBTK_SOCK_NUM_MAX,  \* slots of mbtk_socks
  MaxFd,              \* descriptors are 1 .. MaxFd, the kernel gives the lowest free one
  MaxCalls            \* bound on the calls the program makes

ASSUME SlotsAssumption == MBTK_SOCK_NUM_MAX \in Nat \ {0}
ASSUME FdAssumption == MaxFd \in Nat \ {0}
ASSUME CallsAssumption == MaxCalls \in Nat

VARIABLES
  fd,           \* mbtk_socks[i].fd: 0 unused, -1 after a failed socket()
  is_sync,      \* mbtk_socks[i].is_sync
  kern,         \* the kernel's state of every descriptor
  alarm,        \* ITIMER_REAL is running
  waiting,      \* the slot whose mbtk_sock_conn waits, -1 for none
  said,         \* slots whose mbtk_sock_conn returned 0
  interrupted,  \* slots whose select an alarm interrupted
  calls

vars == <<fd, is_sync, kern, alarm, waiting, said, interrupted, calls>>

Slots == 0 .. MBTK_SOCK_NUM_MAX - 1
Fds == 1 .. MaxFd
KernStates == {"closed", "new", "connecting", "connected", "refused"}

\* What every other action of the program needs: no call under way.
Ready == waiting = -1 /\ calls < MaxCalls
Called == calls' = calls + 1

\* mbtk_socks is zeroed; epoll_fd is -1 and nothing ever creates it, so the
\* epoll_ctl after an asynchronous connect registers nothing.
Init ==
  /\ fd = [i \in Slots |-> 0]
  /\ is_sync = [i \in Slots |-> FALSE]
  /\ kern = [f \in Fds |-> "closed"]
  /\ alarm = FALSE /\ waiting = -1 /\ calls = 0
  /\ said = {} /\ interrupted = {}

-----------------------------------------------------------------------------
(* The search for a free slot stops at the first one whose descriptor is not *)
(* positive; the kernel gives the lowest free descriptor.                    *)
FirstUnused(i) == fd[i] <= 0 /\ \A j \in Slots : j < i => fd[j] > 0
NewFd(f) == kern[f] = "closed" /\ \A g \in Fds : g < f => kern[g] # "closed"

\* mbtk_sock_open with every slot taken, or socket() failing: the slot that
\* was looked at keeps the -1.
OpenFails ==
  /\ Ready
  /\ \/ (\A i \in Slots : fd[i] > 0) /\ UNCHANGED fd
     \/ \E i \in Slots : FirstUnused(i) /\ fd' = [fd EXCEPT ![i] = -1]
  /\ Called
  /\ UNCHANGED <<is_sync, kern, alarm, waiting, said, interrupted>>

\* The socket exists but fcntl fails: closed again and the slot zeroed.
OpenUndone(i) ==
  /\ Ready /\ FirstUnused(i)
  /\ fd' = [fd EXCEPT ![i] = 0]
  /\ is_sync' = [is_sync EXCEPT ![i] = FALSE]
  /\ Called
  /\ UNCHANGED <<kern, alarm, waiting, said, interrupted>>

\* sync: no callback was given.
Open(i, f, sync) ==
  /\ Ready /\ FirstUnused(i) /\ NewFd(f)
  /\ fd' = [fd EXCEPT ![i] = f]
  /\ is_sync' = [is_sync EXCEPT ![i] = sync]
  /\ kern' = [kern EXCEPT ![f] = "new"]
  /\ Called
  /\ UNCHANGED <<alarm, waiting, said, interrupted>>

-----------------------------------------------------------------------------
(* result_fail_with_close and mbtk_sock_close: the descriptor is closed and  *)
(* the slot zeroed.                                                          *)
ReleaseKeepsSlot(i) ==
  /\ kern' = [kern EXCEPT ![fd[i]] = "closed"]
  /\ said' = said \ {i}
  /\ interrupted' = interrupted \ {i}
  /\ UNCHANGED <<fd, is_sync>>

Release(i) ==
  /\ kern' = [kern EXCEPT ![fd[i]] = "closed"]
  /\ fd' = [fd EXCEPT ![i] = 0]
  /\ is_sync' = [is_sync EXCEPT ![i] = FALSE]
  /\ said' = said \ {i}
  /\ interrupted' = interrupted \ {i}

\* result_success: the slot stays as it is and 0 is returned.
Success(i) ==
  /\ said' = said \cup {i}
  /\ UNCHANGED <<fd, is_sync>>

\* The slot a descriptor names; a descriptor that is not positive names none.
SlotOf(f) == {i \in Slots : f > 0 /\ fd[i] = f}

\* mbtk_sock_conn or mbtk_sock_close of a descriptor no slot has.
NoSuchFd(f) ==
  /\ Ready /\ SlotOf(f) = {}
  /\ Called
  /\ UNCHANGED <<fd, is_sync, kern, alarm, waiting, said, interrupted>>

\* The host does not resolve, setitimer fails, or connect() fails at once, as
\* it does on a socket that connects, and on one that is connected.
ConnRefused(i) ==
  /\ Ready /\ fd[i] > 0
  /\ Release(i)
  /\ alarm' \in (IF is_sync[i] THEN {alarm, TRUE} ELSE {alarm})
  /\ Called
  /\ UNCHANGED waiting

\* connect() of a non-blocking socket starts (EINPROGRESS) or is done at once;
\* Linux also gives 0 to the first connect() after an asynchronous one has
\* ended well (how often is not counted).  select waits next.
ConnAsync(i) ==
  /\ Ready /\ fd[i] > 0 /\ ~is_sync[i]
  /\ \/ /\ kern[fd[i]] = "new"
        /\ \E s \in {"connecting", "connected"} : kern' = [kern EXCEPT ![fd[i]] = s]
     \/ kern[fd[i]] = "connected" /\ UNCHANGED kern
  /\ waiting' = i
  /\ Called
  /\ UNCHANGED <<fd, is_sync, alarm, said, interrupted>>

ConnSyncNoTimer(i) ==
  /\ Ready /\ fd[i] > 0 /\ is_sync[i] /\ kern[fd[i]] = "new"
  /\ kern' = [kern EXCEPT ![fd[i]] = "connecting"]
  /\ waiting' = i
  /\ Called
  /\ UNCHANGED <<fd, is_sync, alarm, said, interrupted>>

\* A blocking socket: the alarm is set to 10.5 s and connect() waits.
ConnSync(i) ==
  /\ Ready /\ fd[i] > 0 /\ is_sync[i] /\ kern[fd[i]] = "new"
  /\ kern' = [kern EXCEPT ![fd[i]] = "connecting"]
  /\ alarm' = TRUE
  /\ waiting' = i
  /\ Called
  /\ UNCHANGED <<fd, is_sync, said, interrupted>>

-----------------------------------------------------------------------------
(* select returns: after 10 s, when the handshake ended, or with -1 because  *)
(* the alarm went off.  The -1 is not looked at: both sets still hold the    *)
(* descriptor, so SO_ERROR decides, which is 0 while the handshake lasts.    *)
SelectTimeout(i) ==
  /\ waiting = i /\ ~is_sync[i] /\ kern[fd[i]] = "connecting"
  /\ Release(i)
  /\ waiting' = -1
  /\ UNCHANGED <<alarm, calls>>

SelectReadyNoError(i) ==
  /\ waiting = i /\ ~is_sync[i] /\ kern[fd[i]] \in {"connected", "refused"}
  /\ Success(i)
  /\ waiting' = -1
  /\ UNCHANGED <<kern, interrupted, alarm, calls>>

SelectReady(i) ==
  /\ waiting = i /\ ~is_sync[i] /\ kern[fd[i]] \in {"connected", "refused"}
  /\ IF kern[fd[i]] = "connected"
     THEN Success(i) /\ UNCHANGED <<kern, interrupted>>
     ELSE Release(i)
  /\ waiting' = -1
  /\ UNCHANGED <<alarm, calls>>

SelectInterrupted(i) ==
  /\ waiting = i /\ ~is_sync[i] /\ alarm
  /\ alarm' = FALSE
  /\ IF kern[fd[i]] # "refused"
     THEN Success(i) /\ interrupted' = interrupted \cup {i} /\ UNCHANGED kern
     ELSE Release(i)
  /\ waiting' = -1
  /\ UNCHANGED calls

\* A blocking connect() returns: connected, with the alarm switched off;
\* refused, with the alarm left running; or interrupted by the alarm (the
\* library's own signal() does not ask for a restart after SIGALRM).
ConnectDone(i) ==
  /\ waiting = i /\ is_sync[i] /\ kern[fd[i]] = "connected"
  /\ Success(i)
  /\ alarm' = FALSE
  /\ waiting' = -1
  /\ UNCHANGED <<kern, interrupted, calls>>

ConnectFailed(i) ==
  /\ waiting = i /\ is_sync[i]
  /\ \/ kern[fd[i]] = "refused" /\ UNCHANGED alarm
     \/ kern[fd[i]] = "connecting" /\ alarm /\ alarm' = FALSE
  /\ Release(i)
  /\ waiting' = -1
  /\ UNCHANGED calls

Close(i) ==
  /\ Ready /\ fd[i] > 0
  /\ Release(i)
  /\ Called
  /\ UNCHANGED <<alarm, waiting>>

-----------------------------------------------------------------------------
(* The network ends a handshake, and sig_alrm between two calls.             *)
Handshake(f) ==
  /\ kern[f] = "connecting"
  /\ \E s \in {"connected", "refused"} : kern' = [kern EXCEPT ![f] = s]
  /\ UNCHANGED <<fd, is_sync, alarm, waiting, said, interrupted, calls>>

Alarm ==
  /\ alarm /\ waiting = -1
  /\ alarm' = FALSE
  /\ UNCHANGED <<fd, is_sync, kern, waiting, said, interrupted, calls>>

Return(i) ==
  SelectTimeout(i) \/ SelectReady(i) \/ SelectInterrupted(i) \/ ConnectDone(i) \/ ConnectFailed(i)

Next ==
  \/ OpenFails
  \/ \E i \in Slots : OpenUndone(i) \/ \E f \in Fds, sync \in BOOLEAN : Open(i, f, sync)
  \/ \E f \in 0 .. MaxFd : NoSuchFd(f)
  \/ \E i \in Slots : ConnRefused(i) \/ ConnAsync(i) \/ ConnSync(i) \/ Return(i) \/ Close(i)
  \/ \E f \in Fds : Handshake(f)
  \/ Alarm

Spec == Init /\ [][Next]_vars

\* The waits are bounded by the code: select by its 10 s, connect by the alarm.
\* Nothing is assumed of the network.
FairSpec == Spec /\ \A i \in Slots : WF_vars(Return(i))

-----------------------------------------------------------------------------
\* The slots hold descriptors, -1 or 0, and the kernel knows its sockets.
TypeOK ==
  /\ fd \in [Slots -> {-1, 0} \cup Fds]
  /\ is_sync \in [Slots -> BOOLEAN]
  /\ kern \in [Fds -> KernStates]
  /\ alarm \in BOOLEAN
  /\ waiting \in {-1} \cup Slots
  /\ said \in SUBSET Slots
  /\ interrupted \in SUBSET Slots
  /\ calls \in 0 .. MaxCalls

\* Every open descriptor of the library is in exactly one slot, and no slot
\* names a closed one: open, a failed connect and close neither lose a
\* descriptor nor leave one behind that the kernel will give out again.
SlotOwnsFd ==
  /\ \A i \in Slots : fd[i] > 0 => kern[fd[i]] # "closed"
  /\ \A i, j \in Slots : fd[i] > 0 /\ fd[i] = fd[j] => i = j
  /\ \A f \in Fds : kern[f] # "closed" => \E i \in Slots : fd[i] = f

\* mbtk_sock_conn returns 0 only for a connected socket, except when an alarm
\* interrupted the select of a non-blocking connect.
ReportedIsConnected ==
  \A i \in said : kern[fd[i]] # "connected" => i \in interrupted

\* mbtk_sock_conn returns, whatever the network does: a handshake that never
\* ends is given up by the limit of select or by the alarm.
ConnReturns == \A i \in Slots : waiting = i ~> waiting = -1
=============================================================================
