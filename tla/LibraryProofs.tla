--------------------------- MODULE LibraryProofs ----------------------------
(* Four parts of lib that the caller runs in one thread.  The slots of      *)
(* mbtk_sock.c and the descriptors of the kernel agree, for any number of    *)
(* slots, descriptors and calls, and mbtk_sock_conn reports a connection     *)
(* only where there is one.  Calls of http_get do not notice each other, for *)
(* any request, answer and line length.  The log of m_log.c does what the    *)
(* last log_init asked for, for any set of paths.  And the queues of         *)
(* m_queue.c and the lists of m_list.c keep their items in order and every   *)
(* cell with one owner, whichever freed cell malloc gives again.             *)
EXTENDS MbtkSock, HttpGet, MLog, MList, WellFoundedInduction, TLAPS

-----------------------------------------------------------------------------
(* mbtk_sock.c                                                               *)

(* What a slot must have for the calls to be right: a call that waits, and a *)
(* connection that was reported, are of a slot with a descriptor.            *)
InUse == (waiting # -1 => fd[waiting] > 0) /\ (\A i \in said : fd[i] > 0)

IInv == TypeOK /\ SlotOwnsFd /\ InUse /\ ReportedIsConnected

(* Release gives back one descriptor and empties the slot that had it; the   *)
(* other slots keep theirs.                                                  *)
LEMMA ReleaseKeeps ==
  ASSUME IInv, NEW i \in Slots, fd[i] > 0, Release(i), waiting' \in {-1, waiting},
         waiting' # i, alarm' \in BOOLEAN, calls' \in 0 .. MaxCalls
  PROVE  IInv'
<1> USE SlotsAssumption, FdAssumption, CallsAssumption
<1>1. TypeOK'
  BY DEF IInv, TypeOK, Release, Slots, Fds, KernStates
<1>2. SlotOwnsFd'
  BY DEF IInv, TypeOK, SlotOwnsFd, Release, Slots, Fds, KernStates
<1>3. InUse'
  BY DEF IInv, TypeOK, InUse, Release, Slots, Fds, KernStates
<1>4. ReportedIsConnected'
  BY DEF IInv, TypeOK, SlotOwnsFd, InUse, ReportedIsConnected, Release, Slots, Fds, KernStates
<1> QED
  BY <1>1, <1>2, <1>3, <1>4 DEF IInv

(* A connect that ends well leaves slots and descriptors as they are.        *)
LEMMA SuccessKeeps ==
  ASSUME IInv, NEW i \in Slots, fd[i] > 0, Success(i), kern' = kern, waiting' = -1,
         alarm' \in BOOLEAN, calls' = calls,
         interrupted' \in {interrupted, interrupted \cup {i}},
         kern[fd[i]] # "connected" => i \in interrupted'
  PROVE  IInv'
<1>1. TypeOK'
  BY DEF IInv, TypeOK, Success
<1>2. SlotOwnsFd' /\ InUse'
  BY DEF IInv, SlotOwnsFd, InUse, Success
<1>3. ReportedIsConnected'
  BY DEF IInv, ReportedIsConnected, Success
<1> QED
  BY <1>1, <1>2, <1>3 DEF IInv

(* The state of one open descriptor changes, and it stays open: what was     *)
(* reported does not suffer unless it was that of a connected socket.        *)
LEMMA KernKeeps ==
  ASSUME IInv, NEW f \in Fds, NEW s \in KernStates \ {"closed"},
         kern[f] \in {"new", "connecting"}, kern' = [kern EXCEPT ![f] = s],
         UNCHANGED <<fd, is_sync, said, interrupted>>,
         waiting' \in {waiting} \cup Slots, waiting' # waiting => fd[waiting'] > 0,
         alarm' \in BOOLEAN, calls' \in 0 .. MaxCalls
  PROVE  IInv'
<1>1. TypeOK'
  BY DEF IInv, TypeOK, Slots, Fds, KernStates
<1>2. SlotOwnsFd' /\ InUse'
  BY DEF IInv, TypeOK, SlotOwnsFd, InUse, Slots, Fds, KernStates
<1>3. ReportedIsConnected'
  BY DEF IInv, TypeOK, InUse, ReportedIsConnected, Slots, Fds, KernStates
<1> QED
  BY <1>1, <1>2, <1>3 DEF IInv

LEMMA InitIInv == Init => IInv
<1> SUFFICES ASSUME Init PROVE IInv
  OBVIOUS
<1>1. TypeOK
  <2>1. is_sync \in [Slots -> BOOLEAN] /\ alarm \in BOOLEAN
    BY DEF Init
  <2>2. kern \in [Fds -> KernStates]
    BY DEF Init, KernStates
  <2>3. fd \in [Slots -> {-1, 0} \cup Fds] /\ waiting \in {-1} \cup Slots
    BY DEF Init
  <2>4. said \in SUBSET Slots /\ interrupted \in SUBSET Slots /\ calls \in 0 .. MaxCalls
    BY CallsAssumption DEF Init
  <2> QED
    BY <2>1, <2>2, <2>3, <2>4 DEF TypeOK
<1>2. SlotOwnsFd /\ InUse /\ ReportedIsConnected
  BY DEF Init, SlotOwnsFd, InUse, ReportedIsConnected
<1> QED
  BY <1>1, <1>2 DEF IInv

LEMMA NextIInv == IInv /\ [Next]_vars => IInv'
<1> SUFFICES ASSUME IInv, [Next]_vars PROVE IInv'
  OBVIOUS
<1> USE SlotsAssumption, FdAssumption, CallsAssumption
<1>0. /\ -1 \notin Slots /\ alarm \in BOOLEAN /\ calls \in 0 .. MaxCalls
      /\ Ready /\ Called => calls' \in 0 .. MaxCalls
  BY DEF IInv, TypeOK, Slots, Ready, Called
<1>1. CASE OpenFails
  <2>1. TypeOK'
    BY <1>0, <1>1 DEF IInv, TypeOK, OpenFails, Slots, Fds
  <2>2. SlotOwnsFd'
    <3>1. ASSUME NEW i \in Slots, FirstUnused(i), fd' = [fd EXCEPT ![i] = -1] PROVE SlotOwnsFd'
      <4>1. \A j \in Slots : fd'[j] = IF j = i THEN -1 ELSE fd[j]
        BY <3>1 DEF IInv, TypeOK
      <4>2. fd[i] <= 0 /\ kern' = kern
        BY <1>1, <3>1 DEF FirstUnused, OpenFails
      <4> QED
        BY <4>1, <4>2 DEF IInv, TypeOK, SlotOwnsFd, Slots, Fds
    <3>2. CASE UNCHANGED <<fd, kern>>
      BY <3>2 DEF IInv, SlotOwnsFd
    <3> QED
      BY <1>1, <3>1, <3>2 DEF OpenFails
  <2>3. InUse'
    BY <1>1 DEF IInv, TypeOK, InUse, OpenFails, Ready, FirstUnused, Slots, Fds
  <2>4. ReportedIsConnected'
    BY <1>1 DEF IInv, TypeOK, InUse, ReportedIsConnected, OpenFails, FirstUnused, Slots, Fds
  <2> QED
    BY <2>1, <2>2, <2>3, <2>4 DEF IInv
<1>2. ASSUME NEW i \in Slots, OpenUndone(i) PROVE IInv'
  <2>1. TypeOK'
    BY <1>0, <1>2 DEF IInv, TypeOK, OpenUndone, Slots, Fds
  <2>2. SlotOwnsFd'
    BY <1>2 DEF IInv, TypeOK, SlotOwnsFd, OpenUndone, FirstUnused, Slots, Fds
  <2>3. InUse'
    BY <1>2 DEF IInv, TypeOK, InUse, OpenUndone, Ready, FirstUnused, Slots, Fds
  <2>4. ReportedIsConnected'
    BY <1>2 DEF IInv, TypeOK, InUse, ReportedIsConnected, OpenUndone, FirstUnused, Slots, Fds
  <2> QED
    BY <2>1, <2>2, <2>3, <2>4 DEF IInv
<1>3. ASSUME NEW i \in Slots, NEW f \in Fds, NEW sync \in BOOLEAN, Open(i, f, sync) PROVE IInv'
  <2>1. TypeOK'
    BY <1>0, <1>3 DEF IInv, TypeOK, Open, Slots, Fds, KernStates
  <2>a. \A j \in Slots : fd'[j] = IF j = i THEN f ELSE fd[j]
    BY <1>3 DEF IInv, TypeOK, Open
  <2>b. \A g \in Fds : kern'[g] = IF g = f THEN "new" ELSE kern[g]
    BY <1>3 DEF IInv, TypeOK, Open
  <2>c. fd[i] <= 0 /\ kern[f] = "closed" /\ f > 0
    BY <1>3 DEF Open, FirstUnused, NewFd, Fds
  <2>d. \A j \in Slots : fd[j] > 0 => fd[j] \in Fds /\ fd[j] # f
    BY <2>c DEF IInv, TypeOK, SlotOwnsFd, Fds
  <2>2. SlotOwnsFd'
    <3>1. (\A j \in Slots : fd[j] > 0 => kern[fd[j]] # "closed")'
      BY <2>a, <2>b, <2>c, <2>d DEF IInv, SlotOwnsFd
    <3>2. (\A j, k \in Slots : fd[j] > 0 /\ fd[j] = fd[k] => j = k)'
      BY <2>a, <2>c, <2>d DEF IInv, SlotOwnsFd
    <3>3. (\A g \in Fds : kern[g] # "closed" => \E j \in Slots : fd[j] = g)'
      <4> SUFFICES ASSUME NEW g \in Fds, kern'[g] # "closed" PROVE \E j \in Slots : fd'[j] = g
        OBVIOUS
      <4>1. CASE g = f
        BY <2>a, <4>1
      <4>2. CASE g # f
        <5>1. PICK j \in Slots : fd[j] = g
          BY <2>b, <4>2 DEF IInv, SlotOwnsFd
        <5> QED
          BY <2>a, <2>c, <5>1 DEF Fds
      <4> QED
        BY <4>1, <4>2
    <3> QED
      BY <3>1, <3>2, <3>3 DEF SlotOwnsFd
  <2>3. InUse'
    BY <1>3 DEF IInv, TypeOK, InUse, Open, Ready, FirstUnused, Slots, Fds
  <2>4. ReportedIsConnected'
    <3>1. \A j \in said : j \in Slots /\ fd[j] > 0 /\ fd'[j] = fd[j] /\ kern'[fd[j]] = kern[fd[j]]
      <4> SUFFICES ASSUME NEW j \in said
                   PROVE j \in Slots /\ fd[j] > 0 /\ fd'[j] = fd[j] /\ kern'[fd[j]] = kern[fd[j]]
        OBVIOUS
      <4>1. j \in Slots /\ fd[j] > 0 /\ fd[j] \in Int
        BY DEF IInv, TypeOK, InUse, Fds
      <4>2. j # i
        BY <2>c, <4>1
      <4> QED
        BY <2>a, <2>b, <2>d, <4>1, <4>2
    <3>2. UNCHANGED <<said, interrupted>>
      BY <1>3 DEF Open
    <3> QED
      BY <3>1, <3>2 DEF IInv, ReportedIsConnected
  <2> QED
    BY <2>1, <2>2, <2>3, <2>4 DEF IInv
<1>4. ASSUME NEW f \in 0 .. MaxFd, NoSuchFd(f) PROVE IInv'
  BY <1>0, <1>4 DEF IInv, TypeOK, SlotOwnsFd, InUse, ReportedIsConnected, NoSuchFd
<1>5. ASSUME NEW i \in Slots, ConnRefused(i) PROVE IInv'
  BY <1>0, <1>5, ReleaseKeeps DEF ConnRefused, Ready
<1>6. ASSUME NEW i \in Slots, ConnAsync(i) PROVE IInv'
  <2>1. fd[i] \in Fds
    BY <1>6 DEF IInv, TypeOK, ConnAsync, Fds, Slots
  <2>2. CASE kern[fd[i]] = "new"
    <3>1. PICK s \in {"connecting", "connected"} : kern' = [kern EXCEPT ![fd[i]] = s]
      BY <1>6, <2>2 DEF ConnAsync
    <3> QED
      BY <1>0, <1>6, <2>1, <2>2, <3>1, KernKeeps DEF ConnAsync, KernStates
  <2>3. CASE UNCHANGED kern
    BY <1>0, <1>6, <2>3 DEF ConnAsync, IInv, TypeOK, SlotOwnsFd, InUse, ReportedIsConnected
  <2> QED
    BY <1>6, <2>2, <2>3 DEF ConnAsync
<1>7. ASSUME NEW i \in Slots, ConnSync(i) PROVE IInv'
  <2>1. fd[i] \in Fds
    BY <1>7 DEF IInv, TypeOK, ConnSync, Fds, Slots
  <2> QED
    BY <1>0, <1>7, <2>1, KernKeeps DEF ConnSync, KernStates
<1>8. ASSUME NEW i \in Slots, Return(i) PROVE IInv'
  <2>1. waiting = i /\ fd[i] > 0
    BY <1>0, <1>8 DEF IInv, InUse, Return, SelectTimeout, SelectReady, SelectInterrupted, ConnectDone, ConnectFailed
  <2>2. CASE SelectTimeout(i)
    BY <1>0, <2>1, <2>2, ReleaseKeeps DEF SelectTimeout
  <2>3. CASE SelectReady(i)
    BY <1>0, <2>1, <2>3, ReleaseKeeps, SuccessKeeps DEF SelectReady
  <2>4. CASE SelectInterrupted(i)
    BY <1>0, <2>1, <2>4, ReleaseKeeps, SuccessKeeps DEF SelectInterrupted
  <2>5. CASE ConnectDone(i)
    BY <1>0, <2>1, <2>5, SuccessKeeps DEF ConnectDone
  <2>6. CASE ConnectFailed(i)
    BY <1>0, <2>1, <2>6, ReleaseKeeps DEF ConnectFailed
  <2> QED
    BY <1>8, <2>2, <2>3, <2>4, <2>5, <2>6 DEF Return
<1>9. ASSUME NEW i \in Slots, Close(i) PROVE IInv'
  BY <1>0, <1>9, ReleaseKeeps DEF Close, Ready
<1>10. ASSUME NEW f \in Fds, Handshake(f) PROVE IInv'
  <2>1. PICK s \in {"connected", "refused"} : kern' = [kern EXCEPT ![f] = s]
    BY <1>10 DEF Handshake
  <2> QED
    BY <1>0, <1>10, <2>1, KernKeeps DEF Handshake, KernStates
<1>11. CASE Alarm
  BY <1>11 DEF IInv, TypeOK, SlotOwnsFd, InUse, ReportedIsConnected, Alarm
<1>12. CASE UNCHANGED vars
  BY <1>12 DEF IInv, TypeOK, SlotOwnsFd, InUse, ReportedIsConnected, vars
<1> QED
  BY <1>1, <1>2, <1>3, <1>4, <1>5, <1>6, <1>7, <1>8, <1>9, <1>10, <1>11, <1>12 DEF Next

(* Slots and descriptors keep their types.                                   *)
THEOREM SockTypeCorrect == Spec => []TypeOK
<1>1. IInv => TypeOK
  BY DEF IInv
<1> QED
  BY InitIInv, NextIInv, <1>1, PTL DEF Spec

(* mbtk_sock_open, every failure of mbtk_sock_conn and mbtk_sock_close       *)
(* neither lose an open descriptor nor keep a closed one in a slot.          *)
THEOREM SlotOwnership == Spec => []SlotOwnsFd
<1>1. IInv => SlotOwnsFd
  BY DEF IInv
<1> QED
  BY InitIInv, NextIInv, <1>1, PTL DEF Spec

(* mbtk_sock_conn returns 0 for a connected socket only, unless an alarm has *)
(* interrupted its select.                                                   *)
THEOREM ReportedConnected == Spec => []ReportedIsConnected
<1>1. IInv => ReportedIsConnected
  BY DEF IInv
<1> QED
  BY InitIInv, NextIInv, <1>1, PTL DEF Spec

-----------------------------------------------------------------------------
(* m_http.c.  While an answer is read, what was printed of it, the line that *)
(* was begun and what is left in read_buf are, one after the other, the      *)
(* bytes that read() took from this connection.  Whatever way a call ends,   *)
(* the two static buffers are empty for the next one.                        *)
Bytes == Nat \X Nat

HttpTypes ==
  /\ step \in {"idle", "open", "connect", "write", "read", "dead"}
  /\ gets \in Nat /\ given \in Nat
  /\ parsed \in Seq(Bytes) /\ line \in Seq(Bytes) /\ readBuf \in Seq(Bytes)

BuffersEmpty ==
  /\ step # "read" => line = << >> /\ readBuf = << >>
  /\ step \in {"open", "connect", "write"} => parsed = << >> /\ given = 0
  /\ whole => step \in {"idle", "dead"}

BytesInOrder ==
  /\ \A i \in 1 .. Len(line) : line[i] = <<gets, Len(parsed) + i>>
  /\ \A i \in 1 .. Len(readBuf) : readBuf[i] = <<gets, Len(parsed) + Len(line) + i>>
  /\ step = "read" => Len(parsed) + Len(line) + Len(readBuf) = given

HttpInv == HttpTypes /\ BuffersEmpty /\ BytesInOrder /\ ReadsOwnAnswer /\ AlarmOnlyWhileConnecting

\* A step that neither reads nor prints, of the call gets, and not its first.
LEMMA HttpFrame ==
  ASSUME HttpInv, UNCHANGED <<gets, given, parsed, line, readBuf, whole>>,
         step # "read", step # "dead", step' \in {"idle", "connect", "write", "dead"},
         whole => step' \in {"idle", "dead"},
         step \in {"open", "connect", "write"} \/ step' = "dead",
         step' \in {"write", "read"} => ~timer'
  PROVE  HttpInv'
<1>1. HttpTypes' /\ BuffersEmpty' /\ AlarmOnlyWhileConnecting'
  BY DEF HttpInv, HttpTypes, BuffersEmpty, AlarmOnlyWhileConnecting
<1>2. BytesInOrder' /\ ReadsOwnAnswer'
  BY DEF HttpInv, BytesInOrder, ReadsOwnAnswer
<1> QED
  BY <1>1, <1>2 DEF HttpInv

LEMMA SameBytes ==
  ASSUME HttpInv, UNCHANGED <<gets, given, parsed, line, readBuf>>, step' # "read"
  PROVE  BytesInOrder'
  BY DEF HttpInv, BytesInOrder

LEMMA GetKeeps ==
  ASSUME HttpInv, NEW u \in Urls, Get(u) PROVE HttpInv'
<1>1. /\ step = "idle" /\ gets' = gets + 1 /\ given' = 0 /\ parsed' = << >> /\ ~whole'
      /\ step' \in {"open", "idle"} /\ UNCHANGED <<timer, readBuf, line>>
  BY DEF Get
<1>2. line = << >> /\ readBuf = << >>
  BY <1>1 DEF HttpInv, BuffersEmpty
<1>3. HttpTypes'
  BY <1>1 DEF HttpInv, HttpTypes
<1>4. BuffersEmpty' /\ BytesInOrder' /\ ReadsOwnAnswer' /\ AlarmOnlyWhileConnecting'
  BY <1>1, <1>2 DEF BuffersEmpty, BytesInOrder, ReadsOwnAnswer, AlarmOnlyWhileConnecting
<1> QED
  BY <1>3, <1>4 DEF HttpInv

\* The last byte of the request is written: the answer has not begun.
LEMMA WriteKeeps ==
  ASSUME HttpInv, NEW n \in 0 .. Request, Write(n) PROVE HttpInv'
<1>1. /\ step = "write" /\ step' \in {"read", "write"}
      /\ UNCHANGED <<gets, timer, given, readBuf, line, parsed, whole>>
  BY DEF Write
<1>2. line = << >> /\ readBuf = << >> /\ parsed = << >> /\ given = 0 /\ ~whole
  BY <1>1 DEF HttpInv, BuffersEmpty
<1>3. HttpTypes' /\ BuffersEmpty' /\ AlarmOnlyWhileConnecting'
  BY <1>1, <1>2 DEF HttpInv, HttpTypes, BuffersEmpty, AlarmOnlyWhileConnecting
<1>4. BytesInOrder' /\ ReadsOwnAnswer'
  BY <1>1, <1>2 DEF BytesInOrder, ReadsOwnAnswer
<1> QED
  BY <1>3, <1>4 DEF HttpInv

LEMMA ConcatOf ==
  ASSUME NEW S, NEW s \in Seq(S), NEW t \in Seq(S)
  PROVE  /\ s \o t \in Seq(S) /\ Len(s) \in Nat /\ Len(t) \in Nat /\ Len(s \o t) = Len(s) + Len(t)
         /\ \A i \in 1 .. Len(s \o t) : (s \o t)[i] = IF i <= Len(s) THEN s[i] ELSE t[i - Len(s)]
  OBVIOUS

\* The next byte of the answer, from read_buf or the first that read() gave.
LEMMA NextByte ==
  ASSUME HttpInv, NEW n \in 0 .. Answer, ReadByte(n)
  PROVE  /\ Buffered(n) \in Seq(Bytes) /\ Buffered(n) # << >>
         /\ \A i \in 1 .. Len(Buffered(n)) : Buffered(n)[i] = <<gets, Len(parsed) + Len(line) + i>>
         /\ given' = Len(parsed) + Len(line) + Len(Buffered(n))
<1>0. /\ step = "read" /\ given' = given + n
      /\ IF readBuf = << >> THEN n > 0 ELSE n = 0
  BY DEF ReadByte
<1>1. CASE readBuf = << >>
  <2>1. n \in Nat /\ n > 0 /\ Buffered(n) = [i \in 1 .. n |-> <<gets, given + i>>]
    BY <1>0, <1>1, HttpAssumption DEF Buffered
  <2>2. gets \in Nat /\ given \in Nat /\ given = Len(parsed) + Len(line)
    <3>1. Len(parsed) \in Nat /\ Len(line) \in Nat
      BY DEF HttpInv, HttpTypes
    <3> QED
      BY <1>0, <1>1, <3>1 DEF HttpInv, HttpTypes, BytesInOrder
  <2>3. \A i \in 1 .. n : <<gets, given + i>> \in Bytes
    BY <2>2 DEF Bytes
  <2>4. Buffered(n) \in Seq(Bytes) /\ Len(Buffered(n)) = n
    BY <2>1, <2>3
  <2>5. Len(parsed) \in Nat /\ Len(line) \in Nat
    BY DEF HttpInv, HttpTypes
  <2>6. Buffered(n) # << >>
    BY <2>1, <2>4
  <2>7. \A i \in 1 .. n : Buffered(n)[i] = <<gets, Len(parsed) + Len(line) + i>>
    BY <2>1, <2>2
  <2> QED
    BY <1>0, <2>1, <2>2, <2>4, <2>5, <2>6, <2>7
<1>2. CASE readBuf # << >>
  BY <1>0, <1>2 DEF Buffered, HttpInv, HttpTypes, BytesInOrder
<1> QED
  BY <1>1, <1>2

LEMMA ReadByteKeeps ==
  ASSUME HttpInv, NEW n \in 0 .. Answer, ReadByte(n) PROVE HttpInv'
<1> DEFINE b == Buffered(n)
           l == Append(line, Head(b))
<1>1. /\ step = "read" /\ UNCHANGED <<step, gets, timer, whole>>
      /\ readBuf' = Tail(b)
      /\ \/ parsed' = parsed \o l /\ line' = << >>
         \/ line' = l /\ parsed' = parsed
  BY DEF ReadByte, PrintLine
<1>2. /\ b \in Seq(Bytes) /\ b # << >>
      /\ \A i \in 1 .. Len(b) : b[i] = <<gets, Len(parsed) + Len(line) + i>>
      /\ given' = Len(parsed) + Len(line) + Len(b)
  BY NextByte
<1> HIDE DEF b
<1>3. /\ parsed \in Seq(Bytes) /\ line \in Seq(Bytes) /\ Len(parsed) \in Nat /\ Len(line) \in Nat
      /\ Len(b) \in Nat /\ Len(b) > 0
  BY <1>2 DEF HttpInv, HttpTypes
<1>4. /\ Head(b) = b[1] /\ Head(b) \in Bytes /\ Tail(b) \in Seq(Bytes) /\ Len(Tail(b)) = Len(b) - 1
      /\ \A i \in 1 .. Len(b) - 1 : Tail(b)[i] = b[i + 1]
  BY <1>2, <1>3
<1>5. /\ l \in Seq(Bytes) /\ Len(l) = Len(line) + 1
      /\ \A i \in 1 .. Len(l) : l[i] = IF i = Len(line) + 1 THEN Head(b) ELSE line[i]
  BY <1>3, <1>4
<1> HIDE DEF l
<1>6. \A i \in 1 .. Len(l) : l[i] = <<gets, Len(parsed) + i>>
  <2> SUFFICES ASSUME NEW i \in 1 .. Len(l) PROVE l[i] = <<gets, Len(parsed) + i>>
    OBVIOUS
  <2>1. CASE i = Len(line) + 1
    <3>1. b[1] = <<gets, Len(parsed) + Len(line) + 1>>
      BY <1>2, <1>3
    <3> QED
      BY <1>3, <1>4, <1>5, <2>1, <3>1
  <2>2. CASE i # Len(line) + 1
    <3>1. i \in 1 .. Len(line)
      BY <1>3, <1>5, <2>2
    <3> QED
      BY <1>5, <2>2, <3>1 DEF HttpInv, BytesInOrder
  <2> QED
    BY <2>1, <2>2
<1>7. \A i \in 1 .. Len(Tail(b)) : Tail(b)[i] = <<gets, Len(parsed) + Len(l) + i>>
  <2> SUFFICES ASSUME NEW i \in 1 .. Len(Tail(b)) PROVE Tail(b)[i] = <<gets, Len(parsed) + Len(l) + i>>
    OBVIOUS
  <2>1. i \in 1 .. Len(b) - 1 /\ i + 1 \in 1 .. Len(b)
    BY <1>3, <1>4
  <2>2. b[i + 1] = <<gets, Len(parsed) + Len(line) + (i + 1)>>
    BY <1>2, <2>1
  <2> QED
    BY <1>3, <1>4, <1>5, <2>1, <2>2
<1>8. BuffersEmpty' /\ AlarmOnlyWhileConnecting' /\ ~whole'
  BY <1>1 DEF HttpInv, BuffersEmpty, AlarmOnlyWhileConnecting
<1>9. given' \in Nat /\ gets' \in Nat /\ step' = "read" /\ readBuf' \in Seq(Bytes)
  BY <1>1, <1>2, <1>3, <1>4 DEF HttpInv, HttpTypes
<1>10. CASE line' = l /\ parsed' = parsed
  <2>1. HttpTypes'
    BY <1>3, <1>5, <1>9, <1>10 DEF HttpTypes
  <2>2. Len(parsed) + Len(l) + Len(Tail(b)) = given'
    BY <1>2, <1>3, <1>4, <1>5
  <2>3. BytesInOrder'
    BY <1>1, <1>6, <1>7, <1>10, <2>2 DEF BytesInOrder
  <2>4. ReadsOwnAnswer'
    BY <1>1, <1>8, <1>10 DEF HttpInv, ReadsOwnAnswer
  <2> QED
    BY <1>8, <2>1, <2>3, <2>4 DEF HttpInv
<1>11. CASE parsed' = parsed \o l /\ line' = << >>
  <2>1. /\ parsed' \in Seq(Bytes) /\ Len(parsed') = Len(parsed) + Len(l) /\ Len(l) \in Nat
        /\ \A i \in 1 .. Len(parsed') : parsed'[i] = IF i <= Len(parsed) THEN parsed[i] ELSE l[i - Len(parsed)]
    BY <1>3, <1>5, <1>11, ConcatOf
  <2>2. HttpTypes'
    BY <1>9, <1>11, <2>1 DEF HttpTypes
  <2>3. BytesInOrder'
    <3>1. Len(parsed') + 0 + Len(Tail(b)) = given'
      BY <1>2, <1>3, <1>4, <1>5, <2>1
    <3>2. Len(line') = 0
      BY <1>11
    <3>3. Len(parsed') + Len(line') + Len(readBuf') = given'
      BY <1>1, <3>1, <3>2
    <3>4. \A i \in 1 .. Len(readBuf') : readBuf'[i] = <<gets', Len(parsed') + Len(line') + i>>
      <4> SUFFICES ASSUME NEW i \in 1 .. Len(readBuf')
                   PROVE  readBuf'[i] = <<gets', Len(parsed') + Len(line') + i>>
        OBVIOUS
      <4>1. Len(parsed') + Len(line') + i = Len(parsed) + Len(l) + i
        BY <1>3, <2>1, <3>2
      <4> QED
        BY <1>1, <1>7, <4>1
    <3> QED
      BY <3>2, <3>3, <3>4 DEF BytesInOrder
  <2>4. ReadsOwnAnswer'
    <3>1. ASSUME NEW i \in 1 .. Len(parsed') PROVE parsed'[i] = <<gets, i>>
      <4>1. CASE i <= Len(parsed)
        BY <1>3, <2>1, <4>1 DEF HttpInv, ReadsOwnAnswer
      <4>2. CASE ~(i <= Len(parsed))
        <5>1. i - Len(parsed) \in 1 .. Len(l)
          BY <1>3, <2>1, <4>2
        <5>2. l[i - Len(parsed)] = <<gets, Len(parsed) + (i - Len(parsed))>>
          BY <1>6, <5>1
        <5> QED
          BY <1>3, <2>1, <4>2, <5>2
      <4> QED
        BY <4>1, <4>2
    <3> QED
      BY <1>1, <1>8, <3>1 DEF ReadsOwnAnswer
  <2> QED
    BY <1>8, <2>2, <2>3, <2>4 DEF HttpInv
<1> QED
  BY <1>1, <1>10, <1>11

LEMMA ReadEofKeeps ==
  ASSUME HttpInv, ReadEof PROVE HttpInv'
<1>1. /\ step = "read" /\ readBuf = << >> /\ given = Answer
      /\ UNCHANGED <<gets, timer, given, readBuf>> /\ ~whole
  BY DEF ReadEof, HttpInv, BuffersEmpty
<1>2. /\ parsed \in Seq(Bytes) /\ line \in Seq(Bytes) /\ Len(parsed) \in Nat /\ Len(line) \in Nat
      /\ Len(parsed) + Len(line) = given
  <2>1. parsed \in Seq(Bytes) /\ line \in Seq(Bytes) /\ Len(parsed) \in Nat /\ Len(line) \in Nat
    BY DEF HttpInv, HttpTypes
  <2>2. Len(parsed) + Len(line) + 0 = given
    BY <1>1 DEF HttpInv, BytesInOrder
  <2> QED
    BY <2>1, <2>2
<1>3. CASE line # << >>
  <2>1. parsed' = parsed \o line /\ line' = << >> /\ UNCHANGED <<step, whole>>
    BY <1>3 DEF ReadEof, PrintLine
  <2>2. /\ parsed' \in Seq(Bytes) /\ Len(parsed') = Len(parsed) + Len(line)
        /\ \A i \in 1 .. Len(parsed') : parsed'[i] = IF i <= Len(parsed) THEN parsed[i] ELSE line[i - Len(parsed)]
    BY <1>2, <2>1, ConcatOf
  <2>3. HttpTypes' /\ BuffersEmpty' /\ AlarmOnlyWhileConnecting'
    BY <1>1, <2>1, <2>2 DEF HttpInv, HttpTypes, BuffersEmpty, AlarmOnlyWhileConnecting
  <2>4. BytesInOrder'
    BY <1>1, <1>2, <2>1, <2>2 DEF BytesInOrder
  <2>5. ASSUME NEW i \in 1 .. Len(parsed') PROVE parsed'[i] = <<gets, i>>
    <3>1. CASE i <= Len(parsed)
      BY <1>2, <2>2, <3>1 DEF HttpInv, ReadsOwnAnswer
    <3>2. CASE ~(i <= Len(parsed))
      <4>1. i - Len(parsed) \in 1 .. Len(line)
        BY <1>2, <2>2, <3>2
      <4>2. line[i - Len(parsed)] = <<gets, Len(parsed) + (i - Len(parsed))>>
        BY <4>1 DEF HttpInv, BytesInOrder
      <4> QED
        BY <1>2, <2>2, <3>2, <4>2
    <3> QED
      BY <3>1, <3>2
  <2> QED
    BY <1>1, <2>1, <2>3, <2>4, <2>5 DEF HttpInv, ReadsOwnAnswer
<1>4. CASE line = << >>
  <2>1. step' = "idle" /\ whole' = TRUE /\ UNCHANGED <<parsed, line>>
    BY <1>4 DEF ReadEof
  <2>2. Len(parsed) = Answer
    BY <1>1, <1>2, <1>4
  <2>3. HttpTypes' /\ BuffersEmpty' /\ AlarmOnlyWhileConnecting'
    BY <1>1, <1>4, <2>1 DEF HttpInv, HttpTypes, BuffersEmpty, AlarmOnlyWhileConnecting
  <2>4. BytesInOrder' /\ ReadsOwnAnswer'
    BY <1>1, <2>1, <2>2, SameBytes DEF HttpInv, ReadsOwnAnswer
  <2> QED
    BY <2>3, <2>4 DEF HttpInv
<1> QED
  BY <1>3, <1>4

LEMMA ReadErrorKeeps ==
  ASSUME HttpInv, ReadError PROVE HttpInv'
<1>1. /\ step = "read" /\ readBuf = << >> /\ step' = "idle" /\ line' = << >>
      /\ UNCHANGED <<gets, timer, given, readBuf, parsed, whole>>
  BY DEF ReadError
<1>2. HttpTypes' /\ BuffersEmpty' /\ AlarmOnlyWhileConnecting'
  BY <1>1 DEF HttpInv, HttpTypes, BuffersEmpty, AlarmOnlyWhileConnecting
<1>3. BytesInOrder' /\ ReadsOwnAnswer'
  BY <1>1 DEF HttpInv, BytesInOrder, ReadsOwnAnswer
<1> QED
  BY <1>2, <1>3 DEF HttpInv

LEMMA NextHttp == HttpInv /\ [HttpNext]_httpVars => HttpInv'
<1> SUFFICES ASSUME HttpInv, [HttpNext]_httpVars PROVE HttpInv'
  OBVIOUS
<1>1. CASE SockOpenFails \/ SockOpen \/ ConnectFails \/ Connected \/ WriteFails
  <2>1. /\ UNCHANGED <<gets, given, parsed, line, readBuf, whole>>
        /\ step \in {"open", "connect", "write"} /\ step' \in {"idle", "connect", "write"}
        /\ (step' \in {"write", "read"} => ~timer')
    BY <1>1 DEF SockOpenFails, SockOpen, ConnectFails, Connected, WriteFails, Fails
  <2>2. ~whole
    BY <2>1 DEF HttpInv, BuffersEmpty
  <2> QED
    BY <2>1, <2>2, HttpFrame
<1>2. CASE AlarmExit
  <2>1. step # "read"
    BY <1>2 DEF AlarmExit, HttpInv, AlarmOnlyWhileConnecting
  <2> QED
    BY <1>2, <2>1, HttpFrame DEF AlarmExit
<1>3. CASE UNCHANGED httpVars
  BY <1>3 DEF httpVars, HttpInv, HttpTypes, BuffersEmpty, BytesInOrder, ReadsOwnAnswer, AlarmOnlyWhileConnecting
<1> QED
  BY <1>1, <1>2, <1>3, GetKeeps, WriteKeeps, ReadByteKeeps, ReadEofKeeps, ReadErrorKeeps DEF HttpNext

(* What is printed: a line that is under way holds no newline and can take   *)
(* another byte, so that a zero byte hides the rest of its own line only.    *)
LineOpen == Len(line) < MaxLen - 1 /\ \A i \in 1 .. Len(line) : line[i][2] \notin Newlines

PrintInv == printed \in Seq(Bytes) /\ PrintsOwnAnswer /\ LineOpen

LEMMA PrintFrame ==
  ASSUME PrintInv, UNCHANGED <<gets, parsed, printed>>, UNCHANGED line \/ line' = << >>
  PROVE  PrintInv'
<1>1. PrintsOwnAnswer'
  BY DEF PrintInv, PrintsOwnAnswer
<1>2. LineOpen'
  BY HttpAssumption DEF PrintInv, LineOpen
<1> QED
  BY <1>1, <1>2 DEF PrintInv

LEMMA SubSeqOf ==
  ASSUME NEW S, NEW s \in Seq(S), NEW n \in 0 .. Len(s)
  PROVE  /\ SubSeq(s, 1, n) \in Seq(S) /\ Len(SubSeq(s, 1, n)) = n
         /\ \A i \in 1 .. n : SubSeq(s, 1, n)[i] = s[i]
  OBVIOUS

\* A line of the answer is printed up to its first zero byte.
LEMMA LinePrinted ==
  ASSUME HttpInv, PrintInv, gets' = gets, NEW l \in Seq(Bytes), PrintLine(l),
         \A i \in 1 .. Len(l) : l[i] = <<gets, Len(parsed) + i>>,
         \A i \in 1 .. Len(l) : i < Len(l) => l[i][2] \notin Newlines,
         Len(l) \in 1 .. MaxLen - 1
  PROVE  PrintInv'
<1>1. PICK n \in 0 .. Len(l) : EndsText(l, n) /\ printed' = printed \o SubSeq(l, 1, n)
  BY DEF PrintLine
<1> DEFINE t == SubSeq(l, 1, n)
           p == Len(parsed)
<1>2. /\ t \in Seq(Bytes) /\ Len(t) = n /\ \A i \in 1 .. n : t[i] = l[i]
  BY SubSeqOf
<1> HIDE DEF t
<1>3. /\ p \in Nat /\ n \in Nat /\ printed \in Seq(Bytes) /\ Len(printed) \in Nat /\ gets \in Nat
  BY DEF HttpInv, HttpTypes, PrintInv
<1>4. /\ printed' \in Seq(Bytes) /\ Len(printed') = Len(printed) + n
      /\ \A i \in 1 .. Len(printed') : printed'[i] = IF i <= Len(printed) THEN printed[i] ELSE t[i - Len(printed)]
  <2>1. printed' = printed \o t
    BY <1>1 DEF t
  <2> QED
    BY <1>2, <1>3, <2>1, ConcatOf
<1>5. Len(parsed') = p + Len(l)
  BY <1>3 DEF PrintLine, HttpInv, HttpTypes
<1> HIDE DEF p
<1>6. \A i \in 1 .. Len(printed) : printed'[i] = printed[i] /\ printed[i][1] = gets /\ printed[i][2] \in 1 .. p
  BY <1>3, <1>4 DEF PrintInv, PrintsOwnAnswer, p
<1>7. \A i \in 1 .. n : printed'[Len(printed) + i] = <<gets, p + i>>
  <2> SUFFICES ASSUME NEW i \in 1 .. n PROVE printed'[Len(printed) + i] = <<gets, p + i>>
    OBVIOUS
  <2>1. Len(printed) + i \in 1 .. Len(printed') /\ ~(Len(printed) + i <= Len(printed))
        /\ Len(printed) + i - Len(printed) = i /\ i \in 1 .. Len(l)
    BY <1>3, <1>4
  <2>2. printed'[Len(printed) + i] = t[i]
    BY <1>4, <2>1
  <2>3. l[i] = <<gets, p + i>>
    BY <2>1 DEF p
  <2> QED
    BY <1>2, <2>2, <2>3
<1>8. ASSUME NEW j \in 1 .. Len(printed')
      PROVE  \/ j \in 1 .. Len(printed)
             \/ /\ j - Len(printed) \in 1 .. n
                /\ printed'[j][1] = gets /\ printed'[j][2] = p + (j - Len(printed))
  <2>1. CASE j <= Len(printed)
    BY <1>3, <1>4, <2>1
  <2>2. CASE ~(j <= Len(printed))
    <3>1. j - Len(printed) \in 1 .. n /\ Len(printed) + (j - Len(printed)) = j
      BY <1>3, <1>4, <2>2
    <3> QED
      BY <1>7, <3>1
  <2> QED
    BY <2>1, <2>2
<1>9. \A j \in 1 .. Len(printed') : printed'[j][1] = gets' /\ printed'[j][2] \in 1 .. Len(parsed')
  <2> SUFFICES ASSUME NEW j \in 1 .. Len(printed')
               PROVE  printed'[j][1] = gets' /\ printed'[j][2] \in 1 .. Len(parsed')
    OBVIOUS
  <2>1. CASE j \in 1 .. Len(printed)
    <3>1. printed'[j][1] = gets /\ printed'[j][2] \in 1 .. p
      <4>1. printed'[j] = printed[j] /\ printed[j][1] = gets /\ printed[j][2] \in 1 .. p
        BY <1>6, <2>1
      <4> QED
        BY <4>1
    <3> QED
      BY <1>3, <1>5, <3>1
  <2>2. CASE j - Len(printed) \in 1 .. n /\ printed'[j][1] = gets /\ printed'[j][2] = p + (j - Len(printed))
    BY <1>3, <1>5, <2>2
  <2> QED
    BY <1>8, <2>1, <2>2
<1>10. ASSUME NEW j \in 1 .. Len(printed'), NEW k \in 1 .. Len(printed'), j < k
       PROVE  printed'[j][2] < printed'[k][2]
  <2>1. CASE k \in 1 .. Len(printed)
    <3>1. j \in 1 .. Len(printed)
      BY <1>3, <1>10, <2>1
    <3> QED
      BY <1>6, <1>10, <2>1, <3>1 DEF PrintInv, PrintsOwnAnswer
  <2>2. CASE k - Len(printed) \in 1 .. n /\ printed'[k][2] = p + (k - Len(printed))
    <3>1. CASE j \in 1 .. Len(printed)
      <4>1. printed'[j] = printed[j] /\ printed[j][2] \in 1 .. p
        BY <1>6, <3>1
      <4>2. printed'[j][2] \in 1 .. p
        BY <4>1
      <4>3. k - Len(printed) >= 1 /\ printed'[j][2] <= p
        BY <1>3, <2>2, <4>2
      <4>4. p < p + (k - Len(printed))
        BY <1>3, <2>2, <4>3
      <4>5. \A a, c \in Int : a <= p /\ p < c => a < c
        BY <1>3
      <4>6. printed'[j][2] \in Int /\ p + (k - Len(printed)) \in Int
        BY <1>3, <2>2, <4>2
      <4> QED
        BY <2>2, <4>3, <4>4, <4>5, <4>6
    <3>2. CASE j - Len(printed) \in 1 .. n /\ printed'[j][2] = p + (j - Len(printed))
      BY <1>3, <1>10, <2>2, <3>2
    <3> QED
      BY <1>8, <3>1, <3>2
  <2> QED
    BY <1>8, <2>1, <2>2
<1>11. ASSUME NEW i \in 1 .. Len(parsed')
       PROVE  (\E j \in 1 .. Len(printed') : printed'[j][2] = i) \/ BehindZero(i)
  <2>1. CASE i <= p
    <3>1. i \in 1 .. Len(parsed)
      BY <1>3, <2>1 DEF p
    <3>2. CASE BehindZero(i)
      BY <3>2
    <3>3. CASE \E j \in 1 .. Len(printed) : printed[j][2] = i
      <4>1. PICK j \in 1 .. Len(printed) : printed[j][2] = i
        BY <3>3
      <4>2. j \in 1 .. Len(printed')
        BY <1>3, <1>4, <4>1
      <4>3. printed'[j] = printed[j]
        BY <1>6, <4>1
      <4>4. printed'[j][2] = i
        BY <4>1, <4>3
      <4> QED
        BY <4>2, <4>4
    <3> QED
      BY <3>1, <3>2, <3>3 DEF PrintInv, PrintsOwnAnswer
  <2>2. CASE i - p \in 1 .. n
    <3>1. Len(printed) + (i - p) \in 1 .. Len(printed') /\ p + (i - p) = i
      BY <1>3, <1>4, <1>5, <2>2
    <3>2. printed'[Len(printed) + (i - p)] = <<gets, i>>
      BY <1>7, <2>2, <3>1
    <3> QED
      BY <3>1, <3>2
  <2>3. CASE i - p > n
    <3>1. i \in Nat /\ i - p \in 1 .. Len(l) /\ n + 1 \in 1 .. Len(l) /\ n < Len(l)
      BY <1>3, <1>5, <2>3
    <3>2. l[n + 1] = <<gets, p + (n + 1)>>
      BY <3>1 DEF p
    <3>3. p + (n + 1) \in ZeroBytes
      BY <1>1, <3>1, <3>2 DEF EndsText
    <3>4. p + (n + 1) <= i /\ i - (p + (n + 1)) < MaxLen - 1
      BY <1>3, <2>3, <3>1, HttpAssumption
    <3>5. ASSUME NEW m \in Newlines PROVE m < p + (n + 1) \/ i <= m
      <4> SUFFICES ASSUME ~(m < p + (n + 1)), ~(i <= m) PROVE FALSE
        OBVIOUS
      <4>1. m \in Nat
        BY HttpAssumption
      <4>2. m - p \in 1 .. Len(l) /\ m - p < Len(l) /\ p + (m - p) = m
        BY <1>3, <3>1, <4>1
      <4>3. l[m - p] = <<gets, m>>
        BY <4>2 DEF p
      <4> QED
        BY <4>2, <4>3
    <3> QED
      BY <3>3, <3>4, <3>5 DEF BehindZero
  <2> QED
    BY <1>3, <1>5, <2>1, <2>2, <2>3
<1>12. PrintsOwnAnswer'
  BY <1>9, <1>10, <1>11 DEF PrintsOwnAnswer, BehindZero
<1>13. LineOpen'
  BY HttpAssumption DEF PrintLine, LineOpen
<1> QED
  BY <1>4, <1>12, <1>13 DEF PrintInv

\* The line under way is the answer from the last line's end on.
LEMMA LineSoFar ==
  ASSUME HttpInv
  PROVE  /\ line \in Seq(Bytes) /\ Len(line) \in Nat /\ Len(parsed) \in Nat
         /\ \A i \in 1 .. Len(line) : line[i] = <<gets, Len(parsed) + i>>
  BY DEF HttpInv, HttpTypes, BytesInOrder

LEMMA ReadBytePrints ==
  ASSUME HttpInv, PrintInv, NEW n \in 0 .. Answer, ReadByte(n) PROVE PrintInv'
<1> DEFINE b == Buffered(n)
           l == Append(line, Head(b))
<1>1. /\ gets' = gets
      /\ IF LineEnds(l) THEN PrintLine(l) ELSE line' = l /\ UNCHANGED <<parsed, printed>>
  BY DEF ReadByte
<1>2. /\ b \in Seq(Bytes) /\ b # << >>
      /\ \A i \in 1 .. Len(b) : b[i] = <<gets, Len(parsed) + Len(line) + i>>
  BY NextByte
<1> HIDE DEF b
<1>3. Head(b) \in Bytes /\ Head(b) = <<gets, Len(parsed) + Len(line) + 1>>
  <2>1. Len(b) \in Nat /\ 1 \in 1 .. Len(b) /\ Head(b) = b[1] /\ Head(b) \in Bytes
    BY <1>2
  <2> QED
    BY <1>2, <2>1
<1>4. /\ l \in Seq(Bytes) /\ Len(l) = Len(line) + 1
      /\ \A i \in 1 .. Len(l) : l[i] = IF i = Len(line) + 1 THEN Head(b) ELSE line[i]
  BY <1>3, LineSoFar
<1> HIDE DEF l
<1>5. \A i \in 1 .. Len(l) : l[i] = <<gets, Len(parsed) + i>>
  <2> SUFFICES ASSUME NEW i \in 1 .. Len(l) PROVE l[i] = <<gets, Len(parsed) + i>>
    OBVIOUS
  <2>1. i \in 1 .. Len(line) \/ i = Len(line) + 1
    BY <1>4, LineSoFar
  <2>2. CASE i = Len(line) + 1
    <3>1. Len(parsed) + Len(line) + 1 = Len(parsed) + i
      BY <2>2, LineSoFar
    <3> QED
      BY <1>3, <1>4, <2>2, <3>1
  <2>3. CASE i \in 1 .. Len(line) /\ i # Len(line) + 1
    BY <1>4, <2>3, LineSoFar
  <2> QED
    BY <2>1, <2>2, <2>3
<1>6. \A i \in 1 .. Len(l) : i < Len(l) => l[i][2] \notin Newlines
  <2> SUFFICES ASSUME NEW i \in 1 .. Len(l), i < Len(l) PROVE l[i][2] \notin Newlines
    OBVIOUS
  <2>1. i \in 1 .. Len(line) /\ i # Len(line) + 1
    BY <1>4, LineSoFar
  <2> QED
    BY <1>4, <2>1 DEF PrintInv, LineOpen
<1>7. Len(l) \in 1 .. MaxLen - 1
  BY <1>4, LineSoFar, HttpAssumption DEF PrintInv, LineOpen
<1>8. CASE LineEnds(l)
  BY <1>1, <1>4, <1>5, <1>6, <1>7, <1>8, LinePrinted
<1>9. CASE ~LineEnds(l)
  <2>1. line' = l /\ UNCHANGED <<parsed, printed>>
    BY <1>1, <1>9
  <2>2. PrintsOwnAnswer'
    BY <1>1, <2>1 DEF PrintInv, PrintsOwnAnswer
  <2>3. Len(l) # MaxLen - 1 /\ l[Len(l)][2] \notin Newlines
    BY <1>9 DEF LineEnds
  <2>4. LineOpen'
    BY <1>6, <1>7, <2>1, <2>3, HttpAssumption DEF LineOpen
  <2> QED
    BY <2>1, <2>2, <2>4 DEF PrintInv
<1> QED
  BY <1>8, <1>9

LEMMA ReadEofPrints ==
  ASSUME HttpInv, PrintInv, ReadEof PROVE PrintInv'
<1>1. gets' = gets
  BY DEF ReadEof
<1>2. CASE line = << >>
  BY <1>1, <1>2, PrintFrame DEF ReadEof
<1>3. CASE line # << >>
  <2>1. PrintLine(line)
    BY <1>3 DEF ReadEof
  <2>2. Len(line) \in 1 .. MaxLen - 1 /\ \A i \in 1 .. Len(line) : line[i][2] \notin Newlines
    BY <1>3, LineSoFar, HttpAssumption DEF PrintInv, LineOpen
  <2> QED
    BY <1>1, <2>1, <2>2, LineSoFar, LinePrinted
<1> QED
  BY <1>2, <1>3

LEMMA NextPrints == HttpInv /\ PrintInv /\ [HttpNext]_httpVars => PrintInv'
<1> SUFFICES ASSUME HttpInv, PrintInv, [HttpNext]_httpVars PROVE PrintInv'
  OBVIOUS
<1>1. CASE \E u \in Urls : Get(u)
  <2>1. PICK u \in Urls : Get(u)
    BY <1>1
  <2>2. printed' = << >> /\ parsed' = << >> /\ line' = line
    BY <2>1 DEF Get
  <2>3. PrintsOwnAnswer' /\ printed' \in Seq(Bytes)
    BY <2>2 DEF PrintsOwnAnswer
  <2>4. LineOpen'
    BY <2>2 DEF PrintInv, LineOpen
  <2> QED
    BY <2>3, <2>4 DEF PrintInv
<1>2. CASE SockOpenFails \/ SockOpen \/ ConnectFails \/ Connected \/ WriteFails \/ AlarmExit
  BY <1>2, PrintFrame DEF SockOpenFails, SockOpen, ConnectFails, Connected, WriteFails, AlarmExit, Fails
<1>3. CASE (\E n \in 0 .. Request : Write(n)) \/ ReadError \/ UNCHANGED httpVars
  BY <1>3, PrintFrame DEF Write, ReadError, httpVars
<1> QED
  BY <1>1, <1>2, <1>3, ReadBytePrints, ReadEofPrints DEF HttpNext

(* The lines that http_get reads are the beginning of its own answer, byte   *)
(* for byte, and all of it when the end was reached; what it prints of them  *)
(* is in their order and leaves out only what stands behind a zero byte of   *)
(* its line; and the alarm of an earlier call never ends one that has its    *)
(* connection: for any sequence of calls, any answer and any maxlen of the   *)
(* line reader.                                                              *)
THEOREM GetsIndependent == HttpSpec => []CallsIndependent
<1>1. HttpInit => HttpInv /\ PrintInv
  <2>1. HttpInit => HttpInv
    BY DEF HttpInit, HttpInv, HttpTypes, BuffersEmpty, BytesInOrder, ReadsOwnAnswer, AlarmOnlyWhileConnecting
  <2>2. HttpInit => PrintInv
    BY HttpAssumption DEF HttpInit, PrintInv, PrintsOwnAnswer, LineOpen
  <2> QED
    BY <2>1, <2>2
<1>2. HttpInv /\ PrintInv => CallsIndependent
  BY DEF HttpInv, PrintInv, CallsIndependent
<1>3. HttpInv /\ PrintInv /\ [HttpNext]_httpVars => HttpInv' /\ PrintInv'
  BY NextHttp, NextPrints
<1> QED
  BY <1>1, <1>2, <1>3, PTL DEF HttpSpec

-----------------------------------------------------------------------------
(* m_log.c.  Unless a failed log_clear has left it behind, log_file_path     *)
(* names the file of the stream, and is empty for the terminal: a path is    *)
(* copied over an empty one.  A stream is never open without a path, so the  *)
(* next log_init closes it.                                                  *)
PathNamesFile ==
  /\ log_file \in Paths \cup {Terminal} /\ log_file_path \in Paths \cup {Terminal}
  /\ stale \/ log_file_path = log_file
  /\ log_file # Terminal => log_file_path # Terminal

LogInv ==
  /\ stale \in BOOLEAN /\ lines \in [Paths -> Nat]
  /\ PathNamesFile /\ OneLogFile
  /\ log_flag = asked /\ LevelsAsAsked

LEMMA OverlayPath ==
  ASSUME NEW p \in Paths, NEW q \in Paths \cup {Terminal}
  PROVE  Overlay(p, q) \in Paths /\ (q = Terminal => Overlay(p, q) = p)
<1>1. CASE q = Terminal
  <2>1. p \in Seq({p[i] : i \in DOMAIN p})
    BY MLogAssumption
  <2>2. SubSeq(<< >>, Len(p) + 1, Len(<< >>)) = << >>
    BY <2>1
  <2>3. p \o << >> = p
    BY <2>1
  <2> QED
    BY <1>1, <2>2, <2>3 DEF Overlay, Terminal
<1>2. CASE q # Terminal
  BY <1>2, MLogAssumption
<1> QED
  BY <1>1, <1>2

\* What log_init leaves of the old file: nothing, or a path that is stale.
LEMMA ClosedState ==
  ASSUME LogInv
  PROVE  /\ Closed.file = Terminal /\ Closed.streams = 0
         /\ Closed.path \in Paths \cup {Terminal} /\ (stale \/ Closed.path = Terminal)
         /\ Closed = [file |-> Closed.file, path |-> Closed.path, streams |-> Closed.streams]
<1>1. CASE log_file # Terminal
  <2>1. log_file_path # << >> /\ streams = 1
    BY <1>1 DEF LogInv, PathNamesFile, OneLogFile, Terminal
  <2>2. Closed = [file |-> Terminal, path |-> << >>, streams |-> 0]
    BY <1>1, <2>1 DEF Closed
  <2> QED
    BY <2>2 DEF Terminal
<1>2. CASE log_file = Terminal
  BY <1>2 DEF Closed, LogInv, PathNamesFile, OneLogFile
<1> QED
  BY <1>1, <1>2

LEMMA OpenedState ==
  ASSUME LogInv, NEW path \in Paths \cup {Terminal}, NEW ok \in BOOLEAN
  PROVE  LET o == Opened(path, ok) IN
         /\ o.file \in Paths \cup {Terminal} /\ o.path \in Paths \cup {Terminal}
         /\ stale \/ o.path = o.file
         /\ o.file # Terminal => o.path # Terminal
         /\ o.streams = IF o.file = Terminal THEN 0 ELSE 1
<1> DEFINE c == Closed
<1>1. /\ c.file = Terminal /\ c.streams = 0
      /\ c.path \in Paths \cup {Terminal} /\ (stale \/ c.path = Terminal)
      /\ c = [file |-> c.file, path |-> c.path, streams |-> c.streams]
  BY ClosedState
<1> HIDE DEF c
<1>2. CASE path = Terminal
  BY <1>1, <1>2 DEF Opened, c
<1>3. CASE path # Terminal /\ ~ok
  <2>1. [c EXCEPT !.file = Terminal] = [file |-> Terminal, path |-> c.path, streams |-> c.streams]
    BY <1>1
  <2> QED
    BY <1>1, <1>3, <2>1 DEF Opened, c
<1>4. CASE path # Terminal /\ ok
  <2>1. Overlay(path, c.path) \in Paths /\ (c.path = Terminal => Overlay(path, c.path) = path)
    BY <1>1, <1>4, OverlayPath
  <2>2. \A p \in Paths : p # Terminal
    BY MLogAssumption DEF Terminal
  <2> QED
    BY <1>1, <1>4, <2>1, <2>2 DEF Opened, c
<1> QED
  BY <1>2, <1>3, <1>4

LEMMA WrittenMore ==
  ASSUME lines \in [Paths -> Nat], NEW f \in Paths \cup {Terminal}
  PROVE  /\ Written(f, lines) \in [Paths -> Nat]
         /\ \A p \in Paths : Written(f, lines)[p] >= lines[p]
  BY DEF Written

LogStep == LogInv' /\ \A p \in Paths : lines'[p] < lines[p] => p = log_file \/ stale

LEMMA LogInitStep ==
  ASSUME LogInv, NEW level \in Int, NEW only \in BOOLEAN, NEW path \in Paths \cup {Terminal},
         LogInit(level, only, path)
  PROVE  LogStep
<1> DEFINE l == IF level > LOG_D THEN LOG_D ELSE level
<1>0. l \in Int /\ logged' = 0 /\ asked' = IF l < LOG_F THEN {} ELSE IF only THEN {l} ELSE 1 .. l
  BY DEF LogInit, LOG_D
<1> HIDE DEF l
<1>1. CASE l < LOG_F
  <2>1. log_flag' = {} /\ UNCHANGED <<log_file, log_file_path, streams, lines, stale>>
    BY <1>1 DEF LogInit, l, LOG_F, LOG_D
  <2>2. PathNamesFile' /\ OneLogFile' /\ LevelsAsAsked' /\ log_flag' = asked'
    BY <1>0, <1>1, <2>1 DEF LogInv, PathNamesFile, OneLogFile, LevelsAsAsked
  <2>3. \A p \in Paths : ~(lines'[p] < lines[p])
    BY <2>1 DEF LogInv
  <2> QED
    BY <2>1, <2>2, <2>3 DEF LogInv, LogStep
<1>2. CASE ~(l < LOG_F)
  <2>1. PICK ok \in BOOLEAN : Configure(l, only, path, ok) /\ lines' \in Section(log_file', lines)
    BY <1>2 DEF LogInit, l
  <2>2. stale' = (stale /\ log_file_path' # log_file')
    BY <1>2 DEF LogInit, l
  <2>3. log_flag' = asked'
    BY <1>0, <1>2, <2>1 DEF Configure, Levels
  <2>4. /\ log_file' \in Paths \cup {Terminal} /\ log_file_path' \in Paths \cup {Terminal}
        /\ stale \/ log_file_path' = log_file'
        /\ log_file' # Terminal => log_file_path' # Terminal
        /\ streams' = IF log_file' = Terminal THEN 0 ELSE 1
    BY <2>1, OpenedState DEF Configure
  <2>5. lines' \in [Paths -> Nat] /\ \A p \in Paths : lines'[p] >= lines[p]
    BY <2>1, <2>4, WrittenMore DEF Section, LogInv
  <2>6. PathNamesFile' /\ OneLogFile' /\ LevelsAsAsked'
    BY <1>0, <2>2, <2>4 DEF PathNamesFile, OneLogFile, LevelsAsAsked
  <2>7. \A p \in Paths : ~(lines'[p] < lines[p])
    BY <2>5 DEF LogInv
  <2> QED
    BY <2>2, <2>3, <2>5, <2>6, <2>7 DEF LogInv, LogStep
<1> QED
  BY <1>1, <1>2

LEMMA LogMessageStep ==
  ASSUME LogInv, NEW level \in Int, LogMessage(level) PROVE LogStep
<1>1. /\ PathNamesFile' /\ OneLogFile' /\ log_flag' = asked'
  <2>0. stale' = stale
    BY DEF LogMessage
  <2>1. CASE UNCHANGED <<log_flag, log_file, log_file_path, streams, asked>>
    BY <2>0, <2>1 DEF LogInv, PathNamesFile, OneLogFile
  <2>2. CASE Configure(LOG_I, FALSE, Terminal, TRUE) /\ asked' = 1 .. LOG_I
    BY <2>0, <2>2, OpenedState DEF Configure, Levels, PathNamesFile, OneLogFile
  <2> QED
    BY <2>1, <2>2 DEF LogMessage
<1>2. /\ stale' = stale
      /\ \/ level \in log_flag' /\ lines' = Written(log_file', lines) /\ logged' = level
         \/ logged' = 0 /\ lines' = lines
  BY DEF LogMessage
<1>3. lines' \in [Paths -> Nat] /\ \A p \in Paths : lines'[p] >= lines[p]
  BY <1>1, <1>2, WrittenMore DEF LogInv, PathNamesFile
<1>4. LevelsAsAsked'
  BY <1>1, <1>2 DEF LevelsAsAsked
<1>5. \A p \in Paths : ~(lines'[p] < lines[p])
  BY <1>3 DEF LogInv
<1> QED
  BY <1>1, <1>2, <1>3, <1>4, <1>5 DEF LogInv, LogStep

LEMMA LogClearStep ==
  ASSUME LogInv, LogClear PROVE LogStep
<1>1. logged' = 0 /\ UNCHANGED <<log_flag, log_file_path, asked>>
  BY DEF LogClear
<1>2. LevelsAsAsked' /\ log_flag' = asked'
  BY <1>1 DEF LogInv, LevelsAsAsked
<1>3. CASE UNCHANGED <<log_file, streams, lines, stale>>
  BY <1>1, <1>2, <1>3 DEF LogStep, LogInv, PathNamesFile, OneLogFile
<1>4. CASE /\ log_file # Terminal
           /\ log_file' = log_file_path /\ lines' = [lines EXCEPT ![log_file_path] = 0]
           /\ UNCHANGED <<streams, stale>>
  <2>1. log_file_path \in Paths /\ log_file_path # Terminal /\ (stale \/ log_file_path = log_file)
    BY <1>4 DEF LogInv, PathNamesFile
  <2>2. PathNamesFile' /\ OneLogFile'
    BY <1>1, <1>4, <2>1 DEF LogInv, PathNamesFile, OneLogFile
  <2>3. lines' \in [Paths -> Nat] /\ \A p \in Paths : lines'[p] < lines[p] => p = log_file \/ stale
    BY <1>4, <2>1 DEF LogInv
  <2> QED
    BY <1>2, <1>4, <2>2, <2>3 DEF LogInv, LogStep
<1>5. CASE log_file' = Terminal /\ streams' = streams - 1 /\ stale' = TRUE /\ lines' = lines /\ log_file # Terminal
  BY <1>1, <1>2, <1>5 DEF LogStep, LogInv, PathNamesFile, OneLogFile
<1> QED
  BY <1>3, <1>4, <1>5 DEF LogClear

LEMMA NextLog == LogInv /\ [LogNext]_logVars => LogInv' /\ [LogStep]_logVars
<1> SUFFICES ASSUME LogInv, [LogNext]_logVars PROVE LogInv' /\ [LogStep]_logVars
  OBVIOUS
<1>1. CASE LogNext
  BY <1>1, LogInitStep, LogMessageStep, LogClearStep DEF LogNext, LogStep
<1>2. CASE UNCHANGED logVars
  BY <1>2 DEF logVars, LogInv, PathNamesFile, OneLogFile, LevelsAsAsked
<1> QED
  BY <1>1, <1>2

(* Over any sequence of log_init, messages and log_clear, some of whose      *)
(* steps fail, the log prints the levels last asked for, has one file open,  *)
(* and log_clear takes lines from no file but the one being written.         *)
THEOREM LogKeepsToRequest == LogSpec => LogAsAsked
<1>1. LogInit0 => LogInv
  <2> SUFFICES ASSUME LogInit0 PROVE LogInv
    OBVIOUS
  <2>1. lines \in [Paths -> Nat] /\ stale \in BOOLEAN
    BY DEF LogInit0
  <2>2. PathNamesFile /\ OneLogFile /\ log_flag = asked /\ LevelsAsAsked
    BY DEF LogInit0, PathNamesFile, OneLogFile, LevelsAsAsked, Terminal
  <2> QED
    BY <2>1, <2>2 DEF LogInv
<1>2. LogInv => OneLogFile /\ LevelsAsAsked
  BY DEF LogInv
<1>3. [LogStep]_logVars => [\A p \in Paths : lines'[p] < lines[p] => p = log_file \/ stale]_logVars
  BY DEF LogStep
<1> QED
  BY <1>1, <1>2, <1>3, NextLog, PTL DEF LogSpec, LogAsAsked, ClearsOwnFile

-----------------------------------------------------------------------------
(* m_queue.c and m_list.c                                                   *)

(* A set of numbers that is not empty has a least one.                       *)
LEMMA LeastExists ==
  ASSUME NEW S \in SUBSET Nat, S # {} PROVE \E k \in S : \A j \in S : k <= j
<1> DEFINE R == OpToRel(<, Nat)
<1>1. PICK k \in S : \A j \in S : ~(<<j, k>> \in R)
  BY NatLessThanWellFounded, WFMin
<1>2. \A j \in S : ~(j < k)
  BY <1>1 DEF OpToRel
<1> QED
  BY <1>2

(* A walk is a short sequence of cells.                                      *)
LEMMA WalkFacts ==
  /\ \A c \in Walks : c \in Seq(Cells) /\ Len(c) \in 0 .. MaxPuts
  /\ \A c \in Seq(Cells) : Len(c) <= MaxPuts => c \in Walks
<1>1. ASSUME NEW c \in Walks PROVE c \in Seq(Cells) /\ Len(c) \in 0 .. MaxPuts
  <2>1. PICK k \in 0 .. MaxPuts : c \in [1 .. k -> Cells]
    BY DEF Walks
  <2>2. k \in Nat
    BY MListAssumption
  <2> QED
    BY <2>1, <2>2
<1>2. ASSUME NEW c \in Seq(Cells), Len(c) <= MaxPuts PROVE c \in Walks
  <2>1. c \in [1 .. Len(c) -> Cells] /\ Len(c) \in 0 .. MaxPuts
    BY <1>2, MListAssumption
  <2> QED
    BY <2>1 DEF Walks
<1> QED
  BY <1>1, <1>2

(* The loops of the library can only go one way.                             *)
LEMMA ChainUnique ==
  ASSUME NEW links, NEW h, NEW c \in Seq(Cells), NEW d \in Seq(Cells),
         IsChain(links, h, c), IsChain(links, h, d), Len(c) <= Len(d)
  PROVE  c = d
<1> DEFINE S == {k \in 1 .. Len(c) : c[k] # d[k]}
<1>0. Len(c) \in Nat /\ Len(d) \in Nat
  OBVIOUS
<1>1. S = {}
  <2> SUFFICES ASSUME S # {} PROVE FALSE
    OBVIOUS
  <2>1. S \in SUBSET Nat
    BY <1>0
  <2>2. PICK k \in S : \A j \in S : k <= j
    BY <2>1, LeastExists
  <2>3. k \in 1 .. Len(c) /\ k \in 1 .. Len(d)
    BY <1>0
  <2>4. c[k] = links[NodeBefore(h, c, k)] /\ d[k] = links[NodeBefore(h, d, k)]
    BY <2>3 DEF IsChain
  <2>5. CASE k = 1
    BY <2>2, <2>4, <2>5 DEF NodeBefore
  <2>6. CASE k # 1
    <3>1. k - 1 \in 1 .. Len(c) /\ ~(k <= k - 1)
      BY <2>3, <2>6, <1>0
    <3>2. c[k - 1] = d[k - 1]
      BY <2>2, <3>1
    <3> QED
      BY <2>2, <2>4, <2>6, <3>2 DEF NodeBefore
  <2> QED
    BY <2>5, <2>6
<1>2. \A k \in 1 .. Len(c) : c[k] = d[k]
  BY <1>1
<1>3. Len(c) = Len(d)
  <2> SUFFICES ASSUME Len(c) < Len(d) PROVE FALSE
    BY <1>0
  <2>1. Len(c) + 1 \in 1 .. Len(d)
    BY <1>0
  <2>2. NodeBefore(h, c, Len(c) + 1) = NodeBefore(h, d, Len(c) + 1)
    <3>1. CASE Len(c) = 0
      BY <3>1 DEF NodeBefore
    <3>2. CASE Len(c) # 0
      <4>1. Len(c) \in 1 .. Len(c) /\ (Len(c) + 1) - 1 = Len(c) /\ Len(c) + 1 # 1
        BY <1>0, <3>2
      <4> QED
        BY <1>2, <4>1 DEF NodeBefore
    <3> QED
      BY <3>1, <3>2
  <2>3. d[Len(c) + 1] = 0
    BY <2>1, <2>2 DEF IsChain
  <2>4. d[Len(c) + 1] \in Cells
    BY <2>1
  <2> QED
    BY <2>3, <2>4, MListAssumption
<1> QED
  BY <1>2, <1>3

(* So what the loops find from a head on is any chain there is.              *)
LEMMA ChainValue ==
  ASSUME NEW links, NEW h, NEW c \in Walks, IsChain(links, h, c)
  PROVE  (CHOOSE w \in Walks : IsChain(links, h, w)) = c
<1> DEFINE d == CHOOSE w \in Walks : IsChain(links, h, w)
<1>1. d \in Walks /\ IsChain(links, h, d)
  OBVIOUS
<1>2. c \in Seq(Cells) /\ d \in Seq(Cells) /\ Len(c) \in Nat /\ Len(d) \in Nat
  BY <1>1, WalkFacts, MListAssumption
<1>3. Len(c) <= Len(d) \/ Len(d) <= Len(c)
  BY <1>2
<1> HIDE DEF d
<1>4. c = d
  BY <1>1, <1>2, <1>3, ChainUnique
<1> QED
  BY <1>4 DEF d

(* Links outside of a chain do not matter to it.                             *)
LEMMA ChainFrame ==
  ASSUME NEW links, NEW new, NEW h, NEW c \in Seq(Cells), IsChain(links, h, c),
         new[h] = links[h], \A k \in 1 .. Len(c) : new[c[k]] = links[c[k]]
  PROVE  IsChain(new, h, c)
<1>0. Len(c) \in Nat
  OBVIOUS
<1>1. \A k \in 1 .. Len(c) + 1 : k = 1 \/ (k # 1 /\ k - 1 \in 1 .. Len(c))
  BY <1>0
<1>2. \A k \in 1 .. Len(c) + 1 : new[NodeBefore(h, c, k)] = links[NodeBefore(h, c, k)]
  BY <1>1 DEF NodeBefore
<1>3. (\A k \in 1 .. Len(c) : k \in 1 .. Len(c) + 1) /\ Len(c) + 1 \in 1 .. Len(c) + 1
  BY <1>0
<1> QED
  BY <1>2, <1>3 DEF IsChain

(* The invariant: the types, and that the queues are exact, which is         *)
(* inductive as it stands once it says that every chain has an end.          *)
ListTypes ==
  /\ next \in [Heads \cup Cells -> Cells \cup {0}] /\ data \in [Cells -> Nat] /\ live \subseteq Cells
  /\ puts \in [Heads -> 0 .. MaxPuts] /\ taken \in [Heads -> Nat] /\ over \subseteq Heads

ListInv == ListTypes /\ QueuesExact

(* What the invariant says of one queue.                                   *)
LEMMA ChainFacts ==
  ASSUME ListInv, NEW h \in Heads \ over
  PROVE  /\ Chain(h) \in Walks /\ Chain(h) \in Seq(Cells) /\ Len(Chain(h)) \in Nat
         /\ IsChain(next, h, Chain(h))
         /\ Len(Chain(h)) = puts[h] - taken[h]
         /\ \A k \in 1 .. Len(Chain(h)) : Chain(h)[k] \in Cells /\ data[Chain(h)[k]] = taken[h] + k
         /\ \A j, k \in 1 .. Len(Chain(h)) : Chain(h)[j] = Chain(h)[k] => j = k
<1>1. PICK w \in Walks : IsChain(next, h, w)
  BY DEF ListInv, QueuesExact, FirstInFirstOut
<1>2. Chain(h) \in Walks /\ IsChain(next, h, Chain(h))
  BY <1>1 DEF Chain
<1>3. Chain(h) \in Seq(Cells) /\ Len(Chain(h)) \in Nat
  BY <1>2, WalkFacts, MListAssumption
<1>4. DOMAIN Chain(h) = 1 .. Len(Chain(h))
  BY <1>3
<1>5. /\ Len(Chain(h)) = puts[h] - taken[h]
      /\ \A k \in 1 .. Len(Chain(h)) : data[Chain(h)[k]] = taken[h] + k
  BY <1>4 DEF ListInv, QueuesExact, FirstInFirstOut
<1>6. \A k \in 1 .. Len(Chain(h)) : Chain(h)[k] \in Cells
  BY <1>3
<1>7. ASSUME NEW j \in 1 .. Len(Chain(h)), NEW k \in 1 .. Len(Chain(h)), Chain(h)[j] = Chain(h)[k]
      PROVE  j = k
  <2>1. taken[h] + j = taken[h] + k
    BY <1>5, <1>7
  <2>2. taken[h] \in Nat /\ j \in Nat /\ k \in Nat
    BY <1>3 DEF ListInv, ListTypes
  <2> QED
    BY <2>1, <2>2
<1> QED
  BY <1>2, <1>3, <1>5, <1>6, <1>7

(* Which cells are whose.                                                  *)
LEMMA OwnFacts ==
  ASSUME ListInv
  PROVE  /\ \A h \in Heads \ over : CellsOf(h) = {Chain(h)[k] : k \in 1 .. Len(Chain(h))}
         /\ \A h \in Heads \ over : CellsOf(h) \subseteq live
         /\ \A c \in live : \E h \in Heads \ over : c \in CellsOf(h)
         /\ \A g, h \in Heads \ over : g # h => CellsOf(g) \cap CellsOf(h) = {}
<1>1. ASSUME NEW h \in Heads \ over PROVE CellsOf(h) = {Chain(h)[k] : k \in 1 .. Len(Chain(h))}
  <2>1. DOMAIN Chain(h) = 1 .. Len(Chain(h))
    BY ChainFacts
  <2> QED
    BY <2>1 DEF CellsOf
<1>2. live = UNION {CellsOf(h) : h \in Heads \ over}
  BY DEF ListInv, QueuesExact, CellsOwned
<1>3. \A g, h \in Heads \ over : g # h => CellsOf(g) \cap CellsOf(h) = {}
  BY DEF ListInv, QueuesExact, CellsOwned
<1> QED
  BY <1>1, <1>2, <1>3

(* The chains after a step, as somebody names them, and what they must have.*)
NamedNext(d, hs) ==
  /\ hs = Heads \ over'
  /\ \A h \in hs : d[h] \in Walks /\ IsChain(next', h, d[h])
  /\ \A h \in hs : Len(d[h]) = puts'[h] - taken'[h]
  /\ \A h \in hs : \A k \in 1 .. Len(d[h]) : data'[d[h][k]] = taken'[h] + k
  /\ \A c \in live' : \E h \in hs : \E k \in 1 .. Len(d[h]) : c = d[h][k]
  /\ \A h \in hs : \A k \in 1 .. Len(d[h]) : d[h][k] \in live'
  /\ \A g, h \in hs : g # h =>
       \A j \in 1 .. Len(d[g]), k \in 1 .. Len(d[h]) : d[g][j] # d[h][k]

LEMMA ExactNext == ASSUME NEW d, NEW hs, NamedNext(d, hs) PROVE QueuesExact'
<1> USE DEF NamedNext
<1>1. \A h \in hs : Chain(h)' = d[h]
  BY ChainValue DEF Chain
<1>2. \A h \in hs : DOMAIN Chain(h)' = 1 .. Len(d[h])
  BY <1>1, WalkFacts
<1>3. FirstInFirstOut'
  BY <1>1, <1>2 DEF FirstInFirstOut
<1>4. \A h \in hs : CellsOf(h)' = {d[h][k] : k \in 1 .. Len(d[h])}
  BY <1>1, <1>2 DEF CellsOf
<1>5. live' = UNION {CellsOf(h)' : h \in hs}
  <2> DEFINE own(h) == {d[h][k] : k \in 1 .. Len(d[h])}
  <2>1. live' = UNION {own(h) : h \in hs}
    OBVIOUS
  <2>2. \A h \in hs : CellsOf(h)' = own(h)
    BY <1>4
  <2> HIDE DEF own
  <2> QED
    BY <2>1, <2>2
<1>6. \A g, h \in hs : g # h =>
        {d[g][k] : k \in 1 .. Len(d[g])} \cap {d[h][k] : k \in 1 .. Len(d[h])} = {}
  OBVIOUS
<1>7. \A g, h \in hs : g # h => CellsOf(g)' \cap CellsOf(h)' = {}
  BY <1>4, <1>6
<1>8. CellsOwned'
  BY <1>5, <1>7 DEF CellsOwned
<1> QED
  BY <1>3, <1>8 DEF QueuesExact

(* A cell more at the end of a chain.                                      *)
Longer(h, q, c, e) ==
  /\ Len(e) = Len(q) + 1 /\ Len(q) \in Nat
  /\ \A k \in 1 .. Len(q) : e[k] = q[k]
  /\ e[Len(q) + 1] = c
  /\ \A k \in 1 .. Len(q) + 1 : NodeBefore(h, e, k) = NodeBefore(h, q, k)
  /\ NodeBefore(h, e, Len(e) + 1) = c

LEMMA AppendWalk ==
  ASSUME NEW q \in Seq(Cells), NEW c \in Cells, NEW h, NEW e \in Seq(Cells), e = Append(q, c)
  PROVE  Longer(h, q, c, e)
<1>1. Len(e) = Len(q) + 1 /\ Len(q) \in Nat
  OBVIOUS
<1>2. \A k \in 1 .. Len(q) : e[k] = q[k]
  OBVIOUS
<1>3. e[Len(q) + 1] = c
  OBVIOUS
<1>4. \A k \in 1 .. Len(q) + 1 : k = 1 \/ (k # 1 /\ k - 1 \in 1 .. Len(q))
  BY <1>1
<1>5. \A k \in 1 .. Len(q) + 1 : NodeBefore(h, e, k) = NodeBefore(h, q, k)
  BY <1>2, <1>4 DEF NodeBefore
<1>6. NodeBefore(h, e, Len(e) + 1) = c
  BY <1>1, <1>3 DEF NodeBefore
<1> QED
  BY <1>1, <1>2, <1>3, <1>5, <1>6 DEF Longer

(* A cell less at its start.                                               *)
Shorter(h, q, t) ==
  /\ Len(t) = Len(q) - 1 /\ Len(t) \in Nat
  /\ \A k \in 1 .. Len(t) : t[k] = q[k + 1]
  /\ NodeBefore(h, t, 1) = h
  /\ \A k \in 2 .. Len(t) + 1 : NodeBefore(h, t, k) = q[k]

LEMMA TailWalk ==
  ASSUME NEW q \in Seq(Cells), Len(q) # 0, NEW h, NEW t \in Seq(Cells), t = Tail(q)
  PROVE  Shorter(h, q, t)
<1>0. q # << >>
  OBVIOUS
<1>1. Len(t) = Len(q) - 1
  BY <1>0
<1>2. Len(t) \in Nat
  OBVIOUS
<1>3. \A k \in 1 .. Len(t) : t[k] = q[k + 1]
  BY <1>0, <1>1
<1>4. NodeBefore(h, t, 1) = h
  BY DEF NodeBefore
<1>5. \A k \in 2 .. Len(t) + 1 : k # 1 /\ k - 1 \in 1 .. Len(t) /\ (k - 1) + 1 = k
  BY <1>2
<1>6. \A k \in 2 .. Len(t) + 1 : NodeBefore(h, t, k) = q[k]
  BY <1>3, <1>5 DEF NodeBefore
<1> QED
  BY <1>1, <1>2, <1>3, <1>4, <1>6 DEF Shorter

(* A step of somebody else.                                                  *)
LEMMA ListFrame == ListInv /\ UNCHANGED listVars => ListInv'
<1> SUFFICES ASSUME ListInv, UNCHANGED listVars PROVE ListInv'
  OBVIOUS
<1>1. ListTypes'
  BY DEF ListInv, ListTypes, listVars
<1>2. \A h \in Heads : Chain(h)' = Chain(h) /\ CellsOf(h)' = CellsOf(h)
  BY DEF Chain, CellsOf, listVars
<1>3. FirstInFirstOut'
  BY <1>2 DEF ListInv, QueuesExact, FirstInFirstOut, listVars
<1>4. CellsOwned'
  <2>1. {CellsOf(h)' : h \in Heads \ over'} = {CellsOf(h) : h \in Heads \ over}
    BY <1>2 DEF listVars
  <2> QED
    BY <1>2, <2>1 DEF ListInv, QueuesExact, CellsOwned, listVars
<1> QED
  BY <1>1, <1>3, <1>4 DEF ListInv, QueuesExact

(* A chain that a step of another queue leaves alone.                      *)
LEMMA OtherChains ==
  ASSUME ListInv, NEW g \in Heads \ over,
         next'[g] = next[g], \A c \in CellsOf(g) : next'[c] = next[c]
  PROVE  IsChain(next', g, Chain(g))
<1>1. Chain(g) \in Seq(Cells) /\ IsChain(next, g, Chain(g))
  BY ChainFacts
<1>2. \A k \in 1 .. Len(Chain(g)) : next'[Chain(g)[k]] = next[Chain(g)[k]]
  BY OwnFacts
<1> QED
  BY <1>1, <1>2, ChainFrame

(* The cell that malloc gives is in no chain, so it ends one of them only. *)
LEMMA LinkStep ==
  ASSUME ListInv, NEW h \in Heads \ over, NEW c \in Cells \ live, puts[h] < MaxPuts,
         live' = live \cup {c}, next' = Linked(h, c), puts' = [puts EXCEPT ![h] = @ + 1],
         data' = [data EXCEPT ![c] = puts'[h]], UNCHANGED <<taken, over>>
  PROVE  ListInv'
<1> DEFINE last == LastCell(h)
<1>1. PICK q \in Seq(Cells) :
        /\ q = Chain(h) /\ Len(q) \in Nat /\ IsChain(next, h, q) /\ Len(q) = puts[h] - taken[h]
        /\ \A k \in 1 .. Len(q) : q[k] \in Cells /\ data[q[k]] = taken[h] + k
        /\ \A j, k \in 1 .. Len(q) : q[j] = q[k] => j = k
  BY ChainFacts
<1>0. PICK e \in Seq(Cells) : e = Append(q, c)
  <2>1. c \in Cells
    OBVIOUS
  <2>2. Append(q, c) \in Seq(Cells)
    BY <2>1
  <2> QED
    BY <2>2, Zenon
<1>2. /\ Len(e) = Len(q) + 1 /\ Len(q) \in Nat
      /\ \A k \in 1 .. Len(q) : e[k] = q[k]
      /\ e[Len(q) + 1] = c
      /\ \A k \in 1 .. Len(q) + 1 : NodeBefore(h, e, k) = NodeBefore(h, q, k)
      /\ NodeBefore(h, e, Len(e) + 1) = c
  <2>1. c \in Cells
    OBVIOUS
  <2>2. Longer(h, q, c, e)
    BY <1>0, <2>1, AppendWalk
  <2> QED
    BY <2>2 DEF Longer
<1>3. h \notin Cells /\ \A k \in 1 .. Len(q) : q[k] \in live /\ q[k] \in CellsOf(h)
  BY <1>1, OwnFacts, MListAssumption
<1>4. last = NodeBefore(h, q, Len(q) + 1)
  BY <1>1 DEF LastCell
<1>5. /\ last = h \/ (last \in CellsOf(h) /\ last \in Cells /\ last \in live)
      /\ last # c /\ last \in Heads \cup Cells
  <2>1. CASE Len(q) = 0
    BY <1>3, <1>4, <2>1 DEF NodeBefore
  <2>2. CASE Len(q) # 0
    <3>1. Len(q) + 1 # 1 /\ (Len(q) + 1) - 1 = Len(q) /\ Len(q) \in 1 .. Len(q)
      BY <1>1, <2>2
    <3> QED
      BY <1>1, <1>3, <1>4, <3>1 DEF NodeBefore
  <2> QED
    BY <2>1, <2>2
<1> HIDE DEF last
<1>6. next' = [next EXCEPT ![last] = c, ![c] = 0]
  BY DEF Linked, last
<1>7. /\ next'[last] = c /\ next'[c] = 0
      /\ \A n \in Heads \cup Cells : n # last /\ n # c => next'[n] = next[n]
  BY <1>5, <1>6 DEF ListInv, ListTypes
<1>8. IsChain(next', h, e)
  <2>1. ASSUME NEW k \in 1 .. Len(q) PROVE next'[NodeBefore(h, e, k)] = e[k]
    <3>1. k \in 1 .. Len(q) + 1 /\ Len(q) # 0 /\ Len(q) + 1 # 1 /\ (Len(q) + 1) - 1 = Len(q)
          /\ Len(q) \in 1 .. Len(q)
      BY <1>1
    <3>2. last = q[Len(q)]
      BY <1>4, <3>1 DEF NodeBefore
    <3>3. CASE k = 1
      BY <1>1, <1>2, <1>3, <1>7, <3>1, <3>2, <3>3 DEF NodeBefore, IsChain
    <3>4. CASE k # 1
      <4>1. k - 1 \in 1 .. Len(q) /\ k - 1 # Len(q)
        BY <1>1, <3>4
      <4>2. NodeBefore(h, q, k) = q[k - 1]
        BY <3>4 DEF NodeBefore
      <4>3. q[k - 1] # last /\ q[k - 1] # c /\ q[k - 1] \in Cells
        BY <1>1, <1>3, <3>1, <3>2, <4>1
      <4>4. next[NodeBefore(h, q, k)] = q[k]
        BY <1>1 DEF IsChain
      <4> QED
        BY <1>2, <1>7, <3>1, <4>2, <4>3, <4>4
    <3> QED
      BY <3>3, <3>4
  <2>2. next'[NodeBefore(h, e, Len(q) + 1)] = e[Len(q) + 1]
    <3>1. Len(q) + 1 \in 1 .. Len(q) + 1
      BY <1>1
    <3> QED
      BY <1>2, <1>4, <1>7, <3>1
  <2>3. \A k \in 1 .. Len(e) : k \in 1 .. Len(q) \/ k = Len(q) + 1
    BY <1>1, <1>2
  <2>4. \A k \in 1 .. Len(e) : next'[NodeBefore(h, e, k)] = e[k]
    BY <2>1, <2>2, <2>3
  <2>5. next'[NodeBefore(h, e, Len(e) + 1)] = 0
    BY <1>2, <1>7
  <2> QED
    BY <2>4, <2>5 DEF IsChain
<1>9. ASSUME NEW g \in Heads \ over, g # h PROVE IsChain(next', g, Chain(g))
  <2>1. g # last /\ g # c /\ g \in Heads
    BY <1>5, <1>9, MListAssumption
  <2>2. \A x \in CellsOf(g) : x \in live /\ x \notin CellsOf(h) /\ x # h
    BY <1>3, <1>9, OwnFacts DEF ListInv, ListTypes
  <2>3. \A x \in CellsOf(g) : x # last /\ x # c /\ x \in Cells
    BY <1>5, <2>2 DEF ListInv, ListTypes
  <2> QED
    BY <1>7, <2>1, <2>3, OtherChains
<1> DEFINE hs == Heads \ over
           d == [g \in hs |-> IF g = h THEN e ELSE Chain(g)]
<1>10. d[h] = e /\ \A g \in hs : g # h => d[g] = Chain(g)
  OBVIOUS
<1>11. /\ puts'[h] = puts[h] + 1 /\ puts[h] \in Nat /\ taken[h] \in Nat /\ MaxPuts \in Nat
       /\ \A g \in hs : g # h => puts'[g] = puts[g]
       /\ data'[c] = puts'[h] /\ \A x \in Cells : x # c => data'[x] = data[x]
  BY MListAssumption DEF ListInv, ListTypes
<1>12. Len(e) = puts'[h] - taken[h] /\ Len(e) <= MaxPuts
  BY <1>1, <1>2, <1>11
<1> HIDE DEF d
<1>13. \A g \in hs : d[g] \in Walks /\ IsChain(next', g, d[g])
  BY <1>8, <1>9, <1>10, <1>12, WalkFacts, ChainFacts
<1>14. \A g \in hs : Len(d[g]) = puts'[g] - taken'[g]
  BY <1>10, <1>11, <1>12, ChainFacts
<1>15. ASSUME NEW g \in hs, NEW k \in 1 .. Len(d[g])
       PROVE  /\ data'[d[g][k]] = taken'[g] + k /\ d[g][k] \in live'
              /\ g = h => d[g][k] = c \/ d[g][k] \in CellsOf(h)
              /\ g # h => d[g][k] \in CellsOf(g)
  <2>1. CASE g # h
    <3>1. k \in 1 .. Len(Chain(g)) /\ d[g][k] = Chain(g)[k]
      BY <1>10, <2>1
    <3>2. d[g][k] \in CellsOf(g) /\ d[g][k] \in live /\ d[g][k] # c
      BY <3>1, OwnFacts
    <3>3. data[d[g][k]] = taken[g] + k /\ d[g][k] \in Cells
      BY <3>1, ChainFacts
    <3> QED
      BY <1>11, <2>1, <3>2, <3>3
  <2>2. CASE g = h /\ k \in 1 .. Len(q)
    <3>1. d[g][k] = q[k]
      BY <1>2, <1>10, <2>2
    <3>2. q[k] # c /\ q[k] \in live /\ q[k] \in Cells /\ data[q[k]] = taken[h] + k
      BY <1>1, <1>3, <2>2
    <3> QED
      BY <1>3, <1>11, <2>2, <3>1, <3>2
  <2>3. CASE g = h /\ k = Len(q) + 1
    <3>1. d[g][k] = c
      BY <1>2, <1>10, <2>3
    <3>2. data'[c] = taken[h] + k
      BY <1>1, <1>11, <2>3
    <3> QED
      BY <2>3, <3>1, <3>2
  <2>4. g = h => k \in 1 .. Len(q) \/ k = Len(q) + 1
    BY <1>1, <1>2, <1>10
  <2> QED
    BY <2>1, <2>2, <2>3, <2>4
<1>16. ASSUME NEW x \in live' PROVE \E g \in hs : \E k \in 1 .. Len(d[g]) : x = d[g][k]
  <2>1. CASE x = c
    <3>1. Len(q) + 1 \in 1 .. Len(d[h]) /\ d[h][Len(q) + 1] = c
      BY <1>1, <1>2, <1>10
    <3> QED
      BY <2>1, <3>1
  <2>2. CASE x # c
    <3>1. PICK g \in hs : x \in CellsOf(g)
      BY <2>2, OwnFacts
    <3>2. PICK k \in 1 .. Len(Chain(g)) : x = Chain(g)[k]
      BY <3>1, OwnFacts
    <3>3. k \in 1 .. Len(d[g]) /\ x = d[g][k]
      BY <1>1, <1>2, <1>10, <3>2
    <3> QED
      BY <3>3
  <2> QED
    BY <2>1, <2>2
<1>17. ASSUME NEW f \in hs, NEW g \in hs, f # g, NEW j \in 1 .. Len(d[f]), NEW k \in 1 .. Len(d[g])
       PROVE  d[f][j] # d[g][k]
  <2>1. CellsOf(f) \cap CellsOf(g) = {} /\ c \notin CellsOf(f) /\ c \notin CellsOf(g)
    BY <1>17, OwnFacts
  <2> QED
    BY <1>15, <1>17, <2>1
<1>18. NamedNext(d, hs)
  <2>1. hs = Heads \ over'
    OBVIOUS
  <2>2. \A g \in hs : \A k \in 1 .. Len(d[g]) : data'[d[g][k]] = taken'[g] + k
    BY <1>15
  <2>3. \A g \in hs : \A k \in 1 .. Len(d[g]) : d[g][k] \in live'
    BY <1>15
  <2>4. \A f, g \in hs : f # g =>
          \A j \in 1 .. Len(d[f]), k \in 1 .. Len(d[g]) : d[f][j] # d[g][k]
    BY <1>17
  <2>5. \A x \in live' : \E g \in hs : \E k \in 1 .. Len(d[g]) : x = d[g][k]
    BY <1>16
  <2> HIDE DEF hs
  <2> QED
    BY <2>1, <2>2, <2>3, <2>4, <2>5, <1>13, <1>14 DEF NamedNext
<1>19. ListTypes'
  <2>1. puts' \in [Heads -> 0 .. MaxPuts]
    BY <1>11 DEF ListInv, ListTypes
  <2>2. next' \in [Heads \cup Cells -> Cells \cup {0}]
    BY <1>6 DEF ListInv, ListTypes
  <2>3. data' \in [Cells -> Nat]
    BY <1>11, <2>1 DEF ListInv, ListTypes
  <2> QED
    BY <2>1, <2>2, <2>3 DEF ListInv, ListTypes
<1>20. QueuesExact'
  BY <1>18, ExactNext
<1> QED
  BY <1>19, <1>20 DEF ListInv

(* What a chain says of its links.                                         *)
LEMMA ChainLinks ==
  ASSUME NEW links, NEW h, NEW q \in Seq(Cells), IsChain(links, h, q)
  PROVE  /\ Len(q) = 0 => links[h] = 0
         /\ Len(q) # 0 => links[h] = q[1] /\ links[q[Len(q)]] = 0
         /\ \A k \in 1 .. Len(q) : k # Len(q) => links[q[k]] = q[k + 1]
<1>0. Len(q) \in Nat
  OBVIOUS
<1>1. ASSUME Len(q) = 0 PROVE links[h] = 0
  BY <1>1 DEF IsChain, NodeBefore
<1>2. ASSUME Len(q) # 0 PROVE links[h] = q[1] /\ links[q[Len(q)]] = 0
  <2>1. 1 \in 1 .. Len(q) /\ Len(q) + 1 # 1 /\ (Len(q) + 1) - 1 = Len(q)
    BY <1>0, <1>2
  <2> QED
    BY <2>1 DEF IsChain, NodeBefore
<1>3. ASSUME NEW k \in 1 .. Len(q), k # Len(q) PROVE links[q[k]] = q[k + 1]
  <2>1. k + 1 \in 1 .. Len(q) /\ k + 1 # 1 /\ (k + 1) - 1 = k
    BY <1>0, <1>3
  <2> QED
    BY <2>1 DEF IsChain, NodeBefore
<1> QED
  BY <1>1, <1>2, <1>3

(* The first cell leaves the queue, and the rest keeps its order.          *)
LEMMA GetStep == ASSUME ListInv, NEW h \in Heads, QGet(h) PROVE ListInv'
<1>0. /\ h \in Heads \ over /\ next[h] # 0
      /\ next' = [next EXCEPT ![h] = next[next[h]]] /\ live' = live \ {next[h]}
      /\ taken' = [taken EXCEPT ![h] = @ + 1] /\ UNCHANGED <<data, puts, over>>
  BY DEF QGet
<1>1. PICK q \in Seq(Cells) :
        /\ q = Chain(h) /\ Len(q) \in Nat /\ IsChain(next, h, q) /\ Len(q) = puts[h] - taken[h]
        /\ \A k \in 1 .. Len(q) : q[k] \in Cells /\ data[q[k]] = taken[h] + k
        /\ \A j, k \in 1 .. Len(q) : q[j] = q[k] => j = k
  BY <1>0, ChainFacts
<1>2. /\ Len(q) # 0 /\ next[h] = q[1] /\ next[q[Len(q)]] = 0 /\ 1 \in 1 .. Len(q)
      /\ \A k \in 1 .. Len(q) : k # Len(q) => next[q[k]] = q[k + 1]
  <2>1. Len(q) # 0
    BY <1>0, <1>1, ChainLinks
  <2> QED
    BY <1>1, <2>1, ChainLinks
<1>3. PICK t \in Seq(Cells) : t = Tail(q)
  <2>1. q # << >>
    BY <1>2
  <2>2. Tail(q) \in Seq(Cells)
    BY <2>1
  <2> QED
    BY <2>2, Zenon
<1>4. Shorter(h, q, t)
  BY <1>2, <1>3, TailWalk
<1>5. /\ Len(t) = Len(q) - 1 /\ Len(t) \in Nat
      /\ \A k \in 1 .. Len(t) : t[k] = q[k + 1]
      /\ NodeBefore(h, t, 1) = h
      /\ \A k \in 2 .. Len(t) + 1 : NodeBefore(h, t, k) = q[k]
  BY <1>4 DEF Shorter
<1>6. /\ h \notin Cells
      /\ \A k \in 1 .. Len(q) : q[k] \in live /\ q[k] \in CellsOf(h)
      /\ \A x \in CellsOf(h) : \E k \in 1 .. Len(q) : x = q[k]
  BY <1>0, <1>1, OwnFacts, MListAssumption
<1>7. /\ next'[h] = next[q[1]]
      /\ \A n \in Heads \cup Cells : n # h => next'[n] = next[n]
  BY <1>0, <1>2 DEF ListInv, ListTypes
<1>8. IsChain(next', h, t)
  <2>1. ASSUME NEW k \in 1 .. Len(t) PROVE next'[NodeBefore(h, t, k)] = t[k]
    <3>0. k \in 1 .. Len(q) /\ k # Len(q)
      BY <1>1, <1>5
    <3>1. next[q[k]] = q[k + 1]
      BY <1>2, <3>0
    <3>2. CASE k = 1
      BY <1>5, <1>7, <3>1, <3>2
    <3>3. CASE k # 1
      <4>1. k \in 2 .. Len(t) + 1
        BY <1>5, <3>3
      <4>2. q[k] # h /\ q[k] \in Cells
        BY <1>1, <1>6, <3>0
      <4> QED
        BY <1>5, <1>7, <3>1, <4>1, <4>2
    <3> QED
      BY <3>2, <3>3
  <2>2. next'[NodeBefore(h, t, Len(t) + 1)] = 0
    <3>1. CASE Len(t) = 0
      <4>1. Len(q) = 1 /\ Len(t) + 1 = 1
        BY <1>1, <1>5, <3>1
      <4> QED
        BY <1>2, <1>5, <1>7, <4>1
    <3>2. CASE Len(t) # 0
      <4>1. Len(t) + 1 \in 2 .. Len(t) + 1 /\ Len(t) + 1 = Len(q) /\ Len(q) \in 1 .. Len(q)
        BY <1>1, <1>5, <3>2
      <4>2. NodeBefore(h, t, Len(t) + 1) = q[Len(q)]
        BY <1>5, <4>1
      <4>3. q[Len(q)] # h /\ q[Len(q)] \in Cells
        BY <1>1, <1>6, <4>1
      <4> QED
        BY <1>2, <1>7, <4>2, <4>3
    <3> QED
      BY <3>1, <3>2
  <2> QED
    BY <2>1, <2>2 DEF IsChain
<1>9. ASSUME NEW g \in Heads \ over, g # h PROVE IsChain(next', g, Chain(g))
  <2>1. g \in Heads \cup Cells /\ \A x \in CellsOf(g) : x # h /\ x \in Heads \cup Cells
    BY <1>6, OwnFacts DEF ListInv, ListTypes
  <2> QED
    BY <1>7, <1>9, <2>1, OtherChains
<1> DEFINE hs == Heads \ over
           d == [g \in hs |-> IF g = h THEN t ELSE Chain(g)]
<1>10. d[h] = t /\ h \in hs /\ \A g \in hs : g # h => d[g] = Chain(g)
  BY <1>0
<1>11. /\ taken'[h] = taken[h] + 1 /\ taken[h] \in Nat /\ puts[h] \in Nat /\ MaxPuts \in Nat
       /\ \A g \in hs : g # h => taken'[g] = taken[g]
  BY <1>0, MListAssumption DEF ListInv, ListTypes
<1>12. Len(t) = puts[h] - taken'[h] /\ Len(t) <= MaxPuts
  <2>1. puts[h] <= MaxPuts
    BY <1>0, <1>11 DEF ListInv, ListTypes
  <2> QED
    BY <1>1, <1>5, <1>11, <2>1
<1> HIDE DEF d
<1>13. \A g \in hs : d[g] \in Walks /\ IsChain(next', g, d[g])
  BY <1>8, <1>9, <1>10, <1>12, WalkFacts, ChainFacts
<1>14. \A g \in hs : Len(d[g]) = puts'[g] - taken'[g]
  BY <1>0, <1>10, <1>11, <1>12, ChainFacts
<1>15. ASSUME NEW g \in hs, NEW k \in 1 .. Len(d[g])
       PROVE  /\ data'[d[g][k]] = taken'[g] + k /\ d[g][k] \in live'
              /\ d[g][k] \in CellsOf(g)
  <2>1. CASE g # h
    <3>1. k \in 1 .. Len(Chain(g)) /\ d[g][k] = Chain(g)[k]
      BY <1>10, <2>1
    <3>2. d[g][k] \in CellsOf(g) /\ d[g][k] \in live
      BY <3>1, OwnFacts
    <3>3. data[d[g][k]] = taken[g] + k
      BY <3>1, ChainFacts
    <3>4. q[1] \in CellsOf(h) /\ CellsOf(g) \cap CellsOf(h) = {}
      BY <1>2, <1>6, <1>10, <2>1, OwnFacts
    <3> QED
      BY <1>0, <1>2, <1>11, <2>1, <3>2, <3>3, <3>4
  <2>2. CASE g = h
    <3>1. k \in 1 .. Len(t) /\ d[g][k] = t[k]
      BY <1>10, <2>2
    <3>2. k + 1 \in 1 .. Len(q) /\ k + 1 # 1 /\ k \in Nat
      BY <1>1, <1>5, <3>1
    <3>3. d[g][k] = q[k + 1]
      BY <1>5, <3>1
    <3>4. data[q[k + 1]] = taken[h] + (k + 1) /\ q[k + 1] # q[1]
      BY <1>1, <1>2, <3>2
    <3>5. data'[d[g][k]] = taken[h] + (k + 1)
      BY <1>0, <3>3, <3>4
    <3>6. taken'[g] + k = taken[h] + (k + 1)
      <4>1. k \in Nat /\ taken[h] \in Nat /\ taken'[g] = taken[h] + 1
        BY <1>11, <2>2, <3>2
      <4>2. \A a, b \in Nat : (a + 1) + b = a + (b + 1)
        OBVIOUS
      <4>3. (taken[h] + 1) + k = taken[h] + (k + 1)
        BY <4>1, <4>2
      <4> QED
        BY <4>1, <4>3
    <3>7. data'[d[g][k]] = taken'[g] + k
      BY <3>5, <3>6
    <3> QED
      BY <1>0, <1>2, <1>6, <2>2, <3>2, <3>3, <3>4, <3>7
  <2> QED
    BY <2>1, <2>2
<1>16. ASSUME NEW x \in live' PROVE \E g \in hs : \E k \in 1 .. Len(d[g]) : x = d[g][k]
  <2>1. x \in live /\ x # q[1]
    BY <1>0, <1>2
  <2>2. PICK g \in hs : x \in CellsOf(g)
    BY <2>1, OwnFacts
  <2>3. CASE g # h
    <3>1. PICK k \in 1 .. Len(Chain(g)) : x = Chain(g)[k]
      BY <2>2, OwnFacts
    <3>2. k \in 1 .. Len(d[g]) /\ x = d[g][k]
      BY <1>10, <2>3, <3>1
    <3> QED
      BY <3>2
  <2>4. CASE g = h
    <3>1. PICK k \in 1 .. Len(q) : x = q[k]
      BY <1>6, <2>2, <2>4
    <3>2. k # 1
      BY <2>1, <3>1
    <3>3. k - 1 \in 1 .. Len(t) /\ (k - 1) + 1 = k
      BY <1>1, <1>5, <3>2
    <3>4. k - 1 \in 1 .. Len(d[g]) /\ x = d[g][k - 1]
      BY <1>5, <1>10, <2>4, <3>1, <3>3
    <3> QED
      BY <3>4
  <2> QED
    BY <2>3, <2>4
<1>17. ASSUME NEW f \in hs, NEW g \in hs, f # g, NEW j \in 1 .. Len(d[f]), NEW k \in 1 .. Len(d[g])
       PROVE  d[f][j] # d[g][k]
  <2>1. CellsOf(f) \cap CellsOf(g) = {}
    BY <1>17, OwnFacts
  <2> QED
    BY <1>15, <1>17, <2>1
<1>18. NamedNext(d, hs)
  <2>1. hs = Heads \ over'
    BY <1>0
  <2>2. \A g \in hs : \A k \in 1 .. Len(d[g]) : data'[d[g][k]] = taken'[g] + k
    BY <1>15
  <2>3. \A g \in hs : \A k \in 1 .. Len(d[g]) : d[g][k] \in live'
    BY <1>15
  <2>4. \A f, g \in hs : f # g =>
          \A j \in 1 .. Len(d[f]), k \in 1 .. Len(d[g]) : d[f][j] # d[g][k]
    BY <1>17
  <2>5. \A x \in live' : \E g \in hs : \E k \in 1 .. Len(d[g]) : x = d[g][k]
    BY <1>16
  <2> HIDE DEF hs
  <2> QED
    BY <2>1, <2>2, <2>3, <2>4, <2>5, <1>13, <1>14 DEF NamedNext
<1>19. ListTypes'
  <2>1. next[q[1]] \in Cells \cup {0}
    BY <1>1, <1>2 DEF ListInv, ListTypes
  <2>2. next' \in [Heads \cup Cells -> Cells \cup {0}]
    BY <1>0, <1>2, <2>1 DEF ListInv, ListTypes
  <2>3. taken' \in [Heads -> Nat]
    BY <1>0, <1>11 DEF ListInv, ListTypes
  <2> QED
    BY <1>0, <2>2, <2>3 DEF ListInv, ListTypes
<1>20. QueuesExact'
  BY <1>18, ExactNext
<1> QED
  BY <1>19, <1>20 DEF ListInv

(* The cells of one list only are freed.                                   *)
LEMMA FreeStep == ASSUME ListInv, NEW h \in Heads, ListFree(h) PROVE ListInv'
<1>0. /\ h \in Heads \ over /\ live' = live \ CellsOf(h) /\ over' = over \cup {h}
      /\ taken' = [taken EXCEPT ![h] = @ + Len(Chain(h))] /\ UNCHANGED <<next, data, puts>>
  BY DEF ListFree
<1> DEFINE hs == Heads \ (over \cup {h})
           d == [g \in hs |-> Chain(g)]
<1>1. \A g \in hs : d[g] = Chain(g) /\ g \in Heads \ over /\ g # h /\ taken'[g] = taken[g]
  BY <1>0 DEF ListInv, ListTypes
<1> HIDE DEF d
<1>2. \A g \in hs : d[g] \in Walks /\ IsChain(next', g, d[g]) /\ Len(d[g]) = puts'[g] - taken'[g]
  BY <1>0, <1>1, ChainFacts
<1>3. ASSUME NEW g \in hs, NEW k \in 1 .. Len(d[g])
      PROVE  data'[d[g][k]] = taken'[g] + k /\ d[g][k] \in live' /\ d[g][k] \in CellsOf(g)
  <2>1. k \in 1 .. Len(Chain(g)) /\ d[g][k] = Chain(g)[k]
    BY <1>1
  <2>2. d[g][k] \in CellsOf(g) /\ d[g][k] \in live
    BY <1>1, <2>1, OwnFacts
  <2>3. data[d[g][k]] = taken[g] + k
    BY <1>1, <2>1, ChainFacts
  <2>4. CellsOf(g) \cap CellsOf(h) = {}
    BY <1>0, <1>1, OwnFacts
  <2> QED
    BY <1>0, <1>1, <2>2, <2>3, <2>4
<1>4. ASSUME NEW x \in live' PROVE \E g \in hs : \E k \in 1 .. Len(d[g]) : x = d[g][k]
  <2>1. x \in live /\ x \notin CellsOf(h)
    BY <1>0
  <2>2. PICK g \in Heads \ over : x \in CellsOf(g)
    BY <2>1, OwnFacts
  <2>3. g \in hs
    BY <2>1, <2>2
  <2>4. PICK k \in 1 .. Len(Chain(g)) : x = Chain(g)[k]
    BY <2>2, OwnFacts
  <2>5. k \in 1 .. Len(d[g]) /\ x = d[g][k]
    BY <1>1, <2>3, <2>4
  <2> QED
    BY <2>3, <2>5
<1>5. ASSUME NEW f \in hs, NEW g \in hs, f # g, NEW j \in 1 .. Len(d[f]), NEW k \in 1 .. Len(d[g])
      PROVE  d[f][j] # d[g][k]
  <2>1. CellsOf(f) \cap CellsOf(g) = {}
    BY <1>1, <1>5, OwnFacts
  <2> QED
    BY <1>3, <1>5, <2>1
<1>6. NamedNext(d, hs)
  <2>1. hs = Heads \ over'
    BY <1>0
  <2>2. \A g \in hs : \A k \in 1 .. Len(d[g]) : data'[d[g][k]] = taken'[g] + k
    BY <1>3
  <2>3. \A g \in hs : \A k \in 1 .. Len(d[g]) : d[g][k] \in live'
    BY <1>3
  <2>4. \A f, g \in hs : f # g =>
          \A j \in 1 .. Len(d[f]), k \in 1 .. Len(d[g]) : d[f][j] # d[g][k]
    BY <1>5
  <2>5. \A x \in live' : \E g \in hs : \E k \in 1 .. Len(d[g]) : x = d[g][k]
    BY <1>4
  <2> HIDE DEF hs
  <2> QED
    BY <2>1, <2>2, <2>3, <2>4, <2>5, <1>2 DEF NamedNext
<1>7. ListTypes'
  <2>1. Len(Chain(h)) \in Nat
    BY <1>0, ChainFacts
  <2>2. taken' \in [Heads -> Nat]
    BY <1>0, <2>1 DEF ListInv, ListTypes
  <2> QED
    BY <1>0, <2>2 DEF ListInv, ListTypes
<1>8. QueuesExact'
  BY <1>6, ExactNext
<1> QED
  BY <1>7, <1>8 DEF ListInv

(* A head that is initialised has an empty chain, and the others keep theirs.*)
LEMMA HeadStep == ASSUME ListInv, NEW h \in Heads, HeadInit(h) PROVE ListInv'
<1>0. /\ h \in over /\ next' = [next EXCEPT ![h] = 0] /\ over' = over \ {h}
      /\ puts' = [puts EXCEPT ![h] = 0] /\ taken' = [taken EXCEPT ![h] = 0] /\ UNCHANGED <<data, live>>
  BY DEF HeadInit
<1> DEFINE hs == Heads \ (over \ {h})
           d == [g \in hs |-> IF g = h THEN << >> ELSE Chain(g)]
<1>1. \A g \in hs : g # h => /\ d[g] = Chain(g) /\ g \in Heads \ over
                             /\ puts'[g] = puts[g] /\ taken'[g] = taken[g]
  BY <1>0 DEF ListInv, ListTypes
<1>2. h \in hs /\ d[h] = << >> /\ puts'[h] = 0 /\ taken'[h] = 0 /\ next'[h] = 0
  BY <1>0 DEF ListInv, ListTypes
<1> HIDE DEF d
<1>3. Len(<< >>) = 0 /\ << >> \in Walks /\ IsChain(next', h, << >>)
  <2>1. << >> \in Seq(Cells) /\ Len(<< >>) = 0
    OBVIOUS
  <2>2. << >> \in Walks
    <3>1. Len(<< >>) <= MaxPuts
      BY <2>1, MListAssumption
    <3> QED
      BY <2>1, <3>1, WalkFacts
  <2> QED
    BY <1>2, <2>1, <2>2 DEF IsChain, NodeBefore
<1>4. ASSUME NEW g \in hs
      PROVE  d[g] \in Walks /\ IsChain(next', g, d[g]) /\ Len(d[g]) = puts'[g] - taken'[g]
  <2>1. CASE g = h
    BY <1>2, <1>3, <2>1
  <2>2. CASE g # h
    <3>1. g \in Heads \ over /\ d[g] = Chain(g)
      BY <1>1, <2>2
    <3>2. CellsOf(g) \subseteq Cells
      BY <3>1, OwnFacts DEF ListInv, ListTypes
    <3>3. next'[g] = next[g] /\ \A c \in CellsOf(g) : next'[c] = next[c]
      BY <1>0, <2>2, <3>1, <3>2, MListAssumption DEF ListInv, ListTypes
    <3>4. IsChain(next', g, Chain(g))
      BY <3>1, <3>3, OtherChains
    <3> QED
      BY <1>1, <2>2, <3>1, <3>4, ChainFacts
  <2> QED
    BY <2>1, <2>2
<1>5. ASSUME NEW g \in hs, NEW k \in 1 .. Len(d[g])
      PROVE  g # h /\ data'[d[g][k]] = taken'[g] + k /\ d[g][k] \in live' /\ d[g][k] \in CellsOf(g)
  <2>1. g # h
    BY <1>2, <1>3
  <2>2. k \in 1 .. Len(Chain(g)) /\ d[g][k] = Chain(g)[k]
    BY <1>1, <2>1
  <2>3. d[g][k] \in CellsOf(g) /\ d[g][k] \in live
    BY <1>1, <2>1, <2>2, OwnFacts
  <2>4. data[d[g][k]] = taken[g] + k
    BY <1>1, <2>1, <2>2, ChainFacts
  <2> QED
    BY <1>0, <1>1, <2>1, <2>3, <2>4
<1>6. ASSUME NEW x \in live' PROVE \E g \in hs : \E k \in 1 .. Len(d[g]) : x = d[g][k]
  <2>1. x \in live
    BY <1>0
  <2>2. PICK g \in Heads \ over : x \in CellsOf(g)
    BY <2>1, OwnFacts
  <2>3. g \in hs /\ g # h
    BY <1>0, <2>2
  <2>4. PICK k \in 1 .. Len(Chain(g)) : x = Chain(g)[k]
    BY <2>2, OwnFacts
  <2>5. k \in 1 .. Len(d[g]) /\ x = d[g][k]
    BY <1>1, <2>3, <2>4
  <2> QED
    BY <2>3, <2>5
<1>7. ASSUME NEW f \in hs, NEW g \in hs, f # g, NEW j \in 1 .. Len(d[f]), NEW k \in 1 .. Len(d[g])
      PROVE  d[f][j] # d[g][k]
  <2>1. f # h /\ d[f][j] \in CellsOf(f) /\ g # h /\ d[g][k] \in CellsOf(g)
    BY <1>5
  <2>2. CellsOf(f) \cap CellsOf(g) = {}
    BY <1>1, <1>7, <2>1, OwnFacts
  <2> QED
    BY <2>1, <2>2
<1>8. NamedNext(d, hs)
  <2>1. hs = Heads \ over'
    BY <1>0
  <2>2. \A g \in hs : \A k \in 1 .. Len(d[g]) : data'[d[g][k]] = taken'[g] + k
    BY <1>5
  <2>3. \A g \in hs : \A k \in 1 .. Len(d[g]) : d[g][k] \in live'
    BY <1>5
  <2>4. \A f, g \in hs : f # g =>
          \A j \in 1 .. Len(d[f]), k \in 1 .. Len(d[g]) : d[f][j] # d[g][k]
    BY <1>7
  <2>5. \A x \in live' : \E g \in hs : \E k \in 1 .. Len(d[g]) : x = d[g][k]
    BY <1>6
  <2> HIDE DEF hs
  <2> QED
    BY <2>1, <2>2, <2>3, <2>4, <2>5, <1>4 DEF NamedNext
<1>9. ListTypes'
  BY <1>0, MListAssumption DEF ListInv, ListTypes
<1>10. QueuesExact'
  BY <1>8, ExactNext
<1> QED
  BY <1>9, <1>10 DEF ListInv

(* No queue is in use at first.                                              *)
LEMMA ListStart == ListInit => ListInv
<1> SUFFICES ASSUME ListInit PROVE ListInv
  OBVIOUS
<1>1. ListTypes
  BY MListAssumption DEF ListInit, ListTypes
<1>2. Heads \ over = {} /\ live = {}
  BY DEF ListInit
<1> QED
  BY <1>1, <1>2 DEF ListInv, QueuesExact, FirstInFirstOut, CellsOwned

(* Every call keeps the invariant, q_put and list_add without a cell, too.   *)
LEMMA ListSteps == ListInv /\ [ListNext]_listVars => ListInv'
<1> SUFFICES ASSUME ListInv, [ListNext]_listVars PROVE ListInv'
  OBVIOUS
<1>1. CASE UNCHANGED listVars
  BY <1>1, ListFrame
<1>2. ASSUME NEW h \in Heads, QPut(h) PROVE ListInv'
  <2>1. CASE UNCHANGED <<next, data, live, puts>>
    BY <1>2, <2>1, ListFrame DEF QPut, listVars
  <2>2. ASSUME NEW c \in Cells \ live,
               live' = live \cup {c}, next' = Linked(h, c), puts' = [puts EXCEPT ![h] = @ + 1],
               data' = [data EXCEPT ![c] = puts'[h]]
        PROVE  ListInv'
    BY <1>2, <2>2, LinkStep DEF QPut
  <2> QED
    BY <1>2, <2>1, <2>2 DEF QPut
<1>3. ASSUME NEW h \in Heads, QGet(h) PROVE ListInv'
  BY <1>3, GetStep
<1>4. ASSUME NEW h \in Heads, ListFree(h) PROVE ListInv'
  BY <1>4, FreeStep
<1>5. ASSUME NEW h \in Heads, HeadInit(h) PROVE ListInv'
  BY <1>5, HeadStep
<1> QED
  BY <1>1, <1>2, <1>3, <1>4, <1>5 DEF ListNext

(* However q_init, q_put, list_init, list_add, q_get and list_free of        *)
(* several queues and lists alternate, and whichever freed cells malloc      *)
(* gives out again, each holds what was put in and not taken out, first in   *)
(* first out, every allocated cell is in one of them only, and none holds a  *)
(* freed one.                                                                *)
THEOREM QueuesKeepOrder == ListSpec => []QueuesExact
<1>1. ListInv => QueuesExact
  BY DEF ListInv
<1> QED
  BY ListStart, ListSteps, <1>1, PTL DEF ListSpec
=============================================================================
