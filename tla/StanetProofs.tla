---------------------------- MODULE StanetProofs ----------------------------
(***************************************************************************)
(* The safety properties of Stanet, proved for every number of sessions,   *)
(* clients, hosts and descriptors and for any bounds.  None of them is     *)
(* inductive alone.  Types need what a thread remembers between two steps  *)
(* (ClientInv, WorkerInv); descriptor ownership needs that a worker about  *)
(* to register a descriptor has one; a clean free slot needs to be known   *)
(* while a late WRITE or READ is handled on it, not only between messages. *)
(***************************************************************************)
EXTENDS StanetRefinement, StanetQmi, TLAPS

(* What a client inside a call remembers.                                   *)
ClientInv ==
  \A c \in Clients :
    /\ cpc[c] \in {"mark", "put"} => call[c].sid \in Ids /\ call[c].m \in Msgs
    /\ cpc[c] = "mark" => call[c].m \in LenMsgs

(* What a worker is handling at each place of thread_run.                   *)
WorkerInv ==
  \A s \in Ids :
    /\ wpc[s] \in {"open", "connect", "watch", "failed"} => msg[s] \in OpenMsgs
    /\ wpc[s] = "io" => msg[s] \in LenMsgs /\ count[s] <= msg[s].len
    /\ wpc[s] = "callback" => msg[s] \in Msgs
    /\ wpc[s] = "connect" => sockfd[s] # -1
    /\ wpc[s] = "watch" => sockfd[s] \in connected

(* A free slot is clean at every point but between the parsing of an OPEN   *)
(* message and the reset that follows its failure.                          *)
Dirty(s) == \/ wpc[s] \in {"connect", "watch", "failed", "reset"}
            \/ wpc[s] = "callback" /\ msg[s].msg_id = "OPEN"

CleanInv ==
  \A s \in Ids :
    state[s] = "UNUSED" => /\ sockfd[s] = -1
                           /\ ~Dirty(s) => host[s].len = 0 /\ port[s] = -1

IInv == /\ TypeOK /\ ClientInv /\ WorkerInv /\ CleanInv
        /\ SignalledFindsMessage /\ FdOwnership /\ OpenedHasSocket

-----------------------------------------------------------------------------
(* What the two kinds of messages carry.                                    *)
LEMMA MsgFacts ==
  /\ OpenMsgs \subseteq Msgs /\ LenMsgs \subseteq Msgs
  /\ \A m \in OpenMsgs : m.msg_id = "OPEN" /\ m.host \in Hosts /\ m.port \in Ports /\ m.len = 0
  /\ \A m \in LenMsgs : m.msg_id \in {"WRITE", "READ", "CLOSE"} /\ m.len \in Lens
  /\ \A m \in Msgs : m.msg_id = "OPEN" <=> m \in OpenMsgs
  /\ \A m \in Msgs : m.msg_id # "OPEN" <=> m \in LenMsgs
  /\ \A h \in Hosts, p \in Ports : OpenMsg(h, p) \in OpenMsgs
  /\ \A op \in {"WRITE", "READ", "CLOSE"}, n \in Lens : LenMsg(op, n) \in LenMsgs
  /\ 0 \in Lens
  BY StanetAssumption DEF Msgs, OpenMsgs, LenMsgs, OpenMsg, LenMsg, Lens

(* The constant sets, and the values that stand for "none".                 *)
LEMMA SetFacts ==
  /\ Ids \subseteq Int /\ -1 \notin Ids
  /\ Fds \subseteq Int /\ -1 \notin Fds
  /\ \A n \in Lens : n \in Nat /\ n <= MaxLen
  /\ \A n \in Nat : n <= MaxLen => n \in Lens
  /\ MaxLen \in Nat
  BY StanetAssumption DEF Ids, Fds, Lens

(* A queue with a message appended is not empty. *)
LEMMA AppendNotEmpty ==
  ASSUME NEW q \in Seq(Msgs), NEW m \in Msgs
  PROVE  Append(q, m) # << >>
<1>1. Len(Append(q, m)) = Len(q) + 1 /\ Len(q) \in Nat
  OBVIOUS
<1>2. QED
  BY <1>1

(* The client's own variables in stanet_session_open. *)
LEMMA OpenCallClient ==
  ASSUME IInv, NEW c \in Clients, NEW h \in Hosts \cup {NoHost}, NEW p \in Ports, Open(c, h, p)
  PROVE  ClientTypes' /\ ClientInv'
<1>1. CASE Refuse(c)
  BY <1>1, StanetAssumption DEF IInv, TypeOK, ClientTypes, ClientInv, Open, BeginCall, Refuse
<1>2. CASE h # NoHost /\ \E s \in Ids : Proceed(c, s, OpenMsg(h, p), "put")
  <2>1. PICK s \in Ids : Proceed(c, s, OpenMsg(h, p), "put")
    BY <1>2
  <2>2. OpenMsg(h, p) \in Msgs
    BY <1>2, MsgFacts
  <2>3. ClientTypes'
    BY <2>1, <2>2, StanetAssumption DEF IInv, TypeOK, ClientTypes, Open, BeginCall, Proceed
  <2>4. ClientInv'
    BY <2>1, <2>2 DEF IInv, TypeOK, ClientTypes, ClientInv, Open, BeginCall, Proceed
  <2>5. QED
    BY <2>3, <2>4
<1>3. QED
  BY <1>1, <1>2 DEF Open

(* The client's own variables in the test of a write, read or close. *)
LEMMA CheckClient ==
  ASSUME IInv, NEW c \in Clients, NEW s \in Ids \cup {-1}, NEW m \in LenMsgs, Check(c, s, m)
  PROVE  ClientTypes' /\ ClientInv'
<1>1. CASE Refuse(c)
  BY <1>1, StanetAssumption DEF IInv, TypeOK, ClientTypes, ClientInv, Check, BeginCall, Refuse
<1>2. CASE Connected(s) /\ Proceed(c, s, m, "mark")
  <2>1. m \in Msgs /\ s \in Ids
    BY <1>2, MsgFacts DEF IInv, TypeOK, SessionTypes, Connected
  <2>3. ClientTypes'
    BY <2>1, <1>2, StanetAssumption DEF IInv, TypeOK, ClientTypes, Check, BeginCall, Proceed
  <2>4. ClientInv'
    BY <2>1, <1>2 DEF IInv, TypeOK, ClientTypes, ClientInv, Check, BeginCall, Proceed
  <2>5. QED
    BY <2>3, <2>4
<1>3. QED
  BY <1>1, <1>2 DEF Check

(* What is sent after the state is marked is a message. *)
LEMMA MarkClient ==
  ASSUME IInv, NEW c \in Clients, Mark(c)
  PROVE  ClientTypes'
<1>1. call[c].m \in LenMsgs /\ call[c].sid \in Ids
  BY DEF IInv, ClientInv, Mark
<1>2. Sent(call[c].m) \in Msgs
  BY <1>1, MsgFacts DEF Sent
<1>3. call' \in [Clients -> [sid : Ids \cup {-1}, m : Msgs \cup {NoMsg}]]
  BY <1>2 DEF IInv, TypeOK, ClientTypes, Mark
<1>4. QED
  BY <1>3 DEF IInv, TypeOK, ClientTypes, Mark

(* msg_queue_put leaves messages in the queue, at least one in its own. *)
LEMMA PutQueue ==
  ASSUME IInv, NEW c \in Clients, Put(c)
  PROVE  SessionTypes' /\ SignalledFindsMessage'
<1>1. call[c].sid \in Ids /\ call[c].m \in Msgs
  BY DEF IInv, ClientInv, Put
<1>2. msg_q' \in [Ids -> Seq(Msgs)]
  BY <1>1 DEF IInv, TypeOK, SessionTypes, Put
<1>3. SessionTypes'
  BY <1>2 DEF IInv, TypeOK, SessionTypes, Put, sessionVars
<1>4. msg_q' = [msg_q EXCEPT ![call[c].sid] = Append(@, call[c].m)]
  BY DEF Put
<1>5. Append(msg_q[call[c].sid], call[c].m) # << >>
  BY <1>1, AppendNotEmpty DEF IInv, TypeOK, SessionTypes
<1>6. msg_q'[call[c].sid] # << >>
  BY <1>1, <1>4, <1>5, Zenon DEF IInv, TypeOK, SessionTypes
<1>7. \A t \in Ids : msg_q[t] # << >> => msg_q'[t] # << >>
  BY <1>1, <1>4, <1>6 DEF IInv, TypeOK, SessionTypes
<1>8. SignalledFindsMessage'
  BY <1>1, <1>6, <1>7 DEF IInv, TypeOK, WorkerTypes, SignalledFindsMessage, Put, Signal, Alive
<1>9. QED
  BY <1>3, <1>8

(* The head of a queue is a message with a handler. *)
LEMMA PopWorker ==
  ASSUME IInv, NEW s \in Ids, Pop(s)
  PROVE  WorkerTypes'
<1>1. Head(msg_q[s]) \in Msgs
  BY DEF IInv, TypeOK, SessionTypes, Pop
<1>2. Handler(Head(msg_q[s]).msg_id) \in Labels
  BY <1>1, MsgFacts DEF Handler, Labels
<1>3. QED
  BY <1>1, <1>2, MsgFacts DEF IInv, TypeOK, WorkerTypes, Pop, Goto, kernelVars

(* A new descriptor is nobody else's. *)
LEMMA SocketOwned ==
  ASSUME IInv, NEW s \in Ids, OpenSocket(s)
  PROVE  SessionTypes' /\ FdOwnership'
<1>1. PICK fd \in Fds \ fds : fds' = fds \cup {fd} /\ sockfd' = [sockfd EXCEPT ![s] = fd]
  BY DEF OpenSocket
<1>2. host' \in [Ids -> [name : Hosts \cup {NoHost, Mixed}, len : Nat]]
  BY StanetAssumption, MsgFacts DEF IInv, TypeOK, SessionTypes, WorkerInv, OpenSocket, Parse, Overlay
<1>3. port' \in [Ids -> Ports \cup {-1, 0}]
  BY MsgFacts DEF IInv, TypeOK, SessionTypes, WorkerInv, OpenSocket, Parse, ParsedPort
<1>4. SessionTypes'
  BY <1>1, <1>2, <1>3 DEF IInv, TypeOK, SessionTypes, SessionStates, OpenSocket, Parse
<1>5. FdOwnership'
  BY <1>1 DEF IInv, TypeOK, SessionTypes, FdOwnership, OpenSocket, Parse
<1>6. QED
  BY <1>4, <1>5

(* What is connected is a descriptor. *)
LEMMA ConnectWorker ==
  ASSUME IInv, NEW s \in Ids, Connect(s)
  PROVE  WorkerTypes'
<1>1. sockfd[s] \in Fds
  BY DEF IInv, TypeOK, SessionTypes, WorkerInv, Connect
<1>2. QED
  BY <1>1 DEF IInv, TypeOK, WorkerTypes, Labels, Connect, Goto

(* Every failure leaves an error code. *)
LEMMA ConnectFailedErr ==
  ASSUME IInv, NEW s \in Ids, ConnectFailed(s)
  PROVE  SessionTypes'
<1>1. err' \in [Ids -> Errs]
  BY DEF IInv, TypeOK, SessionTypes, Errs, ConnectFailed
<1>2. QED
  BY <1>1 DEF IInv, TypeOK, SessionTypes, ConnectFailed

(* The transfer loop never moves more than was asked for. *)
LEMMA MoveCount ==
  ASSUME IInv, NEW s \in Ids, Move(s)
  PROVE  WorkerTypes' /\ WorkerInv'
<1>1. PICK n \in 1 .. (msg[s].len - count[s]) : count' = [count EXCEPT ![s] = @ + n]
  BY DEF Move
<1>2. msg[s] \in LenMsgs /\ msg[s].len \in Lens /\ count[s] \in Lens
  BY MsgFacts DEF IInv, TypeOK, WorkerTypes, WorkerInv, Move, InLoop
<1>3. count[s] + n \in Lens /\ count[s] + n <= msg[s].len
  BY <1>2, SetFacts
<1>4. WorkerTypes'
  BY <1>1, <1>3 DEF IInv, TypeOK, WorkerTypes, Move, InLoop, kernelVars
<1>5. WorkerInv'
  BY <1>1, <1>3 DEF IInv, TypeOK, WorkerTypes, WorkerInv, Move, InLoop, kernelVars
<1>6. QED
  BY <1>4, <1>5

-----------------------------------------------------------------------------
(* Open preserves the invariant. *)
LEMMA OpenCallStep ==
  ASSUME IInv,
         NEW c \in Clients, NEW h \in Hosts \cup {NoHost}, NEW p \in Ports, Open(c, h, p)
  PROVE  IInv'
<1>1. SessionTypes' /\ WorkerTypes' /\ WorkerInv' /\ CleanInv' /\
    SignalledFindsMessage' /\ FdOwnership' /\ OpenedHasSocket'
  BY DEF IInv, TypeOK, SessionTypes, WorkerTypes, WorkerInv, CleanInv,
    SignalledFindsMessage, FdOwnership, OpenedHasSocket, Open, BeginCall, MutexFree,
    Dirty, sessionVars, workerVars, kernelVars
<1>2. ClientTypes' /\ ClientInv'
  BY OpenCallClient
<1>3. QED
  BY <1>1, <1>2 DEF IInv, TypeOK

(* Check preserves the invariant. *)
LEMMA CheckStep ==
  ASSUME IInv,
         NEW c \in Clients, NEW s \in Ids \cup {-1}, NEW m \in LenMsgs, Check(c, s, m)
  PROVE  IInv'
<1>1. SessionTypes' /\ WorkerTypes' /\ WorkerInv' /\ CleanInv' /\
    SignalledFindsMessage' /\ FdOwnership' /\ OpenedHasSocket'
  BY DEF IInv, TypeOK, SessionTypes, WorkerTypes, WorkerInv, CleanInv,
    SignalledFindsMessage, FdOwnership, OpenedHasSocket, Check, BeginCall, MutexFree,
    Dirty, sessionVars, workerVars, kernelVars
<1>2. ClientTypes' /\ ClientInv'
  BY CheckClient
<1>3. QED
  BY <1>1, <1>2 DEF IInv, TypeOK

(* Mark preserves the invariant. *)
LEMMA MarkStep ==
  ASSUME IInv,
         NEW c \in Clients, Mark(c)
  PROVE  IInv'
<1>1. WorkerTypes' /\ WorkerInv' /\ SignalledFindsMessage' /\ FdOwnership'
  BY DEF IInv, TypeOK, WorkerTypes, WorkerInv, SignalledFindsMessage, FdOwnership, Mark,
    workerVars, kernelVars
<1>2. SessionTypes'
  BY MsgFacts DEF IInv, TypeOK, SessionTypes, ClientInv, WorkerInv, SessionStates, Errs,
    Mark, Marked, Sent, workerVars, kernelVars
<1>3. ClientInv'
  BY MsgFacts DEF IInv, TypeOK, WorkerTypes, ClientInv, Mark, Marked, Sent, workerVars,
    kernelVars
<1>4. CleanInv'
  BY MsgFacts DEF IInv, TypeOK, WorkerTypes, ClientInv, WorkerInv, CleanInv, Dirty,
    Mark, Marked, Sent, workerVars, kernelVars
<1>5. OpenedHasSocket'
  BY MsgFacts DEF IInv, TypeOK, WorkerTypes, ClientInv, WorkerInv, OpenedHasSocket,
    Mark, Marked, Sent, workerVars, kernelVars
<1>6. ClientTypes'
  BY MarkClient
<1>7. QED
  BY <1>1, <1>2, <1>3, <1>4, <1>5, <1>6 DEF IInv, TypeOK

(* Put preserves the invariant. *)
LEMMA PutStep ==
  ASSUME IInv,
         NEW c \in Clients, Put(c)
  PROVE  IInv'
<1>1. FdOwnership' /\ OpenedHasSocket'
  BY DEF IInv, FdOwnership, OpenedHasSocket, Put, sessionVars, kernelVars
<1>2. WorkerTypes'
  BY DEF IInv, TypeOK, WorkerTypes, Labels, NoMsg, NoCb, Cbs, Errs, Ops, Put, Signal,
    sessionVars, kernelVars
<1>3. ClientTypes'
  BY DEF IInv, TypeOK, ClientTypes, NoCall, NoMsg, Put, Signal, sessionVars, kernelVars
<1>4. ClientInv'
  BY DEF IInv, TypeOK, ClientTypes, WorkerTypes, ClientInv, Put, Signal, sessionVars,
    kernelVars
<1>5. WorkerInv'
  BY DEF IInv, TypeOK, WorkerTypes, WorkerInv, Put, Signal, sessionVars, kernelVars
<1>6. CleanInv'
  BY DEF IInv, TypeOK, WorkerTypes, CleanInv, Dirty, Put, Signal, sessionVars,
    kernelVars
<1>7. SessionTypes' /\ SignalledFindsMessage'
  BY PutQueue
<1>8. QED
  BY <1>1, <1>2, <1>3, <1>4, <1>5, <1>6, <1>7 DEF IInv, TypeOK

(* Start preserves the invariant. *)
LEMMA StartStep ==
  ASSUME IInv,
         NEW s \in Ids, Start(s)
  PROVE  IInv'
<1>1. SessionTypes' /\ ClientTypes' /\ ClientInv' /\ FdOwnership' /\ OpenedHasSocket'
  BY DEF IInv, TypeOK, SessionTypes, ClientTypes, ClientInv, FdOwnership,
    OpenedHasSocket, Start, sessionVars, kernelVars, clientVars
<1>2. WorkerTypes'
  BY DEF IInv, TypeOK, WorkerTypes, Labels, NoMsg, NoCb, Cbs, Errs, Ops, Start, Goto,
    sessionVars, kernelVars, clientVars
<1>3. WorkerInv'
  BY DEF IInv, TypeOK, WorkerTypes, WorkerInv, Start, Goto, sessionVars, kernelVars,
    clientVars
<1>4. CleanInv'
  BY DEF IInv, TypeOK, WorkerTypes, CleanInv, Dirty, Start, Goto, sessionVars,
    kernelVars, clientVars
<1>5. SignalledFindsMessage'
  BY DEF IInv, TypeOK, WorkerTypes, SignalledFindsMessage, Alive, Start, Goto,
    sessionVars, kernelVars, clientVars
<1>6. QED
  BY <1>1, <1>2, <1>3, <1>4, <1>5 DEF IInv, TypeOK

(* SpuriousWakeup preserves the invariant. *)
LEMMA SpuriousWakeupStep ==
  ASSUME IInv,
         NEW s \in Ids, SpuriousWakeup(s)
  PROVE  IInv'
<1>1. SessionTypes' /\ ClientTypes' /\ ClientInv' /\ FdOwnership' /\ OpenedHasSocket'
  BY DEF IInv, TypeOK, SessionTypes, ClientTypes, ClientInv, FdOwnership,
    OpenedHasSocket, SpuriousWakeup, sessionVars, kernelVars, clientVars
<1>2. WorkerTypes'
  BY DEF IInv, TypeOK, WorkerTypes, Labels, NoMsg, NoCb, Cbs, Errs, Ops, SpuriousWakeup,
    Goto, sessionVars, kernelVars, clientVars
<1>3. WorkerInv'
  BY DEF IInv, TypeOK, WorkerTypes, WorkerInv, SpuriousWakeup, Goto, sessionVars,
    kernelVars, clientVars
<1>4. CleanInv'
  BY DEF IInv, TypeOK, WorkerTypes, CleanInv, Dirty, SpuriousWakeup, Goto, sessionVars,
    kernelVars, clientVars
<1>5. SignalledFindsMessage'
  BY DEF IInv, TypeOK, WorkerTypes, SignalledFindsMessage, Alive, SpuriousWakeup, Goto,
    sessionVars, kernelVars, clientVars
<1>6. QED
  BY <1>1, <1>2, <1>3, <1>4, <1>5 DEF IInv, TypeOK

(* Pop preserves the invariant. *)
LEMMA PopStep ==
  ASSUME IInv,
         NEW s \in Ids, Pop(s)
  PROVE  IInv'
<1>1. ClientTypes' /\ ClientInv' /\ FdOwnership' /\ OpenedHasSocket'
  BY DEF IInv, TypeOK, ClientTypes, ClientInv, FdOwnership, OpenedHasSocket, Pop,
    sessionVars, kernelVars, clientVars
<1>2. SessionTypes'
  BY DEF IInv, TypeOK, SessionTypes, SessionStates, Errs, Pop, Goto, Handler,
    sessionVars, kernelVars, clientVars
<1>3. WorkerInv'
  BY StanetAssumption, MsgFacts, SetFacts DEF IInv, SessionTypes, WorkerTypes,
    ClientTypes, TypeOK, WorkerInv, ClientInv, MutexFree, Pop, Goto, Handler,
    sessionVars, workerVars, kernelVars, clientVars
<1>4. CleanInv'
  BY DEF IInv, TypeOK, WorkerTypes, CleanInv, Dirty, Pop, Goto, Handler, sessionVars,
    kernelVars, clientVars
<1>5. SignalledFindsMessage'
  BY MsgFacts DEF IInv, TypeOK, SessionTypes, WorkerTypes, SignalledFindsMessage, Alive,
    Pop, Goto, Handler, sessionVars, kernelVars, clientVars
<1>6. WorkerTypes'
  BY PopWorker
<1>7. QED
  BY <1>1, <1>2, <1>3, <1>4, <1>5, <1>6 DEF IInv, TypeOK

(* PopNull preserves the invariant. *)
LEMMA PopNullStep ==
  ASSUME IInv,
         NEW s \in Ids, PopNull(s)
  PROVE  IInv'
<1>1. SessionTypes' /\ ClientTypes' /\ ClientInv' /\ WorkerInv' /\ CleanInv' /\
    FdOwnership' /\ OpenedHasSocket'
  BY DEF IInv, TypeOK, SessionTypes, ClientTypes, ClientInv, WorkerInv, CleanInv,
    FdOwnership, OpenedHasSocket, PopNull, MutexFree, Dirty, sessionVars, workerVars,
    kernelVars, clientVars
<1>2. WorkerTypes'
  BY DEF IInv, TypeOK, WorkerTypes, Labels, NoMsg, NoCb, Cbs, Errs, Ops, PopNull,
    sessionVars, workerVars, kernelVars, clientVars
<1>3. SignalledFindsMessage'
  BY DEF IInv, TypeOK, WorkerTypes, SignalledFindsMessage, Alive, PopNull, sessionVars,
    workerVars, kernelVars, clientVars
<1>4. QED
  BY <1>1, <1>2, <1>3 DEF IInv, TypeOK

(* SkipOpen preserves the invariant. *)
LEMMA SkipOpenStep ==
  ASSUME IInv,
         NEW s \in Ids, SkipOpen(s)
  PROVE  IInv'
<1>1. ClientTypes' /\ ClientInv' /\ FdOwnership' /\ OpenedHasSocket'
  BY DEF IInv, TypeOK, ClientTypes, ClientInv, FdOwnership, OpenedHasSocket, SkipOpen,
    Parse, clientVars
<1>2. SessionTypes'
  BY StanetAssumption, MsgFacts, SetFacts DEF IInv, SessionTypes, WorkerTypes,
    ClientTypes, TypeOK, WorkerInv, ClientInv, SessionStates, Errs, SkipOpen, Parse,
    Goto, Overlay, ParsedPort, sessionVars, workerVars, kernelVars, clientVars
<1>3. WorkerTypes'
  BY DEF IInv, TypeOK, WorkerTypes, Labels, NoMsg, NoCb, Cbs, Errs, Ops, SkipOpen,
    Parse, Goto, Overlay, ParsedPort, clientVars
<1>4. WorkerInv'
  BY MsgFacts DEF IInv, TypeOK, WorkerTypes, WorkerInv, SkipOpen, Parse, Goto, Overlay,
    ParsedPort, clientVars
<1>5. CleanInv'
  BY MsgFacts DEF IInv, TypeOK, WorkerTypes, ClientInv, WorkerInv, CleanInv, Dirty,
    SkipOpen, Parse, Goto, Overlay, ParsedPort, clientVars
<1>6. SignalledFindsMessage'
  BY DEF IInv, TypeOK, WorkerTypes, SignalledFindsMessage, Alive, SkipOpen, Parse, Goto,
    Overlay, ParsedPort, clientVars
<1>7. QED
  BY <1>1, <1>2, <1>3, <1>4, <1>5, <1>6 DEF IInv, TypeOK

(* OpenSocket preserves the invariant. *)
LEMMA OpenSocketStep ==
  ASSUME IInv,
         NEW s \in Ids, OpenSocket(s)
  PROVE  IInv'
<1>1. ClientTypes' /\ ClientInv'
  BY DEF IInv, TypeOK, ClientTypes, ClientInv, OpenSocket, Parse, clientVars
<1>2. WorkerTypes'
  BY DEF IInv, TypeOK, WorkerTypes, Labels, NoMsg, NoCb, Cbs, Errs, Ops, OpenSocket,
    Parse, Goto, Overlay, ParsedPort, clientVars
<1>3. WorkerInv'
  BY StanetAssumption, MsgFacts, SetFacts DEF IInv, SessionTypes, WorkerTypes,
    ClientTypes, TypeOK, WorkerInv, ClientInv, MutexFree, OpenSocket, Parse, Goto,
    Overlay, ParsedPort, sessionVars, workerVars, kernelVars, clientVars
<1>4. CleanInv'
  BY DEF IInv, TypeOK, SessionTypes, CleanInv, Dirty, OpenSocket, Parse, Goto, Overlay,
    ParsedPort, clientVars
<1>5. SignalledFindsMessage'
  BY DEF IInv, TypeOK, WorkerTypes, SignalledFindsMessage, Alive, OpenSocket, Parse,
    Goto, Overlay, ParsedPort, clientVars
<1>6. OpenedHasSocket'
  BY DEF IInv, TypeOK, SessionTypes, OpenedHasSocket, OpenSocket, Parse, Goto, Overlay,
    ParsedPort, clientVars
<1>7. SessionTypes' /\ FdOwnership'
  BY SocketOwned
<1>8. QED
  BY <1>1, <1>2, <1>3, <1>4, <1>5, <1>6, <1>7 DEF IInv, TypeOK

(* NoSocket preserves the invariant. *)
LEMMA NoSocketStep ==
  ASSUME IInv,
         NEW s \in Ids, NoSocket(s)
  PROVE  IInv'
<1>1. ClientTypes' /\ ClientInv'
  BY DEF IInv, TypeOK, ClientTypes, ClientInv, NoSocket, Parse, clientVars
<1>2. SessionTypes'
  BY StanetAssumption, MsgFacts, SetFacts DEF IInv, SessionTypes, WorkerTypes,
    ClientTypes, TypeOK, WorkerInv, ClientInv, SessionStates, Errs, NoSocket, Parse,
    Goto, Overlay, ParsedPort, sessionVars, workerVars, kernelVars, clientVars
<1>3. WorkerTypes'
  BY DEF IInv, TypeOK, WorkerTypes, Labels, NoMsg, NoCb, Cbs, Errs, Ops, NoSocket,
    Parse, Goto, Overlay, ParsedPort, clientVars
<1>4. WorkerInv'
  BY DEF IInv, TypeOK, WorkerTypes, WorkerInv, NoSocket, Parse, Goto, Overlay,
    ParsedPort, clientVars
<1>5. CleanInv'
  BY DEF IInv, TypeOK, WorkerTypes, CleanInv, Dirty, NoSocket, Parse, Goto, Overlay,
    ParsedPort, clientVars
<1>6. SignalledFindsMessage'
  BY DEF IInv, TypeOK, WorkerTypes, SignalledFindsMessage, Alive, NoSocket, Parse, Goto,
    Overlay, ParsedPort, clientVars
<1>7. FdOwnership'
  BY DEF IInv, TypeOK, WorkerTypes, FdOwnership, NoSocket, Parse, Goto, Overlay,
    ParsedPort, clientVars
<1>8. OpenedHasSocket'
  BY DEF IInv, TypeOK, SessionTypes, OpenedHasSocket, NoSocket, Parse, Goto, Overlay,
    ParsedPort, clientVars
<1>9. QED
  BY <1>1, <1>2, <1>3, <1>4, <1>5, <1>6, <1>7, <1>8 DEF IInv, TypeOK

(* Connect preserves the invariant. *)
LEMMA ConnectStep ==
  ASSUME IInv,
         NEW s \in Ids, Connect(s)
  PROVE  IInv'
<1>1. ClientTypes' /\ ClientInv'
  BY DEF IInv, TypeOK, ClientTypes, ClientInv, Connect, clientVars
<1>2. SessionTypes'
  BY DEF IInv, TypeOK, SessionTypes, SessionStates, Errs, Connect, Goto, clientVars
<1>3. WorkerInv'
  BY MsgFacts DEF IInv, TypeOK, WorkerTypes, WorkerInv, Connect, Goto, clientVars
<1>4. CleanInv'
  BY DEF IInv, TypeOK, SessionTypes, CleanInv, Dirty, Connect, Goto, clientVars
<1>5. SignalledFindsMessage'
  BY DEF IInv, TypeOK, WorkerTypes, SignalledFindsMessage, Alive, Connect, Goto,
    clientVars
<1>6. FdOwnership'
  BY DEF IInv, TypeOK, WorkerTypes, ClientInv, WorkerInv, FdOwnership, Connect, Goto,
    clientVars
<1>7. OpenedHasSocket'
  <2>1. sockfd[s] \in fds
    BY DEF IInv, WorkerInv, FdOwnership, Connect
  <2>2. QED
    BY <2>1 DEF IInv, TypeOK, SessionTypes, OpenedHasSocket, Connect
<1>8. WorkerTypes'
  BY ConnectWorker
<1>9. QED
  BY <1>1, <1>2, <1>3, <1>4, <1>5, <1>6, <1>7, <1>8 DEF IInv, TypeOK

(* EpollAdd preserves the invariant. *)
LEMMA EpollAddStep ==
  ASSUME IInv,
         NEW s \in Ids, EpollAdd(s)
  PROVE  IInv'
<1>1. sockfd[s] \in connected /\ sockfd[s] \in fds /\ sockfd[s] \in Fds /\ msg[s] \in OpenMsgs
  BY DEF IInv, TypeOK, WorkerTypes, WorkerInv, OpenedHasSocket, EpollAdd
<1>2. SessionTypes' /\ ClientTypes' /\ ClientInv' /\ FdOwnership'
  BY <1>1 DEF IInv, TypeOK, SessionTypes, ClientTypes, ClientInv, FdOwnership, EpollAdd,
    sessionVars, clientVars
<1>3. WorkerTypes'
  BY <1>1 DEF IInv, TypeOK, WorkerTypes, Labels, EpollAdd, Goto, sessionVars, clientVars
<1>4. WorkerInv'
  BY <1>1, MsgFacts DEF IInv, TypeOK, WorkerTypes, WorkerInv, EpollAdd, Goto, sessionVars,
    clientVars
<1>5. CleanInv'
  BY <1>1, MsgFacts DEF IInv, TypeOK, WorkerTypes, CleanInv, Dirty, EpollAdd, Goto,
    sessionVars, clientVars
<1>6. SignalledFindsMessage'
  BY DEF IInv, TypeOK, WorkerTypes, SignalledFindsMessage, Alive, EpollAdd, Goto,
    sessionVars, clientVars
<1>7. OpenedHasSocket'
  BY <1>1 DEF IInv, OpenedHasSocket, EpollAdd, sessionVars
<1>8. QED
  BY <1>2, <1>3, <1>4, <1>5, <1>6, <1>7 DEF IInv, TypeOK

(* ConnectFailed preserves the invariant. *)
LEMMA ConnectFailedStep ==
  ASSUME IInv,
         NEW s \in Ids, ConnectFailed(s)
  PROVE  IInv'
<1>1. ClientTypes' /\ ClientInv' /\ FdOwnership' /\ OpenedHasSocket'
  BY DEF IInv, TypeOK, ClientTypes, ClientInv, FdOwnership, OpenedHasSocket,
    ConnectFailed, kernelVars, clientVars
<1>2. WorkerTypes'
  BY DEF IInv, TypeOK, WorkerTypes, Labels, NoMsg, NoCb, Cbs, Errs, Ops, ConnectFailed,
    Goto, kernelVars, clientVars
<1>3. WorkerInv'
  BY DEF IInv, TypeOK, WorkerTypes, WorkerInv, ConnectFailed, Goto, kernelVars,
    clientVars
<1>4. CleanInv'
  BY DEF IInv, TypeOK, WorkerTypes, CleanInv, Dirty, ConnectFailed, Goto, kernelVars,
    clientVars
<1>5. SignalledFindsMessage'
  BY DEF IInv, TypeOK, WorkerTypes, SignalledFindsMessage, Alive, ConnectFailed, Goto,
    kernelVars, clientVars
<1>6. SessionTypes'
  BY ConnectFailedErr
<1>7. QED
  BY <1>1, <1>2, <1>3, <1>4, <1>5, <1>6 DEF IInv, TypeOK

(* OpenFailed preserves the invariant. *)
LEMMA OpenFailedStep ==
  ASSUME IInv,
         NEW s \in Ids, OpenFailed(s)
  PROVE  IInv'
<1>1. ClientTypes' /\ ClientInv' /\ FdOwnership'
  BY DEF IInv, TypeOK, ClientTypes, ClientInv, FdOwnership, OpenFailed, kernelVars,
    clientVars
<1>2. SessionTypes'
  BY DEF IInv, TypeOK, SessionTypes, SessionStates, Errs, OpenFailed, Goto, kernelVars,
    clientVars
<1>3. WorkerTypes'
  BY DEF IInv, TypeOK, WorkerTypes, Labels, NoMsg, NoCb, Cbs, Errs, Ops, OpenFailed,
    Goto, kernelVars, clientVars
<1>4. WorkerInv'
  BY MsgFacts DEF IInv, TypeOK, WorkerTypes, WorkerInv, OpenFailed, Goto, kernelVars,
    clientVars
<1>5. CleanInv'
  BY DEF IInv, TypeOK, SessionTypes, CleanInv, Dirty, OpenFailed, Goto, kernelVars,
    clientVars
<1>6. SignalledFindsMessage'
  BY DEF IInv, TypeOK, WorkerTypes, SignalledFindsMessage, Alive, OpenFailed, Goto,
    kernelVars, clientVars
<1>7. OpenedHasSocket'
  BY DEF IInv, TypeOK, WorkerTypes, OpenedHasSocket, OpenFailed, Goto, kernelVars,
    clientVars
<1>8. QED
  BY <1>1, <1>2, <1>3, <1>4, <1>5, <1>6, <1>7 DEF IInv, TypeOK

(* TransferDone preserves the invariant. *)
LEMMA TransferDoneStep ==
  ASSUME IInv,
         NEW s \in Ids, TransferDone(s)
  PROVE  IInv'
<1>1. SessionTypes' /\ ClientTypes' /\ ClientInv' /\ FdOwnership' /\ OpenedHasSocket'
  BY DEF IInv, TypeOK, SessionTypes, ClientTypes, ClientInv, FdOwnership,
    OpenedHasSocket, TransferDone, sessionVars, kernelVars, clientVars
<1>2. WorkerTypes'
  BY DEF IInv, TypeOK, WorkerTypes, Labels, NoMsg, NoCb, Cbs, Errs, Ops, TransferDone,
    Goto, sessionVars, kernelVars, clientVars
<1>3. WorkerInv'
  BY MsgFacts DEF IInv, TypeOK, WorkerTypes, WorkerInv, TransferDone, Goto, sessionVars,
    kernelVars, clientVars
<1>4. CleanInv'
  BY DEF IInv, TypeOK, WorkerTypes, CleanInv, Dirty, TransferDone, Goto, sessionVars,
    kernelVars, clientVars
<1>5. SignalledFindsMessage'
  BY DEF IInv, TypeOK, WorkerTypes, SignalledFindsMessage, Alive, TransferDone, Goto,
    sessionVars, kernelVars, clientVars
<1>6. QED
  BY <1>1, <1>2, <1>3, <1>4, <1>5 DEF IInv, TypeOK

(* Move preserves the invariant. *)
LEMMA MoveStep ==
  ASSUME IInv,
         NEW s \in Ids, Move(s)
  PROVE  IInv'
<1>1. SessionTypes' /\ ClientTypes' /\ ClientInv' /\ CleanInv' /\
    SignalledFindsMessage' /\ FdOwnership' /\ OpenedHasSocket'
  BY DEF IInv, TypeOK, SessionTypes, ClientTypes, ClientInv, CleanInv,
    SignalledFindsMessage, FdOwnership, OpenedHasSocket, Move, InLoop, MutexFree, Dirty,
    kernelVars, clientVars
<1>2. WorkerTypes' /\ WorkerInv'
  BY MoveCount
<1>3. QED
  BY <1>1, <1>2 DEF IInv, TypeOK

(* TransferError preserves the invariant. *)
LEMMA TransferErrorStep ==
  ASSUME IInv,
         NEW s \in Ids, TransferError(s)
  PROVE  IInv'
<1>1. ClientTypes' /\ ClientInv' /\ FdOwnership' /\ OpenedHasSocket'
  BY DEF IInv, TypeOK, ClientTypes, ClientInv, FdOwnership, OpenedHasSocket,
    TransferError, InLoop, kernelVars, clientVars
<1>2. SessionTypes'
  BY DEF IInv, TypeOK, SessionTypes, SessionStates, Errs, TransferError, InLoop, Goto,
    kernelVars, clientVars
<1>3. WorkerTypes'
  BY DEF IInv, TypeOK, WorkerTypes, Labels, NoMsg, NoCb, Cbs, Errs, Ops, TransferError,
    InLoop, Goto, kernelVars, clientVars
<1>4. WorkerInv'
  BY MsgFacts DEF IInv, TypeOK, WorkerTypes, WorkerInv, TransferError, InLoop, Goto,
    kernelVars, clientVars
<1>5. CleanInv'
  BY DEF IInv, TypeOK, WorkerTypes, CleanInv, Dirty, TransferError, InLoop, Goto,
    kernelVars, clientVars
<1>6. SignalledFindsMessage'
  BY DEF IInv, TypeOK, WorkerTypes, SignalledFindsMessage, Alive, TransferError, InLoop,
    Goto, kernelVars, clientVars
<1>7. QED
  BY <1>1, <1>2, <1>3, <1>4, <1>5, <1>6 DEF IInv, TypeOK

(* EndOfFile preserves the invariant. *)
LEMMA EndOfFileStep ==
  ASSUME IInv,
         NEW s \in Ids, EndOfFile(s)
  PROVE  IInv'
<1>1. SessionTypes' /\ ClientTypes' /\ ClientInv' /\ FdOwnership' /\ OpenedHasSocket'
  BY DEF IInv, TypeOK, SessionTypes, ClientTypes, ClientInv, FdOwnership,
    OpenedHasSocket, EndOfFile, InLoop, kernelVars, clientVars
<1>2. WorkerTypes'
  BY DEF IInv, TypeOK, WorkerTypes, Labels, NoMsg, NoCb, Cbs, Errs, Ops, EndOfFile,
    InLoop, Goto, kernelVars, clientVars
<1>3. WorkerInv'
  BY MsgFacts DEF IInv, TypeOK, WorkerTypes, WorkerInv, EndOfFile, InLoop, Goto,
    kernelVars, clientVars
<1>4. CleanInv'
  BY DEF IInv, TypeOK, WorkerTypes, CleanInv, Dirty, EndOfFile, InLoop, Goto,
    kernelVars, clientVars
<1>5. SignalledFindsMessage'
  BY DEF IInv, TypeOK, WorkerTypes, SignalledFindsMessage, Alive, EndOfFile, InLoop,
    Goto, kernelVars, clientVars
<1>6. QED
  BY <1>1, <1>2, <1>3, <1>4, <1>5 DEF IInv, TypeOK

(* BrokenPipe preserves the invariant. *)
LEMMA BrokenPipeStep ==
  ASSUME IInv,
         NEW s \in Ids, BrokenPipe(s)
  PROVE  IInv'
<1>1. SessionTypes' /\ ClientTypes' /\ ClientInv' /\ WorkerInv' /\ CleanInv' /\
    FdOwnership' /\ OpenedHasSocket'
  BY DEF IInv, TypeOK, SessionTypes, ClientTypes, ClientInv, WorkerInv, CleanInv,
    FdOwnership, OpenedHasSocket, BrokenPipe, InLoop, MutexFree, Dirty, kernelVars,
    clientVars
<1>2. WorkerTypes'
  BY DEF IInv, TypeOK, WorkerTypes, Labels, NoMsg, NoCb, Cbs, Errs, Ops, BrokenPipe,
    InLoop, kernelVars, clientVars
<1>3. SignalledFindsMessage'
  BY DEF IInv, TypeOK, WorkerTypes, SignalledFindsMessage, Alive, BrokenPipe, InLoop,
    kernelVars, clientVars
<1>4. QED
  BY <1>1, <1>2, <1>3 DEF IInv, TypeOK

(* Callback preserves the invariant. *)
LEMMA CallbackStep ==
  ASSUME IInv,
         NEW s \in Ids, Callback(s)
  PROVE  IInv'
<1>1. SessionTypes' /\ ClientTypes' /\ ClientInv' /\ FdOwnership' /\ OpenedHasSocket'
  BY DEF IInv, TypeOK, SessionTypes, ClientTypes, ClientInv, FdOwnership,
    OpenedHasSocket, Callback, sessionVars, kernelVars, clientVars
<1>2. WorkerTypes'
  BY StanetAssumption, MsgFacts, SetFacts DEF IInv, SessionTypes, WorkerTypes,
    ClientTypes, TypeOK, WorkerInv, Labels, NoMsg, NoCb, Cbs, Errs, Ops, Callback,
    CbArgs, ResetFollows, Goto, sessionVars, workerVars, kernelVars, clientVars
<1>3. WorkerInv'
  BY DEF IInv, TypeOK, WorkerTypes, WorkerInv, Callback, CbArgs, ResetFollows, Goto,
    sessionVars, kernelVars, clientVars
<1>4. CleanInv'
  BY DEF IInv, TypeOK, WorkerTypes, CleanInv, Dirty, Callback, CbArgs, ResetFollows,
    Goto, sessionVars, kernelVars, clientVars
<1>5. SignalledFindsMessage'
  BY DEF IInv, TypeOK, WorkerTypes, SignalledFindsMessage, Alive, Callback, CbArgs,
    ResetFollows, Goto, sessionVars, kernelVars, clientVars
<1>6. QED
  BY <1>1, <1>2, <1>3, <1>4, <1>5 DEF IInv, TypeOK

(* Reset preserves the invariant. *)
LEMMA ResetStep ==
  ASSUME IInv,
         NEW s \in Ids, Reset(s)
  PROVE  IInv'
<1>0. \A t \in Ids \ {s} : sockfd[t] \in connected => sockfd[t] \in connected'
  BY SetFacts DEF IInv, TypeOK, WorkerTypes, FdOwnership, Reset
<1>1. ClientTypes' /\ ClientInv'
  BY DEF IInv, TypeOK, ClientTypes, ClientInv, Reset, clientVars
<1>2. SessionTypes'
  BY DEF IInv, TypeOK, SessionTypes, SessionStates, Errs, Reset, Goto, clientVars
<1>3. WorkerTypes'
  BY DEF IInv, TypeOK, WorkerTypes, Labels, NoMsg, NoCb, Cbs, Errs, Ops, Reset, Goto,
    clientVars
<1>4. WorkerInv'
  BY <1>0 DEF IInv, TypeOK, SessionTypes, WorkerTypes, WorkerInv, Reset, Goto, clientVars
<1>5. CleanInv'
  BY DEF IInv, TypeOK, SessionTypes, CleanInv, Dirty, Reset, Goto, clientVars
<1>6. SignalledFindsMessage'
  BY DEF IInv, TypeOK, WorkerTypes, SignalledFindsMessage, Alive, Reset, Goto,
    clientVars
<1>7. FdOwnership'
  BY DEF IInv, TypeOK, SessionTypes, FdOwnership, Reset, Goto, clientVars
<1>8. OpenedHasSocket'
  <2>1. \A t \in Ids : state'[t] = "OPENED" => sockfd'[t] \in connected'
    BY <1>0 DEF IInv, TypeOK, SessionTypes, OpenedHasSocket, Reset
  <2>2. epoll' \subseteq connected' /\ connected' \subseteq fds'
    BY DEF IInv, OpenedHasSocket, Reset
  <2>3. QED
    BY <2>1, <2>2 DEF OpenedHasSocket
<1>9. QED
  BY <1>1, <1>2, <1>3, <1>4, <1>5, <1>6, <1>7, <1>8 DEF IInv, TypeOK

-----------------------------------------------------------------------------
(* The initial states satisfy the invariant. *)
LEMMA InitIInv == Init => IInv
<1> SUFFICES ASSUME Init PROVE IInv
  OBVIOUS
<1>1. SessionTypes
  BY DEF Init, SessionTypes, SessionStates, Errs
<1>2. WorkerTypes
  BY MsgFacts DEF Init, WorkerTypes, Labels, NoCb, Cbs, Ops, Errs
<1>3. ClientTypes
  BY StanetAssumption DEF Init, ClientTypes, NoCall
<1>4. ClientInv /\ WorkerInv /\ CleanInv
  BY DEF Init, ClientInv, WorkerInv, CleanInv, Dirty
<1>5. SignalledFindsMessage /\ FdOwnership /\ OpenedHasSocket
  BY DEF Init, SignalledFindsMessage, FdOwnership, OpenedHasSocket
<1>6. QED
  BY <1>1, <1>2, <1>3, <1>4, <1>5 DEF IInv, TypeOK

(* Every step of a client preserves it. *)
LEMMA ClientPreserves == ASSUME IInv, NEW c \in Clients, ClientStep(c) PROVE IInv'
<1>1. CASE \E h \in Hosts \cup {NoHost}, p \in Ports : Open(c, h, p)
  BY <1>1, OpenCallStep
<1>2. ASSUME NEW s \in Ids \cup {-1}, NEW n \in Lens, Write(c, s, n) \/ Read(c, s, n) \/ Close(c, s)
      PROVE  IInv'
  <2>1. \E m \in LenMsgs : Check(c, s, m)
    BY <1>2, MsgFacts DEF Write, Read, Close
  <2>2. QED
    BY <2>1, CheckStep
<1>3. CASE Mark(c)
  BY <1>3, MarkStep
<1>4. CASE Put(c)
  BY <1>4, PutStep
<1>5. QED
  BY <1>1, <1>2, <1>3, <1>4, MsgFacts DEF ClientStep

(* Every step of a worker preserves it. *)
LEMMA WorkerPreserves ==
  ASSUME IInv, NEW s \in Ids, WorkerStep(s) \/ Transfer(s) \/ PopNull(s) \/ SpuriousWakeup(s)
  PROVE  IInv'
<1>1. CASE OpenStep(s)
  BY <1>1, SkipOpenStep, OpenSocketStep, NoSocketStep, ConnectStep, EpollAddStep,
     ConnectFailedStep, OpenFailedStep DEF OpenStep
<1>2. CASE Transfer(s)
  BY <1>2, MoveStep, TransferErrorStep, EndOfFileStep, BrokenPipeStep DEF Transfer
<1>3. CASE Start(s) \/ SpuriousWakeup(s) \/ Pop(s) \/ PopNull(s)
  BY <1>3, StartStep, SpuriousWakeupStep, PopStep, PopNullStep
<1>4. CASE TransferDone(s) \/ Callback(s) \/ Reset(s)
  BY <1>4, TransferDoneStep, CallbackStep, ResetStep
<1>5. QED
  BY <1>1, <1>2, <1>3, <1>4 DEF WorkerStep

(* So does a step that changes nothing. *)
LEMMA StutterPreserves == ASSUME IInv, UNCHANGED vars PROVE IInv'
<1> USE DEF vars, sessionVars, workerVars, kernelVars, clientVars
<1>1. TypeOK'
  BY DEF IInv, TypeOK, SessionTypes, WorkerTypes, ClientTypes
<1>2. ClientInv' /\ WorkerInv' /\ CleanInv'
  BY DEF IInv, ClientInv, WorkerInv, CleanInv, Dirty
<1>3. SignalledFindsMessage' /\ FdOwnership' /\ OpenedHasSocket'
  BY DEF IInv, SignalledFindsMessage, FdOwnership, OpenedHasSocket
<1>4. QED
  BY <1>1, <1>2, <1>3 DEF IInv

(* The inductive invariant holds in every reachable state of the daemon. *)
THEOREM Invariance == Spec => []IInv
<1>1. Init => IInv
  BY InitIInv
<1>2. IInv /\ [Next]_vars => IInv'
  BY ClientPreserves, WorkerPreserves, StutterPreserves DEF Next
<1>3. QED
  BY <1>1, <1>2, PTL DEF Spec

(* Every variable of the daemon keeps its type. *)
THEOREM TypeCorrect == Spec => []TypeOK
<1>1. IInv => TypeOK
  BY DEF IInv
<1>2. QED
  BY <1>1, Invariance, PTL

(* msg_queue_pop meets an empty queue only after an unsignalled wakeup. *)
THEOREM NoNullPop == Spec => []SignalledFindsMessage
<1>1. IInv => SignalledFindsMessage
  BY DEF IInv
<1>2. QED
  BY <1>1, Invariance, PTL

(* No two sessions ever share a descriptor, and none keeps a closed one. *)
THEOREM Ownership == Spec => []FdOwnership
<1>1. IInv => FdOwnership
  BY DEF IInv
<1>2. QED
  BY <1>1, Invariance, PTL

(* A session in state OPENED holds a connected descriptor, and epoll        *)
(* watches none but connected ones.                                         *)
THEOREM OpenedSessions == Spec => []OpenedHasSocket
<1>1. IInv => OpenedHasSocket
  BY DEF IInv
<1>2. QED
  BY <1>1, Invariance, PTL

(* A session that can be handed out keeps nothing of its last use. *)
THEOREM CleanSlots == Spec => []FreeSlotIsClean
<1>1. IInv => FreeSlotIsClean
  BY DEF IInv, CleanInv, Dirty, FreeSlotIsClean, MutexFree
<1>2. QED
  BY <1>1, Invariance, PTL

-----------------------------------------------------------------------------
(* A step that touches no descriptor is a stutter of the table. *)
LEMMA ClientKeepsTable ==
  ASSUME NEW c \in Clients, ClientStep(c)
  PROVE  UNCHANGED <<fds, sockfd, epoll>>
<1>1. ASSUME NEW h, NEW p, Open(c, h, p) PROVE UNCHANGED <<fds, sockfd, epoll>>
  BY <1>1 DEF Open, BeginCall, sessionVars, kernelVars
<1>2. ASSUME NEW s, NEW m, Check(c, s, m) PROVE UNCHANGED <<fds, sockfd, epoll>>
  BY <1>2 DEF Check, BeginCall, sessionVars, kernelVars
<1>3. CASE Mark(c) \/ Put(c)
  BY <1>3 DEF Mark, Put, sessionVars, kernelVars
<1>4. QED
  BY <1>1, <1>2, <1>3 DEF ClientStep, Write, Read, Close

(* The worker's steps that create, lose, watch or close a descriptor are    *)
(* those of the table. *)
LEMMA WorkerStepsTable ==
  ASSUME IInv, NEW s \in Ids, WorkerStep(s) \/ Transfer(s) \/ PopNull(s) \/ SpuriousWakeup(s)
  PROVE  Table!TNext \/ UNCHANGED <<fds, sockfd, epoll>>
<1>1. CASE OpenSocket(s)
  <2>1. \E fd \in Fds : Table!Create(s, fd)
    BY <1>1 DEF OpenSocket, Parse, Table!Create
  <2>2. QED
    BY <2>1 DEF Table!TNext
<1>2. CASE NoSocket(s)
  <2>1. Table!Lose(s)
    BY <1>2 DEF NoSocket, Parse, Table!Lose
  <2>2. QED
    BY <2>1 DEF Table!TNext
<1>3. CASE EpollAdd(s)
  <2>1. sockfd[s] \in fds
    BY <1>3 DEF IInv, WorkerInv, OpenedHasSocket, EpollAdd
  <2>2. Table!Watch(s) \/ UNCHANGED <<fds, sockfd, epoll>>
    BY <1>3, <2>1 DEF EpollAdd, sessionVars, Table!Watch
  <2>3. QED
    BY <2>2 DEF Table!TNext
<1>4. CASE Reset(s)
  <2>1. CASE sockfd[s] = -1
    <3>1. fds' = fds /\ epoll' = epoll
      BY <1>4, <2>1, SetFacts DEF IInv, TypeOK, WorkerTypes, Reset
    <3>2. sockfd' = sockfd
      BY <1>4, <2>1 DEF IInv, TypeOK, SessionTypes, Reset
    <3>3. QED
      BY <3>1, <3>2
  <2>2. CASE sockfd[s] # -1
    <3>1. sockfd[s] \in fds /\ \A g \in Ids \ {s} : sockfd[g] # sockfd[s]
      BY <2>2 DEF IInv, FdOwnership
    <3>2. Table!CloseOwn(s)
      BY <1>4, <3>1 DEF Reset, Table!CloseOwn
    <3>3. QED
      BY <3>2 DEF Table!TNext
  <2>3. QED
    BY <2>1, <2>2
<1>5. CASE SkipOpen(s) \/ Connect(s) \/ ConnectFailed(s) \/ OpenFailed(s)
  BY <1>5 DEF SkipOpen, Parse, Connect, ConnectFailed, OpenFailed, kernelVars
<1>6. CASE Transfer(s) \/ TransferDone(s)
  BY <1>6 DEF Transfer, TransferDone, Move, TransferError, EndOfFile, BrokenPipe, InLoop,
     sessionVars, kernelVars
<1>7. CASE Start(s) \/ SpuriousWakeup(s) \/ Pop(s) \/ PopNull(s) \/ Callback(s)
  BY <1>7 DEF Start, SpuriousWakeup, Pop, PopNull, Callback, sessionVars, kernelVars
<1>8. QED
  BY <1>1, <1>2, <1>3, <1>4, <1>5, <1>6, <1>7 DEF WorkerStep, OpenStep

(* The daemon implements the descriptor table: close() is only ever called  *)
(* by the one session that holds an open descriptor. *)
THEOREM TableRefinement == Spec => ImplementsTable
<1>1. Init => Table!TInit
  BY DEF Init, Table!TInit
<1>2. IInv /\ [Next]_vars => [Table!TNext]_Table!tableVars
  <2>1. ASSUME IInv, Next PROVE Table!TNext \/ UNCHANGED Table!tableVars
    BY <2>1, ClientKeepsTable, WorkerStepsTable DEF Next, Table!tableVars
  <2>2. ASSUME UNCHANGED vars PROVE UNCHANGED Table!tableVars
    BY <2>2 DEF vars, sessionVars, kernelVars, Table!tableVars
  <2>3. QED
    BY <2>1, <2>2
<1>3. QED
  BY <1>1, <1>2, Invariance, PTL DEF Spec, ImplementsTable, Table!TSpec

-----------------------------------------------------------------------------
(***************************************************************************)
(* The safety properties of the shipped daemon, proved for any number of   *)
(* sessions and descriptors and any lengths of sleep.  Every behaviour of  *)
(* StanetQmi is one of Stanet, so that what StanetProofs shows holds here; *)
(* the one caller adds that at most one session is ever in use, and that   *)
(* the session it remembers has no OPEN left to be answered.               *)
(***************************************************************************)

(* The life of a session: the OPEN message is queued, then handled; once    *)
(* the callback has reported the session only writes and reads reach it.    *)
Untouched(s) ==
  state[s] = "UNUSED" /\ msg_q[s] = << >> /\ wpc[s] \in {"start", "waiting"}

Asked(s) ==
  /\ s \in sessions /\ state[s] = "UNUSED"
  /\ Len(msg_q[s]) = 1 /\ Head(msg_q[s]) \in OpenMsgs
  /\ wpc[s] \in {"start", "waiting", "woken"}

Opening(s) ==
  /\ s \in sessions /\ msg_q[s] = << >>
  /\ \/ wpc[s] = "open" /\ state[s] = "UNUSED"
     \/ wpc[s] \in {"connect", "watch", "failed", "reset"}
     \/ wpc[s] = "callback" /\ msg[s] \in OpenMsgs

Transfers == {m \in LenMsgs : m.msg_id \in {"WRITE", "READ"}}

Opened(s) ==
  /\ Connected(s) /\ sockfd[s] # -1
  /\ msg_q[s] \in Seq(Transfers)
  /\ wpc[s] \in {"waiting", "woken", "io", "callback"}
  /\ wpc[s] \in {"io", "callback"} => msg[s] \in Transfers

LifeInv ==
  /\ \A s \in Ids : \/ Untouched(s) \/ Asked(s) \/ Opening(s)
                    \/ Opened(s) /\ session_id_tmp = s
  /\ session_id_tmp \in Ids => Opened(session_id_tmp)
  /\ \A s, t \in Ids : s # t => Untouched(s) \/ Untouched(t)

(* The thread's own call: its OPEN goes out while no session is in use, and *)
(* the other calls name the session it remembers.                           *)
CallInv ==
  /\ qpc \in {"sleep1", "sleep2", "sleep3", "done"}
  /\ session_id_tmp \in Ids \cup {-1}
  /\ qpc = "sleep1" => cpc[qmi] = "idle" /\ \A s \in Ids : Untouched(s)
  /\ cpc[qmi] # "idle" =>
       IF call[qmi].m \in OpenMsgs
       THEN cpc[qmi] = "put" /\ call[qmi].sid \in sessions /\ \A s \in Ids : Untouched(s)
       ELSE call[qmi].m \in Transfers /\ call[qmi].sid = session_id_tmp /\ session_id_tmp \in Ids

QmiInv == LifeInv /\ CallInv /\ NoDescriptorLost

-----------------------------------------------------------------------------
(* What the two transfers of the thread carry. *)
LEMMA TransferFacts ==
  /\ Transfers \subseteq LenMsgs /\ Transfers \subseteq Msgs
  /\ Transfers \cap OpenMsgs = {}
  /\ LenMsg("WRITE", HeaderLen) \in Transfers /\ LenMsg("READ", ReadLen) \in Transfers
  /\ \A m \in Transfers : m.msg_id \in {"WRITE", "READ"} /\ Sent(m) = m
<1>1. LenMsg("WRITE", HeaderLen) \in LenMsgs /\ LenMsg("READ", ReadLen) \in LenMsgs
  BY QmiAssumption, MsgFacts
<1>2. \A m \in Transfers : m.msg_id \in {"WRITE", "READ"} /\ Sent(m) = m
  BY DEF Transfers, Sent
<1>3. LenMsg("WRITE", HeaderLen).msg_id = "WRITE" /\ LenMsg("READ", ReadLen).msg_id = "READ"
  BY DEF LenMsg
<1>4. Transfers \subseteq LenMsgs /\ Transfers \subseteq Msgs /\ Transfers \cap OpenMsgs = {}
  BY MsgFacts DEF Transfers
<1>5. LenMsg("WRITE", HeaderLen) \in Transfers /\ LenMsg("READ", ReadLen) \in Transfers
  BY <1>1, <1>3 DEF Transfers
<1>6. QED
  BY <1>2, <1>4, <1>5

(* A queue of transfers gains one at its end. *)
LEMMA TransferAppended ==
  ASSUME NEW q \in Seq(Transfers), NEW m \in Transfers
  PROVE  Append(q, m) \in Seq(Transfers)
  OBVIOUS

(* And loses one at its head. *)
LEMMA TransferTaken ==
  ASSUME NEW q \in Seq(Transfers), q # << >>
  PROVE  Head(q) \in Transfers /\ Tail(q) \in Seq(Transfers)
  OBVIOUS

(* The only message of a queue leaves it empty. *)
LEMMA LastTaken ==
  ASSUME NEW q \in Seq(Msgs), Len(q) = 1
  PROVE  q # << >> /\ Tail(q) = << >>
<1>1. q # << >>
  <2>1. Len(<< >>) # 1
    OBVIOUS
  <2>2. QED
    BY <2>1, Zenon
<1>2. Tail(q) \in Seq(Msgs)
  BY <1>1
<1>3. Len(Tail(q)) = 0
  BY <1>1
<1>4. \A r \in Seq(Msgs) : Len(r) = 0 => r = << >>
  OBVIOUS
<1>5. QED
  BY <1>1, <1>2, <1>3, <1>4, Zenon

(* The queue of a session that is asked holds the message it was asked with. *)
LEMMA FirstPut ==
  ASSUME NEW m \in Msgs
  PROVE  Len(Append(<< >>, m)) = 1 /\ Head(Append(<< >>, m)) = m
  OBVIOUS

(* A session is remembered only while it is open. *)
LEMMA Exclusive ==
  ASSUME NEW s \in Ids, Opened(s)
  PROVE  ~Untouched(s) /\ ~Asked(s) /\ ~Opening(s)
  BY TransferFacts DEF Opened, Connected, Untouched, Asked, Opening

(* A session in use is the only one, and no OPEN of the thread is under way. *)
LEMMA InUse ==
  ASSUME QmiInv, NEW s \in Ids, ~Untouched(s)
  PROVE  /\ \A t \in Ids \ {s} : Untouched(t)
         /\ session_id_tmp \in {s, -1}
         /\ session_id_tmp = s <=> Opened(s)
         /\ qpc # "sleep1"
         /\ cpc[qmi] # "idle" => /\ call[qmi].m \in Transfers /\ call[qmi].sid = s
                                 /\ session_id_tmp = s
<1>1. \A t \in Ids \ {s} : Untouched(t)
  BY DEF QmiInv, LifeInv
<1>2. session_id_tmp \in Ids => session_id_tmp = s
  BY <1>1, Exclusive DEF QmiInv, LifeInv
<1>3. session_id_tmp \in {s, -1}
  BY <1>2 DEF QmiInv, CallInv
<1>4. session_id_tmp = s <=> Opened(s)
  BY Exclusive DEF QmiInv, LifeInv
<1>5. QED
  BY <1>1, <1>3, <1>4, SetFacts DEF QmiInv, CallInv

(* A step of the session in use, after which it is still in one phase of    *)
(* its life and is remembered exactly if it is open.                        *)
LEMMA LifeStep ==
  ASSUME NEW s \in Ids,
         \A t \in Ids \ {s} : Untouched(t),
         \A t \in Ids \ {s} : state'[t] = state[t] /\ msg_q'[t] = msg_q[t] /\ wpc'[t] = wpc[t],
         session_id_tmp' \in {s, -1},
         \/ session_id_tmp' = s /\ Opened(s)'
         \/ session_id_tmp' = -1 /\ (Untouched(s)' \/ Asked(s)' \/ Opening(s)')
  PROVE  LifeInv'
<1>1. \A t \in Ids \ {s} : Untouched(t)'
  BY DEF Untouched
<1>2. session_id_tmp' \in Ids => session_id_tmp' = s
  BY SetFacts
<1>3. QED
  BY <1>1, <1>2, SetFacts DEF LifeInv

(* The thread's own variables stay as they are while a session is in use.   *)
LEMMA CallKept ==
  ASSUME QmiInv, NEW s \in Ids, ~Untouched(s),
         UNCHANGED <<qpc, session_id_tmp, cpc, call, sessions>>
  PROVE  CallInv'
<1>1. qpc # "sleep1" /\ (cpc[qmi] # "idle" => call[qmi].m \notin OpenMsgs)
  BY InUse, TransferFacts
<1>2. QED
  BY <1>1 DEF QmiInv, CallInv

-----------------------------------------------------------------------------
(* The thread's calls. *)

(* The first call: every session is free, and one of them may be chosen. *)
LEMMA QmiOpenStep ==
  ASSUME IInv, QmiInv, QmiOpen
  PROVE  QmiInv'
<1>1. /\ UNCHANGED <<sessions, state, sockfd, msg_q, wpc, msg, fds, session_id_tmp>>
      /\ cpc[qmi] = "idle" /\ qpc = "sleep1" /\ qpc' = "sleep2"
  BY DEF QmiOpen, Awake, Open, BeginCall, sessionVars, workerVars, kernelVars
<1>2. LifeInv' /\ NoDescriptorLost'
  BY <1>1 DEF QmiInv, LifeInv, NoDescriptorLost, Untouched, Asked, Opening, Opened, Connected
<1>3. \A t \in Ids : Untouched(t)'
  BY <1>1 DEF QmiInv, CallInv, Untouched
<1>4. CASE Refuse(qmi)
  <2>1. cpc'[qmi] = "idle"
    BY <1>1, <1>4 DEF Refuse
  <2>2. QED
    BY <1>1, <1>2, <2>1 DEF QmiInv, CallInv
<1>5. CASE \E s \in Ids : Usable(s) /\ Proceed(qmi, s, OpenMsg(QmiHost, QmiPort), "put")
  <2>1. PICK s \in Ids : Usable(s) /\ Proceed(qmi, s, OpenMsg(QmiHost, QmiPort), "put")
    BY <1>5
  <2>2. OpenMsg(QmiHost, QmiPort) \in OpenMsgs
    BY QmiAssumption, MsgFacts
  <2>3. cpc'[qmi] = "put" /\ call'[qmi].m \in OpenMsgs /\ call'[qmi].sid = s /\ s \in sessions
    BY <2>1, <2>2, QmiAssumption DEF Proceed, Usable, IInv, TypeOK, ClientTypes
  <2>4. CallInv'
    BY <1>1, <1>3, <2>3 DEF QmiInv, CallInv
  <2>5. QED
    BY <1>2, <2>4 DEF QmiInv
<1>6. QED
  BY <1>2, <1>4, <1>5 DEF QmiOpen, Open, QmiInv

(* The later calls name the session the thread remembers. *)
LEMMA QmiCheckStep ==
  ASSUME IInv, QmiInv, NEW m \in Transfers, Check(qmi, session_id_tmp, m),
         UNCHANGED session_id_tmp, qpc' \in {"sleep3", "done"}
  PROVE  QmiInv'
<1>1. UNCHANGED <<sessions, state, sockfd, msg_q, wpc, msg, fds>> /\ cpc[qmi] = "idle"
  BY DEF Check, BeginCall, sessionVars, workerVars, kernelVars
<1>2. LifeInv' /\ NoDescriptorLost'
  BY <1>1 DEF QmiInv, LifeInv, NoDescriptorLost, Untouched, Asked, Opening, Opened, Connected
<1>3. CASE Refuse(qmi)
  <2>1. cpc'[qmi] = "idle"
    BY <1>1, <1>3 DEF Refuse
  <2>2. QED
    BY <1>1, <1>2, <2>1 DEF QmiInv, CallInv
<1>4. CASE Connected(session_id_tmp) /\ Proceed(qmi, session_id_tmp, m, "mark")
  <2>1. session_id_tmp \in Ids
    BY <1>4 DEF Connected, IInv, TypeOK, SessionTypes
  <2>2. call'[qmi].m = m /\ call'[qmi].sid = session_id_tmp
    BY <1>4, QmiAssumption DEF Proceed, IInv, TypeOK, ClientTypes
  <2>3. CallInv'
    BY <2>1, <2>2, TransferFacts DEF QmiInv, CallInv
  <2>4. QED
    BY <1>2, <2>3 DEF QmiInv
<1>5. CallInv'
  BY <1>2, <1>3, <1>4 DEF Check, QmiInv, CallInv
<1>6. QED
  BY <1>2, <1>5 DEF QmiInv

(* The state it writes is one a transfer may be in. *)
LEMMA QmiMarkStep ==
  ASSUME IInv, QmiInv, Mark(qmi), UNCHANGED <<qpc, session_id_tmp>>
  PROVE  QmiInv'
<1> DEFINE s == session_id_tmp
<1>1. call[qmi].m \in Transfers /\ call[qmi].sid = s /\ s \in Ids
  BY MsgFacts, QmiAssumption DEF QmiInv, CallInv, IInv, ClientInv, Mark
<1>2. Opened(s) /\ ~Untouched(s)
  BY <1>1, Exclusive DEF QmiInv, LifeInv
<1>3. state' = [state EXCEPT ![s] = Marked(call[qmi].m.msg_id)]
      /\ UNCHANGED <<sessions, sockfd, msg_q, wpc, msg, fds>>
  BY <1>1 DEF Mark, workerVars, kernelVars
<1>4. state'[s] \in {"WRITING", "READING"}
  BY <1>1, <1>3, TransferFacts DEF Marked, IInv, TypeOK, SessionTypes
<1>5. Opened(s)'
  BY <1>2, <1>3, <1>4 DEF Opened, Connected
<1>6. \A t \in Ids \ {s} : state'[t] = state[t]
  BY <1>3 DEF IInv, TypeOK, SessionTypes
<1>7. LifeInv'
  BY <1>1, <1>2, <1>3, <1>5, <1>6, InUse, LifeStep
<1>8. call'[qmi].m = call[qmi].m /\ call'[qmi].sid = call[qmi].sid /\ cpc'[qmi] = "put"
  BY <1>1, TransferFacts, QmiAssumption DEF Mark, IInv, TypeOK, ClientTypes
<1>9. CallInv'
  BY <1>1, <1>2, <1>8, InUse, TransferFacts DEF QmiInv, CallInv
<1>10. NoDescriptorLost'
  BY <1>3 DEF QmiInv, NoDescriptorLost
<1>11. QED
  BY <1>7, <1>9, <1>10 DEF QmiInv

(* An OPEN goes to an untouched session, a transfer to the open one. *)
LEMMA QmiPutStep ==
  ASSUME IInv, QmiInv, Put(qmi), UNCHANGED <<qpc, session_id_tmp>>,
         NEW s, s = call[qmi].sid, NEW m, m = call[qmi].m
  PROVE  QmiInv'
<1>1. s \in Ids /\ m \in Msgs /\ cpc[qmi] = "put"
  BY QmiAssumption DEF IInv, ClientInv, Put
<1>2. /\ UNCHANGED <<sessions, state, sockfd, msg, fds>>
      /\ msg_q' = [msg_q EXCEPT ![s] = Append(@, m)] /\ cpc'[qmi] = "idle"
  BY QmiAssumption DEF Put, sessionVars, kernelVars, IInv, TypeOK, ClientTypes
<1>3. /\ \A t \in Ids \ {s} : msg_q'[t] = msg_q[t] /\ wpc'[t] = wpc[t]
      /\ msg_q'[s] = Append(msg_q[s], m)
      /\ wpc'[s] = IF wpc[s] = "waiting" THEN "woken" ELSE wpc[s]
  BY <1>1, <1>2 DEF Put, Signal, IInv, TypeOK, SessionTypes, WorkerTypes
<1>4. qpc # "sleep1"
  BY <1>1 DEF QmiInv, CallInv
<1>5. NoDescriptorLost' /\ CallInv'
  BY <1>2, <1>4 DEF QmiInv, NoDescriptorLost, CallInv
<1>6. CASE m \in OpenMsgs
  <2>1. s \in sessions /\ \A t \in Ids : Untouched(t)
    BY <1>1, <1>6 DEF QmiInv, CallInv
  <2>2. session_id_tmp = -1
    BY <2>1, Exclusive DEF QmiInv, LifeInv, CallInv
  <2>3. Len(msg_q'[s]) = 1 /\ Head(msg_q'[s]) \in OpenMsgs
    BY <1>1, <1>3, <1>6, <2>1, FirstPut DEF Untouched
  <2>4. Asked(s)'
    BY <1>1, <1>2, <1>3, <2>1, <2>3 DEF Asked, Untouched
  <2>5. QED
    BY <1>1, <1>2, <1>3, <1>5, <2>1, <2>2, <2>4, LifeStep DEF QmiInv
<1>7. CASE m \notin OpenMsgs
  <2>1. m \in Transfers /\ s = session_id_tmp
    BY <1>1, <1>7 DEF QmiInv, CallInv
  <2>2. Opened(s) /\ ~Untouched(s)
    BY <1>1, <2>1, Exclusive DEF QmiInv, LifeInv
  <2>3. msg_q'[s] \in Seq(Transfers)
    BY <1>3, <2>1, <2>2, TransferAppended DEF Opened
  <2>4. Opened(s)'
    BY <1>2, <1>3, <2>2, <2>3 DEF Opened, Connected
  <2>5. QED
    BY <1>1, <1>2, <1>3, <1>5, <2>1, <2>2, <2>4, InUse, LifeStep DEF QmiInv
<1>8. QED
  BY <1>6, <1>7

-----------------------------------------------------------------------------
(* The steps of the worker threads. *)

(* Where a worker is tells the phase its session is in. *)
LEMMA Phase ==
  ASSUME QmiInv, NEW s \in Ids
  PROVE  /\ wpc[s] \in {"open", "connect", "watch", "failed", "reset"} => Opening(s)
         /\ wpc[s] = "callback" => (Opening(s) /\ msg[s] \in OpenMsgs) \/ Opened(s)
         /\ wpc[s] = "io" => Opened(s)
         /\ wpc[s] = "woken" => Asked(s) \/ Opened(s)
         /\ wpc[s] = "open" => state[s] = "UNUSED"
  BY DEF QmiInv, LifeInv, Untouched, Asked, Opening, Opened

(* A worker that begins to wait: its session may be untouched or asked. *)
LEMMA QmiStartStep ==
  ASSUME IInv, QmiInv, NEW s \in Ids, Start(s), UNCHANGED <<qpc, session_id_tmp>>
  PROVE  QmiInv'
<1>1. /\ UNCHANGED <<sessions, state, sockfd, msg_q, msg, fds, cpc, call>>
      /\ wpc[s] = "start" /\ wpc' = [wpc EXCEPT ![s] = "waiting"]
  BY DEF Start, Goto, sessionVars, kernelVars, clientVars
<1>2. \A t \in Ids : wpc'[t] = IF t = s THEN "waiting" ELSE wpc[t]
  BY <1>1 DEF IInv, TypeOK, WorkerTypes
<1>3. \A t \in Ids : /\ Untouched(t) => Untouched(t)'
                     /\ Asked(t) => Asked(t)'
                     /\ Opening(t) => Opening(t)'
                     /\ Opened(t) => Opened(t)'
  BY <1>1, <1>2 DEF Untouched, Asked, Opening, Opened, Connected
<1>4. LifeInv'
  BY <1>1, <1>3 DEF QmiInv, LifeInv
<1>5. CallInv'
  BY <1>1, <1>3 DEF QmiInv, CallInv
<1>6. NoDescriptorLost'
  BY <1>1 DEF QmiInv, NoDescriptorLost
<1>7. QED
  BY <1>4, <1>5, <1>6 DEF QmiInv

(* A worker takes the OPEN it was asked with, or one of the transfers. *)
LEMMA QmiPopStep ==
  ASSUME IInv, QmiInv, NEW s \in Ids, Pop(s), UNCHANGED <<qpc, session_id_tmp>>
  PROVE  QmiInv'
<1>1. UNCHANGED <<sessions, state, sockfd, fds, cpc, call>> /\ msg_q[s] # << >>
  BY DEF Pop, sessionVars, kernelVars, clientVars
<1>2. /\ \A t \in Ids \ {s} : msg_q'[t] = msg_q[t] /\ wpc'[t] = wpc[t]
      /\ msg'[s] = Head(msg_q[s]) /\ msg_q'[s] = Tail(msg_q[s])
      /\ wpc'[s] = Handler(Head(msg_q[s]).msg_id)
  BY DEF Pop, Goto, IInv, TypeOK, SessionTypes, WorkerTypes
<1>3. Asked(s) \/ Opened(s)
  BY <1>1 DEF QmiInv, LifeInv, Untouched, Opening
<1>4. ~Untouched(s)
  BY <1>1 DEF Untouched
<1>5. CallInv'
  BY <1>1, <1>4, CallKept
<1>6. NoDescriptorLost'
  BY <1>1 DEF QmiInv, NoDescriptorLost
<1>7. CASE Asked(s)
  <2>1. msg_q'[s] = << >> /\ wpc'[s] = "open"
    BY <1>2, <1>7, LastTaken, MsgFacts DEF Asked, Handler, IInv, TypeOK, SessionTypes
  <2>2. Opening(s)'
    BY <1>1, <1>7, <2>1 DEF Asked, Opening
  <2>3. session_id_tmp = -1
    BY <1>4, <1>7, InUse, Exclusive
  <2>4. LifeInv'
    BY <1>1, <1>2, <1>4, <2>2, <2>3, InUse, LifeStep
  <2>5. QED
    BY <1>5, <1>6, <2>4 DEF QmiInv
<1>8. CASE Opened(s)
  <2>1. Head(msg_q[s]) \in Transfers /\ Tail(msg_q[s]) \in Seq(Transfers)
    BY <1>1, <1>8, TransferTaken DEF Opened
  <2>2. wpc'[s] = "io"
    BY <1>2, <2>1, TransferFacts DEF Handler
  <2>3. Opened(s)'
    BY <1>1, <1>2, <1>8, <2>1, <2>2 DEF Opened, Connected
  <2>4. LifeInv'
    BY <1>1, <1>2, <1>4, <1>8, <2>3, InUse, LifeStep
  <2>5. QED
    BY <1>5, <1>6, <2>4 DEF QmiInv
<1>9. QED
  BY <1>3, <1>7, <1>8

(* The steps of an OPEN that leave the descriptors as they are. *)
LEMMA QmiOpeningStep ==
  ASSUME IInv, QmiInv, NEW s \in Ids, UNCHANGED <<qpc, session_id_tmp>>,
         SkipOpen(s) \/ Connect(s) \/ EpollAdd(s) \/ ConnectFailed(s) \/ OpenFailed(s)
  PROVE  QmiInv'
<1>1. /\ UNCHANGED <<sessions, sockfd, msg_q, msg, fds, cpc, call>>
      /\ wpc[s] \in {"open", "connect", "watch", "failed"}
  BY DEF SkipOpen, Parse, Connect, EpollAdd, ConnectFailed, OpenFailed, sessionVars,
    kernelVars, clientVars
<1>2. \A t \in Ids \ {s} : state'[t] = state[t] /\ wpc'[t] = wpc[t]
  BY DEF SkipOpen, Connect, EpollAdd, ConnectFailed, OpenFailed, Goto, IInv, TypeOK, SessionTypes,
    WorkerTypes, sessionVars
<1>3. wpc'[s] \in {"callback", "watch", "failed"}
  BY DEF SkipOpen, Connect, EpollAdd, ConnectFailed, OpenFailed, Goto, IInv, TypeOK, WorkerTypes
<1>4. msg[s] \in OpenMsgs
  BY <1>1 DEF IInv, WorkerInv
<1>5. Opening(s) /\ ~Untouched(s)
  BY <1>1, Phase DEF Untouched
<1>6. Opening(s)'
  BY <1>1, <1>3, <1>4, <1>5 DEF Opening
<1>7. session_id_tmp = -1
  BY <1>5, InUse, Exclusive
<1>8. LifeInv'
  BY <1>1, <1>2, <1>5, <1>6, <1>7, InUse, LifeStep
<1>9. CallInv'
  BY <1>1, <1>5, CallKept
<1>10. NoDescriptorLost'
  BY <1>1 DEF QmiInv, NoDescriptorLost
<1>11. QED
  BY <1>8, <1>9, <1>10 DEF QmiInv

(* The OPEN that is handled is the first of its session, which has no       *)
(* descriptor that the new one could replace.                               *)
LEMMA QmiSocketStep ==
  ASSUME IInv, QmiInv, NEW s \in Ids, UNCHANGED <<qpc, session_id_tmp>>,
         OpenSocket(s) \/ NoSocket(s)
  PROVE  QmiInv'
<1>1. UNCHANGED <<sessions, msg_q, msg, cpc, call>> /\ wpc[s] = "open"
  BY DEF OpenSocket, NoSocket, Parse, clientVars
<1>2. /\ \A t \in Ids \ {s} : state'[t] = state[t] /\ wpc'[t] = wpc[t] /\ sockfd'[t] = sockfd[t]
      /\ wpc'[s] \in {"connect", "failed"}
  BY DEF OpenSocket, NoSocket, Goto, IInv, TypeOK, SessionTypes, WorkerTypes
<1>3. Opening(s) /\ ~Untouched(s) /\ state[s] = "UNUSED"
  BY <1>1, Phase DEF Untouched
<1>4. Opening(s)'
  BY <1>1, <1>2, <1>3 DEF Opening
<1>5. session_id_tmp = -1
  BY <1>3, InUse, Exclusive
<1>6. LifeInv'
  BY <1>1, <1>2, <1>3, <1>4, <1>5, InUse, LifeStep
<1>7. CallInv'
  BY <1>1, <1>3, CallKept
<1>8. sockfd[s] = -1
  BY <1>3 DEF IInv, CleanInv
<1>9. \A fd \in fds : \E t \in Ids \ {s} : sockfd[t] = fd
  BY <1>8, SetFacts DEF QmiInv, NoDescriptorLost, IInv, TypeOK, WorkerTypes
<1>10. \A fd \in fds' : fd \in fds \/ sockfd'[s] = fd
  BY DEF OpenSocket, NoSocket, IInv, TypeOK, SessionTypes
<1>11. NoDescriptorLost'
  BY <1>2, <1>9, <1>10 DEF NoDescriptorLost
<1>12. QED
  BY <1>6, <1>7, <1>11 DEF QmiInv

(* A transfer and its end stay with the open session. *)
LEMMA QmiTransferStep ==
  ASSUME IInv, QmiInv, NEW s \in Ids, UNCHANGED <<qpc, session_id_tmp>>,
         Transfer(s) \/ TransferDone(s)
  PROVE  QmiInv'
<1>1. UNCHANGED <<sessions, state, sockfd, msg_q, msg, fds, cpc, call>> /\ wpc[s] = "io"
  BY DEF Transfer, Move, TransferError, EndOfFile, BrokenPipe, InLoop, TransferDone,
    sessionVars, kernelVars, clientVars
<1>2. wpc' = wpc \/ wpc' = [wpc EXCEPT ![s] = "callback"]
  BY DEF Transfer, Move, TransferError, EndOfFile, BrokenPipe, TransferDone, Goto
<1>3. wpc'[s] \in {"io", "callback"} /\ \A t \in Ids \ {s} : wpc'[t] = wpc[t]
  BY <1>1, <1>2 DEF IInv, TypeOK, WorkerTypes
<1>4. Opened(s) /\ ~Untouched(s)
  BY <1>1, Phase DEF Untouched
<1>5. Opened(s)'
  BY <1>1, <1>3, <1>4 DEF Opened, Connected
<1>6. LifeInv'
  BY <1>1, <1>3, <1>4, <1>5, InUse, LifeStep
<1>7. CallInv'
  BY <1>1, <1>4, CallKept
<1>8. NoDescriptorLost'
  BY <1>1 DEF QmiInv, NoDescriptorLost
<1>9. QED
  BY <1>6, <1>7, <1>8 DEF QmiInv

(* The callback of a successful OPEN is where a session starts to be        *)
(* remembered; that of a transfer leaves it so.                             *)
LEMMA QmiCallbackStep ==
  ASSUME IInv, QmiInv, NEW s \in Ids, QmiCallback(s)
  PROVE  QmiInv'
<1>1. /\ UNCHANGED <<sessions, state, sockfd, msg_q, fds, cpc, call, qpc>>
      /\ wpc[s] = "callback" /\ session_id_tmp' = Remembered(CbArgs(s))
  BY DEF QmiCallback, Callback, sessionVars, kernelVars, clientVars
<1>2. /\ \A t \in Ids \ {s} : wpc'[t] = wpc[t]
      /\ wpc'[s] = IF ResetFollows(s) THEN "reset" ELSE "waiting"
  BY DEF QmiCallback, Callback, Goto, IInv, TypeOK, WorkerTypes
<1>3. ~Untouched(s)
  BY <1>1 DEF Untouched
<1>4. NoDescriptorLost'
  BY <1>1 DEF QmiInv, NoDescriptorLost
<1>5. CASE Opening(s) /\ msg[s] \in OpenMsgs
  <2>1. session_id_tmp = -1 /\ cpc[qmi] = "idle" /\ qpc # "sleep1"
    BY <1>3, <1>5, InUse, Exclusive, SetFacts
  <2>2. msg[s].msg_id = "OPEN"
    BY <1>5, MsgFacts
  <2>3. CASE state[s] = "OPENED"
    <3>1. session_id_tmp' = s /\ wpc'[s] = "waiting"
      BY <1>1, <1>2, <2>2, <2>3 DEF Remembered, CbArgs, ResetFollows
    <3>2. msg_q[s] = << >> /\ s \in sessions /\ sockfd[s] # -1
      BY <1>5, <2>3, SetFacts DEF Opening, IInv, TypeOK, WorkerTypes, OpenedHasSocket
    <3>3. msg_q'[s] \in Seq(Transfers)
      BY <1>1, <3>2
    <3>4. Opened(s)'
      BY <1>1, <2>3, <3>1, <3>2, <3>3 DEF Opened, Connected
    <3>5. LifeInv'
      BY <1>1, <1>2, <1>3, <3>1, <3>4, InUse, LifeStep
    <3>6. CallInv'
      BY <1>1, <2>1, <3>1 DEF QmiInv, CallInv
    <3>7. QED
      BY <1>4, <3>5, <3>6 DEF QmiInv
  <2>4. CASE state[s] # "OPENED"
    <3>1. session_id_tmp' = -1 /\ wpc'[s] = "reset"
      BY <1>1, <1>2, <2>1, <2>2, <2>4 DEF Remembered, CbArgs, ResetFollows
    <3>2. Opening(s)'
      BY <1>1, <1>5, <3>1 DEF Opening
    <3>3. LifeInv'
      BY <1>1, <1>2, <1>3, <3>1, <3>2, InUse, LifeStep
    <3>4. CallInv'
      BY <1>1, <2>1, <3>1 DEF QmiInv, CallInv
    <3>5. QED
      BY <1>4, <3>3, <3>4 DEF QmiInv
  <2>5. QED
    BY <2>3, <2>4
<1>6. CASE Opened(s)
  <2>1. msg[s].msg_id \in {"WRITE", "READ"}
    BY <1>1, <1>6, TransferFacts DEF Opened
  <2>2. session_id_tmp' = session_id_tmp /\ wpc'[s] = "waiting"
    BY <1>1, <1>2, <2>1 DEF Remembered, CbArgs, ResetFollows
  <2>3. Opened(s)'
    BY <1>1, <1>6, <2>2 DEF Opened, Connected
  <2>4. LifeInv'
    BY <1>1, <1>2, <1>3, <1>6, <2>2, <2>3, InUse, LifeStep
  <2>5. CallInv'
    BY <1>1, <1>3, <2>2, CallKept
  <2>6. QED
    BY <1>4, <2>4, <2>5 DEF QmiInv
<1>7. QED
  BY <1>1, <1>5, <1>6, Phase

(* The session whose OPEN failed is untouched again, and its descriptor is  *)
(* closed.                                                                  *)
LEMMA QmiResetStep ==
  ASSUME IInv, QmiInv, NEW s \in Ids, Reset(s), UNCHANGED <<qpc, session_id_tmp>>
  PROVE  QmiInv'
<1>1. UNCHANGED <<sessions, cpc, call>> /\ wpc[s] = "reset"
  BY DEF Reset, clientVars
<1>2. \A t \in Ids \ {s} : /\ state'[t] = state[t] /\ msg_q'[t] = msg_q[t]
                           /\ wpc'[t] = wpc[t] /\ sockfd'[t] = sockfd[t]
  BY DEF Reset, Goto, IInv, TypeOK, SessionTypes, WorkerTypes
<1>3. Untouched(s)'
  BY DEF Reset, Goto, Untouched, IInv, TypeOK, SessionTypes, WorkerTypes
<1>4. Opening(s) /\ ~Untouched(s)
  BY <1>1, Phase DEF Untouched
<1>5. session_id_tmp = -1
  BY <1>4, InUse, Exclusive
<1>6. LifeInv'
  BY <1>2, <1>3, <1>4, <1>5, InUse, LifeStep
<1>7. CallInv'
  BY <1>1, <1>4, CallKept
<1>8. fds' = fds \ {sockfd[s]}
  BY DEF Reset
<1>9. NoDescriptorLost'
  BY <1>2, <1>8 DEF QmiInv, NoDescriptorLost
<1>10. QED
  BY <1>6, <1>7, <1>9 DEF QmiInv

-----------------------------------------------------------------------------
(* Before its first call no session is in use. *)
LEMMA QmiInitInv == QmiInit => QmiInv
<1> SUFFICES ASSUME QmiInit PROVE QmiInv
  OBVIOUS
<1>1. \A s \in Ids : Untouched(s)
  BY DEF QmiInit, Init, Untouched
<1>2. session_id_tmp = -1 /\ qpc = "sleep1" /\ cpc[qmi] = "idle" /\ fds = {}
  BY QmiAssumption DEF QmiInit, Init
<1>3. QED
  BY <1>1, <1>2, SetFacts DEF QmiInv, LifeInv, CallInv, NoDescriptorLost

(* Every step of the thread and of the workers preserves the invariant. *)
LEMMA QmiPreserves ==
  ASSUME IInv, QmiInv, QmiNext
  PROVE  QmiInv'
<1>1. CASE QmiOpen
  BY <1>1, QmiOpenStep
<1>2. CASE QmiWrite \/ QmiRead
  BY <1>2, QmiCheckStep, TransferFacts DEF QmiWrite, QmiRead, Write, Read
<1>3. CASE QmiGiveUp
  <2>1. UNCHANGED <<sessions, state, sockfd, msg_q, wpc, msg, fds, cpc, call, session_id_tmp>>
    BY <1>3 DEF QmiGiveUp, vars, sessionVars, workerVars, kernelVars, clientVars
  <2>2. cpc[qmi] = "idle" /\ qpc' = "done"
    BY <1>3 DEF QmiGiveUp, Awake
  <2>3. LifeInv' /\ NoDescriptorLost'
    BY <2>1 DEF QmiInv, LifeInv, NoDescriptorLost, Untouched, Asked, Opening, Opened, Connected
  <2>4. CallInv'
    BY <2>1, <2>2 DEF QmiInv, CallInv
  <2>5. QED
    BY <2>3, <2>4 DEF QmiInv
<1>4. CASE QmiCall
  <2>1. \E s, m : s = call[qmi].sid /\ m = call[qmi].m
    OBVIOUS
  <2>2. QED
    BY <1>4, <2>1, QmiMarkStep, QmiPutStep DEF QmiCall
<1>5. ASSUME NEW s \in Ids, QmiCallback(s) \/ Daemon(s) \/ QmiTransfer(s)
      PROVE  QmiInv'
  BY <1>5, QmiCallbackStep, QmiTransferStep, QmiStartStep, QmiPopStep, QmiOpeningStep,
     QmiSocketStep, QmiResetStep DEF Daemon, QmiTransfer, OpenStep
<1>6. QED
  BY <1>1, <1>2, <1>3, <1>4, <1>5 DEF QmiNext, QmiThread

(* A step that changes nothing preserves it. *)
LEMMA QmiStutter == ASSUME QmiInv, UNCHANGED qmiVars PROVE QmiInv'
<1>1. UNCHANGED <<sessions, state, sockfd, msg_q, wpc, msg, fds, cpc, call, qpc, session_id_tmp>>
  BY DEF qmiVars, vars, sessionVars, workerVars, kernelVars, clientVars
<1>2. LifeInv' /\ NoDescriptorLost'
  BY <1>1 DEF QmiInv, LifeInv, NoDescriptorLost, Untouched, Asked, Opening, Opened, Connected
<1>3. CallInv'
  BY <1>1 DEF QmiInv, CallInv, Untouched
<1>4. QED
  BY <1>2, <1>3 DEF QmiInv

(* What the one caller does is a step that some client of Stanet may take.  *)
LEMMA QmiStepIsStep ==
  ASSUME QmiInv, [QmiNext]_qmiVars
  PROVE  [Next]_vars
<1>1. session_id_tmp \in Ids \cup {-1}
  BY DEF QmiInv, CallInv
<1>2. CASE QmiOpen \/ QmiWrite \/ QmiRead \/ QmiCall
  <2>1. ClientStep(qmi)
    BY <1>1, <1>2, QmiAssumption DEF QmiOpen, QmiWrite, QmiRead, QmiCall, ClientStep
  <2>2. QED
    BY <2>1, QmiAssumption DEF Next
<1>3. ASSUME NEW s \in Ids, QmiCallback(s) \/ Daemon(s) \/ QmiTransfer(s)
      PROVE  [Next]_vars
  BY <1>3 DEF QmiCallback, Daemon, QmiTransfer, WorkerStep, Next
<1>4. CASE QmiGiveUp \/ UNCHANGED qmiVars
  BY <1>4 DEF QmiGiveUp, qmiVars
<1>5. QED
  BY <1>2, <1>3, <1>4 DEF QmiNext, QmiThread

(* The shipped daemon with its one caller behaves as Stanet allows: all     *)
(* that is proved of every set of clients holds of stanet_qmi.c.  Both      *)
(* invariants are proved together, each needing the other.                  *)
THEOREM QmiIsStanet == QmiSpec => Spec /\ [](IInv /\ QmiInv)
<1>1. QmiInit => Init /\ IInv /\ QmiInv
  BY InitIInv, QmiInitInv DEF QmiInit
<1>2. IInv /\ QmiInv /\ [QmiNext]_qmiVars => IInv' /\ QmiInv'
  <2> SUFFICES ASSUME IInv, QmiInv, [QmiNext]_qmiVars PROVE IInv' /\ QmiInv'
    OBVIOUS
  <2>1. [Next]_vars
    BY QmiStepIsStep
  <2>2. IInv'
    BY <2>1, ClientPreserves, WorkerPreserves, StutterPreserves DEF Next
  <2>3. QED
    BY <2>2, QmiPreserves, QmiStutter
<1>3. QmiInv /\ [QmiNext]_qmiVars => [Next]_vars
  BY QmiStepIsStep
<1>4. QED
  BY <1>1, <1>2, <1>3, PTL DEF QmiSpec, Spec

(* stanet_qmi.c writes and reads a session that is connected: the worker    *)
(* threads never reset the session that qmi_session_callback has named.     *)
THEOREM QmiRemembersConnected == QmiSpec => []RememberedIsConnected
<1>1. QmiInv => RememberedIsConnected
  BY SetFacts DEF QmiInv, LifeInv, CallInv, Opened, RememberedIsConnected
<1>2. QED
  BY <1>1, QmiIsStanet, PTL

(* With this caller socket_open never overwrites a descriptor that is still *)
(* open: each belongs to a session that will close it.                      *)
THEOREM QmiKeepsDescriptors == QmiSpec => []NoDescriptorLost
<1>1. QmiInv => NoDescriptorLost
  BY DEF QmiInv
<1>2. QED
  BY <1>1, QmiIsStanet, PTL
=============================================================================
