------------------------------- MODULE Stanet -------------------------------
(***************************************************************************)
(* The stanet daemon (C_Cpp/cdemo/stanet/stanet_daemon.c): a fixed table   *)
(* of sessions, one worker thread per session that is fed through a        *)
(* message queue and a condition variable, and the four API calls that any *)
(* thread of the process may make.                                         *)
(*                                                                         *)
(* Every access that another thread can observe is a step of its own: the  *)
(* API calls test session->state and assign it without holding any mutex,  *)
(* and only msg_queue_put takes the session's mutex, which the worker      *)
(* holds whenever it is not inside pthread_cond_wait.  What runs under the *)
(* global mutex (session_get_usable, session_reset, a log line) does not   *)
(* block and never waits for another mutex, so it is one step.             *)
(***************************************************************************)
EXTENDS Integers, Sequences, FiniteSets

CONSTANTS
  SESSION_MAX_COUNT,  (* sessions created at start, ids from 0                *)
  Clients,            (* threads of the process that call the API             *)
  Hosts,              (* host strings the API accepts                         *)
  ColonHosts,         (* those that hold a ':' themselves (IPv6 literals)     *)
  HostLen,            (* length of every host string                          *)
  NoHost,             (* a host the API refuses: NULL, empty, too long        *)
  Mixed,              (* a host overlaid on the longer one it did not erase   *)
  Ports,              (* port arguments, valid or not                         *)
  MaxLen,             (* bound: longest read or write                         *)
  MaxCalls,           (* bound: API calls of one client                       *)
  MaxFd,              (* bound: descriptors of the process                    *)
  Spurious            (* whether pthread_cond_wait may return unsignalled     *)

ASSUME StanetAssumption ==
  /\ SESSION_MAX_COUNT \in Nat /\ MaxLen \in Nat /\ MaxCalls \in Nat /\ MaxFd \in Nat
  /\ Ports \subseteq Int
  /\ ColonHosts \subseteq Hosts
  /\ HostLen \in [Hosts -> Nat \ {0}]
  /\ NoHost \notin Hosts /\ Mixed \notin Hosts /\ Mixed # NoHost
  /\ Spurious \in BOOLEAN

Ids   == 0 .. (SESSION_MAX_COUNT - 1)
Fds   == 0 .. (MaxFd - 1)
Lens  == 0 .. MaxLen

SessionStates == {"UNUSED", "CLOSED", "OPENING", "OPENED", "WRITING", "READING", "CLOSING"}
Errs          == {"SUCCESS", "HOST", "CONN", "UNKNOWN"}
Ops           == {"OPEN", "WRITE", "READ", "CLOSE"}

(***************************************************************************)
(* A queued message.  The text of an OPEN message is "host:port"; the      *)
(* other messages only carry a length, their payload is not told apart.    *)
(***************************************************************************)
OpenMsgs == [msg_id : {"OPEN"}, host : Hosts, port : Ports, len : {0}]
LenMsgs  == [msg_id : {"WRITE", "READ", "CLOSE"}, host : {NoHost}, port : {0}, len : Lens]
Msgs     == OpenMsgs \cup LenMsgs

NoMsg == [msg_id |-> "none", host |-> NoHost, port |-> 0, len |-> 0]
Cbs   == [sid : Ids \cup {-1}, msg_id : Ops \cup {"none"}, err : Errs, len : Lens]
NoCb  == [sid |-> -1, msg_id |-> "none", err |-> "SUCCESS", len |-> 0]

OpenMsg(h, p) == [msg_id |-> "OPEN", host |-> h, port |-> p, len |-> 0]
LenMsg(op, n) == [msg_id |-> op, host |-> NoHost, port |-> 0, len |-> n]

VARIABLES
  sessions,   (* ids of session_list: those whose thread could be created     *)
  state, err, sockfd, host, port, msg_q,     (* fields of a session           *)
  wpc,        (* where the session's worker thread is                         *)
  msg,        (* the message that worker is handling                          *)
  count,      (* bytes it has moved for that message                          *)
  cb,         (* arguments of the worker's last qmi_session_callback          *)
  fds,        (* descriptors the process has open                             *)
  connected,  (* those on which a connection was made                         *)
  epoll,      (* descriptors registered with epoll_fd                         *)
  cpc,        (* where a client is inside an API call                         *)
  call,       (* the session and the message of that call                     *)
  ret,        (* what its last call returned; 1 before any has                *)
  calls,      (* calls it has begun                                           *)
  died        (* what ended the process: a NULL message or a SIGPIPE          *)

sessionVars == <<state, err, sockfd, host, port>>
workerVars  == <<wpc, msg, count, cb>>
kernelVars  == <<fds, connected, epoll>>
clientVars  == <<cpc, call, ret, calls>>
vars == <<sessions, sessionVars, msg_q, workerVars, kernelVars, clientVars, died>>

Alive == died = "no"

NoCall == [sid |-> -1, m |-> NoMsg]

-----------------------------------------------------------------------------
(* session_list_create: a session whose thread cannot be created is not     *)
(* added to the list.                                                       *)
Init ==
  /\ sessions \in SUBSET Ids
  /\ state  = [s \in Ids |-> "UNUSED"]
  /\ err    = [s \in Ids |-> "SUCCESS"]
  /\ sockfd = [s \in Ids |-> -1]
  /\ host   = [s \in Ids |-> [name |-> NoHost, len |-> 0]]
  /\ port   = [s \in Ids |-> -1]
  /\ msg_q  = [s \in Ids |-> << >>]
  /\ wpc    = [s \in Ids |-> "start"]
  /\ msg    = [s \in Ids |-> NoMsg]
  /\ count  = [s \in Ids |-> 0]
  /\ cb     = [s \in Ids |-> NoCb]
  /\ fds = {} /\ connected = {} /\ epoll = {}
  /\ cpc   = [c \in Clients |-> "idle"]
  /\ call  = [c \in Clients |-> NoCall]
  /\ ret   = [c \in Clients |-> 1]
  /\ calls = [c \in Clients |-> 0]
  /\ died = "no"

(* Mutant: pthread_cond_wait keeps the mutex.                               *)
HeldWhileWaiting(s) == wpc[s] = "start"

(* The worker does not hold its session's mutex.                            *)
MutexFree(s) == wpc[s] \in {"start", "waiting", "woken", "spurious"}

-----------------------------------------------------------------------------
(***************************************************************************)
(* The API calls.                                                          *)
(***************************************************************************)

(* session_get_usable: the first unused session of the list, in id order.  *)
(* The session is not reserved.                                            *)
Usable(s) ==
  /\ s \in sessions
  /\ state[s] = "UNUSED"
  /\ \A t \in sessions : state[t] = "UNUSED" => s <= t

BeginCall(c) == /\ Alive
                /\ cpc[c] = "idle"
                /\ calls[c] < MaxCalls
                /\ calls' = [calls EXCEPT ![c] = @ + 1]
                /\ UNCHANGED <<sessions, sessionVars, msg_q, workerVars, kernelVars, died>>

Refuse(c) == /\ ret' = [ret EXCEPT ![c] = -1]
             /\ UNCHANGED <<cpc, call>>

Proceed(c, s, m, l) == /\ call' = [call EXCEPT ![c] = [sid |-> s, m |-> m]]
                       /\ cpc' = [cpc EXCEPT ![c] = l]
                       /\ UNCHANGED ret

(* stanet_session_open up to the choice of a session.                       *)
Open(c, h, p) ==
  /\ BeginCall(c)
  /\ \/ /\ h = NoHost \/ p <= 0 \/ ~ \E s \in Ids : Usable(s)
        /\ Refuse(c)
     \/ /\ h # NoHost /\ p > 0
        /\ \E s \in Ids : Usable(s) /\ Proceed(c, s, OpenMsg(h, p), "put")

(* session_get found the session and its state allows a transfer.           *)
Connected(s) == s \in sessions /\ state[s] \in {"OPENED", "WRITING", "READING"}

(* The unlocked test that starts a write, a read or a close.                *)
Check(c, s, m) ==
  /\ BeginCall(c)
  /\ \/ ~Connected(s) /\ Refuse(c)
     \/ Connected(s) /\ Proceed(c, s, m, "mark")

Write(c, s, n) == Check(c, s, LenMsg("WRITE", n))
Read(c, s, n)  == Check(c, s, LenMsg("READ", n))
Close(c, s)    == Check(c, s, LenMsg("CLOSE", 0))

(* The state each call leaves in the session, and the message it sends:     *)
(* stanet_session_close sends a READ of no bytes.                           *)
Marked(op) == CASE op = "WRITE" -> "WRITING" [] op = "READ" -> "READING" [] op = "CLOSE" -> "CLOSING"
Sent(m)    == IF m.msg_id = "CLOSE" THEN LenMsg("READ", 0) ELSE m

(* The unlocked assignment of session->state.                               *)
Mark(c) ==
  /\ Alive
  /\ cpc[c] = "mark"
  /\ state' = [state EXCEPT ![call[c].sid] = Marked(call[c].m.msg_id)]
  /\ call' = [call EXCEPT ![c].m = Sent(@)]
  /\ cpc' = [cpc EXCEPT ![c] = "put"]
  /\ UNCHANGED <<sessions, err, sockfd, host, port, msg_q, workerVars, kernelVars, ret, calls, died>>

(* Mutant: a missing signal.                                                *)
SignalNone(s) == UNCHANGED wpc

(* pthread_cond_signal: it wakes the worker if that is waiting and is lost  *)
(* otherwise.                                                               *)
Signal(s) == wpc' = IF wpc[s] = "waiting" THEN [wpc EXCEPT ![s] = "woken"] ELSE wpc

(* msg_queue_put, and the return of the API call.                           *)
Put(c) ==
  LET s == call[c].sid IN
  /\ Alive
  /\ cpc[c] = "put"
  /\ MutexFree(s)
  /\ msg_q' = [msg_q EXCEPT ![s] = Append(@, call[c].m)]
  /\ Signal(s)
  /\ cpc' = [cpc EXCEPT ![c] = "idle"]
  /\ call' = [call EXCEPT ![c] = NoCall]
  /\ ret' = [ret EXCEPT ![c] = 0]
  /\ UNCHANGED <<sessions, sessionVars, msg, count, cb, kernelVars, calls, died>>

-----------------------------------------------------------------------------
(***************************************************************************)
(* The worker thread: thread_run, and socket_open and session_reset, which *)
(* only it calls.                                                          *)
(***************************************************************************)

Goto(s, l) == wpc' = [wpc EXCEPT ![s] = l]

(* Mutant: the first message is taken without waiting for it.               *)
StartUnsignalled(s) ==
  /\ Alive
  /\ s \in sessions
  /\ wpc[s] = "start"
  /\ Goto(s, "woken")
  /\ UNCHANGED <<sessions, sessionVars, msg_q, msg, count, cb, kernelVars, clientVars, died>>

(* The thread starts, takes its mutex and begins to wait.                   *)
Start(s) ==
  /\ Alive
  /\ s \in sessions
  /\ wpc[s] = "start"
  /\ Goto(s, "waiting")
  /\ UNCHANGED <<sessions, sessionVars, msg_q, msg, count, cb, kernelVars, clientVars, died>>

SpuriousWakeup(s) ==
  /\ Spurious
  /\ Alive
  /\ wpc[s] = "waiting"
  /\ Goto(s, "spurious")
  /\ UNCHANGED <<sessions, sessionVars, msg_q, msg, count, cb, kernelVars, clientVars, died>>

Handler(op) == CASE op = "OPEN" -> "open" [] op \in {"WRITE", "READ"} -> "io" [] op = "CLOSE" -> "callback"

(* pthread_cond_wait returns with the mutex; msg_queue_pop takes the head   *)
(* of the queue without a test for NULL.                                    *)
Pop(s) ==
  /\ Alive
  /\ wpc[s] \in {"woken", "spurious"}
  /\ msg_q[s] # << >>
  /\ msg' = [msg EXCEPT ![s] = Head(msg_q[s])]
  /\ msg_q' = [msg_q EXCEPT ![s] = Tail(@)]
  /\ count' = [count EXCEPT ![s] = 0]
  /\ Goto(s, Handler(Head(msg_q[s]).msg_id))
  /\ UNCHANGED <<sessions, sessionVars, cb, kernelVars, clientVars, died>>

PopNull(s) ==
  /\ Alive
  /\ wpc[s] \in {"woken", "spurious"}
  /\ msg_q[s] = << >>
  /\ died' = "NULL"
  /\ UNCHANGED <<sessions, sessionVars, msg_q, workerVars, kernelVars, clientVars>>

(* The host is copied over the old one without clearing it, and the port    *)
(* is what follows the first ':' of the text.                               *)
Overlay(old, h) == IF old.len <= HostLen[h] THEN [name |-> h, len |-> HostLen[h]]
                                            ELSE [name |-> Mixed, len |-> old.len]
ParsedPort(m) == IF m.host \in ColonHosts THEN 0 ELSE m.port

(* The OPEN case starts.                                                    *)
Parse(s) ==
  /\ Alive
  /\ wpc[s] = "open"
  /\ host' = [host EXCEPT ![s] = Overlay(@, msg[s].host)]
  /\ port' = [port EXCEPT ![s] = ParsedPort(msg[s])]
  /\ UNCHANGED <<sessions, err, msg_q, msg, count, cb, connected, epoll, clientVars, died>>

(* With a port that is not positive socket_open is not called and the state *)
(* stays what it was.                                                       *)
SkipOpen(s) ==
  /\ Parse(s)
  /\ ParsedPort(msg[s]) <= 0
  /\ Goto(s, "callback")
  /\ UNCHANGED <<state, sockfd, fds>>

(* Mutant: the state is not set to OPENING.                                 *)
OpenSocketUnmarked(s) ==
  /\ Parse(s)
  /\ ParsedPort(msg[s]) > 0
  /\ \E fd \in Fds \ fds : fds' = fds \cup {fd} /\ sockfd' = [sockfd EXCEPT ![s] = fd]
  /\ Goto(s, "connect")
  /\ UNCHANGED state

(* socket_open up to the result of socket(), which is the lowest free       *)
(* descriptor or an error.                                                  *)
OpenSocket(s) ==
  /\ Parse(s)
  /\ ParsedPort(msg[s]) > 0
  /\ state' = [state EXCEPT ![s] = "OPENING"]
  /\ \E fd \in Fds \ fds :
       /\ \A g \in Fds \ fds : fd <= g
       /\ fds' = fds \cup {fd}
       /\ sockfd' = [sockfd EXCEPT ![s] = fd]
  /\ Goto(s, "connect")

NoSocket(s) ==
  /\ Parse(s)
  /\ ParsedPort(msg[s]) > 0
  /\ state' = [state EXCEPT ![s] = "OPENING"]
  /\ sockfd' = [sockfd EXCEPT ![s] = -1]
  /\ Goto(s, "failed")
  /\ UNCHANGED fds

(* The rest of socket_open, when select() finds the connection made: the    *)
(* session is OPENED for the API before the main loop watches it.           *)
Connect(s) ==
  /\ Alive
  /\ wpc[s] = "connect"
  /\ state' = [state EXCEPT ![s] = "OPENED"]
  /\ connected' = connected \cup {sockfd[s]}
  /\ Goto(s, "watch")
  /\ UNCHANGED <<sessions, err, sockfd, host, port, msg_q, msg, count, cb, fds, epoll, clientVars, died>>

(* epoll_ctl may fail, and does if epoll_create has: nobody looks at that.  *)
EpollAdd(s) ==
  /\ Alive
  /\ wpc[s] = "watch"
  /\ epoll' \in {epoll, epoll \cup {sockfd[s]}}
  /\ Goto(s, "callback")
  /\ UNCHANGED <<sessions, sessionVars, msg_q, msg, count, cb, fds, connected, clientVars, died>>

(* Its failures.  gethostbyname, connect() and SO_ERROR set an error; an    *)
(* fcntl error and the 10 second timeout of select leave err as it is.      *)
ConnectFailed(s) ==
  /\ Alive
  /\ wpc[s] = "connect"
  /\ \E e \in {"HOST", "CONN", err[s]} : err' = [err EXCEPT ![s] = e]
  /\ Goto(s, "failed")
  /\ UNCHANGED <<sessions, state, sockfd, host, port, msg_q, msg, count, cb, kernelVars, clientVars, died>>

(* Mutant: result_fail_with_close closes the descriptor, which              *)
(* session_reset closes again.                                              *)
OpenFailedCloses(s) ==
  /\ Alive
  /\ wpc[s] = "failed"
  /\ state' = [state EXCEPT ![s] = "CLOSED"]
  /\ fds' = fds \ {sockfd[s]} /\ connected' = connected \ {sockfd[s]} /\ epoll' = epoll \ {sockfd[s]}
  /\ Goto(s, "callback")
  /\ UNCHANGED <<sessions, err, sockfd, host, port, msg_q, msg, count, cb, clientVars, died>>

(* The labels result_fail and result_fail_with_close: nothing is closed.    *)
OpenFailed(s) ==
  /\ Alive
  /\ wpc[s] = "failed"
  /\ state' = [state EXCEPT ![s] = "CLOSED"]
  /\ Goto(s, "callback")
  /\ UNCHANGED <<sessions, err, sockfd, host, port, msg_q, msg, count, cb, kernelVars, clientVars, died>>

(* The WRITE or the READ loop ends with its condition.                      *)
TransferDone(s) ==
  /\ Alive
  /\ wpc[s] = "io"
  /\ count[s] = msg[s].len
  /\ Goto(s, "callback")
  /\ UNCHANGED <<sessions, sessionVars, msg_q, msg, count, cb, kernelVars, clientVars, died>>

(* A round of the loop.  A write() of no bytes and EWOULDBLOCK go round     *)
(* again and change nothing.                                                *)
InLoop(s) ==
  /\ Alive
  /\ wpc[s] = "io"
  /\ count[s] < msg[s].len
  /\ UNCHANGED <<sessions, state, sockfd, host, port, msg_q, msg, cb, kernelVars, clientVars>>

(* Mutant: one byte too many.                                               *)
MoveTooMuch(s) ==
  /\ InLoop(s)
  /\ sockfd[s] # -1
  /\ \E n \in 1 .. (msg[s].len - count[s] + 1) : count' = [count EXCEPT ![s] = @ + n]
  /\ UNCHANGED <<wpc, err, died>>

(* Some bytes are written or read.                                          *)
Move(s) ==
  /\ InLoop(s)
  /\ sockfd[s] # -1
  /\ \E n \in 1 .. (msg[s].len - count[s]) : count' = [count EXCEPT ![s] = @ + n]
  /\ UNCHANGED <<wpc, err, died>>

(* Any other error, the only outcome for a session without a descriptor.    *)
TransferError(s) ==
  /\ InLoop(s)
  /\ err' = [err EXCEPT ![s] = "UNKNOWN"]
  /\ Goto(s, "callback")
  /\ UNCHANGED <<count, died>>

(* End of file ends a READ and sets no error.                               *)
EndOfFile(s) ==
  /\ InLoop(s)
  /\ msg[s].msg_id = "READ" /\ sockfd[s] # -1
  /\ Goto(s, "callback")
  /\ UNCHANGED <<count, err, died>>

(* SIGPIPE is not ignored: a write() to a connection that the peer has      *)
(* closed ends the process.                                                 *)
BrokenPipe(s) ==
  /\ InLoop(s)
  /\ msg[s].msg_id = "WRITE" /\ sockfd[s] # -1
  /\ died' = "SIGPIPE"
  /\ UNCHANGED <<wpc, count, err>>

Transfer(s) == Move(s) \/ TransferError(s) \/ EndOfFile(s) \/ BrokenPipe(s)

(* Mutant: a failed OPEN is reported with the id of its session.            *)
CbArgsWithId(s) ==
  [sid |-> s, msg_id |-> msg[s].msg_id, len |-> count[s],
   err |-> IF count[s] = msg[s].len /\ msg[s].msg_id # "OPEN" THEN "SUCCESS" ELSE err[s]]

(* The arguments of qmi_session_callback for the message being handled.     *)
CbArgs(s) ==
  LET op == msg[s].msg_id IN
  CASE op = "OPEN" /\ state[s] = "OPENED" -> [sid |-> s, msg_id |-> op, err |-> "SUCCESS", len |-> 0]
    [] op = "OPEN" /\ state[s] # "OPENED" -> [sid |-> -1, msg_id |-> op, err |-> err[s], len |-> 0]
    [] op \in {"WRITE", "READ"} ->
         [sid |-> s, msg_id |-> op, len |-> count[s],
          err |-> IF count[s] = msg[s].len THEN "SUCCESS" ELSE err[s]]
    [] op = "CLOSE" -> [sid |-> s, msg_id |-> op, err |-> "SUCCESS", len |-> 0]

(* Mutant: only a session still marked as failed is reset.                  *)
ResetIfClosed(s) == msg[s].msg_id \in {"OPEN", "CLOSE"} /\ state[s] = "CLOSED"

(* A failed OPEN and a CLOSE are followed by session_reset.                 *)
ResetFollows(s) == \/ msg[s].msg_id = "OPEN" /\ state[s] # "OPENED"
                   \/ msg[s].msg_id = "CLOSE"

(* The callback; the worker then resets the session or waits again.         *)
Callback(s) ==
  /\ Alive
  /\ wpc[s] = "callback"
  /\ cb' = [cb EXCEPT ![s] = CbArgs(s)]
  /\ Goto(s, IF ResetFollows(s) THEN "reset" ELSE "waiting")
  /\ msg' = [msg EXCEPT ![s] = NoMsg]
  /\ count' = [count EXCEPT ![s] = 0]
  /\ UNCHANGED <<sessions, sessionVars, msg_q, kernelVars, clientVars, died>>

(* Mutants: session_reset forgets the host, the number of the descriptor it *)
(* has closed, or to close it.                                              *)
ResetKeepsHost(s) ==
  /\ Alive
  /\ wpc[s] = "reset"
  /\ err' = [err EXCEPT ![s] = "SUCCESS"]
  /\ state' = [state EXCEPT ![s] = "UNUSED"]
  /\ UNCHANGED host
  /\ port' = [port EXCEPT ![s] = -1]
  /\ epoll' = epoll \ {sockfd[s]}
  /\ fds' = fds \ {sockfd[s]} /\ connected' = connected \ {sockfd[s]}
  /\ sockfd' = [sockfd EXCEPT ![s] = -1]
  /\ msg_q' = [msg_q EXCEPT ![s] = << >>]
  /\ Goto(s, "waiting")
  /\ UNCHANGED <<sessions, msg, count, cb, clientVars, died>>

ResetKeepsFd(s) ==
  /\ Alive
  /\ wpc[s] = "reset"
  /\ err' = [err EXCEPT ![s] = "SUCCESS"]
  /\ state' = [state EXCEPT ![s] = "UNUSED"]
  /\ host' = [host EXCEPT ![s] = [name |-> NoHost, len |-> 0]]
  /\ port' = [port EXCEPT ![s] = -1]
  /\ epoll' = epoll \ {sockfd[s]}
  /\ fds' = fds \ {sockfd[s]} /\ connected' = connected \ {sockfd[s]}
  /\ UNCHANGED sockfd
  /\ msg_q' = [msg_q EXCEPT ![s] = << >>]
  /\ Goto(s, "waiting")
  /\ UNCHANGED <<sessions, msg, count, cb, clientVars, died>>

ResetKeepsOpen(s) ==
  /\ Alive
  /\ wpc[s] = "reset"
  /\ err' = [err EXCEPT ![s] = "SUCCESS"]
  /\ state' = [state EXCEPT ![s] = "UNUSED"]
  /\ host' = [host EXCEPT ![s] = [name |-> NoHost, len |-> 0]]
  /\ port' = [port EXCEPT ![s] = -1]
  /\ epoll' = epoll \ {sockfd[s]}
  /\ UNCHANGED <<fds, connected>>
  /\ sockfd' = [sockfd EXCEPT ![s] = -1]
  /\ msg_q' = [msg_q EXCEPT ![s] = << >>]
  /\ Goto(s, "waiting")
  /\ UNCHANGED <<sessions, msg, count, cb, clientVars, died>>

(* session_reset: closing a descriptor also takes it out of the epoll set.  *)
Reset(s) ==
  /\ Alive
  /\ wpc[s] = "reset"
  /\ err' = [err EXCEPT ![s] = "SUCCESS"]
  /\ state' = [state EXCEPT ![s] = "UNUSED"]
  /\ host' = [host EXCEPT ![s] = [name |-> NoHost, len |-> 0]]
  /\ port' = [port EXCEPT ![s] = -1]
  /\ epoll' = epoll \ {sockfd[s]}
  /\ fds' = fds \ {sockfd[s]} /\ connected' = connected \ {sockfd[s]}
  /\ sockfd' = [sockfd EXCEPT ![s] = -1]
  /\ msg_q' = [msg_q EXCEPT ![s] = << >>]
  /\ Goto(s, "waiting")
  /\ UNCHANGED <<sessions, msg, count, cb, clientVars, died>>

-----------------------------------------------------------------------------
ClientStep(c) ==
  \/ \E h \in Hosts \cup {NoHost}, p \in Ports : Open(c, h, p)
  \/ \E s \in Ids \cup {-1} :
       \/ \E n \in Lens : Write(c, s, n)
       \/ \E n \in Lens : Read(c, s, n)
       \/ Close(c, s)
  \/ Mark(c)
  \/ Put(c)

OpenStep(s)   == \/ SkipOpen(s) \/ OpenSocket(s) \/ NoSocket(s)
                 \/ Connect(s) \/ EpollAdd(s) \/ ConnectFailed(s) \/ OpenFailed(s)
WorkerStep(s) == Start(s) \/ Pop(s) \/ OpenStep(s) \/ TransferDone(s) \/ Callback(s) \/ Reset(s)

Next == \/ \E c \in Clients : ClientStep(c)
        \/ \E s \in Ids : WorkerStep(s) \/ Transfer(s) \/ PopNull(s) \/ SpuriousWakeup(s)

Spec == Init /\ [][Next]_vars

(* Threads are scheduled: a worker that can run eventually does, and so     *)
(* does a client that is inside a call.  Nothing makes a client call, and   *)
(* nothing makes the peer take or send data: Transfer is not fair.          *)
Fairness == /\ \A s \in Ids : WF_vars(WorkerStep(s))
            /\ \A c \in Clients : WF_vars(Mark(c) \/ Put(c))

FairSpec == Spec /\ Fairness

-----------------------------------------------------------------------------
(***************************************************************************)
(* Properties.                                                             *)
(***************************************************************************)
Labels == {"start", "waiting", "woken", "spurious", "open", "connect", "watch", "failed", "io",
           "callback", "reset"}

(* Types of all variables.                                                  *)
SessionTypes ==
  /\ sessions \in SUBSET Ids
  /\ state  \in [Ids -> SessionStates]
  /\ err    \in [Ids -> Errs]
  /\ sockfd \in [Ids -> Fds \cup {-1}]
  /\ host   \in [Ids -> [name : Hosts \cup {NoHost, Mixed}, len : Nat]]
  /\ port   \in [Ids -> Ports \cup {-1, 0}]
  /\ msg_q  \in [Ids -> Seq(Msgs)]

WorkerTypes ==
  /\ wpc    \in [Ids -> Labels]
  /\ msg    \in [Ids -> Msgs \cup {NoMsg}]
  /\ count  \in [Ids -> Lens]
  /\ cb     \in [Ids -> Cbs]
  /\ fds \subseteq Fds /\ connected \subseteq Fds /\ epoll \subseteq Fds
  /\ died \in {"no", "NULL", "SIGPIPE"}

ClientTypes ==
  /\ cpc   \in [Clients -> {"idle", "mark", "put"}]
  /\ call  \in [Clients -> [sid : Ids \cup {-1}, m : Msgs \cup {NoMsg}]]
  /\ ret   \in [Clients -> {-1, 0, 1}]
  /\ calls \in [Clients -> 0 .. MaxCalls]

TypeOK == SessionTypes /\ WorkerTypes /\ ClientTypes

(* A worker that was signalled finds a message: although pthread_cond_wait  *)
(* is not in a loop that tests the queue, and several clients may signal    *)
(* between the wakeup and the moment the worker has its mutex again,        *)
(* msg_queue_pop dereferences NULL only after an unsignalled wakeup.        *)
SignalledFindsMessage ==
  /\ \A s \in Ids : wpc[s] = "woken" => msg_q[s] # << >>
  /\ died = "NULL" => \E s \in Ids : wpc[s] = "spurious" /\ msg_q[s] = << >>

(* No session refers to a descriptor it does not own: the descriptor is     *)
(* open and no other session has it.  With it, the close() of session_reset *)
(* never closes the connection of another session, although descriptors are *)
(* reused as soon as they are closed.                                       *)
FdOwnership ==
  /\ \A s \in Ids : sockfd[s] # -1 => sockfd[s] \in fds
  /\ \A s, t \in Ids : sockfd[s] = sockfd[t] /\ sockfd[s] # -1 => s = t
  /\ epoll \subseteq fds

(* A session that the API finds OPENED has a descriptor on which the        *)
(* connection was made, whatever calls raced with the opening and whatever  *)
(* became of the descriptor it had before; and the main loop watches none   *)
(* that is not connected.  That it watches every one is not promised: an    *)
(* epoll_ctl that fails is not noticed.                                     *)
OpenedHasSocket ==
  /\ \A s \in Ids : state[s] = "OPENED" => sockfd[s] \in connected
  /\ epoll \subseteq connected /\ connected \subseteq fds

(* A session that session_get_usable may hand out holds no descriptor, and  *)
(* no host that the next memcpy would be overlaid on, once its worker has   *)
(* gone back to wait.                                                       *)
FreeSlotIsClean ==
  \A s \in Ids :
    /\ state[s] = "UNUSED" => sockfd[s] = -1
    /\ state[s] = "UNUSED" /\ MutexFree(s) => host[s].len = 0 /\ port[s] = -1

(* A worker that has taken an OPEN message gets rid of it: select() has a   *)
(* timeout, so the worker calls back and waits again, whatever the clients  *)
(* do to its state meanwhile.                                               *)
OpenTerminates ==
  \A s \in Ids : (wpc[s] = "open") ~> (wpc[s] = "waiting" \/ ~Alive)

(* An OPEN that fails gives its slot and its descriptor back, even when a   *)
(* call that tested the state before has assigned it since.                 *)
FailedOpenFreesSlot ==
  \A s \in Ids : (wpc[s] = "failed") ~> ((state[s] = "UNUSED" /\ sockfd[s] = -1) \/ ~Alive)

(* An OPEN that was taken ends, whatever fails and whatever the clients do  *)
(* meanwhile, and when it fails nothing of it stays.                        *)
OpenEnds == OpenTerminates /\ FailedOpenFreesSlot

(* A call that passed its test returns, unless the worker whose mutex       *)
(* msg_queue_put needs stays in its transfer loop for ever, the one loop    *)
(* that holds the mutex for as long as the peer likes.                      *)
CallReturns ==
  \A c \in Clients, s \in Ids :
    []<>(wpc[s] # "io") =>
      ((cpc[c] = "put" /\ call[c].sid = s) ~> (cpc[c] = "idle" \/ ~Alive))

-----------------------------------------------------------------------------
(***************************************************************************)
(* What comments of the code say of it and the code does not do.           *)
(***************************************************************************)

(* "Callback for session open/write/read/close": a queued request is taken  *)
(* by the worker, which calls back for it, unless it hangs in a transfer.   *)
RequestIsTaken ==
  \A s \in Ids :
    []<>(wpc[s] # "io") => (msg_q[s] # << >> ~> (msg_q[s] = << >> \/ ~Alive))

=============================================================================
