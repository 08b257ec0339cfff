------------------------------ MODULE CoapSock ------------------------------
(* The socket layer of the CoAP client, coap/mbtk_coap_generic.c: the main   *)
(* thread opens one connected UDP socket, starts the receiving thread and    *)
(* sends requests; the receiving thread waits in select, hands every datagram *)
(* to the callback, and the callback may send an answer through the same     *)
(* socket.  The socket holds one pending error (an ICMP message about an     *)
(* earlier datagram) that the next send or receive of either thread returns  *)
(* and clears.  sock_reset is never set by anything, so the branch that      *)
(* replaces an open socket does not occur.  Nothing keeps main from closing  *)
(* the socket while the receiving thread uses it: what that does is here     *)
(* too, up to the undefined FD_SET of a number below 0.                      *)
EXTENDS Integers, Sequences

CONSTANTS
  Length,     \* bytes of every datagram sent
  Requests,   \* what main sends
  Replies,    \* what the callback sends
  Retries,    \* retrycout: 4
  MaxFd,      \* bound: descriptors are 1 .. MaxFd
  MaxSends,   \* bound: calls of sendto
  MaxArrive   \* bound: datagrams and errors that reach the socket

ASSUME SendAssumption ==
  /\ Length \in Nat \ {0}
  /\ Retries \in Nat \ {0}
  /\ "none" \notin Requests \cup Replies

VARIABLES
  sockfd,     \* coap_items[CMD].sockfd: 0 at first, -1 after a close
  handle,     \* coap_items[CMD].handle > 0
  open,       \* descriptors the kernel has open
  mishaps,    \* "close_failed", and "closed_in_use" by the receiving thread
  thread,     \* the receiving thread: where it is
  maxfd,      \* maxfdp1 - 1, which it sets when it starts
  rset,       \* its set of descriptors
  doing,      \* the message each thread is sending, "none" if none
  tries,      \* retrycout of that call
  result,     \* what each thread's last sendto meant
  wire,       \* datagrams the kernel took, in order
  pending,    \* the socket's pending error
  queue,      \* datagrams that wait in the socket: TRUE for one with data
  given,      \* datagrams given to the callback
  dropped,    \* datagrams without data, taken and not given to it
  sends, arrived

sockVars == <<sockfd, handle, open, mishaps>>
sendVars == <<doing, tries, result, wire, sends>>
recvVars == <<queue, given, dropped, arrived>>
threadVars == <<thread, maxfd, rset>>
layerVars == <<sockVars, sendVars, recvVars, threadVars, pending>>

Callers == {"main", "recv"}
Messages == Requests \cup Replies
Fds == 1 .. MaxFd
IsOpen == handle /\ sockfd > 0
Ended  == thread \in {"failed", "undefined"}
InUse  == thread # "none" /\ ~Ended

LayerInit ==
  /\ sockfd = 0 /\ handle = FALSE /\ open = {} /\ mishaps = {}
  /\ thread = "none" /\ maxfd = -1 /\ rset = {}
  /\ doing = [c \in Callers |-> "none"] /\ tries = [c \in Callers |-> 0]
  /\ result = [c \in Callers |-> "failed"]
  /\ wire = << >> /\ sends = 0
  /\ pending = FALSE
  /\ queue = << >> /\ given = 0 /\ dropped = 0 /\ arrived = 0

-----------------------------------------------------------------------------
(* mbtk_coap_sock_init, mbtk_coap_sock_deinit and mbtk_coap_task_start, all  *)
(* of the main thread.                                                       *)

NewFd(f) == f \notin open /\ \A g \in Fds : g < f => g \in open

\* coap_sock_create: socket() fails, or a later step fails and the new
\* descriptor is left open, or all succeed.
SockCreate ==
  /\ UNCHANGED mishaps
  /\ \/ UNCHANGED <<sockfd, handle, open>>
     \/ \E f \in Fds : NewFd(f) /\ open' = open \cup {f} /\ UNCHANGED <<sockfd, handle>>
     \/ \E f \in Fds : NewFd(f) /\ open' = open \cup {f} /\ sockfd' = f /\ handle' = TRUE

SockInit ==
  /\ doing["main"] = "none" /\ sockfd <= 0
  /\ SockCreate
  /\ UNCHANGED <<sendVars, recvVars, threadVars, pending>>

\* coap_sock_close: what waits in the socket goes with it.  A close that fails
\* has released the descriptor too, but sockfd keeps its number.
SockClose ==
  /\ open' = open \ {sockfd}
  /\ \E failed \in BOOLEAN :
       /\ sockfd' = IF failed THEN sockfd ELSE -1
       /\ mishaps' = mishaps \cup (IF failed THEN {"close_failed"} ELSE {})
                             \cup (IF InUse THEN {"closed_in_use"} ELSE {})
  /\ pending' = FALSE /\ queue' = << >>

\* Mutant: sockfd keeps its number after a close that succeeds as well.
DeinitKeepsFd ==
  /\ doing["main"] = "none" /\ IsOpen
  /\ open' = open \ {sockfd}
  /\ pending' = FALSE /\ queue' = << >>
  /\ UNCHANGED <<sendVars, sockfd, handle, mishaps, given, dropped, arrived, threadVars>>

\* The receiving thread is not asked: it may be anywhere in its loop.
Deinit ==
  /\ doing["main"] = "none" /\ IsOpen
  /\ SockClose
  /\ UNCHANGED <<sendVars, handle, given, dropped, arrived, threadVars>>

\* main starts the thread only when mbtk_coap_sock_init returned TRUE.
TaskStart ==
  /\ thread = "none" /\ IsOpen
  /\ thread' = "started"
  /\ UNCHANGED <<sockVars, sendVars, recvVars, maxfd, rset, pending>>

-----------------------------------------------------------------------------
(* mbtk_coap_udp_sendto, called by main at any time and by the callback.     *)
Calls(c) ==
  /\ doing[c] = "none" /\ sends < MaxSends
  /\ c = "recv" => thread = "callback"

SendRefused(c) ==
  /\ Calls(c) /\ ~IsOpen
  /\ result' = [result EXCEPT ![c] = "failed"]
  /\ sends' = sends + 1
  /\ UNCHANGED <<sockVars, recvVars, threadVars, pending, doing, tries, wire>>

SendBegin(c) ==
  /\ Calls(c) /\ IsOpen
  /\ \E m \in (IF c = "main" THEN Requests ELSE Replies) : doing' = [doing EXCEPT ![c] = m]
  /\ tries' = [tries EXCEPT ![c] = Retries]
  /\ sends' = sends + 1
  /\ UNCHANGED <<sockVars, recvVars, threadVars, pending, result, wire>>

\* One turn of retry_send.  total is total_size when the turn begins: 0 in the
\* code, which resets it before the goto.  The kernel takes the whole datagram
\* or none of it, so the loop for a short send is not entered: res < total_size
\* is false when total_size was 0.
Turn(c, res, total) ==
  /\ wire' = IF res = Length THEN Append(wire, doing[c]) ELSE wire
  /\ IF total + res # Length /\ tries[c] > 1
     THEN tries' = [tries EXCEPT ![c] = @ - 1] /\ UNCHANGED <<doing, result>>
     ELSE /\ doing' = [doing EXCEPT ![c] = "none"]
          /\ result' = [result EXCEPT ![c] = IF total + res = Length THEN "sent" ELSE "failed"]
          /\ tries' = [tries EXCEPT ![c] = 0]

\* The system call: a pending error comes back in place of the datagram; the
\* call may also fail by itself, and fails when the socket has been closed.
SendResults == IF pending \/ sockfd \notin open THEN {-1} ELSE {-1, Length}

SendTurnKeepsTotal(c) ==
  /\ doing[c] # "none"
  /\ \E res \in SendResults : Turn(c, res, IF tries[c] < Retries THEN -1 ELSE 0)
  /\ pending' = FALSE
  /\ UNCHANGED <<sockVars, recvVars, threadVars, sends>>

SendTurn(c) ==
  /\ doing[c] # "none"
  /\ \E res \in SendResults : Turn(c, res, 0)
  /\ pending' = FALSE
  /\ UNCHANGED <<sockVars, recvVars, threadVars, sends>>

-----------------------------------------------------------------------------
(* coap_thread_func.                                                         *)

Readable == sockfd \in open /\ (queue # << >> \/ pending)

\* maxfdp1 is taken once.
ThreadStarts ==
  /\ thread = "started"
  /\ maxfd' = sockfd /\ thread' = "loop"
  /\ UNCHANGED <<sockVars, sendVars, recvVars, rset, pending>>

\* FD_SET at the head of the loop; nothing clears rset but select.
SetBit ==
  /\ thread = "loop"
  /\ IF sockfd < 0 THEN thread' = "undefined" /\ UNCHANGED rset
     ELSE thread' = "select" /\ rset' = rset \cup {sockfd}
  /\ UNCHANGED <<sockVars, sendVars, recvVars, maxfd, pending>>

\* select looks at the descriptors below maxfdp1.
Watched == {f \in rset : f <= maxfd}
Ready   == sockfd \in Watched /\ Readable

SelectReady ==
  /\ thread = "select" /\ Ready /\ Watched \subseteq open
  /\ thread' = "receive" /\ rset' = {sockfd}
  /\ UNCHANGED <<sockVars, sendVars, recvVars, maxfd, pending>>

\* The socket select waits for has been closed and is ready: FD_ISSET looks for
\* another one, or for none.
SelectStale ==
  /\ thread = "select"
  /\ \E f \in Watched \ {sockfd} : rset' = {f}
  /\ thread' = IF sockfd < 0 THEN "undefined" ELSE "loop"
  /\ UNCHANGED <<sockVars, sendVars, recvVars, maxfd, pending>>

SelectInterruptedEnds ==
  /\ thread = "select"
  /\ thread' = "gone"
  /\ UNCHANGED <<sockVars, sendVars, recvVars, maxfd, rset, pending>>

\* EINTR, while nothing is ready: back to the head of the loop, which sets the
\* bit again.
SelectInterrupted ==
  /\ thread = "select" /\ ~Ready
  /\ thread' = "loop"
  /\ UNCHANGED <<sockVars, sendVars, recvVars, maxfd, rset, pending>>

\* Any other error ends the thread, and nothing starts it again.
SelectFails ==
  /\ thread = "select"
  /\ thread' = "failed"
  /\ UNCHANGED <<sockVars, sendVars, recvVars, maxfd, rset, pending>>

\* mbtk_coap_udp_recvfrom.  main's send may have taken the error that select
\* reported: then the call waits for the next datagram.  An error, also that of
\* a socket closed meanwhile, and a datagram without data are logged.
Receive ==
  /\ thread = "receive"
  /\ \/ /\ pending \/ sockfd \notin open
        /\ pending' = FALSE /\ thread' = "loop"
        /\ UNCHANGED recvVars
     \/ /\ ~pending /\ sockfd \in open /\ queue # << >> /\ Head(queue)
        /\ queue' = Tail(queue) /\ given' = given + 1 /\ thread' = "callback"
        /\ UNCHANGED <<pending, dropped, arrived>>
     \/ /\ ~pending /\ sockfd \in open /\ queue # << >> /\ ~Head(queue)
        /\ queue' = Tail(queue) /\ dropped' = dropped + 1 /\ thread' = "loop"
        /\ UNCHANGED <<pending, given, arrived>>
  /\ UNCHANGED <<sockVars, sendVars, maxfd, rset>>

CallbackReturns ==
  /\ thread = "callback" /\ doing["recv"] = "none"
  /\ thread' = "loop"
  /\ UNCHANGED <<sockVars, sendVars, recvVars, maxfd, rset, pending>>

-----------------------------------------------------------------------------
(* The network: a datagram for the connected socket, or an ICMP error about  *)
(* one that was sent.                                                        *)
Arrive ==
  /\ sockfd \in open /\ arrived < MaxArrive
  /\ \/ \E hasData \in BOOLEAN : queue' = Append(queue, hasData) /\ UNCHANGED pending
     \/ wire # << >> /\ pending' = TRUE /\ UNCHANGED queue
  /\ arrived' = arrived + 1
  /\ UNCHANGED <<sockVars, sendVars, threadVars, given, dropped>>

LayerNext ==
  \/ SockInit \/ Deinit \/ TaskStart
  \/ \E c \in Callers : SendRefused(c) \/ SendBegin(c) \/ SendTurn(c)
  \/ ThreadStarts \/ SetBit \/ SelectReady \/ SelectStale \/ SelectInterrupted \/ SelectFails
  \/ Receive \/ CallbackReturns
  \/ Arrive

LayerSpec == LayerInit /\ [][LayerNext]_layerVars

\* Each thread runs when it can: main ends the call it is in, the receiving
\* thread goes round its loop.
Fairness ==
  /\ \A c \in Callers : WF_layerVars(SendTurn(c))
  /\ WF_layerVars(ThreadStarts) /\ WF_layerVars(SetBit) /\ WF_layerVars(SelectReady)
  /\ WF_layerVars(Receive) /\ WF_layerVars(CallbackReturns)

-----------------------------------------------------------------------------
LayerTypeOK ==
  /\ sockfd \in {-1, 0} \cup Fds /\ handle \in BOOLEAN
  /\ open \subseteq Fds
  /\ mishaps \subseteq {"close_failed", "closed_in_use"}
  /\ thread \in {"none", "started", "loop", "select", "receive", "callback", "failed", "undefined"}
  /\ maxfd \in {-1, 0} \cup Fds /\ rset \subseteq Fds
  /\ doing \in [Callers -> Messages \cup {"none"}]
  /\ tries \in [Callers -> 0 .. Retries]
  /\ result \in [Callers -> {"sent", "failed"}]
  /\ wire \in Seq(Messages)
  /\ pending \in BOOLEAN
  /\ queue \in Seq(BOOLEAN)
  /\ given \in Nat /\ dropped \in Nat /\ arrived \in Nat /\ sends \in Nat

\* A descriptor the layer goes on using is one it has open: no close, failed
\* create or second init leaves a descriptor behind that names nothing, unless
\* close itself fails.  Where main has not closed the socket while the thread
\* that uses it runs, both threads always find the layer open, and the thread
\* never sets the bit of a descriptor below 0.
UsesOpenSocket ==
  /\ sockfd > 0 => sockfd \in open \/ "close_failed" \in mishaps
  /\ InUse \/ (\E c \in Callers : doing[c] # "none") => IsOpen \/ "closed_in_use" \in mishaps
  /\ thread = "undefined" => "closed_in_use" \in mishaps

\* sendto implements the channel of DatagramChannel: whatever errors interrupt
\* its turns, a message is on the wire once if the call says so and else not.
Ch == INSTANCE DatagramChannel
SendsOnce == Ch!Channel

\* What reaches the socket of a running client is taken from it: errors,
\* signals and datagrams without data do not end the loop, nor does it hang
\* when a send took the error select reported.  Only a failing select ends it,
\* or main that closes the socket under it: a socket opened afterwards may be
\* behind the maxfdp1 of the thread for ever.
EveryDatagramTaken ==
  thread # "none" /\ queue # << >> ~>
    queue = << >> \/ thread = "failed" \/ "closed_in_use" \in mishaps
=============================================================================
