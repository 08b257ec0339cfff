# A formal model of mbtk

mbtk is a collection of C/C++ programs around network devices: the **stanet**
daemon, which multiplexes TCP sessions over worker threads; a **CoAP** client
with its datagram library and its socket layer; a small **library** of
sockets, HTTP, strings, logging and lists; and **servers and tools** built
with it (a video relay, five echo servers, a frame buffer shell, a picture
converter). This directory models them. TLC checks the models on small
instances, and TLAPS proves the central safety properties for all parameters.
All paths below are relative to `C_Cpp/cdemo/`.

## 1. Inventory

| Component | State | Operations | What is hard about it |
|---|---|---|---|
| stanet daemon (`stanet/stanet_daemon.c`) | table of sessions (state, error, descriptor, host, port, message queue), one worker thread per session, epoll set | `stanet_session_open/write/read/close`, `thread_run` of a worker, `socket_open`, `session_reset` | API calls test and assign `session->state` without a lock; a condition variable that is waited on unconditionally; descriptors that the kernel reuses; failure at each step of `socket_open` |
| stanet QMI client (`stanet/stanet_qmi.c`) | `session_id_tmp` | one thread that sleeps, opens, writes, reads; a callback in the workers' threads | the id is passed between threads without a lock, timing by `sleep` |
| CoAP client (`coap/mbtk_coap_base.c`) | list of pending packages with a tail pointer, 16 bit id counter, one outgoing datagram | commands of the main thread; `mbtk_coap_recv_resolve` of the receiving thread; block-wise transfers | two threads, no lock; repeated, late and reordered answers; freed memory |
| CoAP datagram library (`coap/mbtk_coap.cpp`) | one byte buffer, number of options, biggest option number, payload pointer | `reset`, `setToken`, `addOption`, `setURI`, `setPayload`, `validate`, `getOptions`, `getURI` | options edited in place in any order, delta encoding, forms that change at 13 and 269, full buffers |
| CoAP C interface (`coap/mbtk_coap_api.cpp`) | the two static datagrams | wrappers, option getters | sharing of the outgoing datagram |
| CoAP socket layer (`coap/mbtk_coap_generic.c`) | the descriptor, whether it is open, the receiving thread | create, close, `mbtk_coap_udp_sendto` with four tries, `coap_thread_func` | two threads on one socket with one pending error; signals that interrupt `select`; error paths that leave a descriptor open |
| Socket slots (`lib/mbtk_sock.c`) | a table of slots, the process's alarm | `mbtk_sock_open/conn/close` | a connect limited by `select` or by an alarm, descriptor numbers that come back |
| HTTP client and socket helpers (`lib/m_http.c`, `lib/m_sock.c`) | the alarm, one static read buffer | `http_get`, `sock_open`, `sock_writen`, `sock_readline`, the address parser | state shared by all connections, short reads and writes |
| Log (`lib/m_log.c`) | levels, the stream, its path | `log_init`, messages, `log_clear` | stream and path are changed apart, each step may fail |
| Queue and list (`lib/m_queue.c`, `lib/m_list.c`) | linked cells | put, get, add, free | cells that come back from the allocator |
| Strings (`lib/m_string.c`) | none | search, split, replace, cut | boundaries, two loops that must agree |
| Video server (`demo/wifi_video_server.c` and its two clients) | two viewer slots, the collector's descriptor | accepting thread, video thread | an unlocked shared table that one thread compacts while the other fills it; a signal between a test and a wait |
| Echo servers (`unpv13e/tcp_ser.c`, `tcp_cli.c`) | children; a table of clients with a set and two bounds; epoll events | fork, refuse, select, poll and epoll loops | signals that are not queued, aborted and reset connections, edge-triggered events |
| Frame buffer shell (`demo/framebuff_demo.c`) | colour, open descriptors, the screen | points, lines, circles, pictures | pixels at the edges, rounding |
| Picture converter (`demo/yuv_demo.c`) | buffers, the file | one run from the arguments to `exit_free` | four layouts of half-sized planes, nine ways to fail |
| other `lib/` files, demos, exercises, `Python/`, curl headers | none that lasts | thin wrappers and scripts | – |

**Interactions.** A stanet client thread finds a session (`session_get_usable`,
global mutex), puts a message into the session's queue under the session's
mutex and signals its condition variable; the worker, which holds that mutex
whenever it is not waiting, pops the message, works on the socket, and calls
`qmi_session_callback`. In the CoAP client, the main thread and the receiving
thread meet in the package list, the id counter and `g_CoapPDU`; the datagram
library turns a package into bytes for the network and back.

Below the client, its socket layer hands datagrams to `coap_read_cb` and may
be sending from both threads at once. `http_get` stands on `sock_open`,
`sock_writen` and `sock_readline`. The two threads of the video server share
`client_fds` and `video_collect_fd`; the echo servers interact with their
clients, with the kernel's queues and, in the forking one, with SIGCHLD.

**What makes them correct.** A worker that is woken finds a message; a
descriptor is held by one session and closed once; a session that is reported
open has a live descriptor; a slot that can be handed out holds nothing of its
last use; opens end. The package list stays a list with a valid tail, a
transfer asks for every block once and in order and ends. The bytes of a
datagram are those of its content, whatever the order of the calls, and the
receiver reads them back; a message is on the wire once if its sender was told
so; what arrives is taken. A viewer that was accepted stays registered; an
exited child is reaped; bytes that arrived are read. The library's functions
give what they promise at every boundary, and nothing of an earlier call shows
up in a later one.

## 2. Modules

| Module | Models | State and actions |
|---|---|---|
| `Stanet` | `stanet_daemon.c`, `stanet_type.h` | one variable per session field; `wpc` is where a worker is in `thread_run`; `cpc`, `call` where a client is in an API call. Clients: `Open`, `Write`, `Read`, `Close` (test), `Mark` (assignment), `Put` (queue and signal). Workers: `Start`, `Handler`, `Pop`, `Parse`, `OpenSocket`, `Connect` (which stores OPENED), `EpollAdd` (which may fail unnoticed), the failures, `Move` and the ends of the transfer loop, `Callback`, `Reset` |
| `DescriptorTable` | the promise about descriptors | `Create`, `Lose`, `Watch`, `CloseOwn` |
| `StanetRefinement` | the mapping from `Stanet` to `DescriptorTable` | – |
| `StanetQmi` | `stanet_qmi.c` composed with `Stanet` | `qpc`, `session_id_tmp`; the thread's three calls and the callback |
| `StanetProofs` | theorems about `Stanet`, and on top of them about `StanetQmi` | – |
| `CoapClient` | `mbtk_coap_base.c`: both threads, and the sharing of `g_CoapPDU` | `head`, `tail`, `next`, `live` are the heap the two threads share. `mbtk_coap_list_add` is `TestHead`, `InitHead`, `TailHead`, `Scan`, `Link`, `Hang`, `InitNext`, `MoveTail`; the main thread also has `Command` and `Reload`. The receiving thread has `RecvCon`, `RecvAck`, `Find`, `RecvMore`, `RecvLast`, and for `mbtk_coap_list_del` `DelFirst`, `DelHead`, `Walk`, `DelTail`, `Unlink`, `Free`. `Increment`, the building of a datagram and `Send`, `Sent` are of both, and so is `Stray`, the use of memory that is no package; the server and the network are external |
| `CoapCodec` | option headers and Block values | pure operators |
| `CoapUri` | `setURI`, `getURI` | pure operators |
| `CoapBytes` | the byte-level operations of class `CoapPDU`: header fields, token, insertion of an option, `validate`, `getOptions` | pure operators |
| `CoapPdu` | class `CoapPDU` as an object | `pdu` is the bytes; `Reset`, `AddOption`, `AddBlock`, `SetURI`, `SetToken`, `SetPayload` |
| `CoapMessage` | one package from its settings to the acknowledgement, through `mbtk_coap_api.cpp` | `coap`, `packet`, `recv`, `ack`; `ItemInit`, `SetPackage...`, `Send`, `Resolve`, `Ack`, `Free` |
| `CoapSock` | `mbtk_coap_generic.c` | `sockfd`, `handle`, `open`; `doing`, `tries`, `result` of each thread; the socket's `queue` and `pending` error; the receiving thread's `maxfd` and `rset`; `mishaps` remembers a close that failed or came while the thread ran. `SockInit`, `Deinit`, `TaskStart`; `SendBegin`, `SendTurn`; `ThreadStarts`, `SetBit`, `SelectReady`, `SelectStale`, `Receive`, `CallbackReturns` and their failures |
| `DatagramChannel` | the promise about sending | `Begin`, `Refuse`, `End` |
| `CoapBytesProofs` | theorems about the operators of `CoapCodec`, `CoapUri` and `CoapBytes` | – |
| `CoapPduProofs` | theorems about `CoapPdu`, on top of `CoapBytesProofs` | – |
| `MbtkSock` | `lib/mbtk_sock.c` | `fd`, `is_sync` per slot, `kern` per descriptor, `alarm`, `waiting`; `Open`, `ConnSync`, `ConnAsync`, the ends of their waits, `Close`, `Alarm` |
| `HttpGet` | `lib/m_http.c` on `lib/m_sock.c` | where the call is, `timer`, `readBuf`, `line`, `parsed` (the lines read), `printed` (what `printf` makes of them); one action per step of a call |
| `InetPton` | the address parser of `lib/m_sock.c` | the scanner as a fold over the characters; the one action types a character more |
| `MString` | `lib/m_string.c` | one operator per function, one action that applies it |
| `MLog` | `lib/m_log.c` | `log_flag`, `log_file`, `log_file_path`; `LogInit`, `LogMessage`, `LogClear` |
| `MList` | `lib/m_queue.c`, `lib/m_list.c` | `next`, `data` of the cells, `live`, the one `list_free_func`; `HeadInit`, `QPut`, `QGet`, `ListFree` |
| `EchoServers` | the five `main_`s of `tcp_ser.c`, the clients of `tcp_cli.c` | `kind` chooses the server; `cli`, `line`, `flight`, `buf`, `replies` per client, `child` and `sigchld`, `table`, `allset`, `maxi`, `maxfd`, `ready`, `edge` |
| `VideoServer` | `wifi_video_server.c` and its clients | `client_fds`, `collect`, `unread` and `broken` of each connection. `MainThread` takes one event: `Accept`, `CloseConn`, `ReadError`, or a command with `SlotTest`, `SlotStore`, `VideoAnswer`, `Refuse`, `CollectAssign`, `LeaveEpoll`, `CollectAnswer`, `SignalCond`. `VideoThread` goes entry by entry |
| `Framebuffer` | `framebuff_demo.c` | the last command, the locations it painted; one action per command |
| `Yuv` | `yuv_demo.c` | `at` in main, `heap`, `file`, `planes`, `rgb`, `bmps`; one action per stage |
| `CoapClientProofs` | theorems about `CoapClient` and `CoapSock` | – |
| `EchoServersProofs`, `VideoServerProofs` | theorems about those modules | – |
| `PictureProofs` | theorems about `Framebuffer` and `Yuv` | – |
| `LibraryProofs` | theorems about `MbtkSock`, `HttpGet`, `MLog` and `MList` | – |
| `MC...` | instances for TLC; `MCCoapIo` and `MCSequential` hold several modules, one of which a behaviour exercises | – |

Grain of atomicity. In `Stanet` every access that another thread can observe
is a step of its own, also the assignment of OPENED and the `epoll_ctl` that
follows it. What runs under the session mutex is
one step between two accesses to state that is read without it. Code under the
global mutex neither blocks nor takes another mutex and is one step. In
`CoapClient` a step is one statement of the list functions: a test, a hop of a walk, a
pointer stored, a package freed; where one statement reads a pointer, calls
`malloc` and stores through it (`mbtk_coap_base.c:342`), it is two. In
`CoapPdu` each method is one step: the object has no locks, and what happens
when two threads use it at once is the subject of `CoapClient`.

In `CoapSock`, `VideoServer` and `EchoServers` every system call is a step of
its own, and so is every access to state that two threads share: in
`VideoServer` each entry of `client_fds` that is looked at, each that is stored,
and each use of `video_collect_fd`. The modules of `MCSequential` are one-threaded: a step is a call, or the stretch
between two system calls where those may fail.

Data. Host names are model values with a length, because the daemon copies a
host over an older one without clearing it (`stanet_daemon.c:427`); a shorter
one then becomes `Mixed`. Transferred data is a count. CoAP payloads of
`CoapClient` are the block number; `CoapPdu` and `CoapMessage` have real bytes,
but only as many values as tell contents apart. When a thread of `CoapClient`
is about to use memory that is no package of the list, freed or not yet
initialised, the step is `Stray` and the behaviour ends there (`ub`): anything
could follow. `spoiled` remembers that the last package was deleted during an
append. Byte i of answer c in `HttpGet` is the
pair of the two, so that a byte of another connection cannot pass for it.
Paths in `MLog` are short sequences, since one copied over a longer one leaves
its end (`m_log.c:288`). Floating point in `Framebuffer` is exact except where
the height of a line is half way between two pixels; there either may be
painted.

## 3. Runs

| Run | Shows |
|---|---|
| `stanet` | Two clients, one session, two calls each: `TypeOK`, `SignalledFindsMessage`, `OpenedHasSocket` (an OPENED session has a connected descriptor, and none that is not connected is watched), `FreeSlotIsClean`; with fair threads `OpenEnds` (an OPEN ends and frees its slot when it fails), `CallReturns` |
| `stanet_pool` | One client, two sessions, four calls, wakeups without a signal, IPv6 hosts: `FdOwnership`, `ImplementsTable` |
| `qmi` | The shipped caller: `RememberedIsConnected`, `NoDescriptorLost` with any timing, `QmiRequestIsTaken` if its sleeps are long enough |
| `coap_list` | Three commands, ids that wrap, failing sends, every interleaving of the statements of `mbtk_coap_list_add` and `mbtk_coap_list_del`: `ListShape` (with `TypeOK`), unless the last package is deleted during an append |
| `coap_block` | Four blocks, answers with and without a Block2 option, server messages acknowledged in the same PDU: `BlocksInOrder`, `DroppedWhenAnswered` (with the last block or without blocks), and without interference `TransferEnds` |
| `coap_pdu` | Three calls in any order: `BytesAreContent`; `ReceiverReads`, also of a datagram that was cut (`CutIsPrefix`); `ValuesReadBack` of blocks and URIs |
| `coap_io` | `CoapMessage`: `PeerReadsSettings`, that is, three settings in any order give the same datagram but for the order of queries from two of them (`OrderDoesNotMatter`), no known code is refused (`KnownCodesAccepted`) and the peer's getters give what was set (`SettingsRead`), with the exceptions it names; the acknowledgement answers the request (`AckAnswersRequest`). `CoapSock`, whose main thread may close the socket at any time: `UsesOpenSocket`, `SendsOnce` (it implements `DatagramChannel`), `EveryDatagramTaken` |
| `sequential` | `MbtkSock`: `SlotOwnsFd`, `ReportedIsConnected`, `ConnReturns`. One property for each of the others, the conjunction of what its parts promise: `CallsIndependent` of `HttpGet` (bytes and alarm of earlier calls; lines are read byte for byte and printed up to a zero byte), `StringsExact` of `MString` (splitting and replacing, affixes, substrings, tokens), `PtonExact` of `InetPton`, `LogAsAsked` of `MLog` (its levels, one stream, no line lost elsewhere), `QueuesExact` of `MList` (order of the items, ownership of the cells), `DrawingExact` of `Framebuffer` (on the screen, lines without gaps, circles that are rings), `ConversionExact` of `Yuv` (exact pictures, the whole file read, nothing left allocated) |
| `echo` | Every kind of server with two clients, lines shorter and longer than MAXLINE, clients that do not read: `ZombiesNoticed`, `ServerIntact` (`TableExact`, `StaysUp`); `BytesHaveEvent`, except for the rest of a line longer than MAXLINE; `Answered`, for clients that take their replies |
| `video` | Three connections that become viewers or collectors, reset, lost or slow to read: `NoViewerLost`, `CollectorOpen`; `FramesRead`, if every program that is written to reads or ends |

Two runs end in a violation and document a disagreement between the code and
what its comments say:

| Run | What happens |
|---|---|
| `stanet_wakeup` | The worker calls `pthread_cond_wait` without looking at the queue (line 418). A signal sent before it waits, or while it is waking up, is lost, and the message stays queued although the comment promises a callback. |
| `coap_tail` | The receiving thread frees the only package after `mbtk_coap_list_add` has found the list not empty; the append writes to freed memory. |

Modelling met more of the kind; each is in the model and follows from a line
or two, so that no run is spent on it:

* `stanet_session_close` sends a READ of length 0 (`stanet_daemon.c:618`): no
  CLOSE callback comes and the slot stays CLOSING for ever.
* OPENED is stored before the descriptor is given to epoll, and neither
  `epoll_ctl` nor `epoll_create` is checked (`stanet_daemon.c:392`, `:397`,
  `:216`): a session may be open and never watched.
* While `mbtk_coap_list_add` appends, `mbtk_coap_list_del` may take the tail
  away: the new package is hung on a package that is being unlinked, and lost,
  or `tail->next` is stored and then overwritten with NULL
  (`mbtk_coap_base.c:342`, `:369`). `ListShape` excepts it (`spoiled`).
* An ACK without a Block2 option ends the transfer (`mbtk_coap_base.c:127`),
  also one that only announces an answer which comes later.
* The main thread may close the CoAP socket while the receiving thread is in
  its loop (`mbtk_coap_generic.c:349`): `FD_SET` of -1 is undefined, and the
  descriptor of a socket opened later may be behind the thread's `maxfdp1`.
  When `close` fails, the number is kept (`:124`). `UsesOpenSocket` and
  `EveryDatagramTaken` except both (`mishaps`).
* The getters of numeric options read the bytes of the number as text
  (`mbtk_coap_api.cpp:606`): 16 written as one byte comes back as 0, and a
  number only as itself when it is 0. That of Block1 does not shift the number
  or the flag (`:744`), unlike that of Block2.
* A URI_PATH with a `?` beside a URI_QUERY sends both queries, in the order of
  the calls.
* The main thread resets and refills `g_CoapPDU` while the receiving thread
  builds an acknowledgement in it, which is then not sent
  (`mbtk_coap_base.c:479`).
* The id of a server's message can so get into a request. When it is the id of
  a later block, the answer to the spoiled request is taken for that block's
  and the transfer skips (`mbtk_coap_base.c:104` matches by id only).
  `BlocksInOrder` and `DroppedWhenAnswered` except it (`Undisturbed`); the
  proof of the first found it.
* Both threads increment `mbtk_coap_message_id` without a lock (`:116`), so
  that two transfers may get one id; an answer then moves, or drops, the
  package of the other. `Undisturbed` therefore speaks of one transfer.
* `setURI("/x?x")` drops the query: its loop stops before the last character
  (`mbtk_coap.cpp:452`).
* `mbtk_sock_conn` takes a `select` that a signal interrupted for one that is
  ready (`mbtk_sock.c:146`), and both it and `sock_open` leave the alarm of a
  failed connect running (`mbtk_sock.c:184`, `m_sock.c:150`); in `sock_open`
  the alarm ends the process.
* `http_get` promises a descriptor and returns 0, and closes none. It prints
  with `%s` (`m_http.c:67`), so that a line of a binary answer ends at its
  first zero byte.
* `str_replace` takes the size of its destination and does not look at it
  (`m_string.c:330`, `:354`); `StringsExact` speaks of callers that gave it room.
* `str_split_by_string` keeps empty strings at the end. The sentence at
  `include/m_string.h:231` says that they are left out, the example below it has them.
* `list_free_func` is one variable for all lists (`m_list.c:5`): `list_free`
  of one list frees its items with the function of the list initialised last.
* The select server is held by `accept` when the reported connection was
  aborted, and a reset connection ends it (`tcp_ser.c:168`, `:198`); the epoll
  server accepts one connection per edge (`:361`).
* The epoll server reads once per event and at most MAXLINE bytes
  (`tcp_ser.c:380`): the rest of a longer line stays until more comes. All
  servers write `buf[n]`, which after a full read is behind the buffer; the
  program may go on or end.
* Writes to clients wait for them. One client that does not read holds the
  select and the poll server for all (`tcp_ser.c:213`, `:312`), and one viewer the
  video thread (`wifi_video_server.c:41`).
* The collector's socket that fails on a read is read again, after `buf[-1]`
  was written (`wifi_video_server.c:105`); an error on a command connection drops
  the events that were left in the batch (`:207`).
* A free entry of `client_fds` in front of a viewer keeps frames from it
  (`wifi_video_server.c:67`).
* `log_init(LOG_NONE)` does not keep the next message from turning LOG_I on
  (`m_log.c:268`).
* "::" in an IPv6 address of eight words clears the words that follow
  (`m_sock.c:552`), where the notice above says it is ignored.
* A picture of odd width passes the length check and is converted with rows
  that drift (`yuv_demo.c:342`); pictures of the frame buffer shell are not
  clipped (`framebuff_demo.c:494`).

Two more concern the daemon: on a timeout of
`select` (line 338) `session->err` stays at SUCCESS, so that the OPEN callback
has the error code of a success and session id -1; and because
`session_get_usable` reserves nothing, a second OPEN can reach an open
session, connect it to a mixture of two host names and lose its descriptor.
`DescriptorTable` permits the loss (`Create`, `Lose`) and `NoDescriptorLost`
shows that the shipped caller cannot cause it.

**Bounds and why they suffice.** Every bound is a constant.
`SESSION_MAX_COUNT` is 5 in the code; sessions only meet in the descriptor
numbers and in `session_get_usable`, where two are enough, and races within a
session need one session and two clients. Two calls per client allow open and
open, open and close, and a call that tests before and assigns after a reset;
four calls of one client reach reuse of a slot and of a descriptor. `MaxFd`
of 3 or 4 makes `socket()` fail as well. Hosts are one short and one long one.
`LastBlock = 3` gives a first, two middle and a last block. In `coap_block`
`IdMod` is above the ids a transfer uses, since an answer would have to survive
2^16 messages for the wrap of the counter to matter; its server's id 7 is none of them. In
`coap_list` two ids for three commands make a package find its id in the list;
three packages are the fewest of which one is deleted at the head, one in the middle
and one at the tail while another is appended. In `coap_pdu`, the option numbers 3, 11, 16, 271
and 285 have differences of 13, 268 and 269, the exact limits of the encoding;
three calls insert before, between and behind; 36 bytes fill up. The URIs have
segments of one and two characters at each position. In `coap_io` three
settings are enough for an insertion before, between and behind; the values
are at 15 and 16, 255 and 256, where formats change; three sends and three
arrivals let an error of one thread's datagram hit a send, a receive and the
last try of the other. In `sequential`, seven calls on two slots and three
descriptors reach a reused slot and a reused number; three requests follow a
failed one with a successful one, and an answer of five bytes is longer than a
line may be, and has zero bytes at the start of one line and at the end of another; texts of up to four characters hold overlapping, adjacent and
final separators; addresses are completed from their last words on, where
their length is decided; the screen of 7 by 6 has circles that fit and that are
cut on each side; pictures are up to 4 by 4 with odd sizes; a path and its
extension are enough for one to be mistaken for the other; two queues share
three cells. Two echo clients exit together, fill the table and follow each
other on one descriptor; lines of one and three bytes are below and above a
MAXLINE of 2, and `Room = 1` makes the second reply to a client that does not
read wait. Two viewer slots (as in the code) and three
connections leave one over to meet the hole that compaction leaves; one of them
may be lost, two be collectors, and one frame fills the buffer.

**Deadlock.** `CHECK_DEADLOCK FALSE` is set where the programs really stop:
all calls are used up, every worker waits, the process has died, the client
has nothing to receive, a server waits for clients. `coap_pdu` has it on.

**Fairness.** `Stanet`: each worker and each client inside a call is weakly
fair, as the scheduler runs every runnable thread and `select` has a timeout
of 10 s. Transfers are not fair: the peer may never take or send data, so the
liveness properties exclude a worker that stays in its transfer loop. Nobody
has to make a call. `StanetQmi`: the thread and the workers are fair;
`QmiRequestIsTaken` is stated for behaviours in which a `sleep(3)` outlasts the
start of a thread (`patient`). `CoapClient`: both threads are fair, and for
`TransferEnds` alone each request is answered (weak fairness) and an answer to a
package that waits is delivered although old ones come again (strong
fairness), because the client never sends a request again. `CoapSock`: a call of `sendto`
goes on, and the receiving thread does when `select` has something to report;
nobody has to call. `MbtkSock`: a wait that has a limit ends, the limit being
`select`'s timeout or the alarm. `EchoServers`: the server, each child and
TCP's delivery are weakly fair; a client never has to write, close or read.
`VideoServer`: both threads are, and the timed wait of 60 s ends. In both a write is
only possible while the connection's buffers have room, so that fairness does
not make it return. What must be assumed of the programs at the other end for
an answer or a frame is therefore a hypothesis of the property: for the forking server
that the client itself takes its replies or leaves, for the select server and
the video server that every one does. The poll and the epoll server have no
liveness property.

**Mutants.** Beside definitions stand variants marked `Mutant`: each is the
definition with one plausible mistake, and breaks the property it is listed
with in `PROJECT.json`. They show that the properties can fail.

## 4. Theorems

`StanetProofs` proves, for every number of sessions, clients, descriptors,
calls and every set of hosts and ports, from `StanetAssumption` only:

* `TypeCorrect`, `NoNullPop` (`SignalledFindsMessage`), `Ownership`
  (`FdOwnership`), `OpenedSessions` (`OpenedHasSocket`), `CleanSlots`
  (`FreeSlotIsClean`);
* `TableRefinement`: `Spec => ImplementsTable`.

The argument is one inductive invariant `IInv`. The properties alone are not
inductive, and each addition answers a question a step raises. `ClientInv`: a
call past its test carries a session and a well-formed message, so what `Put`
appends is typed. `WorkerInv`: which kind of message a worker handles at each
place, that no more than its length has been moved, and that a worker which is
connecting has a descriptor; without the last, a session could become OPENED
with none. That descriptor is connected from `Connect` on, so that OPENED
may be seen before `EpollAdd`, and whether or not that succeeds. `CleanInv` refines `FreeSlotIsClean`: a slot is dirty only from
the parsing of an OPEN to the reset that follows its failure, the stretch in
which the worker holds the mutex. `SignalledFindsMessage` needs `Put` and
`Pop` to be the only actions on a queue. `FdOwnership` gives the refinement
its hard case: `Reset` closes a descriptor which, since nobody else holds it,
is a `CloseOwn` of the table. Each step of the refinement uses `IInv` in the
state before.

`CoapBytesProofs` proves, with no assumption:

* `HeaderRoundTrip`: an option header that `insertOption` writes behind any
  bytes is read back by `getOptionDelta` and `getOptionValueLength`, for all
  2^16 deltas and 2^16 lengths. `ExtRead` does one field, by cases on its form;
  the length is found behind the extension of the delta.
* `BlockRoundTrip`: a Block value of any 20 bit number, flag and size is read
  back by `coapGetRecvOptionBlock2`.

`CoapPduProofs` proves, for any option numbers, lengths, block numbers, URIs,
tokens, payloads, number of calls and buffer below 256 bytes that
`CoapPduAssumption` admits:

* `ReceiverReadsContent` (`ReceiverReads`): a receiver accepts the datagram and finds
  the header, token, options and payload that were set. `validate`
  takes its loop round by round; after k rounds it stands at the beginning of option
  k + 1 with the bytes before it settled (`Reading`, `Settled`). Of a datagram
  that was cut, the round in which the cut falls finds the option, or a marker
  with nothing behind it, malformed; what is accepted is a prefix of the content.
* `BytesStand` (`BytesAreContent`). The property is not inductive: where an
  insertion lands and which deltas it rewrites depend on `num`, `max` and the
  payload pointer as well. `IInv` says, for a datagram that is `regular`, that
  it `Stands`: the bytes are the `Image` of three parts, the header with the
  token, the options in ascending order, and the marker with the payload; `num` is
  the number of options, and the pointer the place of the payload.
  The lemmas go from the parts to the whole. The algebra of bytes and lists
  says how an image is cut and joined; `OptionReads` and `OptionShape` what the
  reader finds where an option begins; `WalkReads` that k rounds of
  `getOptions` read the first k options of an image; the lemmas of
  `findInsertionPosition` that its loop ends before the first option with a bigger
  number; those of `MakeRoom` that moving the bytes up and rewriting the header of the next
  option, also when its delta takes fewer bytes than before, gives the image
  of the list with the new one in it. Then each call keeps `Stands`, a call
  for which there is no room included. `SetURINames` shows of `setURI`'s loop
  that it finds exactly the words of a URI that is `Readable`.
  The loops are recursive functions in the model. What one of them computes is
  proved round by round: the set of the numbers for which the claim holds has 0
  and with n also n + 1, hence is Nat (`Induction`, from the well-foundedness of
  `<`); no induction theorem with an operator for a parameter is needed.

`StanetProofs` also proves of `QmiSpec`, for any number of sessions and descriptors and with
sleeps of any length, `QmiRemembersConnected` (`RememberedIsConnected`) and
`QmiKeepsDescriptors` (`NoDescriptorLost`), neither of which `Stanet` has for
arbitrary callers. `QmiIsStanet` shows `QmiSpec => Spec`, which brings in `IInv`
and all theorems above. `LifeInv` then says that a session is untouched, asked
for, opening, or open and remembered, that at most one is not untouched, and
that only writes and reads are queued for the open one; `CallInv` that an OPEN of
the thread is on its way only while all are untouched. That `socket_open` finds
no descriptor to overwrite follows from the phase and `CleanInv`.

`CoapClientProofs` proves, for any number of commands and blocks:

* `ListKeepsShape` (`ListShape`), on steps of one statement. `Shape` describes
  the heap at every pair of places of the two threads. `Linked` are the packages
  that the links go through and `Kept` those that will stay when a deletion in
  progress is finished. `Chained` says that the links lead from the head through
  `Linked` in the order of the commands, `TailLast` that the tail is the last
  of `Kept`. `Adding` and `Deleting` say what the local variables of a thread in
  `mbtk_coap_list_add` and `mbtk_coap_list_del` point to: the
  package that is hung on the tail is the newest, so no walk of the other thread has passed
  it; a package that is deleted while another is being appended is in front of
  the tail, for otherwise the append is spoiled, and its unlinking touches no
  link that the append stores.
* `TransferInOrder` (`BlocksInOrder`) and `TransferEndsComplete`
  (`DroppedWhenAnswered`), under the hypothesis `LastBlock + 1 < IdMod`: the ids
  of one transfer do not wrap (a Block number has 20 bits and an id 16, so a
  longer transfer would use an id twice). `TransferInv` says why matching by id
  is enough: block k is asked for with id k + 1, every request and answer
  that has an id of the transfer carries the block of that id, what the
  other thread leaves of a half-built request has an id that matches nothing
  (`WireProper`), the counter is one ahead of the package's id but during an increment (`CounterAhead`), and
  a deletion in progress was begun by an answer to the request last sent for
  the package (`Ending`): its last block, or one without Block2.

Of `CoapSock` (`LayerSpec`) the same module proves `SocketIsOpen` (`UsesOpenSocket`) and
`ChannelRefinement` (`SendsOnce`) for any number of tries, lengths and
messages. `Deinit` may come whenever the main thread sends nothing, and its close
may fail. The property itself names these two mishaps; `SocketInv` adds that the receiving
thread sends from its callback only, so that no send of it goes on when it has ended. In the refinement a turn of the retry loop that fails is a
stutter and the last one an `End`.

`LibraryProofs` proves, for any number of slots and descriptors,
`SockTypeCorrect`, `SlotOwnership` (`SlotOwnsFd`) and `ReportedConnected`
(`ReportedIsConnected`). Its `IInv` adds `InUse`: the slot whose caller waits
and the slots reported as connected have a descriptor. Without it the end of a
wait could close descriptor 0 or speak of a slot that was given back.
`GetsIndependent` (`CallsIndependent` of `HttpGet`) holds for any lengths of
request, answer and line and any places of newlines and zero bytes: the lines
read, the line being read and what
is left in the buffer are consecutive bytes of the connection of this call, and
both buffers are empty between calls. What is printed are those bytes in order,
without those behind a zero byte of their line. `LogKeepsToRequest` (`LogAsAsked` of
`MLog`) holds for any set of paths: `log_file_path` names the file of the open
stream unless a failed `log_clear` has left it behind. `QueuesKeepOrder`
(`QueuesExact` of `MList`) holds for any queues, lists and cells. The loops that
look for the end of a list are not recursive functions in the model: `Chain(h)` is the
sequence of cells that the links describe, and the first part of `QueuesExact` says
that there is one. `ChainUnique` then shows that there is no other, so that
each step has only to name the new chains (`NamedNext`). The property is
inductive as it stands.

`EchoServersProofs` proves, for any finite set of clients, `NoChildMissed`
(`ZombiesNoticed`) and `EveryByteHasEvent` (`BytesHaveEvent`). `ChildInv` is
the first with the type of `child`: every action that makes a zombie makes
SIGCHLD pending, and `Reap` ends its loop only when none is left. `EpollInv`
has, beside the types and that no two connections share a descriptor, a
stronger form of the second (`Covered`): while the server writes, the event it
is handling does not count, since it will be dropped afterwards. A client
whose line is longer than MAXLINE is excepted, and of any other one read leaves
nothing.
`ServersIntact` (`ServerIntact`) is proved from an invariant of each server.
For the table servers it speaks of every point of the loop, not only of the
wait where the property is stated: `EntriesInv` says that entries and open
connections correspond one to one, `WatchInv` that the set and the two bounds
cover them, `QueueInv` that a client still queued has no descriptor and is
queued once. `PeerInv` is about TCP: a reset is the last a connection brings,
so that the reads before it are answered.

`VideoServerProofs` proves `ViewersKept` (`NoViewerLost`) and `CollectorIsOpen`
(`CollectorOpen`) for any number of slots, connections and descriptors. The
first is not inductive while the video thread compacts: `CompactInv` says that
the slot it is going to overwrite and the one it moves are in use, so that the
accepting thread registers nobody there, and `Registered` that every viewer
has a slot other than the one that goes, also if its descriptor is the number of
the connection that was closed. `ServeInv` says of the main thread that the
descriptor of the command in hand is open and that the free slot it has found is
still free when it stores, since the video thread only fills slots that were
used. `CollectInv` says that a registered collector is in epoll only
while the main thread, with its command in hand, is about to take it out, so that its end
is never taken for a command connection's.

`PictureProofs` proves, for screens and pictures of any size:

* `FbDrawingExact` (`DrawingExact`): points, lines and circles stay on the
  screen, a line has its ends and no gap, a circle is a ring, symmetric if it
  fits. For lines, `HeightFacts` places the exact height between the ends'
  and `HeightNeighbours` shows that those of two columns differ by at most one pixel,
  whichever way the float falls at a tie. For circles, `FirstFacts` bounds the
  first pixel inside by the radius. The columns of `Middle` are not
  symmetric, because a negative number is divided downwards; `PaintedOpposite`
  shows that the pixels opposite of the extra column are painted by the
  other loop.
* `YuvConversionExact` (`ConversionExact`): `RowFacts` gives the running chroma
  offset in closed form for every column of a row, `SourceFacts` the three
  offsets of each pixel, `ChannelNear` the arithmetic of a channel, and
  `ParseReads` that reading the planes has touched every byte. Of the states,
  the invariant needs which layout is converted next and what is allocated
  at each stage.

**Only model-checked.** Liveness: fairness and `ENABLED` are beyond the prover.
`ValuesReadBack` of `CoapPdu`, `PeerReadsSettings` and
`AckAnswersRequest` of `CoapMessage`, `StringsExact` of `MString`, `PtonExact` of
`InetPton`: what their loops compute for every input.

## 5. Not modelled

* In `stanet`: the main loop's epoll handling, which only logs;
  `session_del`, which nothing calls; the DNS lookup, except that it may fail.
* In the CoAP client: datagrams that change nothing (invalid ones, NON, RST,
  unmatched ACKs), printing.
* In `CoapPDU` and its C interface: printing, and the getters of
  options other than Observe, Max-Age, Content-Format, Block1, Block2, path and
  query, which are the same code with another number. The class is modelled over an external buffer; in the allocating form
  `Capacity` is what the allocator grants, and the payload pointer may dangle
  after `realloc`. Three sequences of calls the code does not provide for
  clear `regular`, after which the properties say nothing until a reset: an
  option behind the payload, an option after one that did not fit at the end
  (line 990 has already stored its number), and a payload set again after a
  token or an option has moved it. Datagrams stay below 256 bytes, because
  `setToken` keeps a length in 8 bits (line 736), and values below 269 bytes,
  because `insertOption` copies longer ones in part (line 1515). The client
  itself does none of these.
* Where the code leaves the memory it owns, the model has the result and not
  what is overwritten: `mesg[n]` of a datagram of MAXLINE bytes
  (`mbtk_coap_generic.c:406`), `str_replace` into a destination that is too
  small (`m_string.c:330`), `str_trim` of blanks (`m_string.c:386`), messages
  longer than `log_buf`. In the servers
  a full read may end the program instead. `mbtk_coap_free` is one step,
  although it reads `next` after the free (`mbtk_coap_base.c:178`).
* `sock_reset` of the CoAP socket layer: nothing sets it, so an open socket is
  never replaced.
* In the library: `sock_ser_open`, `sock_cli_open`, `sock_ntop`,
  `str_array_len`, `str_atoi`, and the wrappers of `m_wrap.c` but `Accept` and
  `Writen`: each is a system call with an exit or a single loop. The text of log
  messages; two threads that log at once mix it in any way.
* `draw_circle_1` of the frame buffer shell (never called) and the functions
  of `yuv_demo.c` under `#if 0`.
* The other demos and exercises, which show single system calls or only call
  what is modelled here; the Python scripts; the headers of curl.

## 6. Plan

Done: the daemon, its client and their proofs; the CoAP client, its datagram
library, messages and socket layer; the library of sockets, HTTP, strings, log
and lists; the video and the echo servers; the two picture programs; proofs of
every safety invariant of the concurrent parts, of the library's state, of the
picture programs and of the bytes of a datagram.

Next, in this order:

1. `CoapMessage` on the lemmas of `CoapPduProofs`: its datagram is an `Image` too.
2. `CoapClient` on top of `CoapSock` in one specification, in place of its own
   external network.
