------------------------------ MODULE HttpGet ------------------------------
(***************************************************************************)
(* http_get of lib/m_http.c, called again and again by one program, on top *)
(* of sock_open, sock_writen and sock_readline of lib/m_sock.c.  All calls *)
(* share the process's one alarm timer and the one static read_buf of the  *)
(* line reader.  Byte i of the answer on connection c is <<c, i>>.         *)
(***************************************************************************)
EXTENDS Integers, Sequences

CONSTANTS
  Request,      (* bytes of the request's header                             *)
  Answer,       (* bytes of the answer                                       *)
  Newlines,     (* the bytes of the answer that are newlines                 *)
  ZeroBytes,    (* the bytes of the answer that are zero                     *)
  MaxLen,       (* the maxlen given to sock_readline                         *)
  MaxGets       (* bound: calls of http_get                                  *)

ASSUME HttpAssumption ==
  /\ Request \in Nat /\ Answer \in Nat /\ MaxGets \in Nat
  /\ Newlines \subseteq 1 .. Answer /\ ZeroBytes \subseteq (1 .. Answer) \ Newlines
  /\ MaxLen \in Nat \ {0, 1}

VARIABLES
  step,      (* where the call is; idle between two, dead after the alarm      *)
  gets,      (* calls so far, which is the number of the connection            *)
  port,      (* what http_url_parse made of the port; -1: not assigned         *)
  timer,     (* ITIMER_REAL is running                                         *)
  unclosed,  (* connections whose descriptor is open                           *)
  written,   (* bytes of the request in the connection                         *)
  given,     (* bytes of the answer that read() took from it                   *)
  readBuf,   (* what is left in read_buf                                       *)
  line,      (* the line that sock_readline has begun                          *)
  parsed,    (* the bytes of the lines that sock_readline returned of it       *)
  printed,   (* the bytes of them that were printed                            *)
  whole      (* the answer was read to its end                                 *)

httpVars == <<step, gets, port, timer, unclosed, written, given, readBuf, line, parsed, printed, whole>>

HttpInit ==
  /\ step = "idle" /\ gets = 0 /\ port = -1 /\ timer = FALSE /\ unclosed = {}
  /\ written = 0 /\ given = 0 /\ readBuf = <<>> /\ line = <<>>
  /\ parsed = <<>> /\ printed = <<>> /\ whole = FALSE

-----------------------------------------------------------------------------
(* http_url_parse.  The path is a must; without a scheme and a port in the   *)
(* url the caller's port stays unassigned.                                   *)
Urls == [scheme : {"http", "https", "none"}, port : {0, 8080}, path : BOOLEAN]

UrlPort(u) == IF u.port # 0 THEN u.port
              ELSE IF u.scheme = "http" THEN 80 ELSE IF u.scheme = "https" THEN 443 ELSE -1

Get(u) ==
  /\ step = "idle" /\ gets < MaxGets
  /\ gets' = gets + 1 /\ written' = 0 /\ given' = 0
  /\ parsed' = <<>> /\ printed' = <<>> /\ whole' = FALSE
  /\ port' = UrlPort(u)
  /\ step' = IF u.path THEN "open" ELSE "idle"
  /\ UNCHANGED <<timer, unclosed, readBuf, line>>

(* Every early return gives -1 and closes nothing.                           *)
Fails == step' = "idle" /\ UNCHANGED <<gets, port, written, given, readBuf, line, parsed, printed, whole>>

(* socket(), gethostbyname() or setitimer() fails.                           *)
SockOpenFails ==
  /\ step = "open" /\ Fails
  /\ unclosed' \in {unclosed, unclosed \cup {gets}}
  /\ UNCHANGED timer

(* The alarm is set to 15 s before connect().                                *)
SockOpen ==
  /\ step = "open" /\ step' = "connect"
  /\ timer' = TRUE /\ unclosed' = unclosed \cup {gets}
  /\ UNCHANGED <<gets, port, written, given, readBuf, line, parsed, printed, whole>>

(* connect() fails: the alarm stays set.                                     *)
ConnectFails == step = "connect" /\ Fails /\ UNCHANGED <<timer, unclosed>>

(* connect() succeeds; getpeername() or getsockname() may fail after it.     *)
Connected ==
  /\ step = "connect" /\ timer' = FALSE
  /\ step' \in {"write", "idle"}
  /\ UNCHANGED <<gets, port, unclosed, written, given, readBuf, line, parsed, printed, whole>>

(* sig_alrm: exit(0).                                                        *)
AlarmExit ==
  /\ timer /\ step # "dead"
  /\ step' = "dead" /\ timer' = FALSE
  /\ UNCHANGED <<gets, port, unclosed, written, given, readBuf, line, parsed, printed, whole>>

-----------------------------------------------------------------------------
(* sock_writen: one write() of n bytes; 0 for one that a signal interrupted. *)
Write(n) ==
  /\ step = "write" /\ n <= Request - written
  /\ written' = written + n
  /\ step' = IF written' = Request THEN "read" ELSE "write"
  /\ UNCHANGED <<gets, port, timer, unclosed, given, readBuf, line, parsed, printed, whole>>

WriteFails == step = "write" /\ Fails /\ UNCHANGED <<timer, unclosed>>

-----------------------------------------------------------------------------
(* my_read with n bytes from read(), when read_buf is empty; the next byte   *)
(* and what is left.                                                         *)
Buffered(n) == IF readBuf # <<>> THEN readBuf ELSE [i \in 1 .. n |-> <<gets, given + i>>]

(* A line ends at its newline or is cut at maxlen - 1 bytes.                 *)
LineEnds(l) == l[Len(l)][2] \in Newlines \/ Len(l) = MaxLen - 1

(* http_rsp_parse prints the line with "%s": up to its first zero byte.      *)
EndsText(l, n) == /\ \A i \in 1 .. n : l[i][2] \notin ZeroBytes
                  /\ n < Len(l) => l[n + 1][2] \in ZeroBytes

PrintLine(l) ==
  /\ parsed' = parsed \o l /\ line' = <<>>
  /\ \E n \in 0 .. Len(l) : EndsText(l, n) /\ printed' = printed \o SubSeq(l, 1, n)

(* One turn of the loop of sock_readline.                                    *)

ReadByte(n) ==
  /\ step = "read"
  /\ IF readBuf = <<>> THEN n > 0 /\ n <= Answer - given ELSE n = 0
  /\ given' = given + n
  /\ readBuf' = Tail(Buffered(n))
  /\ LET l == Append(line, Head(Buffered(n))) IN
     IF LineEnds(l) THEN PrintLine(l) ELSE line' = l /\ UNCHANGED <<parsed, printed>>
  /\ UNCHANGED <<step, gets, port, timer, unclosed, written, whole>>

(* Mutant: http_rsp_parse takes a last line without a newline for the end.   *)
ReadEofDrops ==
  /\ step = "read" /\ readBuf = <<>> /\ given = Answer
  /\ step' = "idle" /\ whole' = TRUE /\ line' = <<>>
  /\ UNCHANGED <<gets, port, timer, unclosed, written, given, readBuf, parsed, printed>>

(* read() returns 0: a line that was begun is printed and read() tried once  *)
(* more, otherwise the answer is over.  The descriptor stays open.           *)
ReadEof ==
  /\ step = "read" /\ readBuf = <<>> /\ given = Answer
  /\ IF line # <<>> THEN PrintLine(line) /\ UNCHANGED <<step, whole>>
     ELSE step' = "idle" /\ whole' = TRUE /\ UNCHANGED <<parsed, printed, line>>
  /\ UNCHANGED <<gets, port, timer, unclosed, written, given, readBuf>>

(* read() fails: the line that was begun is lost, and http_get returns 0.    *)
ReadError ==
  /\ step = "read" /\ readBuf = <<>>
  /\ step' = "idle" /\ line' = <<>>
  /\ UNCHANGED <<gets, port, timer, unclosed, written, given, readBuf, parsed, printed, whole>>

HttpNext ==
  \/ \E u \in Urls : Get(u)
  \/ SockOpenFails \/ SockOpen \/ ConnectFails \/ Connected \/ AlarmExit
  \/ (\E n \in 0 .. Request : Write(n)) \/ WriteFails
  \/ (\E n \in 0 .. Answer : ReadByte(n)) \/ ReadEof \/ ReadError

HttpSpec == HttpInit /\ [][HttpNext]_httpVars

-----------------------------------------------------------------------------
(* The lines read of an answer are its beginning, byte for byte, and all of *)
(* it when its end was reached: nothing that read_buf held for an earlier   *)
(* connection shows up, whatever pieces read() returns, however the earlier *)
(* calls ended, and whether lines are cut or the last has no newline.       *)
ReadsOwnAnswer ==
  /\ \A i \in 1 .. Len(parsed) : parsed[i] = <<gets, i>>
  /\ whole => Len(parsed) = Answer

(* Byte i stands behind a zero byte, or is one, in a line of the answer.    *)
BehindZero(i) ==
  \E z \in ZeroBytes : z <= i /\ i - z < MaxLen - 1 /\ \A n \in Newlines : n < z \/ i <= n

(* What is printed of them keeps their order, no byte twice, and leaves out *)
(* only what printf("%s") does not reach: a binary answer is not printed    *)
(* whole, but each line is up to its first zero byte.                       *)
PrintsOwnAnswer ==
  /\ \A j \in 1 .. Len(printed) : printed[j][1] = gets /\ printed[j][2] \in 1 .. Len(parsed)
  /\ \A j, k \in 1 .. Len(printed) : j < k => printed[j][2] < printed[k][2]
  /\ \A i \in 1 .. Len(parsed) : (\E j \in 1 .. Len(printed) : printed[j][2] = i) \/ BehindZero(i)

(* A call that has its connection is not ended by the alarm, also when an   *)
(* earlier call left the alarm running.                                     *)
AlarmOnlyWhileConnecting == step \in {"write", "read"} => ~timer

(* A call of http_get that has its connection does not notice the calls     *)
(* before it, neither by their bytes nor by their alarm.                    *)
CallsIndependent == ReadsOwnAnswer /\ PrintsOwnAnswer /\ AlarmOnlyWhileConnecting
=============================================================================
