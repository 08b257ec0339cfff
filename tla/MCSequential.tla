---------------------------- MODULE MCSequential ----------------------------
(***************************************************************************)
(* The parts that run in one thread and share no state: the library's      *)
(* client sockets, HTTP requests, string functions, address parser, log,   *)
(* queue and list, and the two picture programs.  A behaviour exercises    *)
(* one of them.                                                            *)
(***************************************************************************)
EXTENDS MbtkSock, HttpGet, MString, InetPton, Framebuffer, Yuv, MLog, MList

VARIABLE used

Seqs(S, n) == UNION {[1 .. k -> S] : k \in 0 .. n}

TextsUpTo4 == Seqs({"a", " "}, 4) \cup {<<"A", "a">>, <<"a", "A", " ">>}
PatternsUpTo2 == Seqs({"a", " "}, 2) \cup {<<"A">>, <<"a", "A">>}

(* An address of four bytes with its last octets missing, addresses of       *)
(* sixteen bytes with their last words or their last octets missing.         *)
AddrStarts ==
  LET words(n) == FlattenSeq([k \in 1 .. n |-> <<"9", ":">>])
  IN { <<>>, <<"9", ".", "1", ".">>, words(6), words(7), words(6) \o <<"2", ".", "9", ".">>,
       <<"f">> \o words(4) \o <<"F", ":", ":">>, <<":", ":", "1", ".", "2", ".", "0", ".">> }
AddrKeys == {"2", "9", "f", ":", "."}

(* The log and its longer sibling: one path begins with the other.           *)
LogPaths == {<<"l">>, <<"l", "1">>}

StrIdle  == text = <<>> /\ pattern = <<>> /\ out = [fn |-> "none"]
InetIdle == addr = <<>> /\ typed = 0 /\ four = <<>> /\ six = <<>>
FbIdle   == color = 1 /\ last = None /\ painted = {} /\ paint = BLACK /\ fds = 0
YuvIdle  == /\ at = "done" /\ args = [type |-> I420, width |-> 0, height |-> 0]
            /\ file = [len |-> 0, factor |-> 0, open |-> FALSE]
            /\ got = 0 /\ heap = {} /\ planes = NoPlanes /\ rgb = <<>>
            /\ converted = 0 /\ bmps = <<>> /\ reads = {}

MCInit ==
  /\ Init /\ HttpInit /\ LogInit0 /\ ListInit
  /\ \/ used \in {"sock", "http", "log", "list"} /\ StrIdle /\ InetIdle /\ FbIdle /\ YuvIdle
     \/ used = "str"  /\ StrInit /\ InetIdle /\ FbIdle /\ YuvIdle
     \/ used = "inet" /\ StrIdle /\ InetInit /\ FbIdle /\ YuvIdle
     \/ used = "draw" /\ StrIdle /\ InetIdle /\ FbInit /\ YuvIdle
     \/ used = "yuv"  /\ StrIdle /\ InetIdle /\ FbIdle /\ YuvInit

MCNext ==
  /\ UNCHANGED used
  /\ \/ used = "sock" /\ Next /\ UNCHANGED <<httpVars, strVars, inetVars, fbVars, yuvVars, logVars, listVars>>
     \/ used = "http" /\ HttpNext /\ UNCHANGED <<vars, strVars, inetVars, fbVars, yuvVars, logVars, listVars>>
     \/ used = "str" /\ StrNext /\ UNCHANGED <<vars, httpVars, inetVars, fbVars, yuvVars, logVars, listVars>>
     \/ used = "inet" /\ InetNext /\ UNCHANGED <<vars, httpVars, strVars, fbVars, yuvVars, logVars, listVars>>
     \/ used = "draw" /\ FbNext /\ UNCHANGED <<vars, httpVars, strVars, inetVars, yuvVars, logVars, listVars>>
     \/ used = "yuv" /\ YuvNext /\ UNCHANGED <<vars, httpVars, strVars, inetVars, fbVars, logVars, listVars>>
     \/ used = "log" /\ LogNext /\ UNCHANGED <<vars, httpVars, strVars, inetVars, fbVars, yuvVars, listVars>>
     \/ used = "list" /\ ListNext /\ UNCHANGED <<vars, httpVars, strVars, inetVars, fbVars, yuvVars, logVars>>

MCSpec ==
  /\ MCInit /\ [][MCNext]_<<used, vars, httpVars, strVars, inetVars, fbVars, yuvVars, logVars, listVars>>
  /\ \A i \in Slots : WF_vars(Return(i))
=============================================================================
