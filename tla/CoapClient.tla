----------------------------- MODULE CoapClient -----------------------------
(***************************************************************************)
(* The CoAP client (C_Cpp/cdemo/coap/mbtk_coap_base.c).  The main thread   *)
(* turns typed commands into confirmable requests, the receiving thread    *)
(* answers the server's confirmable messages, goes on with block-wise      *)
(* transfers and drops requests that are answered.  Both use the linked    *)
(* list of pending packages, the message id counter and the one outgoing   *)
(* PDU (g_CoapPDU of mbtk_coap_api.cpp) without any lock.  A step reads or *)
(* writes the list in one statement: a hop of a walk, the test of the      *)
(* tail, a pointer stored, a package freed.                                *)
(*                                                                         *)
(* The network may lose, repeat and reorder datagrams: what was sent stays *)
(* available.  Requests are never sent again: there is no retransmission.  *)
(* Not modelled because they change nothing: datagrams that fail           *)
(* validation, NON and RST messages.                                       *)
(***************************************************************************)
EXTENDS Integers, FiniteSets

CONSTANTS
  MaxCmds,     (* bound: commands typed                                       *)
  LastBlock,   (* number of the last block of every answer                    *)
  IdMod,       (* message ids wrap here: 2^16 in the code                     *)
  ServerIds,   (* ids of the confirmable messages the server sends            *)
  Lossy        (* whether sendto may fail                                     *)

ASSUME CoapClientAssumption ==
  /\ MaxCmds \in Nat /\ LastBlock \in Nat
  /\ IdMod \in Nat \ {0}
  /\ ServerIds \subseteq 0 .. (IdMod - 1)
  /\ Lossy \in BOOLEAN

Nodes   == 1 .. MaxCmds            (* packages, in the order of the commands  *)
None    == 0                       (* the NULL pointer                        *)
Raw     == -1                      (* what a package fresh from malloc holds  *)
MsgIds  == 0 .. (IdMod - 1)
Threads == {"main", "recv"}

VARIABLES
  head, tail,  (* mbtk_coaps, and mbtk_coaps_tail, which may dangle           *)
  next,        (* the link of every package                                   *)
  live,        (* packages that are allocated                                 *)
  pkg,         (* message id and next block of every package                  *)
  mid,         (* mbtk_coap_message_id                                        *)
  pdu,         (* g_CoapPDU: type, id, and the request and block it carries   *)
  pc,          (* where each thread is                                        *)
  work,        (* its local variables: a message id, the place in a walk, a   *)
               (* package, and the Block2 option of the answer being handled  *)
  cmds,        (* commands typed                                              *)
  out, inbox,  (* datagrams sent by the client, by the server                 *)
  spoiled,     (* history: the last package was deleted during an append      *)
  ub           (* memory that is not a package was used: anything may follow  *)

listVars == <<head, tail, next, live>>
vars == <<listVars, pkg, mid, pdu, pc, work, cmds, out, inbox, spoiled, ub>>

Datagram(t, i, r, b, m) == [type |-> t, id |-> i, req |-> r, block |-> b, more |-> m]
Idle == [id |-> 0, at |-> None, node |-> None, block |-> 0, more |-> "none"]

Init ==
  /\ head = None /\ tail = None /\ live = {}
  /\ next = [n \in Nodes |-> Raw]
  /\ pkg = [n \in Nodes |-> [id |-> 0, block |-> 0]]
  /\ mid = 1 % IdMod
  /\ pdu = Datagram("CON", 0, None, 0, "none")
  /\ pc = [t \in Threads |-> "idle"]
  /\ work = [t \in Threads |-> Idle]
  /\ cmds = 0
  /\ out = {} /\ inbox = {}
  /\ spoiled = FALSE /\ ub = FALSE

(* A thread goes on with these local variables.                             *)
Goto(t, l, w) == pc' = [pc EXCEPT ![t] = l] /\ work' = [work EXCEPT ![t] = w]
Rest(t)       == Goto(t, "idle", Idle)

(* The packages that the next statement of a thread reads or fills in.      *)
Touched(t) ==
  LET w == work[t] IN
  CASE pc[t] \in {"find", "scan"}                   -> {w.at} \ {None}
    [] pc[t] = "del"                                -> {head} \ {None}
    [] pc[t] = "walk"                               -> {w.at, next[w.at]} \ {None}
    [] pc[t] = "hang"                               -> {w.at}
    [] pc[t] \in {"init", "movetail"}               -> {tail}
    [] pc[t] = "unlink"                             -> {w.at, w.node}
    [] pc[t] \in {"delhead", "type", "body", "sent"} -> {w.node}
    [] OTHER                                        -> {}

(* They are packages; what is about to be initialised is at least memory.   *)
Packages == {n \in live : next[n] # Raw}
Sound(t) == /\ Touched(t) \subseteq Packages
            /\ pc[t] = "inithead" => head \in live
            /\ pc[t] = "init" => next[tail] \in live

At(t, l) == ~ub /\ pc[t] = l /\ Sound(t)

(* Anything else is undefined behaviour.                                    *)
Stray(t) ==
  /\ ~ub /\ ~Sound(t)
  /\ ub' = TRUE
  /\ UNCHANGED <<listVars, pkg, mid, pdu, pc, work, cmds, out, inbox>>

-----------------------------------------------------------------------------
(***************************************************************************)
(* The main thread.                                                        *)
(***************************************************************************)

(* A command with two or three words calls mbtk_coap_list_add with the      *)
(* counter's value now; it is incremented later.                            *)
Command ==
  /\ At("main", "idle")
  /\ cmds < MaxCmds
  /\ cmds' = cmds + 1
  /\ Goto("main", "test", [Idle EXCEPT !.id = mid, !.node = cmds + 1])
  /\ UNCHANGED <<listVars, pkg, mid, pdu, out, inbox, ub>>

(* Is there a first package?  If not the new one is.                        *)
TestHead ==
  LET w == work["main"] IN
  /\ At("main", "test")
  /\ \/ /\ head = None
        /\ head' = w.node /\ live' = live \cup {w.node}
        /\ Goto("main", "inithead", w)
     \/ /\ head # None
        /\ Goto("main", "scan", [w EXCEPT !.at = head])
        /\ UNCHANGED <<head, live>>
  /\ UNCHANGED <<tail, next, pkg, mid, pdu, cmds, out, inbox, ub>>

(* mbtk_coap_list_item_init.                                                *)
Initialised(n) ==
  /\ next' = [next EXCEPT ![n] = None]
  /\ pkg' = [pkg EXCEPT ![n] = [id |-> work["main"].id, block |-> 0]]

InitHead ==
  /\ At("main", "inithead")
  /\ Initialised(head)
  /\ Goto("main", "tailhead", work["main"])
  /\ UNCHANGED <<head, tail, live, mid, pdu, cmds, out, inbox, ub>>

(* The package that mbtk_coap_list_add returns; without one the command is  *)
(* dropped.                                                                 *)
Returns(n) == IF n = None THEN Rest("main")
                          ELSE Goto("main", "count", [Idle EXCEPT !.node = n])

TailHead ==
  /\ At("main", "tailhead")
  /\ tail' = head
  /\ Returns(head)
  /\ UNCHANGED <<head, next, live, pkg, mid, pdu, cmds, out, inbox, ub>>

(* The walk that looks for the id among the packages.                       *)
Scan ==
  LET w == work["main"] IN
  /\ At("main", "scan")
  /\ \/ w.at = None /\ Goto("main", "link", w)
     \/ w.at # None /\ pkg[w.at].id = w.id /\ Rest("main")
     \/ w.at # None /\ pkg[w.at].id # w.id /\ Goto("main", "scan", [w EXCEPT !.at = next[w.at]])
  /\ UNCHANGED <<listVars, pkg, mid, pdu, cmds, out, inbox, ub>>

(* mbtk_coaps_tail->next = malloc(): the tail is read before the call of    *)
(* malloc and written after it.                                             *)
Link ==
  /\ At("main", "link")
  /\ Goto("main", "hang", [work["main"] EXCEPT !.at = tail])
  /\ UNCHANGED <<listVars, pkg, mid, pdu, cmds, out, inbox, ub>>

Hang ==
  LET w == work["main"] IN
  /\ At("main", "hang")
  /\ next' = [next EXCEPT ![w.at] = w.node] /\ live' = live \cup {w.node}
  /\ Goto("main", "init", [w EXCEPT !.at = None])
  /\ UNCHANGED <<head, tail, pkg, mid, pdu, cmds, out, inbox, ub>>

(* mbtk_coap_list_item_init(mbtk_coaps_tail->next).                         *)
InitNext ==
  /\ At("main", "init")
  /\ Initialised(next[tail])
  /\ Goto("main", "movetail", work["main"])
  /\ UNCHANGED <<head, tail, live, mid, pdu, cmds, out, inbox, ub>>

(* mbtk_coaps_tail = mbtk_coaps_tail->next, which is returned.              *)
MoveTail ==
  /\ At("main", "movetail")
  /\ tail' = next[tail]
  /\ Returns(next[tail])
  /\ UNCHANGED <<head, next, live, pkg, mid, pdu, cmds, out, inbox, ub>>

(* mbtk_coap_message_id++ in the main thread loads the counter once more.   *)
Reload ==
  /\ At("main", "count")
  /\ Goto("main", "store", [work["main"] EXCEPT !.id = mid])
  /\ UNCHANGED <<listVars, pkg, mid, pdu, cmds, out, inbox, ub>>

(* The other half of the increment, in either thread: no lock is held, so   *)
(* the other thread may have stored a value in between.  In the main        *)
(* thread, after a word that is no method, the package stays in the list    *)
(* and is never sent.                                                       *)
Succ(i) == (i + 1) % IdMod
Increment(t) ==
  /\ At(t, "store")
  /\ mid' = Succ(work[t].id)
  /\ Goto(t, "type", [Idle EXCEPT !.node = work[t].node]) \/ (t = "main" /\ Rest(t))
  /\ UNCHANGED <<listVars, pkg, pdu, cmds, out, inbox, ub>>

-----------------------------------------------------------------------------
(***************************************************************************)
(* mbtk_coap_coap_send and mbtk_coap_send_ack, run by either thread on the *)
(* same PDU.                                                               *)
(***************************************************************************)

(* coapReset and coapSetType.                                               *)
BuildType(t) ==
  /\ \/ At(t, "type") /\ pdu' = Datagram("CON", 0, None, 0, "none") /\ Goto(t, "body", work[t])
     \/ At(t, "acktype") /\ pdu' = Datagram("ACK", 0, None, 0, "none") /\ Goto(t, "ackbody", work[t])
  /\ UNCHANGED <<listVars, pkg, mid, cmds, out, inbox, ub>>

(* coapSetMessageID, and the options of a request.                          *)
BuildBody(t) ==
  LET n == work[t].node IN
  /\ \/ /\ At(t, "body")
        /\ pdu' = [pdu EXCEPT !.id = pkg[n].id, !.req = n, !.block = pkg[n].block]
        /\ Goto(t, "send", work[t])
     \/ /\ At(t, "ackbody")
        /\ pdu' = [pdu EXCEPT !.id = work[t].id]
        /\ Goto(t, "acksend", Idle)
  /\ UNCHANGED <<listVars, pkg, mid, cmds, out, inbox, ub>>

(* mbtk_coap_udp_sendto: whatever the PDU holds now leaves, or nothing.     *)
Send(t) ==
  /\ \/ At(t, "send") /\ Goto(t, "sent", work[t])
     \/ At(t, "acksend") /\ Rest(t)
  /\ \/ out' = out \cup {pdu}
     \/ Lossy /\ UNCHANGED out
  /\ UNCHANGED <<listVars, pkg, mid, pdu, cmds, inbox, ub>>

(* Then the package is read again: send_count, and the type, which is CON   *)
(* in every request of this client, so that nothing is deleted here.        *)
Sent(t) ==
  /\ At(t, "sent")
  /\ Rest(t)
  /\ UNCHANGED <<listVars, pkg, mid, pdu, cmds, out, inbox, ub>>

-----------------------------------------------------------------------------
(***************************************************************************)
(* The receiving thread: mbtk_coap_recv_resolve.                           *)
(***************************************************************************)
RecvCon(m) ==
  /\ At("recv", "idle")
  /\ m.type = "CON"
  /\ Goto("recv", "acktype", [Idle EXCEPT !.id = m.id])
  /\ UNCHANGED <<listVars, pkg, mid, pdu, cmds, out, inbox, ub>>

(* The answer to a request: mbtk_coap_get_by_msg_id starts at the head.     *)
RecvAck(m) ==
  /\ At("recv", "idle")
  /\ m.type = "ACK"
  /\ Goto("recv", "find", [id |-> m.id, at |-> head, node |-> None, block |-> m.block, more |-> m.more])
  /\ UNCHANGED <<listVars, pkg, mid, pdu, cmds, out, inbox, ub>>

(* The walk over the packages that have another id, or to the end.          *)
Find ==
  LET w == work["recv"] IN
  /\ At("recv", "find")
  /\ \/ w.at = None /\ Rest("recv")
     \/ w.at # None /\ pkg[w.at].id # w.id /\ Goto("recv", "find", [w EXCEPT !.at = next[w.at]])
  /\ UNCHANGED <<listVars, pkg, mid, pdu, cmds, out, inbox, ub>>

Found == At("recv", "find") /\ work["recv"].at # None /\ pkg[work["recv"].at].id = work["recv"].id

(* Mutant: the answer before the last one ends the transfer.                *)
LastIsBeforeLast(w) == w.more # "more" \/ w.block + 1 >= LastBlock

(* An answer ends the transfer when the more flag of its Block2 option is   *)
(* clear, and when it has no Block2 option.                                 *)
IsLast(w) == w.more # "more"

(* The package after an answer with more to come: a new id, the next block. *)
Unrenewed(w) == [id |-> w.id, block |-> w.block + 1]
Renewed(w)   == [id |-> mid, block |-> w.block + 1]

(* More blocks to come: the package is renewed and sent again.              *)
RecvMore ==
  LET w == work["recv"] IN
  /\ Found /\ ~IsLast(w)
  /\ pkg' = [pkg EXCEPT ![w.at] = Renewed(w)]
  /\ Goto("recv", "store", [Idle EXCEPT !.id = mid, !.node = w.at])
  /\ UNCHANGED <<listVars, mid, pdu, cmds, out, inbox, ub>>

(* The end of the transfer: mbtk_coap_list_del looks for the id again.      *)
RecvLast ==
  LET w == work["recv"] IN
  /\ Found /\ IsLast(w)
  /\ Goto("recv", "del", [w EXCEPT !.at = None])
  /\ UNCHANGED <<listVars, pkg, mid, pdu, cmds, out, inbox, ub>>

(* Mutant: the first package is not compared.                               *)
DelBehindFirst ==
  LET w == work["recv"] IN
  /\ At("recv", "del")
  /\ \/ head = None /\ Rest("recv")
     \/ head # None /\ Goto("recv", "walk", [w EXCEPT !.at = head])
  /\ UNCHANGED <<listVars, pkg, mid, pdu, cmds, out, inbox, ub>>

(* At the head of the list,                                                 *)
DelFirst ==
  LET w == work["recv"] IN
  /\ At("recv", "del")
  /\ \/ head = None /\ Rest("recv")
     \/ /\ head # None /\ pkg[head].id = w.id
        /\ Goto("recv", "delhead", [w EXCEPT !.node = head])
     \/ /\ head # None /\ pkg[head].id # w.id
        /\ Goto("recv", "walk", [w EXCEPT !.at = head])
  /\ UNCHANGED <<listVars, pkg, mid, pdu, cmds, out, inbox, ub>>

(* where the tail stays what it is,                                         *)
DelHead ==
  LET w == work["recv"] IN
  /\ At("recv", "delhead")
  /\ head' = next[w.node]
  /\ Goto("recv", "free", w)
  /\ UNCHANGED <<tail, next, live, pkg, mid, pdu, cmds, out, inbox, ub>>

(* or behind the package at,                                                *)
Walk ==
  LET w == work["recv"]
      n == next[w.at]
  IN
  /\ At("recv", "walk")
  /\ \/ n = None /\ Rest("recv")
     \/ n # None /\ pkg[n].id = w.id /\ Goto("recv", "deltail", [w EXCEPT !.node = n])
     \/ n # None /\ pkg[n].id # w.id /\ Goto("recv", "walk", [w EXCEPT !.at = n])
  /\ UNCHANGED <<listVars, pkg, mid, pdu, cmds, out, inbox, ub>>

(* which becomes the tail if the deleted package was.                       *)
TailUnmoved(w) == tail
TailAfter(w)   == IF tail = w.node THEN w.at ELSE tail

DelTail ==
  LET w == work["recv"] IN
  /\ At("recv", "deltail")
  /\ tail' = TailAfter(w)
  /\ Goto("recv", "unlink", w)
  /\ UNCHANGED <<head, next, live, pkg, mid, pdu, cmds, out, inbox, ub>>

Unlink ==
  LET w == work["recv"] IN
  /\ At("recv", "unlink")
  /\ next' = [next EXCEPT ![w.at] = next[w.node]]
  /\ Goto("recv", "free", w)
  /\ UNCHANGED <<head, tail, live, pkg, mid, pdu, cmds, out, inbox, ub>>

Free ==
  /\ At("recv", "free")
  /\ live' = live \ {work["recv"].node}
  /\ Rest("recv")
  /\ UNCHANGED <<head, tail, next, pkg, mid, pdu, cmds, out, inbox, ub>>

Delete == DelFirst \/ DelHead \/ Walk \/ DelTail \/ Unlink \/ Free

-----------------------------------------------------------------------------
(***************************************************************************)
(* The server and the network.  The server answers a request with the      *)
(* block it asks for, or without blocks: to acknowledge it, or to refuse.  *)
(***************************************************************************)
Answers(m) == {Datagram("ACK", m.id, m.req, m.block, k) :
                 k \in {"none", IF m.block < LastBlock THEN "more" ELSE "last"}}

Answer(m) ==
  /\ ~ub
  /\ m.type = "CON"
  /\ \E a \in Answers(m) : inbox' = inbox \cup {a}
  /\ UNCHANGED <<listVars, pkg, mid, pdu, pc, work, cmds, out, ub>>

ServerCon(i) ==
  /\ ~ub
  /\ inbox' = inbox \cup {Datagram("CON", i, None, 0, "none")}
  /\ UNCHANGED <<listVars, pkg, mid, pdu, pc, work, cmds, out, ub>>

ListAdd  == TestHead \/ InitHead \/ TailHead \/ Scan \/ Link \/ Hang \/ InitNext \/ MoveTail
Build(t) == Increment(t) \/ BuildType(t) \/ BuildBody(t) \/ Send(t) \/ Sent(t) \/ Stray(t)
MainStep == Command \/ ListAdd \/ Reload \/ Build("main")
RecvWork == Find \/ RecvMore \/ RecvLast \/ Delete \/ Build("recv")
RecvStep == RecvWork \/ \E m \in inbox : RecvCon(m) \/ RecvAck(m)
NetStep  == (\E m \in out : Answer(m)) \/ (\E i \in ServerIds : ServerCon(i))

(* The last package is being deleted while another is being appended to it: *)
(* it is the tail, or nothing is linked to it.                              *)
Appending == pc["main"] \in {"scan", "link", "hang", "init", "movetail"}
Spoiling ==
  LET n == work["recv"].node IN
  /\ Appending /\ pc["recv"] \in {"delhead", "deltail", "unlink"}
  /\ tail = n \/ next[n] = None

Next == /\ MainStep \/ RecvStep \/ NetStep
        /\ spoiled' = (spoiled \/ Spoiling')

Spec == Init /\ [][Next]_vars

(* The threads run, and for TransferEnds the network delivers: a request is *)
(* answered, and an answer to a package that is waiting for it is not held  *)
(* up for ever by old ones.                                                 *)
Answered(m) == \E a \in inbox : a.type = "ACK" /\ a.id = m.id /\ a.req = m.req /\ a.block = m.block
Due(m)      == \E n \in live : pkg[n].id = m.id
Reliable == /\ WF_vars(MainStep /\ Next)
            /\ WF_vars(RecvWork /\ Next)
            /\ \A m \in [type : {"CON"}, id : MsgIds, req : Nodes, block : 0 .. LastBlock, more : {"none"}] :
                 WF_vars(m \in out /\ ~Answered(m) /\ Answer(m) /\ Next)
            /\ SF_vars((\E m \in inbox : Due(m) /\ RecvAck(m)) /\ Next)

FairSpec == Spec /\ Reliable

-----------------------------------------------------------------------------
(* Types of all variables.                                                  *)
Labels == {"idle", "test", "inithead", "tailhead", "scan", "link", "hang", "init", "movetail",
           "count", "store", "type", "body", "send", "sent", "acktype", "ackbody", "acksend",
           "find", "del", "delhead", "walk", "deltail", "unlink", "free"}
Mores  == {"more", "last", "none"}
Links  == Nodes \cup {None}

TypeOK ==
  /\ head \in Links /\ tail \in Links
  /\ next \in [Nodes -> Links \cup {Raw}] /\ live \subseteq Nodes
  /\ pkg \in [Nodes -> [id : MsgIds, block : 0 .. LastBlock]]
  /\ mid \in MsgIds
  /\ pdu \in [type : {"CON", "ACK"}, id : MsgIds, req : Links, block : 0 .. LastBlock, more : Mores]
  /\ pc \in [Threads -> Labels]
  /\ work \in [Threads -> [id : MsgIds, at : Links, node : Links, block : 0 .. LastBlock, more : Mores]]
  /\ cmds \in 0 .. MaxCmds /\ spoiled \in BOOLEAN /\ ub \in BOOLEAN

(* The list is the packages that are allocated, in the order of their       *)
(* commands, and the tail is the last one; of an empty list it may dangle.  *)
IsNext(p, x, S) == \/ p \in S /\ p > x /\ \A q \in S : q > x => p <= q
                   \/ p = None /\ \A q \in S : q <= x
IsList(S) ==
  /\ IsNext(head, 0, S)
  /\ \A p \in S : IsNext(next[p], p, S)
  /\ S # {} => tail \in S /\ \A q \in S : q <= tail

(* Without a lock the receiving thread may delete packages in front of, at  *)
(* and behind those that mbtk_coap_list_add walks over and hangs its new    *)
(* one on.  When both have ended the list is one again, no package lost, no *)
(* freed one left in it, whatever statements came in between: unless the    *)
(* last package was deleted during the append.  (Until one of them uses a   *)
(* package that was freed under its hands.)  No block past the last is      *)
(* asked for (TypeOK).                                                      *)
AtRest == /\ ~Appending /\ pc["main"] \notin {"inithead", "tailhead"}
          /\ pc["recv"] \notin {"delhead", "deltail", "unlink", "free"}
ListShape ==
  /\ TypeOK
  /\ ~ub /\ ~spoiled /\ AtRest => IsList(live)

(* The ids of one transfer.  Answers are matched by id only, and a          *)
(* confirmable message of the server may leave its id in a request that is  *)
(* being built in the same PDU: when the id is one of the transfer's, the   *)
(* answer to the spoiled request is taken for that of a later block.  With  *)
(* two transfers, the counter that both threads increment without a lock    *)
(* gives two packages the same id.                                          *)
OwnIds == 1 .. LastBlock + 1
Undisturbed == cmds <= 1 /\ ~\E m \in inbox : m.type = "CON" /\ m.id \in OwnIds

(* A transfer goes on block by block: whatever the network loses, repeats   *)
(* or delays, and although acknowledgements of the server's messages are    *)
(* built in the same PDU, no answer makes the package go back or skip a     *)
(* block.                                                                   *)
BlocksInOrder ==
  [][Undisturbed => \A n \in Packages \cap live' : pkg'[n].block - pkg[n].block \in {0, 1}]_vars

(* A package is only dropped when the server has answered the request that  *)
(* was last sent for it, with its last block or without blocks.  An         *)
(* acknowledgement without Block2, which announces an answer that comes     *)
(* later, does drop it.                                                     *)
DroppedWhenAnswered ==
  [][Undisturbed => \A n \in live \ live' :
       \E m \in inbox : m.type = "ACK" /\ m.req = n /\ m.block = pkg[n].block /\ m.more # "more"]_vars

(* On a network that delivers, a transfer that was begun ends although old  *)
(* answers come again: its package leaves the list.  (A confirmable message *)
(* of the server may spoil the PDU that is being built: both threads build  *)
(* their datagrams in it.)                                                  *)
TransferEnds ==
  \A n \in Nodes :
    (pc["main"] = "send" /\ work["main"].node = n) ~>
      (n \notin live \/ \E m \in inbox : m.type = "CON")

(* "Point the last item.": when mbtk_coap_list_add hangs a package on the   *)
(* tail, the tail is the last package of the list.                          *)
TailIsLast ==
  ~ub /\ pc["main"] = "link" => tail \in live /\ next[tail] = None
=============================================================================
