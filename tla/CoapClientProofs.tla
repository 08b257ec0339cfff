-------------------------- MODULE CoapClientProofs --------------------------
(* The CoAP client for any number of commands and blocks: the list of        *)
(* pending packages is a list again after every append, whatever statements  *)
(* of the receiving thread's deletes come in between, and a single transfer  *)
(* goes on block by block to its last answer over a network that loses,      *)
(* repeats and reorders.  Under it the socket layer, for any length of a     *)
(* datagram, any number of retries and any number of calls, only uses a      *)
(* socket that is open, and sends a message once or says it did not.         *)
EXTENDS CoapClient, CoapSock, TLAPS

-----------------------------------------------------------------------------
(* Lemmas about the ids and about the order of the packages.                 *)

LEMMA SuccIsId == \A i \in MsgIds : Succ(i) \in MsgIds
  BY CoapClientAssumption DEF Succ, MsgIds

\* What follows a package that is taken out,
LEMMA Unhooked ==
  ASSUME NEW S \in SUBSET Nat, NEW a \in Nat, NEW b \in S, NEW c \in Nat,
         None \notin S, IsNext(b, a, S), IsNext(c, b, S)
  PROVE  IsNext(c, a, S \ {b})
  BY DEF IsNext, None

\* and what follows the others, does not change.
LEMMA StillNext ==
  ASSUME NEW S, NEW p, NEW x, NEW v, IsNext(p, x, S), p # v
  PROVE  IsNext(p, x, S \ {v})
  BY DEF IsNext, None

LEMMA OneBefore ==
  ASSUME NEW S \in SUBSET Nat, NEW p \in S, NEW q \in S, NEW v \in S, None \notin S,
         IsNext(v, p, S), IsNext(v, q, S)
  PROVE  p = q
  BY DEF IsNext, None

\* A package behind all others comes after the last one only.
LEMMA NextBeforeNew ==
  ASSUME NEW S \in SUBSET Nat, NEW p \in S, NEW x \in Nat, NEW n \in Nat, IsNext(p, x, S), None \notin S,
         \A q \in S : q < n
  PROVE  IsNext(p, x, S \cup {n})
  BY DEF IsNext, None

LEMMA NewLast ==
  ASSUME NEW S \in SUBSET Nat, NEW x \in Nat, NEW n \in Nat, x < n, \A q \in S : q <= x
  PROVE  IsNext(n, x, S \cup {n})
  BY DEF IsNext, None

LEMMA HeadLeast ==
  ASSUME NEW S \in SUBSET Nat, NEW h, NEW q \in S, None \notin S, IsNext(h, 0, S)
  PROVE  h \in S /\ h <= q
  BY DEF IsNext, None

-----------------------------------------------------------------------------
(* The invariant of the list.  Its packages are those that are allocated,    *)
(* but one that is unlinked already (Linked); the tail is the last of those  *)
(* that stay and that mbtk_coap_list_add has finished with (Kept).  The      *)
(* package being added is the last one and is not linked before it is hung   *)
(* on the tail, and a package that is deleted meanwhile is in front of the   *)
(* tail.                                                                     *)
BuildPcs == {"store", "type", "body", "send", "sent"}
AckPcs   == {"acktype", "ackbody", "acksend"}
FindPcs  == {"find", "del", "walk"}
EndPcs   == {"delhead", "deltail", "unlink", "free"}
BareAdd  == {"test", "scan", "link", "hang"}
MainPcs  == BareAdd \cup BuildPcs \cup {"idle", "inithead", "tailhead", "init", "movetail", "count"}
RecvPcs  == {"idle"} \cup BuildPcs \cup AckPcs \cup FindPcs \cup EndPcs
Works     == [id : MsgIds, at : Links, node : Links, block : 0 .. LastBlock, more : Mores]
Datagrams == [type : {"CON", "ACK"}, id : MsgIds, req : Links, block : 0 .. LastBlock, more : Mores]

Placed ==
  /\ pc["main"] \in MainPcs /\ pc["recv"] \in RecvPcs
  /\ live \subseteq 1 .. cmds
  /\ head <= cmds /\ \A n \in Nodes : next[n] <= cmds /\ (n > cmds => next[n] = Raw)
  /\ pc["main"] \in BareAdd \cup {"inithead", "tailhead", "init", "movetail"} => work["main"].node = cmds /\ cmds \in Nodes
  /\ pc["main"] \in BareAdd \cup {"inithead", "init"} => next[cmds] = Raw
  /\ pc["main"] \in BareAdd => cmds \notin live
  /\ pc["recv"] = "walk" => work["recv"].at \in Nodes
  /\ pc["recv"] \in EndPcs => work["recv"].node \in Nodes
  /\ pc["recv"] \in {"deltail", "unlink"} => work["recv"].at \in Nodes
  /\ \A t \in Threads : pc[t] \in BuildPcs \cup {"count"} => work[t].node \in 1 .. cmds

OnWire ==
  /\ out \subseteq Datagrams /\ inbox \subseteq Datagrams
  /\ \A m \in inbox : m.more = "more" => m.block < LastBlock
  /\ pc["recv"] \in FindPcs \cup EndPcs =>
       \E m \in inbox : m.type = "ACK" /\ m.id = work["recv"].id
                        /\ m.block = work["recv"].block /\ m.more = work["recv"].more

Linked == IF pc["recv"] = "free" THEN live \ {work["recv"].node} ELSE live
Fresh  == IF pc["main"] \in {"inithead", "init"} THEN {work["main"].node} ELSE {}
Added  == IF pc["main"] \in {"init", "movetail"} THEN {work["main"].node} ELSE {}
Leaves == IF pc["recv"] = "unlink" THEN {work["recv"].node} ELSE {}
Kept   == Linked \ (Added \cup Leaves)
First  == pc["main"] \in {"inithead", "tailhead"}

Chained == /\ IsNext(head, 0, Linked)
           /\ \A p \in Linked \ Fresh : next[p] # Raw /\ IsNext(next[p], p, Linked)

TailLast == Kept # {} => tail \in Kept /\ \A q \in Kept : q <= tail

Adding ==
  /\ Appending => Kept # {}
  /\ pc["main"] \in {"init", "movetail"} => work["main"].node \in Linked
  /\ pc["main"] = "hang" => work["main"].at = tail
  /\ First => Linked \subseteq {work["main"].node}
  /\ pc["main"] = "inithead" => head = work["main"].node

Deleting ==
  LET v == work["recv"].node
      a == work["recv"].at
  IN
  /\ pc["recv"] = "delhead" => v = head /\ v \in Linked /\ next[v] # Raw
  /\ pc["recv"] \in {"deltail", "unlink"} => v \in Linked /\ a \in Linked /\ next[a] = v /\ next[v] # Raw
  /\ pc["recv"] = "free" => v \in live
  /\ Appending /\ pc["recv"] \in {"delhead", "deltail", "unlink"} => v < tail

Shape == Chained /\ (~First => TailLast) /\ Adding /\ Deleting

IInv == /\ TypeOK /\ Placed /\ OnWire
        /\ Spoiling => spoiled
        /\ ~ub /\ ~spoiled => Shape

Base == TypeOK /\ Placed /\ OnWire

LEMMA Types ==
  TypeOK <=>
    /\ head \in Links /\ tail \in Links
    /\ next \in [Nodes -> Links \cup {Raw}] /\ live \subseteq Nodes
    /\ pkg \in [Nodes -> [id : MsgIds, block : 0 .. LastBlock]]
    /\ mid \in MsgIds /\ pdu \in Datagrams
    /\ pc \in [Threads -> Labels] /\ work \in [Threads -> Works]
    /\ cmds \in 0 .. MaxCmds /\ spoiled \in BOOLEAN /\ ub \in BOOLEAN
  BY DEF TypeOK, Works, Datagrams

LEMMA Numbers ==
  /\ Nodes \subseteq Nat /\ None \notin Nodes /\ Raw \notin Links /\ Raw \in Int /\ Raw < 0 /\ Links \subseteq Nat
  /\ MaxCmds \in Nat /\ LastBlock \in Nat
  /\ 0 \in MsgIds /\ 1 % IdMod \in MsgIds /\ 0 \in 0 .. LastBlock /\ MsgIds \subseteq Nat
  /\ \A n : n \in Nodes <=> n \in Nat /\ 1 <= n /\ n <= MaxCmds
  BY CoapClientAssumption DEF Nodes, None, Raw, Links, MsgIds

\* The local variables of a thread that goes on.
LEMMA WorkRecords ==
  /\ Idle \in Works
  /\ \A w \in Works, x \in Links :
       [w EXCEPT !.at = x] \in Works /\ [w EXCEPT !.node = x] \in Works
  /\ \A w \in Works, i \in MsgIds : [w EXCEPT !.id = i] \in Works
  /\ \A x \in Links : [Idle EXCEPT !.node = x] \in Works
  /\ \A x \in Links, i \in MsgIds : [Idle EXCEPT !.id = i, !.node = x] \in Works
  /\ \A i \in MsgIds : [Idle EXCEPT !.id = i] \in Works
  BY Numbers DEF Works, Idle, Mores, Links

LEMMA Gone ==
  ASSUME TypeOK, NEW t \in Threads, NEW l, NEW w, Goto(t, l, w)
  PROVE  /\ pc'[t] = l /\ work'[t] = w
         /\ \A u \in Threads : u # t => pc'[u] = pc[u] /\ work'[u] = work[u]
         /\ l \in Labels => pc' \in [Threads -> Labels]
         /\ w \in Works => work' \in [Threads -> Works]
  BY Types DEF Goto

\* The main thread goes on; what changes besides keeps its types and places.
LEMMA MainGoes ==
  ASSUME Base, NEW l \in MainPcs, NEW w \in Works, Goto("main", l, w),
         head' \in Links, tail' \in Links, next' \in [Nodes -> Links \cup {Raw}],
         pkg' \in [Nodes -> [id : MsgIds, block : 0 .. LastBlock]],
         mid' \in MsgIds, pdu' \in Datagrams, cmds' \in {cmds, cmds + 1}, cmds' <= MaxCmds,
         spoiled' \in BOOLEAN, ub' \in BOOLEAN, out' \subseteq Datagrams, inbox' = inbox,
         live' \subseteq 1 .. cmds', head' <= cmds',
         \A n \in Nodes : next'[n] <= cmds' /\ (n > cmds' => next'[n] = Raw),
         l \in BareAdd \cup {"inithead", "tailhead", "init", "movetail"} => w.node = cmds' /\ cmds' \in Nodes,
         l \in BareAdd \cup {"inithead", "init"} => next'[cmds'] = Raw,
         l \in BareAdd => cmds' \notin live',
         l \in BuildPcs \cup {"count"} => w.node \in 1 .. cmds'
  PROVE  Base'
<1>0. "main" \in Threads /\ "recv" \in Threads /\ \A t \in Threads : t \in {"main", "recv"}
  BY DEF Threads
<1>1. TypeOK /\ Placed /\ OnWire /\ cmds \in 0 .. MaxCmds
  BY DEF Base, TypeOK
<1>2. l \in Labels
  BY DEF MainPcs, BareAdd, BuildPcs, Labels
<1>3. /\ pc'["main"] = l /\ work'["main"] = w /\ pc'["recv"] = pc["recv"] /\ work'["recv"] = work["recv"]
      /\ pc' \in [Threads -> Labels] /\ work' \in [Threads -> Works]
  BY <1>0, <1>1, <1>2, Gone
<1>4. cmds' \in 0 .. MaxCmds /\ live' \subseteq Nodes
  BY <1>1, Numbers DEF Nodes
<1>5. TypeOK'
  BY <1>3, <1>4 DEF TypeOK, Works, Datagrams
<1>6. OnWire'
  BY <1>1, <1>3 DEF OnWire
<1>7. Placed'
  <2>1. pc["recv"] \in BuildPcs \cup {"count"} => work'["recv"].node \in 1 .. cmds'
    BY <1>0, <1>1, <1>3, Numbers DEF Placed
  <2> QED
    BY <1>0, <1>1, <1>3, <2>1 DEF Placed
<1> QED
  BY <1>5, <1>6, <1>7 DEF Base

\* The receiving thread goes on.
LEMMA RecvGoes ==
  ASSUME Base, NEW l \in RecvPcs, NEW w \in Works, Goto("recv", l, w),
         head' \in Links, tail' \in Links, next' \in [Nodes -> Links \cup {Raw}],
         pkg' \in [Nodes -> [id : MsgIds, block : 0 .. LastBlock]],
         mid' \in MsgIds, pdu' \in Datagrams, cmds' = cmds,
         spoiled' \in BOOLEAN, ub' \in BOOLEAN, out' \subseteq Datagrams, inbox' = inbox,
         live' \subseteq live, head' <= cmds,
         \A n \in Nodes : next'[n] <= cmds /\ (next[n] = Raw => next'[n] = Raw),
         l = "walk" => w.at \in Nodes,
         l \in EndPcs => w.node \in Nodes,
         l \in {"deltail", "unlink"} => w.at \in Nodes,
         l \in BuildPcs => w.node \in 1 .. cmds,
         l \in FindPcs \cup EndPcs =>
           \E m \in inbox : m.type = "ACK" /\ m.id = w.id /\ m.block = w.block /\ m.more = w.more
  PROVE  Base'
<1>0. "main" \in Threads /\ "recv" \in Threads /\ \A t \in Threads : t \in {"main", "recv"}
  BY DEF Threads
<1>1. TypeOK /\ Placed /\ OnWire /\ cmds \in 0 .. MaxCmds /\ live \subseteq Nodes
  BY DEF Base, TypeOK
<1>2. l \in Labels /\ l # "count"
  BY DEF RecvPcs, BuildPcs, AckPcs, FindPcs, EndPcs, Labels
<1>3. /\ pc'["recv"] = l /\ work'["recv"] = w /\ pc'["main"] = pc["main"] /\ work'["main"] = work["main"]
      /\ pc' \in [Threads -> Labels] /\ work' \in [Threads -> Works]
  BY <1>0, <1>1, <1>2, Gone
<1>4. live' \subseteq Nodes
  BY <1>1
<1>5. TypeOK'
  BY <1>1, <1>3, <1>4 DEF TypeOK, Works, Datagrams
<1>6. OnWire'
  BY <1>1, <1>3 DEF OnWire
<1>7. Placed'
  <2>1. /\ live' \subseteq 1 .. cmds' /\ (cmds \notin live => cmds' \notin live')
        /\ head' <= cmds' /\ \A n \in Nodes : next'[n] <= cmds' /\ (n > cmds' => next'[n] = Raw)
        /\ cmds \in Nodes /\ next[cmds] = Raw => next'[cmds'] = Raw
    BY <1>1 DEF Placed
  <2>2. \A t \in Threads : pc'[t] \in BuildPcs \cup {"count"} => work'[t].node \in 1 .. cmds'
    BY <1>0, <1>1, <1>2, <1>3 DEF Placed
  <2> QED
    BY <1>0, <1>1, <1>3, <2>1, <2>2 DEF Placed, BareAdd
<1> QED
  BY <1>5, <1>6, <1>7 DEF Base

\* What a step of a thread that is not stray may rely on.
LEMMA SoundMain ==
  ASSUME Base, NEW l, At("main", l)
  PROVE  /\ l = pc["main"] /\ ~ub
         /\ l = "scan" /\ work["main"].at # None => work["main"].at \in Packages
         /\ l = "hang" => work["main"].at \in Packages
         /\ l \in {"init", "movetail"} => tail \in Packages
         /\ l = "init" => next[tail] \in live
         /\ l = "inithead" => head \in live
         /\ \A n \in Packages : n \in live /\ n \in Nodes /\ next[n] \in Links
<1>1. \A n \in Packages : n \in live /\ n \in Nodes /\ next[n] \in Links
  BY Types DEF Base, Packages
<1>2. l = pc["main"] /\ ~ub /\ Sound("main")
  BY DEF At
<1> QED
  BY <1>1, <1>2 DEF Sound, Touched

LEMMA SoundRecv ==
  ASSUME Base, NEW l, At("recv", l)
  PROVE  /\ l = pc["recv"] /\ ~ub
         /\ l = "find" /\ work["recv"].at # None => work["recv"].at \in Packages
         /\ l = "del" /\ head # None => head \in Packages
         /\ l = "walk" => work["recv"].at \in Packages
         /\ l = "walk" /\ next[work["recv"].at] # None => next[work["recv"].at] \in Packages
         /\ l = "unlink" => work["recv"].at \in Packages /\ work["recv"].node \in Packages
         /\ l = "delhead" => work["recv"].node \in Packages
         /\ \A n \in Packages : n \in live /\ n \in Nodes /\ next[n] \in Links
<1>1. \A n \in Packages : n \in live /\ n \in Nodes /\ next[n] \in Links
  BY Types DEF Base, Packages
<1>2. l = pc["recv"] /\ ~ub /\ Sound("recv")
  BY DEF At
<1>3. l = "walk" => work["recv"].at # None
  BY <1>2, Numbers DEF Base, Placed
<1> QED
  BY <1>1, <1>2, <1>3 DEF Sound, Touched

\* The types of both threads' variables.
LEMMA Known ==
  ASSUME Base
  PROVE  /\ TypeOK /\ Placed /\ OnWire /\ "main" \in Threads /\ "recv" \in Threads
         /\ work["main"] \in Works /\ work["recv"] \in Works
         /\ \A t \in Threads : /\ work[t].id \in MsgIds /\ work[t].at \in Links /\ work[t].node \in Links
                               /\ work[t].block \in 0 .. LastBlock /\ work[t].more \in Mores
         /\ cmds \in Nat /\ cmds <= MaxCmds /\ live \subseteq 1 .. cmds
<1>1. work["main"] \in Works /\ work["recv"] \in Works /\ \A t \in Threads : work[t] \in Works
  BY Types DEF Base, Threads
<1> QED
  BY <1>1, Numbers, Types DEF Base, Threads, Works, Placed

LEMMA InitBase == Init => Base
<1> SUFFICES ASSUME Init PROVE Base
  OBVIOUS
<1>1. pdu \in Datagrams /\ work \in [Threads -> Works] /\ pc \in [Threads -> Labels]
  BY Numbers, WorkRecords DEF Init, Datagram, Datagrams, Labels, Links, Mores
<1>2. pkg \in [Nodes -> [id : MsgIds, block : 0 .. LastBlock]] /\ next \in [Nodes -> Links \cup {Raw}]
  BY Numbers DEF Init
<1>3. TypeOK
  <2>1. mid \in MsgIds /\ cmds \in 0 .. MaxCmds
    BY Numbers DEF Init
  <2>2. head \in Links /\ tail \in Links /\ live \subseteq Nodes /\ spoiled \in BOOLEAN /\ ub \in BOOLEAN
    BY DEF Init, Links
  <2> QED
    BY <1>1, <1>2, <2>1, <2>2, Types
<1>4. pc["main"] = "idle" /\ pc["recv"] = "idle" /\ \A t \in Threads : pc[t] = "idle"
  BY DEF Init, Threads
<1>5. Placed
  BY <1>4, Numbers DEF Init, Raw, None, Placed, MainPcs, RecvPcs, BareAdd, BuildPcs, EndPcs
<1>6. OnWire
  BY <1>4 DEF Init, OnWire, FindPcs, EndPcs
<1> QED
  BY <1>3, <1>5, <1>6 DEF Base

LEMMA MainBase ==
  ASSUME Base, spoiled' \in BOOLEAN, Command \/ ListAdd \/ Reload
  PROVE  Base'
<1> DEFINE w == work["main"]
<1>0. /\ TypeOK /\ Placed /\ OnWire /\ w \in Works /\ w.node \in Links /\ w.id \in MsgIds
      /\ cmds \in Nat /\ cmds <= MaxCmds /\ live \subseteq 1 .. cmds /\ out \subseteq Datagrams
      /\ head <= cmds /\ \A n \in Nodes : next[n] <= cmds /\ (n > cmds => next[n] = Raw)
  BY Known, Numbers DEF Placed, OnWire, Threads
<1>T. /\ head \in Links /\ tail \in Links /\ next \in [Nodes -> Links \cup {Raw}]
      /\ pkg \in [Nodes -> [id : MsgIds, block : 0 .. LastBlock]]
      /\ mid \in MsgIds /\ pdu \in Datagrams /\ ub \in BOOLEAN /\ cmds \in {cmds, cmds + 1}
  BY <1>0, Types
<1>L. /\ {"idle", "test", "inithead", "tailhead", "scan", "link", "hang", "init", "movetail", "count", "store"} \subseteq MainPcs
      /\ BareAdd = {"test", "scan", "link", "hang"} /\ BuildPcs = {"store", "type", "body", "send", "sent"}
  BY DEF MainPcs, BareAdd, BuildPcs
<1> HIDE DEF w
\* A package is handed on to be counted, or none is there.
<1>R. ASSUME NEW n \in Links, n <= cmds, Returns(n),
             UNCHANGED <<head, next, live, pkg, mid, pdu, cmds, out, inbox, ub>>, tail' \in Links
      PROVE  Base'
  <2> DEFINE l == IF n = None THEN "idle" ELSE "count"
             v == IF n = None THEN Idle ELSE [Idle EXCEPT !.node = n]
  <2>1. Goto("main", l, v)
    BY <1>R DEF Returns, Rest
  <2>2. v \in Works /\ (n # None => v.node = n)
    BY <1>R, WorkRecords DEF Idle
  <2>3. l \in {"idle", "count"} /\ (l = "count" => v.node \in 1 .. cmds)
    BY <1>0, <1>R, <2>2, Numbers DEF Links
  <2> HIDE DEF l, v
  <2> QED
    BY <1>0, <1>T, <1>L, <1>R, <2>1, <2>2, <2>3, MainGoes, SMTT(20)
<1>1. CASE Command
  <2> DEFINE v == [Idle EXCEPT !.id = mid, !.node = cmds + 1]
  <2>1. cmds' = cmds + 1 /\ cmds' <= MaxCmds /\ cmds' \in Nodes /\ cmds' \in Links
        /\ UNCHANGED <<listVars, pkg, mid, pdu, out, inbox, ub>>
    BY <1>0, <1>1, Numbers DEF Command, Links
  <2>2. v \in Works /\ v.node = cmds' /\ Goto("main", "test", v)
    BY <1>1, <1>T, <2>1, WorkRecords DEF Command, Idle
  <2>3. live' \subseteq 1 .. cmds' /\ cmds' \notin live' /\ next'[cmds'] = Raw
        /\ \A n \in Nodes : next'[n] <= cmds' /\ (n > cmds' => next'[n] = Raw)
    <3>1. live' = live /\ next' = next /\ cmds' \notin live /\ 1 .. cmds \subseteq 1 .. cmds'
      BY <1>0, <2>1 DEF listVars
    <3>2. \A n \in Nodes : next[n] \in Int /\ n \in Int
      <4>1. \A n \in Nodes : next[n] \in Links \/ next[n] = Raw
        BY <1>T
      <4>2. Nodes \subseteq Int /\ Links \subseteq Int /\ Raw \in Int
        BY Numbers
      <4> QED
        BY <4>1, <4>2
    <3> QED
      BY <1>0, <2>1, <3>1, <3>2
  <2> HIDE DEF v
  <2> QED
    BY <1>0, <1>T, <1>L, <2>1, <2>2, <2>3, MainGoes, SMTT(20) DEF listVars
<1>2. CASE TestHead
  <2>1. pc["main"] = "test" /\ UNCHANGED <<tail, next, pkg, mid, pdu, cmds, out, inbox, ub>>
    BY <1>2 DEF TestHead, At
  <2>2. w.node = cmds /\ cmds \in Nodes /\ next[cmds] = Raw /\ cmds \notin live /\ cmds \in 1 .. cmds
    BY <1>0, <2>1 DEF Placed, w, BareAdd, Nodes
  <2>3. CASE head = None
    <3>1. head' = cmds /\ live' = live \cup {cmds} /\ Goto("main", "inithead", w)
      BY <1>2, <2>2, <2>3 DEF TestHead, w
    <3> QED
      BY <1>0, <1>T, <1>L, <2>1, <2>2, <3>1, MainGoes, SMTT(20) DEF Links
  <2>4. CASE head # None
    <3> DEFINE v == [w EXCEPT !.at = head]
    <3>1. UNCHANGED <<head, live>> /\ Goto("main", "scan", v)
      BY <1>2, <2>4 DEF TestHead, w
    <3>2. v \in Works /\ v.node = cmds
      BY <1>0, <1>T, <2>2, WorkRecords DEF Works
    <3> HIDE DEF v
    <3> QED
      BY <1>0, <1>T, <1>L, <2>1, <2>2, <3>1, <3>2, MainGoes, SMTT(20)
  <2> QED
    BY <2>3, <2>4
<1>3. CASE InitHead
  <2>1. pc["main"] = "inithead" /\ head \in live /\ head \in Nodes
    BY <1>0, <1>3, SoundMain, Types DEF InitHead
  <2>2. w.node = cmds /\ cmds \in Nodes
    BY <1>0, <2>1 DEF Placed, w
  <2>3. /\ next' = [next EXCEPT ![head] = None] /\ pkg' = [pkg EXCEPT ![head] = [id |-> w.id, block |-> 0]]
        /\ Goto("main", "tailhead", w) /\ UNCHANGED <<head, tail, live, mid, pdu, cmds, out, inbox, ub>>
    BY <1>3 DEF InitHead, Initialised, w
  <2>4. next' \in [Nodes -> Links \cup {Raw}] /\ pkg' \in [Nodes -> [id : MsgIds, block : 0 .. LastBlock]]
        /\ \A n \in Nodes : next'[n] <= cmds /\ (n > cmds => next'[n] = Raw)
    BY <1>0, <1>T, <2>1, <2>3, Numbers DEF Links, None
  <2> QED
    BY <1>0, <1>T, <1>L, <2>2, <2>3, <2>4, MainGoes, SMTT(20)
<1>4. CASE TailHead
  <2>1. pc["main"] = "tailhead" /\ tail' = head /\ Returns(head)
        /\ UNCHANGED <<head, next, live, pkg, mid, pdu, cmds, out, inbox, ub>>
    BY <1>4 DEF TailHead, At
  <2> QED
    BY <1>0, <1>R, <2>1, <1>T
<1>5. CASE Scan
  <2> DEFINE x == IF w.at = None THEN None ELSE next[w.at]
             v == [w EXCEPT !.at = x]
  <2>1. /\ pc["main"] = "scan" /\ w.node = cmds /\ cmds \in Nodes /\ next[cmds] = Raw /\ cmds \notin live
        /\ w.at # None => w.at \in Packages /\ next[w.at] \in Links
        /\ UNCHANGED <<listVars, pkg, mid, pdu, cmds, out, inbox, ub>>
    BY <1>0, <1>5, SoundMain DEF Scan, Placed, w, BareAdd
  <2>2. \/ Goto("main", "link", w)
        \/ Goto("main", "idle", Idle)
        \/ Goto("main", "scan", v)
    BY <1>5 DEF Scan, Rest, w
  <2>x. x \in Links
    BY <2>1 DEF Links
  <2>3. v \in Works /\ v.node = cmds /\ Idle \in Works
    BY <1>0, <2>1, <2>x, WorkRecords DEF Works
  <2> HIDE DEF v, x
  <2>4. CASE Goto("main", "link", w)
    BY <1>0, <1>T, <1>L, <2>1, <2>4, MainGoes, SMTT(20) DEF listVars
  <2>5. CASE Goto("main", "idle", Idle)
    BY <1>0, <1>T, <1>L, <2>1, <2>3, <2>5, MainGoes, SMTT(20) DEF listVars
  <2>6. CASE Goto("main", "scan", v)
    BY <1>0, <1>T, <1>L, <2>1, <2>3, <2>6, MainGoes, SMTT(20) DEF listVars
  <2> QED
    BY <2>2, <2>4, <2>5, <2>6
<1>6. CASE Link
  <2> DEFINE v == [w EXCEPT !.at = tail]
  <2>1. pc["main"] = "link" /\ w.node = cmds /\ cmds \in Nodes /\ next[cmds] = Raw /\ cmds \notin live
        /\ Goto("main", "hang", v) /\ UNCHANGED <<listVars, pkg, mid, pdu, cmds, out, inbox, ub>>
    BY <1>0, <1>6 DEF Link, Placed, w, BareAdd, At
  <2>2. v \in Works /\ v.node = cmds
    BY <1>0, <1>T, <2>1, WorkRecords DEF Works
  <2> HIDE DEF v
  <2> QED
    BY <1>0, <1>T, <1>L, <2>1, <2>2, MainGoes, SMTT(20) DEF listVars
<1>7. CASE Hang
  <2> DEFINE v == [w EXCEPT !.at = None]
  <2>1. pc["main"] = "hang" /\ w.node = cmds /\ cmds \in Nodes /\ next[cmds] = Raw /\ cmds \notin live
        /\ w.at \in Packages /\ w.at \in Nodes /\ next[w.at] \in Links
    BY <1>0, <1>7, SoundMain DEF Hang, Placed, w, BareAdd
  <2>2. /\ next' = [next EXCEPT ![w.at] = cmds] /\ live' = live \cup {cmds}
        /\ Goto("main", "init", v)
        /\ UNCHANGED <<head, tail, pkg, mid, pdu, cmds, out, inbox, ub>>
    BY <1>7, <2>1 DEF Hang, w
  <2>3. v \in Works /\ v.node = cmds /\ w.at # cmds /\ cmds \in 1 .. cmds
    <3>2. None \in Links
      BY DEF Links
    <3>1. None \in Links /\ v.node = cmds
      BY <1>0, <2>1, <3>2 DEF Works
    <3>3. v \in Works
      BY <1>0, <3>2, WorkRecords
    <3>4. w.at # cmds
      BY <2>1, Numbers
    <3>5. cmds \in 1 .. cmds
      BY <2>1, Numbers
    <3> QED
      BY <3>1, <3>3, <3>4, <3>5
  <2>4. next' \in [Nodes -> Links \cup {Raw}] /\ next'[cmds] = Raw
        /\ \A n \in Nodes : next'[n] <= cmds /\ (n > cmds => next'[n] = Raw)
    BY <1>0, <1>T, <2>1, <2>2, <2>3, Numbers DEF Links
  <2> HIDE DEF v
  <2> QED
    BY <1>0, <1>T, <1>L, <2>1, <2>2, <2>3, <2>4, MainGoes, SMTT(20)
<1>8. CASE InitNext
  <2>1. pc["main"] = "init" /\ w.node = cmds /\ cmds \in Nodes /\ next[tail] \in live /\ next[tail] \in Nodes
    BY <1>0, <1>8, SoundMain, Types DEF InitNext, Placed, w
  <2>2. /\ next' = [next EXCEPT ![next[tail]] = None] /\ pkg' = [pkg EXCEPT ![next[tail]] = [id |-> w.id, block |-> 0]]
        /\ Goto("main", "movetail", w) /\ UNCHANGED <<head, tail, live, mid, pdu, cmds, out, inbox, ub>>
    BY <1>8 DEF InitNext, Initialised, w
  <2>3. next' \in [Nodes -> Links \cup {Raw}] /\ pkg' \in [Nodes -> [id : MsgIds, block : 0 .. LastBlock]]
        /\ \A n \in Nodes : next'[n] <= cmds /\ (n > cmds => next'[n] = Raw)
    BY <1>0, <1>T, <2>1, <2>2, Numbers DEF Links, None
  <2> QED
    BY <1>0, <1>T, <1>L, <2>1, <2>2, <2>3, MainGoes, SMTT(20)
<1>9. CASE MoveTail
  <2>1. tail \in Packages /\ tail \in Nodes /\ next[tail] \in Links
    BY <1>9, SoundMain DEF MoveTail
  <2>2. tail' = next[tail] /\ Returns(next[tail])
        /\ UNCHANGED <<head, next, live, pkg, mid, pdu, cmds, out, inbox, ub>>
    BY <1>9 DEF MoveTail
  <2> QED
    BY <1>0, <1>R, <2>1, <2>2
<1>10. CASE Reload
  <2> DEFINE v == [w EXCEPT !.id = mid]
  <2>1. pc["main"] = "count" /\ w.node \in 1 .. cmds
        /\ Goto("main", "store", v) /\ UNCHANGED <<listVars, pkg, mid, pdu, cmds, out, inbox, ub>>
    BY <1>0, <1>10 DEF Reload, Placed, w, At, Threads
  <2>2. v \in Works /\ v.node = w.node
    BY <1>0, <1>T, WorkRecords DEF Works
  <2> HIDE DEF v
  <2> QED
    BY <1>0, <1>T, <1>L, <2>1, <2>2, MainGoes, SMTT(20) DEF listVars
<1> QED
  BY <1>1, <1>2, <1>3, <1>4, <1>5, <1>6, <1>7, <1>8, <1>9, <1>10 DEF ListAdd

\* The steps of both threads that only fill in a request, and the stray ones.
LEMMA BuildEffects ==
  ASSUME Base, NEW t \in Threads, Increment(t) \/ BuildType(t) \/ BuildBody(t) \/ Send(t) \/ Sent(t)
  PROVE  /\ UNCHANGED <<head, tail, next, live, pkg, cmds, inbox, ub>>
         /\ mid' \in MsgIds /\ pdu' \in Datagrams /\ out' \subseteq Datagrams
         /\ \E l \in {"type", "body", "send", "sent", "idle", "ackbody", "acksend"}, w \in Works :
              /\ Goto(t, l, w)
              /\ l \in BuildPcs => w.node = work[t].node /\ pc[t] \in BuildPcs
              /\ l \in AckPcs => pc[t] \in AckPcs
<1>0. /\ TypeOK /\ Placed /\ OnWire /\ work[t] \in Works /\ work[t].id \in MsgIds /\ work[t].node \in Links
      /\ mid \in MsgIds /\ pdu \in Datagrams /\ out \subseteq Datagrams
      /\ pkg \in [Nodes -> [id : MsgIds, block : 0 .. LastBlock]] /\ cmds \in 0 .. MaxCmds
  BY Known, Types DEF OnWire, Threads
<1>L. /\ BuildPcs = {"store", "type", "body", "send", "sent"} /\ AckPcs = {"acktype", "ackbody", "acksend"}
  BY DEF BuildPcs, AckPcs
<1>1. CASE Increment(t)
  <2> DEFINE w == [Idle EXCEPT !.node = work[t].node]
  <2>1. /\ Goto(t, "type", w) \/ Goto(t, "idle", Idle)
        /\ pc[t] = "store" /\ mid' = Succ(work[t].id) /\ UNCHANGED <<listVars, pkg, pdu, cmds, out, inbox, ub>>
    BY <1>1 DEF Increment, Rest, At
  <2>2. w \in Works /\ w.node = work[t].node /\ Idle \in Works
    BY <1>0, WorkRecords DEF Idle
  <2>3. mid' \in MsgIds
    BY <1>0, <2>1, SuccIsId
  <2> HIDE DEF w
  <2> QED
    BY <1>0, <1>L, <2>1, <2>2, <2>3 DEF listVars
<1>2. CASE BuildType(t)
  <2>1. /\ \/ Goto(t, "body", work[t]) /\ pc[t] = "type"
           \/ Goto(t, "ackbody", work[t]) /\ pc[t] = "acktype"
        /\ pdu' \in {Datagram("CON", 0, None, 0, "none"), Datagram("ACK", 0, None, 0, "none")}
        /\ UNCHANGED <<listVars, pkg, mid, cmds, out, inbox, ub>>
    BY <1>2 DEF BuildType, At
  <2>2. pdu' \in Datagrams
    BY <2>1, Numbers DEF Datagram, Datagrams, Links, Mores
  <2> QED
    BY <1>0, <1>L, <2>1, <2>2 DEF listVars
<1>3. CASE BuildBody(t)
  <2> DEFINE n == work[t].node
  <2>1. UNCHANGED <<listVars, pkg, mid, cmds, out, inbox, ub>>
    BY <1>3 DEF BuildBody
  <2>2. CASE pc[t] = "body"
    <3>1. Goto(t, "send", work[t]) /\ pdu' = [pdu EXCEPT !.id = pkg[n].id, !.req = n, !.block = pkg[n].block]
      BY <1>3, <2>2 DEF BuildBody, At
    <3>2. n \in Nodes
      <4>1. n \in 1 .. cmds
        BY <1>0, <1>L, <2>2 DEF Placed
      <4> QED
        BY <1>0, <4>1, Numbers
    <3>3. pkg[n].id \in MsgIds /\ pkg[n].block \in 0 .. LastBlock
      BY <1>0, <3>2
    <3>4. pdu' \in Datagrams
      BY <1>0, <3>1, <3>2, <3>3 DEF Datagrams, Links
    <3> QED
      BY <1>0, <1>L, <2>1, <2>2, <3>1, <3>4 DEF listVars
  <2>3. CASE pc[t] = "ackbody"
    <3>1. Goto(t, "acksend", Idle) /\ pdu' = [pdu EXCEPT !.id = work[t].id]
      BY <1>3, <2>3 DEF BuildBody, At
    <3>2. pdu' \in Datagrams
      BY <1>0, <3>1 DEF Datagrams
    <3> QED
      BY <1>0, <1>L, <2>1, <2>3, <3>1, <3>2, WorkRecords DEF listVars
  <2> QED
    BY <1>3, <2>2, <2>3 DEF BuildBody, At
<1>4. CASE Send(t)
  <2>1. /\ \/ pc[t] = "send" /\ Goto(t, "sent", work[t])
           \/ Goto(t, "idle", Idle)
        /\ out' \in {out, out \cup {pdu}} /\ UNCHANGED <<listVars, pkg, mid, pdu, cmds, inbox, ub>>
    BY <1>4 DEF Send, At, Rest
  <2> QED
    BY <1>0, <1>L, <2>1, WorkRecords DEF listVars
<1>5. CASE Sent(t)
  BY <1>0, <1>L, <1>5, WorkRecords DEF Sent, Rest, listVars
<1> QED
  BY <1>1, <1>2, <1>3, <1>4, <1>5

LEMMA BuildBase ==
  ASSUME Base, spoiled' \in BOOLEAN, NEW t \in Threads, Build(t) PROVE Base'
<1>0. /\ TypeOK /\ Placed /\ OnWire /\ cmds \in Nat /\ cmds <= MaxCmds /\ live \subseteq 1 .. cmds
      /\ \A n \in Nodes : next[n] <= cmds /\ (n > cmds => next[n] = Raw)
      /\ head \in Links /\ tail \in Links /\ next \in [Nodes -> Links \cup {Raw}] /\ head <= cmds
      /\ pkg \in [Nodes -> [id : MsgIds, block : 0 .. LastBlock]] /\ cmds \in {cmds, cmds + 1}
      /\ mid \in MsgIds /\ pdu \in Datagrams /\ ub \in BOOLEAN
      /\ pc["main"] \in MainPcs /\ pc["recv"] \in RecvPcs
  BY Known, Types DEF Placed
<1>L. /\ BuildPcs = {"store", "type", "body", "send", "sent"} /\ AckPcs = {"acktype", "ackbody", "acksend"}
      /\ BuildPcs \cup {"idle"} \subseteq MainPcs /\ BuildPcs \cup AckPcs \cup {"idle"} \subseteq RecvPcs
      /\ MainPcs \cap AckPcs = {} /\ BareAdd = {"test", "scan", "link", "hang"}
      /\ FindPcs = {"find", "del", "walk"} /\ EndPcs = {"delhead", "deltail", "unlink", "free"}
  BY DEF MainPcs, BareAdd, BuildPcs, RecvPcs, AckPcs, FindPcs, EndPcs
<1>1. CASE Increment(t) \/ BuildType(t) \/ BuildBody(t) \/ Send(t) \/ Sent(t)
  <2>1. /\ UNCHANGED <<head, tail, next, live, pkg, cmds, inbox, ub>>
        /\ mid' \in MsgIds /\ pdu' \in Datagrams /\ out' \subseteq Datagrams
    BY <1>1, BuildEffects
  <2>2. PICK l \in {"type", "body", "send", "sent", "idle", "ackbody", "acksend"}, w \in Works :
               /\ Goto(t, l, w)
               /\ l \in BuildPcs => w.node = work[t].node /\ pc[t] \in BuildPcs
               /\ l \in AckPcs => pc[t] \in AckPcs
    BY <1>1, BuildEffects
  <2>3. l \in BuildPcs => w.node \in 1 .. cmds
    BY <1>0, <2>2 DEF Placed
  <2>4. CASE t = "main"
    <3>1. l \in MainPcs /\ l \notin BareAdd \cup {"inithead", "tailhead", "init", "movetail", "count"}
      BY <1>0, <1>L, <2>2, <2>4
    <3>2. /\ cmds' = cmds /\ live' \subseteq 1 .. cmds' /\ head' <= cmds'
          /\ \A n \in Nodes : next'[n] <= cmds' /\ (n > cmds' => next'[n] = Raw)
      BY <1>0, <2>1
    <3> QED
      BY <1>0, <1>L, <2>1, <2>2, <2>3, <2>4, <3>1, <3>2, MainGoes, SMTT(20)
  <2>5. CASE t = "recv"
    <3>1. l \in RecvPcs /\ l \notin FindPcs \cup EndPcs \cup {"walk"}
      BY <1>L, <2>2
    <3>2. live' \subseteq live /\ head' <= cmds /\ \A n \in Nodes : next'[n] <= cmds /\ (next[n] = Raw => next'[n] = Raw)
      BY <1>0, <2>1
    <3> QED
      BY <1>0, <1>L, <2>1, <2>2, <2>3, <2>5, <3>1, <3>2, RecvGoes, SMTT(20)
  <2> QED
    BY <2>4, <2>5 DEF Threads
<1>2. CASE Stray(t)
  <2>1. /\ UNCHANGED <<listVars, pkg, mid, pdu, pc, work, cmds, out, inbox>> /\ ub' \in BOOLEAN
    BY <1>2 DEF Stray
  <2>2. TypeOK'
    BY <1>0, <2>1 DEF TypeOK, listVars
  <2>3. Placed' /\ OnWire'
    BY <1>0, <2>1 DEF Placed, OnWire, listVars
  <2> QED
    BY <2>2, <2>3 DEF Base
<1> QED
  BY <1>1, <1>2 DEF Build

LEMMA NetBase == ASSUME Base, spoiled' \in BOOLEAN, NetStep PROVE Base'
<1>0. TypeOK /\ Placed /\ OnWire
  BY DEF Base
<1>1. UNCHANGED <<listVars, pkg, mid, pdu, pc, work, cmds, out, ub>>
  BY DEF NetStep, Answer, ServerCon
<1>2. inbox \subseteq inbox' /\ inbox' \subseteq Datagrams /\ \A m \in inbox' : m.more = "more" => m.block < LastBlock
  <2>1. ASSUME NEW m \in out, Answer(m)
        PROVE  inbox \subseteq inbox' /\ inbox' \subseteq Datagrams /\ \A a \in inbox' : a.more = "more" => a.block < LastBlock
    <3>0. m.id \in MsgIds /\ m.req \in Links /\ m.block \in 0 .. LastBlock
      BY <1>0 DEF OnWire, Datagrams
    <3>1. PICK k \in {"none", IF m.block < LastBlock THEN "more" ELSE "last"} :
            inbox' = inbox \cup {Datagram("ACK", m.id, m.req, m.block, k)}
      BY <2>1 DEF Answer, Answers
    <3>2. k \in Mores /\ (k = "more" => m.block < LastBlock)
      BY DEF Mores
    <3>3. Datagram("ACK", m.id, m.req, m.block, k) \in Datagrams
      BY <3>0, <3>2 DEF Datagram, Datagrams
    <3> QED
      BY <1>0, <3>1, <3>2, <3>3 DEF OnWire, Datagram
  <2>2. ASSUME NEW i \in ServerIds, ServerCon(i)
        PROVE  inbox \subseteq inbox' /\ inbox' \subseteq Datagrams /\ \A a \in inbox' : a.more = "more" => a.block < LastBlock
    <3>1. Datagram("CON", i, None, 0, "none") \in Datagrams
      BY CoapClientAssumption, Numbers DEF Datagrams, Datagram, MsgIds, Links, Mores
    <3> QED
      BY <1>0, <2>2, <3>1 DEF ServerCon, OnWire, Datagram
  <2> QED
    BY <2>1, <2>2 DEF NetStep
<1>3. TypeOK' /\ Placed'
  BY <1>0, <1>1 DEF TypeOK, Placed, listVars
<1>4. OnWire'
  BY <1>0, <1>1, <1>2 DEF OnWire
<1> QED
  BY <1>3, <1>4 DEF Base

LEMMA RecvBase ==
  ASSUME Base, spoiled' \in BOOLEAN,
         Find \/ RecvMore \/ RecvLast \/ Delete \/ (\E m \in inbox : RecvCon(m) \/ RecvAck(m))
  PROVE  Base'
<1> DEFINE w == work["recv"]
           HasAck(v) == \E m \in inbox : m.type = "ACK" /\ m.id = v.id /\ m.block = v.block /\ m.more = v.more
<1>0. /\ TypeOK /\ Placed /\ OnWire /\ w \in Works /\ w.at \in Links /\ w.node \in Links /\ w.id \in MsgIds
      /\ w.block \in 0 .. LastBlock /\ w.more \in Mores
      /\ cmds \in Nat /\ cmds <= MaxCmds /\ live \subseteq 1 .. cmds /\ out \subseteq Datagrams
      /\ \A n \in Nodes : next[n] <= cmds /\ (n > cmds => next[n] = Raw)
  BY Known DEF Placed, OnWire, Threads
<1>T. /\ head \in Links /\ tail \in Links /\ head <= cmds /\ next \in [Nodes -> Links \cup {Raw}]
      /\ pkg \in [Nodes -> [id : MsgIds, block : 0 .. LastBlock]]
      /\ mid \in MsgIds /\ pdu \in Datagrams /\ ub \in BOOLEAN
  BY <1>0, Types DEF Placed
<1>L. /\ FindPcs = {"find", "del", "walk"} /\ EndPcs = {"delhead", "deltail", "unlink", "free"}
      /\ BuildPcs = {"store", "type", "body", "send", "sent"}
      /\ {"idle", "store", "acktype"} \cup FindPcs \cup EndPcs \subseteq RecvPcs
  BY DEF RecvPcs, BuildPcs, AckPcs, FindPcs, EndPcs
\* The answer that is handled stays known.
<1>A. /\ pc["recv"] \in FindPcs \cup EndPcs => HasAck(w)
      /\ \A v, x : v \in Works /\ x \in Links /\ HasAck(v) =>
           /\ HasAck([v EXCEPT !.at = x]) /\ HasAck([v EXCEPT !.node = x])
           /\ [v EXCEPT !.at = x] \in Works /\ [v EXCEPT !.at = x].at = x
           /\ [v EXCEPT !.at = x].node = v.node
           /\ [v EXCEPT !.node = x] \in Works /\ [v EXCEPT !.node = x].node = x
           /\ [v EXCEPT !.node = x].at = v.at
  <2>1. pc["recv"] \in FindPcs \cup EndPcs => HasAck(w)
    BY <1>0 DEF OnWire
  <2>2. ASSUME NEW v \in Works, NEW x \in Links, HasAck(v)
        PROVE  /\ HasAck([v EXCEPT !.at = x]) /\ HasAck([v EXCEPT !.node = x])
               /\ [v EXCEPT !.at = x] \in Works /\ [v EXCEPT !.at = x].at = x
               /\ [v EXCEPT !.at = x].node = v.node
               /\ [v EXCEPT !.node = x] \in Works /\ [v EXCEPT !.node = x].node = x
               /\ [v EXCEPT !.node = x].at = v.at
    BY <2>2 DEF Works
  <2> QED
    BY <2>1, <2>2
<1> HIDE DEF w, HasAck
\* Back to the beginning.
<1>I. ASSUME Goto("recv", "idle", Idle), UNCHANGED <<head, tail, next, pkg, mid, pdu, cmds, out, inbox, ub>>,
             live' \subseteq live
      PROVE  Base'
  <2>1. Idle \in Works
    BY WorkRecords
  <2>2. \A n \in Nodes : next'[n] <= cmds /\ (next[n] = Raw => next'[n] = Raw)
    BY <1>0, <1>I
  <2> QED
    BY <1>0, <1>T, <1>L, <1>I, <2>1, <2>2, RecvGoes, SMTT(20)
\* On to a label of the search, or of the delete.
<1>S. ASSUME NEW l \in FindPcs \cup EndPcs, NEW v \in Works, Goto("recv", l, v), HasAck(v),
             head' \in Links, tail' \in Links, next' \in [Nodes -> Links \cup {Raw}], head' <= cmds,
             \A n \in Nodes : next'[n] <= cmds /\ (next[n] = Raw => next'[n] = Raw),
             UNCHANGED <<live, pkg, mid, pdu, cmds, out, inbox, ub>>,
             l = "walk" => v.at \in Nodes, l \in EndPcs => v.node \in Nodes,
             l \in {"deltail", "unlink"} => v.at \in Nodes
      PROVE  Base'
  <2>1. HasAck(v) <=> \E m \in inbox : m.type = "ACK" /\ m.id = v.id /\ m.block = v.block /\ m.more = v.more
    BY DEF HasAck
  <2>2. l \in RecvPcs /\ l \notin BuildPcs
    BY <1>L
  <2> QED
    BY <1>0, <1>T, <1>S, <2>1, <2>2, RecvGoes, SMTT(20)
<1>F. /\ \A n \in Nodes : next[n] <= cmds /\ (next[n] = Raw => next[n] = Raw)
      /\ next \in [Nodes -> Links \cup {Raw}] /\ head \in Links /\ tail \in Links /\ head <= cmds
  BY <1>0, <1>T
<1>1. ASSUME NEW m \in inbox, RecvCon(m) PROVE Base'
  <2> DEFINE v == [Idle EXCEPT !.id = m.id]
  <2>1. Goto("recv", "acktype", v) /\ UNCHANGED <<listVars, pkg, mid, pdu, cmds, out, inbox, ub>>
    BY <1>1 DEF RecvCon
  <2>2. v \in Works
    <3>1. m.id \in MsgIds
      BY <1>0 DEF OnWire, Datagrams
    <3> QED
      BY <3>1, WorkRecords
  <2> HIDE DEF v
  <2> QED
    BY <1>0, <1>T, <1>L, <2>1, <2>2, RecvGoes, SMTT(20) DEF listVars
<1>2. ASSUME NEW m \in inbox, RecvAck(m) PROVE Base'
  <2> DEFINE v == [id |-> m.id, at |-> head, node |-> None, block |-> m.block, more |-> m.more]
  <2>1. m.type = "ACK" /\ Goto("recv", "find", v) /\ UNCHANGED <<listVars, pkg, mid, pdu, cmds, out, inbox, ub>>
    BY <1>2 DEF RecvAck
  <2>2. v \in Works /\ HasAck(v)
    BY <1>0, <1>T, <2>1 DEF OnWire, Datagrams, Works, Links, HasAck
  <2> HIDE DEF v
  <2> QED
    BY <1>F, <1>L, <1>S, <2>1, <2>2 DEF listVars
<1>3. CASE Find
  <2> DEFINE v == [w EXCEPT !.at = next[w.at]]
  <2>1. pc["recv"] = "find" /\ UNCHANGED <<listVars, pkg, mid, pdu, cmds, out, inbox, ub>>
    BY <1>3 DEF Find, At
  <2>2. CASE w.at = None
    BY <1>3, <1>I, <2>1, <2>2 DEF Find, Rest, w, listVars
  <2>3. CASE w.at # None
    <3>1. Goto("recv", "find", v) /\ next[w.at] \in Links
      BY <1>3, <2>3, SoundRecv DEF Find, w
    <3>2. v \in Works /\ HasAck(v)
      BY <1>0, <1>A, <1>L, <2>1, <3>1
    <3> HIDE DEF v
    <3> QED
      BY <1>F, <1>L, <1>S, <2>1, <3>1, <3>2 DEF listVars
  <2> QED
    BY <2>2, <2>3
<1>4. CASE RecvMore
  <2> DEFINE v == [Idle EXCEPT !.id = mid, !.node = w.at]
  <2>1. pc["recv"] = "find" /\ w.at # None /\ w.more = "more" /\ w.at \in Packages /\ w.at \in Nodes /\ w.at \in live
    BY <1>4, SoundRecv DEF RecvMore, Found, IsLast, w
  <2>2. pkg' = [pkg EXCEPT ![w.at] = [id |-> mid, block |-> w.block + 1]]
        /\ Goto("recv", "store", v) /\ UNCHANGED <<listVars, mid, pdu, cmds, out, inbox, ub>>
    BY <1>4 DEF RecvMore, Renewed, w
  <2>3. w.block + 1 \in 0 .. LastBlock
    <3>1. PICK m \in inbox : m.block = w.block /\ m.more = w.more
      BY <1>A, <1>L, <2>1 DEF HasAck
    <3>2. w.block < LastBlock
      BY <1>0, <2>1, <3>1 DEF OnWire
    <3> QED
      BY <1>0, <3>2, Numbers
  <2>4. pkg' \in [Nodes -> [id : MsgIds, block : 0 .. LastBlock]]
    BY <1>T, <2>1, <2>2, <2>3
  <2>5. v \in Works /\ v.node = w.at /\ w.at \in 1 .. cmds
    BY <1>0, <1>T, <2>1, WorkRecords DEF Idle
  <2> HIDE DEF v
  <2> QED
    BY <1>0, <1>T, <1>L, <2>2, <2>4, <2>5, RecvGoes, SMTT(20) DEF listVars
<1>5. CASE RecvLast
  <2> DEFINE v == [w EXCEPT !.at = None]
  <2>1. pc["recv"] = "find" /\ Goto("recv", "del", v) /\ UNCHANGED <<listVars, pkg, mid, pdu, cmds, out, inbox, ub>>
    BY <1>5 DEF RecvLast, Found, At, w
  <2>2. v \in Works /\ HasAck(v)
    BY <1>0, <1>A, <1>L, <2>1 DEF Links
  <2> HIDE DEF v
  <2> QED
    BY <1>F, <1>L, <1>S, <2>1, <2>2 DEF listVars
<1>6. CASE DelFirst
  <2> DEFINE v == [w EXCEPT !.node = head]
             x == [w EXCEPT !.at = head]
  <2>1. pc["recv"] = "del" /\ UNCHANGED <<listVars, pkg, mid, pdu, cmds, out, inbox, ub>>
    BY <1>6 DEF DelFirst, At
  <2>2. \/ Goto("recv", "idle", Idle)
        \/ head # None /\ (Goto("recv", "delhead", v) \/ Goto("recv", "walk", x))
    BY <1>6 DEF DelFirst, Rest, w
  <2>3. v \in Works /\ v.node = head /\ HasAck(v) /\ x \in Works /\ x.at = head /\ HasAck(x)
    BY <1>0, <1>A, <1>T, <1>L, <2>1
  <2>4. head # None => head \in Nodes
    BY <1>T DEF Links
  <2> HIDE DEF v, x
  <2>5. CASE Goto("recv", "idle", Idle)
    BY <1>I, <2>1, <2>5 DEF listVars
  <2>6. CASE head # None /\ Goto("recv", "delhead", v)
    BY <1>F, <1>L, <1>S, <2>1, <2>3, <2>4, <2>6 DEF listVars
  <2>7. CASE head # None /\ Goto("recv", "walk", x)
    BY <1>F, <1>L, <1>S, <2>1, <2>3, <2>4, <2>7 DEF listVars
  <2> QED
    BY <2>2, <2>5, <2>6, <2>7
<1>7. CASE DelHead
  <2>1. pc["recv"] = "delhead" /\ head' = next[w.node] /\ Goto("recv", "free", w)
        /\ UNCHANGED <<tail, next, live, pkg, mid, pdu, cmds, out, inbox, ub>>
    BY <1>7 DEF DelHead, At, w
  <2>2. w.node \in Nodes /\ next[w.node] \in Links /\ next[w.node] <= cmds
    BY <1>0, <1>7, SoundRecv DEF DelHead, w
  <2>3. HasAck(w)
    BY <1>A, <1>L, <2>1
  <2> QED
    BY <1>0, <1>F, <1>L, <1>S, <2>1, <2>2, <2>3
<1>8. CASE Walk
  <2> DEFINE n == next[w.at]
             v == [w EXCEPT !.node = n]
             x == [w EXCEPT !.at = n]
  <2>1. pc["recv"] = "walk" /\ UNCHANGED <<listVars, pkg, mid, pdu, cmds, out, inbox, ub>> /\ w.at \in Nodes
        /\ (n # None => n \in Nodes)
    BY <1>8, SoundRecv DEF Walk, At, w
  <2>2. \/ Goto("recv", "idle", Idle)
        \/ n # None /\ (Goto("recv", "deltail", v) \/ Goto("recv", "walk", x))
    BY <1>8 DEF Walk, Rest, w
  <2>3. CASE Goto("recv", "idle", Idle)
    BY <1>I, <2>1, <2>3 DEF listVars
  <2>4. CASE n # None /\ (Goto("recv", "deltail", v) \/ Goto("recv", "walk", x))
    <3>1. n \in Links
      BY <2>1, <2>4 DEF Links
    <3>2. v \in Works /\ v.node = n /\ v.at = w.at /\ HasAck(v) /\ x \in Works /\ x.at = n /\ HasAck(x)
      BY <1>0, <1>A, <1>L, <2>1, <3>1
    <3> HIDE DEF v, x, n
    <3>3. CASE Goto("recv", "deltail", v)
      BY <1>F, <1>L, <1>S, <2>1, <2>4, <3>2, <3>3 DEF listVars
    <3>4. CASE Goto("recv", "walk", x)
      BY <1>F, <1>L, <1>S, <2>1, <2>4, <3>2, <3>4 DEF listVars
    <3> QED
      BY <2>4, <3>3, <3>4
  <2> QED
    BY <2>2, <2>3, <2>4
<1>9. CASE DelTail
  <2>1. pc["recv"] = "deltail" /\ tail' \in {tail, w.at} /\ Goto("recv", "unlink", w)
        /\ UNCHANGED <<head, next, live, pkg, mid, pdu, cmds, out, inbox, ub>>
    BY <1>9 DEF DelTail, TailAfter, At, w
  <2>2. w.node \in Nodes /\ w.at \in Nodes /\ HasAck(w)
    BY <1>0, <1>A, <1>L, <2>1 DEF Placed, w
  <2> QED
    BY <1>0, <1>F, <1>L, <1>S, <2>1, <2>2
<1>10. CASE Unlink
  <2>1. pc["recv"] = "unlink" /\ next' = [next EXCEPT ![w.at] = next[w.node]] /\ Goto("recv", "free", w)
        /\ UNCHANGED <<head, tail, live, pkg, mid, pdu, cmds, out, inbox, ub>>
    BY <1>10 DEF Unlink, At, w
  <2>2. w.node \in Nodes /\ w.at \in Nodes /\ next[w.node] \in Links /\ next[w.at] # Raw
    BY <1>10, SoundRecv, Numbers DEF Unlink, w
  <2>3. HasAck(w)
    BY <1>A, <1>L, <2>1
  <2>4. next' \in [Nodes -> Links \cup {Raw}] /\ \A n \in Nodes : next'[n] <= cmds /\ (next[n] = Raw => next'[n] = Raw)
    BY <1>F, <2>1, <2>2
  <2> QED
    BY <1>F, <1>L, <1>S, <2>1, <2>2, <2>3, <2>4, <1>0
<1>11. CASE Free
  BY <1>I, <1>11 DEF Free, Rest
<1> QED
  BY <1>1, <1>2, <1>3, <1>4, <1>5, <1>6, <1>7, <1>8, <1>9, <1>10, <1>11 DEF Delete

-----------------------------------------------------------------------------
(* The shape of the list, one statement of either thread at a time.          *)

LEMMA Linking ==
  ASSUME Base
  PROVE  /\ Linked \in SUBSET Nat /\ None \notin Linked /\ Linked \subseteq live /\ Linked \subseteq Nodes
         /\ Kept \subseteq Linked /\ \A q \in Linked : q \in Nat /\ 1 <= q /\ q <= cmds
         /\ cmds \in Nat /\ cmds <= MaxCmds
<1>1. live \subseteq 1 .. cmds /\ cmds \in Nat /\ cmds <= MaxCmds
  BY Known
<1>2. Linked \subseteq live /\ Kept \subseteq Linked
  BY DEF Linked, Kept
<1> QED
  BY <1>1, <1>2, Numbers DEF None

\* A step of the main thread outside the statements that write the list.
LEMMA MainQuiet ==
  ASSUME Shape, UNCHANGED listVars, pc'["recv"] = pc["recv"], work'["recv"] = work["recv"],
         pc["main"] \notin {"inithead", "tailhead", "init", "movetail"},
         pc'["main"] \notin {"hang", "inithead", "tailhead", "init", "movetail"},
         Appending' => Appending
  PROVE  Shape'
<1>1. /\ Linked' = Linked /\ Fresh = {} /\ Fresh' = {} /\ Kept' = Kept /\ ~First /\ ~First'
      /\ UNCHANGED <<head, tail, next, live>>
  BY DEF Linked, Fresh, Kept, Added, Leaves, First, listVars
<1>2. Chained' /\ TailLast'
  BY <1>1 DEF Shape, Chained, TailLast, IsNext
<1>3. Adding'
  BY <1>1 DEF Shape, Adding
<1>4. Deleting'
  BY <1>1 DEF Shape, Deleting
<1> QED
  BY <1>2, <1>3, <1>4 DEF Shape

\* A step of the receiving thread outside its deletes.
LEMMA RecvQuiet ==
  ASSUME Shape, UNCHANGED listVars, pc'["main"] = pc["main"], work'["main"] = work["main"],
         pc["recv"] \notin EndPcs, pc'["recv"] \notin EndPcs
  PROVE  Shape'
<1>1. /\ Linked' = Linked /\ Fresh' = Fresh /\ Kept' = Kept /\ (First' <=> First) /\ (Appending' <=> Appending)
      /\ UNCHANGED <<head, tail, next, live>>
  BY DEF Linked, Fresh, Kept, Added, Leaves, First, listVars, EndPcs, Appending
<1>2. Chained' /\ (~First' => TailLast')
  BY <1>1 DEF Shape, Chained, TailLast, IsNext
<1>3. Adding'
  BY <1>1 DEF Shape, Adding
<1>4. Deleting'
  BY <1>1 DEF Deleting, EndPcs
<1> QED
  BY <1>2, <1>3, <1>4 DEF Shape

\* The first package of an empty list, or the walk to the end begins.
LEMMA TestHeadShape ==
  ASSUME Base, Base', Shape, ~Spoiling', TestHead PROVE Shape'
<1> DEFINE w == work["main"]
           n == w.node
           v == work["recv"].node
<1>0. /\ pc["main"] = "test" /\ n = cmds /\ cmds \in Nodes /\ cmds \notin live /\ next[cmds] = Raw
      /\ UNCHANGED <<tail, next>> /\ n \in Nat /\ n >= 1 /\ n # None
  BY Numbers DEF TestHead, At, Base, Placed, BareAdd, None
<1>1. /\ Linked \in SUBSET Nat /\ None \notin Linked /\ Linked \subseteq live
      /\ \A q \in Linked : q \in Nat /\ q <= n
  BY <1>0, Linking
<1>F. Fresh = {} /\ Added = {} /\ ~First /\ Kept = Linked \ Leaves
  BY <1>0 DEF Fresh, Added, First, Kept
<1>2. CASE head = None
  <2>1. head' = n /\ live' = live \cup {n} /\ Goto("main", "inithead", w)
    BY <1>0, <1>2 DEF TestHead
  <2>2. /\ pc'["main"] = "inithead" /\ work'["main"] = w /\ pc'["recv"] = pc["recv"] /\ work'["recv"] = work["recv"]
    BY <2>1, Known, Gone
  <2>3. Linked = {}
    BY <1>1, <1>2, Numbers DEF Shape, Chained, IsNext, None
  <2>4. pc["recv"] \notin {"delhead", "deltail", "unlink"} /\ (pc["recv"] = "free" => v \in live /\ v # n)
    BY <1>0, <2>3 DEF Shape, Deleting
  <2>5. Linked' = {n} /\ Fresh' = {n} /\ First' /\ ~Appending'
    BY <2>1, <2>2, <2>3, <2>4 DEF Linked, Fresh, First, Appending
  <2>6. Chained'
    BY <1>0, <2>1, <2>5 DEF Chained, IsNext
  <2>7. Adding' /\ Deleting'
    BY <2>1, <2>2, <2>4, <2>5 DEF Adding, Deleting
  <2> QED
    BY <2>5, <2>6, <2>7 DEF Shape
<1>3. CASE head # None
  <2>1. UNCHANGED <<head, live>> /\ Goto("main", "scan", [w EXCEPT !.at = head])
    BY <1>3 DEF TestHead
  <2>2. /\ pc'["main"] = "scan" /\ pc'["recv"] = pc["recv"] /\ work'["recv"] = work["recv"]
    BY <2>1, Known, Gone
  <2>3. Linked' = Linked /\ Fresh' = {} /\ ~First' /\ Kept' = Kept /\ Appending'
    BY <1>F, <2>1, <2>2 DEF Linked, Fresh, First, Kept, Added, Leaves, Appending
  <2>4. Chained' /\ TailLast'
    BY <1>0, <1>F, <2>1, <2>3 DEF Shape, Chained, TailLast, IsNext
  <2>5. pc["recv"] \in {"delhead", "deltail", "unlink"} => v < tail /\ Kept # {}
    <3> SUFFICES ASSUME pc["recv"] \in {"delhead", "deltail", "unlink"} PROVE v < tail /\ Kept # {}
      OBVIOUS
    <3>1. tail # v /\ next[v] # None
      BY <1>0, <2>2, <2>3 DEF Spoiling
    <3>2. v \in Linked /\ next[v] # Raw
      BY DEF Shape, Deleting
    <3>3. IsNext(next[v], v, Linked)
      BY <1>F, <3>2 DEF Shape, Chained
    <3>4. next[v] \in Linked /\ next[v] > v
      BY <3>1, <3>3 DEF IsNext
    <3>n. v \in Nat /\ next[v] \in Nat /\ next[v] # v /\ Kept \subseteq Nat
      <4>1. v \in Nat /\ next[v] \in Nat
        BY <1>1, <3>2, <3>4
      <4>2. next[v] # v
        BY <3>4, <4>1
      <4>3. Kept \subseteq Nat
        BY <1>1, <1>F
      <4> QED
        BY <4>1, <4>2, <4>3
    <3>5. next[v] \in Kept
      BY <1>F, <3>4, <3>n DEF Leaves
    <3>6. tail \in Kept /\ next[v] <= tail
      BY <1>F, <3>5 DEF Shape, TailLast
    <3> QED
      BY <3>4, <3>5, <3>6, <3>n
  <2>6. Kept # {}
    <3>1. head \in Linked
      BY <1>3 DEF Shape, Chained, IsNext
    <3>2. CASE pc["recv"] = "unlink"
      BY <2>5, <3>2
    <3>3. CASE pc["recv"] # "unlink"
      BY <1>F, <3>1, <3>3 DEF Leaves
    <3> QED
      BY <3>2, <3>3
  <2>7. Adding'
    BY <2>2, <2>3, <2>6 DEF Adding
  <2>8. Deleting'
    BY <1>0, <2>1, <2>2, <2>3, <2>5 DEF Shape, Deleting
  <2> QED
    BY <2>3, <2>4, <2>7, <2>8 DEF Shape
<1> QED
  BY <1>2, <1>3

LEMMA StillShape ==
  ASSUME Shape, UNCHANGED <<listVars, pc, work>> PROVE Shape'
<1>1. UNCHANGED <<head, tail, next, live>>
  BY DEF listVars
<1>2. /\ Linked' = Linked /\ Fresh' = Fresh /\ Kept' = Kept /\ (First' <=> First) /\ (Appending' <=> Appending)
  BY <1>1 DEF Linked, Fresh, Kept, Added, Leaves, First, Appending
<1>3. Chained' /\ (~First' => TailLast')
  BY <1>1, <1>2 DEF Shape, Chained, TailLast, IsNext
<1>4. Adding' /\ Deleting'
  BY <1>1, <1>2 DEF Shape, Adding, Deleting
<1> QED
  BY <1>3, <1>4 DEF Shape

LEMMA InitHeadShape ==
  ASSUME Base, Base', Shape, InitHead PROVE Shape'
<1> DEFINE w == work["main"]
           n == w.node
<1>0. /\ pc["main"] = "inithead" /\ n = cmds /\ next' = [next EXCEPT ![head] = None]
      /\ Goto("main", "tailhead", w) /\ UNCHANGED <<head, tail, live>> /\ head = n /\ First
      /\ \A q \in Linked : q = n
  BY DEF InitHead, Initialised, At, Base, Placed, Shape, Adding, First
<1>1. /\ pc'["main"] = "tailhead" /\ work'["main"] = w /\ pc'["recv"] = pc["recv"] /\ work'["recv"] = work["recv"]
  BY <1>0, Known, Gone
<1>2. head \in Linked /\ Linked = {n} /\ n \in Nodes /\ n \in Nat
  BY <1>0, Linking, Numbers DEF Shape, Chained, IsNext, Base, Placed
<1>3. Linked' = {n} /\ Fresh' = {} /\ First' /\ ~Appending'
  BY <1>0, <1>1, <1>2 DEF Linked, Fresh, First, Appending
<1>4. next'[n] = None /\ next \in [Nodes -> Links \cup {Raw}] /\ next[n] = Raw
  BY <1>0, <1>2, Types, Numbers DEF Base, Placed
<1>5. pc["recv"] \notin {"delhead", "deltail", "unlink"}
  <2>1. pc["recv"] \in {"delhead", "deltail", "unlink"} => work["recv"].node \in Linked /\ next[work["recv"].node] # Raw
    BY DEF Shape, Deleting
  <2>2. \A q \in Linked : q = n /\ next[q] = Raw
    BY <1>2, <1>4
  <2> QED
    BY <2>1, <2>2
<1>6. Chained'
  <2>1. IsNext(head, 0, {n}) /\ IsNext(None, n, {n})
    BY <1>2 DEF Shape, Chained, IsNext
  <2>2. next'[n] = None /\ None # Raw
    BY <1>4, Numbers DEF Links
  <2> QED
    BY <1>0, <1>3, <2>1, <2>2 DEF Chained
<1>7. Adding' /\ Deleting'
  BY <1>0, <1>1, <1>3, <1>5 DEF Shape, Adding, Deleting
<1> QED
  BY <1>3, <1>6, <1>7 DEF Shape

LEMMA TailHeadShape ==
  ASSUME Base, Base', Shape, TailHead PROVE Shape'
<1> DEFINE n == work["main"].node
<1>0. /\ pc["main"] = "tailhead" /\ n = cmds /\ n \in Nodes /\ tail' = head /\ UNCHANGED <<head, next, live>>
      /\ Returns(head) /\ Linked \subseteq {n} /\ Fresh = {}
  BY DEF TailHead, At, Base, Placed, Shape, Adding, First, Fresh
<1>1. pc'["main"] \in {"idle", "count"} /\ pc'["recv"] = pc["recv"] /\ work'["recv"] = work["recv"]
  BY <1>0, Known, Gone DEF Returns, Rest
<1>2. /\ Linked' = Linked /\ Fresh' = {} /\ Added' = {} /\ ~First' /\ ~Appending'
  BY <1>0, <1>1 DEF Linked, Fresh, Added, First, Appending
<1>3. Chained'
  BY <1>0, <1>2 DEF Shape, Chained, IsNext
<1>4. n \in Linked => head = n
  BY <1>0, Numbers DEF Shape, Chained, IsNext, None
<1>5. TailLast'
  <2>1. Kept' \subseteq Linked
    BY <1>2 DEF Kept
  <2>2. n \in Nat
    BY <1>0, Numbers
  <2> QED
    BY <1>0, <1>4, <2>1, <2>2 DEF TailLast
<1>6. Adding' /\ Deleting'
  BY <1>0, <1>1, <1>2 DEF Shape, Adding, Deleting
<1> QED
  BY <1>3, <1>5, <1>6 DEF Shape

LEMMA LinkShape ==
  ASSUME Base, Base', Shape, Link PROVE Shape'
<1>0. /\ pc["main"] = "link" /\ UNCHANGED <<head, tail, next, live>>
      /\ Goto("main", "hang", [work["main"] EXCEPT !.at = tail])
  BY DEF Link, At, listVars
<1>1. /\ pc'["main"] = "hang" /\ work'["main"] = [work["main"] EXCEPT !.at = tail]
      /\ pc'["recv"] = pc["recv"] /\ work'["recv"] = work["recv"]
  BY <1>0, Known, Gone
<1>2. work'["main"].at = tail
  BY <1>1, Known DEF Works
<1>3. /\ Linked' = Linked /\ Fresh' = {} /\ Fresh = {} /\ Kept' = Kept /\ ~First' /\ ~First /\ Appending
  BY <1>0, <1>1 DEF Linked, Fresh, Kept, Added, Leaves, First, Appending
<1>4. Chained' /\ TailLast'
  BY <1>0, <1>3 DEF Shape, Chained, TailLast, IsNext
<1>5. Adding' /\ Deleting'
  BY <1>0, <1>1, <1>2, <1>3 DEF Shape, Adding, Deleting
<1> QED
  BY <1>3, <1>4, <1>5 DEF Shape

\* What is in front of the package being appended.
LEMMA AtTheTail ==
  ASSUME Base, Shape, Appending
  PROVE  /\ tail \in Kept /\ tail \in Linked /\ tail \in Nodes /\ tail \in Nat /\ ~First
         /\ \A q \in Linked \ Added : q <= tail
         /\ pc["recv"] \in {"delhead", "deltail", "unlink"} =>
              work["recv"].node \in Linked /\ work["recv"].node < tail /\ next[work["recv"].node] # Raw
         /\ work["main"].node = cmds /\ cmds \in Nodes /\ tail < cmds
         /\ pc["main"] \in {"init", "movetail"} =>
              Linked = (Linked \ Added) \cup {cmds} /\ cmds \in Linked /\ next[tail] = cmds /\ Added = {cmds}
<1>1. ~First /\ Kept # {}
  BY DEF Appending, First, Shape, Adding
<1>2. tail \in Kept /\ \A q \in Kept : q <= tail
  BY <1>1 DEF Shape, TailLast
<1>3. tail \in Linked /\ tail \in Nodes /\ tail \in Nat /\ tail <= cmds /\ cmds \in Nat
  BY <1>2, Linking
<1>4. work["main"].node = cmds /\ cmds \in Nodes
  BY DEF Base, Placed, Appending, BareAdd
<1>5. pc["recv"] \in {"delhead", "deltail", "unlink"} =>
        work["recv"].node \in Linked /\ work["recv"].node < tail /\ next[work["recv"].node] # Raw
  BY DEF Shape, Deleting
<1>6. tail # cmds
  <2>1. CASE pc["main"] \in {"scan", "link", "hang"}
    BY <1>3, <2>1, Linking DEF Base, Placed, BareAdd
  <2>2. CASE pc["main"] \in {"init", "movetail"}
    BY <1>2, <1>4, <2>2 DEF Kept, Added
  <2> QED
    BY <2>1, <2>2 DEF Appending
<1>7. tail < cmds
  BY <1>3, <1>6
<1>8. \A q \in Linked \ Added : q <= tail
  <2> SUFFICES ASSUME NEW q \in Linked \ Added PROVE q <= tail
    OBVIOUS
  <2>1. CASE q \in Kept
    BY <1>2, <2>1
  <2>2. CASE q \notin Kept
    <3>1. pc["recv"] = "unlink" /\ q = work["recv"].node
      BY <2>2 DEF Kept, Leaves
    <3>2. q < tail /\ q \in Nat
      BY <1>5, <3>1, Linking
    <3> QED
      BY <1>3, <3>2
  <2> QED
    BY <2>1, <2>2
<1>9. ASSUME pc["main"] \in {"init", "movetail"}
      PROVE  Linked = (Linked \ Added) \cup {cmds} /\ cmds \in Linked /\ next[tail] = cmds /\ Added = {cmds}
  <2>1. Added = {cmds} /\ cmds \in Linked
    BY <1>4, <1>9 DEF Added, Shape, Adding
  <2>2. Linked = (Linked \ Added) \cup {cmds}
    BY <2>1
  <2>3. tail \in Linked \ Fresh
    BY <1>3, <1>4, <1>6 DEF Fresh
  <2>4. IsNext(next[tail], tail, Linked)
    BY <2>3 DEF Shape, Chained
  <2>5. next[tail] = cmds
    <3>1. next[tail] # None
      <4>1. None \notin Linked /\ \A q \in Linked : q \in Nat
        BY Linking
      <4> QED
        BY <1>3, <1>7, <2>1, <2>4, <4>1 DEF IsNext
    <3>2. next[tail] \in Linked /\ next[tail] > tail /\ next[tail] \in Nat
      BY <2>4, <3>1, Linking DEF IsNext
    <3>3. next[tail] \notin Linked \ Added
      BY <1>3, <1>8, <3>2
    <3> QED
      BY <2>1, <3>2, <3>3
  <2> QED
    BY <2>1, <2>2, <2>5
<1> QED
  BY <1>1, <1>2, <1>3, <1>4, <1>5, <1>7, <1>8, <1>9

\* The new package is hung on the tail,
LEMMA HangShape ==
  ASSUME Base, Base', Shape, Hang PROVE Shape'
<1> DEFINE w == work["main"]
<1>0. /\ pc["main"] = "hang" /\ w.at = tail /\ Appending
      /\ next' = [next EXCEPT ![w.at] = w.node] /\ live' = live \cup {w.node}
      /\ Goto("main", "init", [w EXCEPT !.at = None]) /\ UNCHANGED <<head, tail>>
  BY DEF Hang, At, Shape, Adding, Appending
<1>1. /\ tail \in Kept /\ tail \in Linked /\ tail \in Nodes /\ tail \in Nat
      /\ w.node = cmds /\ cmds \in Nodes /\ cmds \in Nat /\ tail < cmds /\ ~First
      /\ pc["recv"] \in {"delhead", "deltail", "unlink"} => work["recv"].node < tail /\ next[work["recv"].node] # Raw
      /\ Linked \in SUBSET Nat /\ None \notin Linked
      /\ \A q \in Linked : q \in Nat /\ q \in Nodes
  BY <1>0, AtTheTail, Linking
<1>2. cmds \notin live /\ cmds \notin Linked /\ next[cmds] = Raw /\ next \in [Nodes -> Links \cup {Raw}]
  BY <1>0, Linking, Types DEF Base, Placed, BareAdd
<1>3. /\ pc'["main"] = "init" /\ work'["main"].node = cmds /\ pc'["recv"] = pc["recv"] /\ work'["recv"] = work["recv"]
  <2>1. [w EXCEPT !.at = None].node = cmds
    BY <1>1, Known DEF Works
  <2> QED
    BY <1>0, <2>1, Known, Gone
<1>4. pc["recv"] = "free" => work["recv"].node \in live /\ work["recv"].node # cmds
  BY <1>2 DEF Shape, Deleting
<1>5. /\ Linked' = Linked \cup {cmds} /\ Fresh = {} /\ Added = {} /\ Fresh' = {cmds} /\ Added' = {cmds} /\ ~First'
      /\ Leaves' = Leaves
  BY <1>0, <1>1, <1>3, <1>4 DEF Linked, Fresh, Added, First, Leaves
<1>6. Kept' = Kept
  BY <1>2, <1>5 DEF Kept
<1>7. \A q \in Linked : q <= tail
  BY <1>0, <1>5, AtTheTail
<1>8. \A q \in Linked : q < cmds
  BY <1>1, <1>7
<1>9. Chained'
  <2>1. IsNext(head, 0, Linked) /\ head \in Linked
    BY <1>1, HeadLeast DEF Shape, Chained
  <2>2. IsNext(head, 0, Linked \cup {cmds})
    BY <1>1, <1>8, <2>1, NextBeforeNew
  <2>3. ASSUME NEW p \in Linked PROVE next'[p] # Raw /\ IsNext(next'[p], p, Linked \cup {cmds})
    <3>1. CASE p = tail
      <4>1. next'[p] = cmds /\ cmds # Raw
        BY <1>0, <1>1, <1>2, <3>1, Numbers
      <4>2. IsNext(cmds, tail, Linked \cup {cmds})
        BY <1>1, <1>7, NewLast
      <4> QED
        BY <3>1, <4>1, <4>2
    <3>2. CASE p # tail
      <4>1. next'[p] = next[p] /\ next[p] # Raw /\ IsNext(next[p], p, Linked)
        BY <1>0, <1>1, <1>2, <1>5, <2>3, <3>2 DEF Shape, Chained
      <4>2. p < tail /\ p \in Nat
        BY <1>1, <1>7, <2>3, <3>2
      <4>3. next[p] \in Linked
        BY <1>1, <4>1, <4>2 DEF IsNext
      <4>4. IsNext(next[p], p, Linked \cup {cmds})
        BY <1>1, <1>8, <4>1, <4>2, <4>3, NextBeforeNew
      <4> QED
        BY <4>1, <4>4
    <3> QED
      BY <3>1, <3>2
  <2> QED
    BY <1>0, <1>5, <2>2, <2>3 DEF Chained
<1>10. TailLast'
  BY <1>0, <1>1, <1>6 DEF Shape, TailLast
<1>11. Adding'
  BY <1>1, <1>3, <1>5, <1>6 DEF Adding
<1>12. Deleting'
  <2>1. \A q \in Linked : q # tail => next'[q] = next[q]
    BY <1>0, <1>1, <1>2
  <2>2. pc["recv"] \in {"deltail", "unlink"} => work["recv"].at # tail /\ work["recv"].node # tail
    <3> SUFFICES ASSUME pc["recv"] \in {"deltail", "unlink"} PROVE work["recv"].at # tail /\ work["recv"].node # tail
      OBVIOUS
    <3>1. /\ work["recv"].node \in Linked /\ work["recv"].at \in Linked /\ next[work["recv"].at] = work["recv"].node
      BY DEF Shape, Deleting
    <3>2. IsNext(work["recv"].node, work["recv"].at, Linked)
      BY <1>5, <3>1 DEF Shape, Chained
    <3>3. work["recv"].at < work["recv"].node
      BY <1>1, <3>1, <3>2 DEF IsNext
    <3>4. work["recv"].node < tail /\ work["recv"].node \in Nat /\ work["recv"].at \in Nat
      BY <1>1, <3>1
    <3> QED
      BY <1>1, <3>3, <3>4
  <2>3. pc["recv"] = "delhead" => work["recv"].node # tail /\ work["recv"].node \in Linked
    <3> SUFFICES ASSUME pc["recv"] = "delhead" PROVE work["recv"].node # tail /\ work["recv"].node \in Linked
      OBVIOUS
    <3>1. work["recv"].node \in Linked
      BY DEF Shape, Deleting
    <3> QED
      BY <1>1, <3>1
  <2>4. /\ pc["recv"] = "delhead" => work["recv"].node = head /\ work["recv"].node \in Linked /\ next[work["recv"].node] # Raw
        /\ pc["recv"] \in {"deltail", "unlink"} =>
             /\ work["recv"].node \in Linked /\ work["recv"].at \in Linked
             /\ next[work["recv"].at] = work["recv"].node /\ next[work["recv"].node] # Raw
        /\ pc["recv"] = "free" => work["recv"].node \in live
    BY DEF Shape, Deleting
  <2> QED
    BY <1>0, <1>1, <1>3, <1>5, <2>1, <2>2, <2>3, <2>4 DEF Deleting
<1> QED
  BY <1>9, <1>10, <1>11, <1>12 DEF Shape

\* initialised,
LEMMA InitNextShape ==
  ASSUME Base, Base', Shape, InitNext PROVE Shape'
<1> DEFINE w == work["main"]
<1>0. /\ pc["main"] = "init" /\ Appending /\ next' = [next EXCEPT ![next[tail]] = None]
      /\ Goto("main", "movetail", w) /\ UNCHANGED <<head, tail, live>>
  BY DEF InitNext, Initialised, At, Appending
<1>1. /\ w.node = cmds /\ cmds \in Nodes /\ cmds \in Linked /\ next[tail] = cmds /\ Added = {cmds} /\ ~First
      /\ \A q \in Linked : q \in Nat /\ q \in Nodes /\ q <= cmds
  BY <1>0, AtTheTail, Linking
<1>2. /\ pc'["main"] = "movetail" /\ work'["main"] = w /\ pc'["recv"] = pc["recv"] /\ work'["recv"] = work["recv"]
  BY <1>0, Known, Gone
<1>3. /\ Linked' = Linked /\ Fresh = {cmds} /\ Fresh' = {} /\ Added' = {cmds} /\ Kept' = Kept /\ ~First'
      /\ (Appending' <=> Appending)
  BY <1>0, <1>1, <1>2 DEF Linked, Fresh, Added, Kept, Leaves, First, Appending
<1>4. /\ next'[cmds] = None /\ \A q \in Linked : q # cmds => next'[q] = next[q]
      /\ next[cmds] = Raw /\ None # Raw
  BY <1>0, <1>1, Types, Numbers DEF Base, Placed, Links
<1>5. Chained'
  <2>1. IsNext(None, cmds, Linked)
    BY <1>1 DEF IsNext
  <2>2. ASSUME NEW p \in Linked PROVE next'[p] # Raw /\ IsNext(next'[p], p, Linked)
    BY <1>3, <1>4, <2>1 DEF Shape, Chained
  <2> QED
    BY <1>0, <1>3, <2>2 DEF Shape, Chained
<1>6. TailLast'
  BY <1>0, <1>1, <1>3 DEF Shape, TailLast
<1>7. Adding'
  BY <1>0, <1>1, <1>2, <1>3 DEF Shape, Adding
<1>8. Deleting'
  <2>1. /\ pc["recv"] = "delhead" =>
             work["recv"].node = head /\ work["recv"].node \in Linked /\ next[work["recv"].node] # Raw
        /\ pc["recv"] \in {"deltail", "unlink"} =>
             /\ work["recv"].node \in Linked /\ work["recv"].at \in Linked
             /\ next[work["recv"].at] = work["recv"].node /\ next[work["recv"].node] # Raw
        /\ pc["recv"] = "free" => work["recv"].node \in live
        /\ pc["recv"] \in {"delhead", "deltail", "unlink"} => work["recv"].node < tail
    BY <1>0 DEF Shape, Deleting
  <2>2. pc["recv"] \in {"delhead", "deltail", "unlink"} => work["recv"].node # cmds
    BY <1>4, <2>1
  <2>3. pc["recv"] \in {"deltail", "unlink"} => work["recv"].at # cmds
    BY <1>1, <1>4, <2>1, Numbers
  <2> QED
    BY <1>0, <1>2, <1>3, <1>4, <2>1, <2>2, <2>3 DEF Deleting
<1> QED
  BY <1>5, <1>6, <1>7, <1>8 DEF Shape

\* and becomes the tail.
LEMMA MoveTailShape ==
  ASSUME Base, Base', Shape, MoveTail PROVE Shape'
<1>0. /\ pc["main"] = "movetail" /\ Appending /\ tail' = next[tail] /\ Returns(next[tail])
      /\ UNCHANGED <<head, next, live>>
  BY DEF MoveTail, At, Appending
<1>1. /\ cmds \in Nodes /\ cmds \in Linked /\ next[tail] = cmds /\ Added = {cmds} /\ ~First /\ tail < cmds /\ tail \in Nat
      /\ pc["recv"] \in {"delhead", "deltail", "unlink"} => work["recv"].node \in Linked /\ work["recv"].node < tail
      /\ \A q \in Linked : q \in Nat /\ q <= cmds
  BY <1>0, AtTheTail, Linking
<1>2. /\ pc'["main"] \in {"idle", "count"} /\ pc'["recv"] = pc["recv"] /\ work'["recv"] = work["recv"]
  BY <1>0, Known, Gone DEF Returns, Rest
<1>3. /\ Linked' = Linked /\ Fresh' = {} /\ Fresh = {} /\ Added' = {} /\ ~First' /\ ~Appending' /\ Leaves' = Leaves
  BY <1>0, <1>2 DEF Linked, Fresh, Added, Leaves, First, Appending
<1>4. Chained'
  BY <1>0, <1>3 DEF Shape, Chained, IsNext
<1>5. cmds \notin Leaves
  <2>1. pc["recv"] = "unlink" => work["recv"].node # cmds
    BY <1>1
  <2> QED
    BY <2>1 DEF Leaves
<1>6. TailLast'
  BY <1>0, <1>1, <1>3, <1>5 DEF TailLast, Kept
<1>7. Adding' /\ Deleting'
  BY <1>0, <1>2, <1>3 DEF Shape, Adding, Deleting
<1> QED
  BY <1>4, <1>6, <1>7 DEF Shape

\* A package to delete is found, at the head
LEMMA DelFirstShape ==
  ASSUME Base, Base', Shape, ~Spoiling', DelFirst PROVE Shape'
<1>0. /\ pc["recv"] = "del" /\ UNCHANGED listVars
  BY DEF DelFirst, At
<1>1. CASE Goto("recv", "idle", Idle) \/ Goto("recv", "walk", [work["recv"] EXCEPT !.at = head])
  <2>1. pc'["recv"] \in {"idle", "walk"} /\ pc'["main"] = pc["main"] /\ work'["main"] = work["main"]
    BY <1>1, Known, Gone
  <2> QED
    BY <1>0, <2>1, RecvQuiet DEF EndPcs
<1>2. CASE head # None /\ Goto("recv", "delhead", [work["recv"] EXCEPT !.node = head])
  <2>1. /\ pc'["recv"] = "delhead" /\ work'["recv"] = [work["recv"] EXCEPT !.node = head]
        /\ pc'["main"] = pc["main"] /\ work'["main"] = work["main"]
    BY <1>2, Known, Gone
  <2>2. work'["recv"].node = head
    BY <2>1, Known DEF Works
  <2>3. /\ Linked' = Linked /\ Fresh' = Fresh /\ Kept' = Kept /\ (First' <=> First) /\ (Appending' <=> Appending)
        /\ UNCHANGED <<head, tail, next, live>>
    BY <1>0, <2>1 DEF Linked, Fresh, Kept, Added, Leaves, First, listVars, Appending
  <2>4. Chained' /\ (~First' => TailLast') /\ Adding'
    BY <2>1, <2>3 DEF Shape, Chained, TailLast, IsNext, Adding
  <2>5. head \in Linked /\ next[head] # Raw
    BY <1>0, <1>2, SoundRecv DEF DelFirst, Packages, Shape, Chained, IsNext
  <2>6. Appending => head < tail
    <3> SUFFICES ASSUME Appending PROVE head < tail
      OBVIOUS
    <3>1. tail # head
      BY <2>1, <2>2, <2>3 DEF Spoiling
    <3>2. tail \in Linked
      BY AtTheTail
    <3>3. head <= tail
      BY <3>2, HeadLeast, Linking DEF Shape, Chained
    <3> QED
      BY <2>5, <3>1, <3>2, <3>3, Linking
  <2>7. Deleting'
    BY <2>1, <2>2, <2>3, <2>5, <2>6 DEF Deleting
  <2> QED
    BY <2>4, <2>7 DEF Shape
<1> QED
  BY <1>1, <1>2 DEF DelFirst, Rest

\* or further behind.
LEMMA WalkShape ==
  ASSUME Base, Base', Shape, ~Spoiling', Walk PROVE Shape'
<1> DEFINE a == work["recv"].at
           n == next[a]
<1>0. /\ pc["recv"] = "walk" /\ UNCHANGED listVars
  BY DEF Walk, At
<1>1. CASE Goto("recv", "idle", Idle) \/ Goto("recv", "walk", [work["recv"] EXCEPT !.at = n])
  <2>1. pc'["recv"] \in {"idle", "walk"} /\ pc'["main"] = pc["main"] /\ work'["main"] = work["main"]
    BY <1>1, Known, Gone
  <2> QED
    BY <1>0, <2>1, RecvQuiet DEF EndPcs
<1>2. CASE n # None /\ Goto("recv", "deltail", [work["recv"] EXCEPT !.node = n])
  <2>1. /\ pc'["recv"] = "deltail" /\ work'["recv"] = [work["recv"] EXCEPT !.node = n]
        /\ pc'["main"] = pc["main"] /\ work'["main"] = work["main"]
    BY <1>2, Known, Gone
  <2>2. work'["recv"].node = n /\ work'["recv"].at = a
    BY <2>1, Known DEF Works
  <2>3. /\ Linked' = Linked /\ Fresh' = Fresh /\ Kept' = Kept /\ (First' <=> First) /\ (Appending' <=> Appending)
        /\ UNCHANGED <<head, tail, next, live>> /\ Linked = live /\ Leaves = {}
    BY <1>0, <2>1 DEF Linked, Fresh, Kept, Added, Leaves, First, listVars, Appending
  <2>4. Chained' /\ (~First' => TailLast') /\ Adding'
    BY <2>1, <2>3 DEF Shape, Chained, TailLast, IsNext, Adding
  <2>5. a \in Linked /\ n \in Linked /\ next[n] # Raw
    BY <1>0, <1>2, <2>3, SoundRecv DEF Walk, Packages
  <2> HIDE DEF n, a
  <2>6. Appending => n < tail
    <3> SUFFICES ASSUME Appending PROVE n < tail
      OBVIOUS
    <3>1. tail # n /\ next[n] # None
      BY <2>1, <2>2, <2>3 DEF Spoiling
    <3>2. /\ tail \in Nat /\ n \in Nat /\ \A q \in Linked \ Added : q <= tail
      BY <2>5, AtTheTail, Linking
    <3>3. n \notin Added
      <4>1. CASE n \in Fresh
        BY <2>5, <4>1 DEF Fresh, Base, Placed
      <4>2. CASE n \notin Fresh
        <5>1. next[n] \in Linked /\ next[n] > n
          BY <2>5, <3>1, <4>2 DEF Shape, Chained, IsNext
        <5>2. next[n] \in Nat /\ next[n] <= cmds /\ cmds \in Nat
          BY <5>1, Linking
        <5>3. n # cmds
          BY <3>2, <5>1, <5>2
        <5> QED
          BY <5>3, AtTheTail DEF Added
      <4> QED
        BY <4>1, <4>2
    <3> QED
      BY <2>5, <3>1, <3>2, <3>3
  <2>7. Deleting'
    BY <2>1, <2>2, <2>3, <2>5, <2>6 DEF Deleting, n
  <2> QED
    BY <2>4, <2>7 DEF Shape
<1> QED
  BY <1>1, <1>2 DEF Walk, Rest

\* The head moves on,
LEMMA DelHeadShape ==
  ASSUME Base, Base', Shape, DelHead PROVE Shape'
<1> DEFINE w == work["recv"]
           v == w.node
<1>0. /\ pc["recv"] = "delhead" /\ head' = next[v] /\ Goto("recv", "free", w) /\ UNCHANGED <<tail, next, live>>
      /\ v = head /\ v \in Linked /\ next[v] # Raw /\ Linked = live /\ Leaves = {}
  BY DEF DelHead, At, Shape, Deleting, Linked, Leaves
<1>1. /\ pc'["recv"] = "free" /\ work'["recv"] = w /\ pc'["main"] = pc["main"] /\ work'["main"] = work["main"]
  BY <1>0, Known, Gone
<1>2. /\ Linked' = Linked \ {v} /\ Fresh' = Fresh /\ Added' = Added /\ Leaves' = {} /\ (First' <=> First)
      /\ (Appending' <=> Appending)
  BY <1>0, <1>1 DEF Linked, Fresh, Added, Leaves, First, Appending
<1>3. /\ Linked \in SUBSET Nat /\ None \notin Linked /\ \A q \in Linked : q \in Nat /\ q \in Nodes /\ v <= q
  BY <1>0, Linking, HeadLeast DEF Shape, Chained
<1>4. v \notin Fresh
  BY <1>0 DEF Fresh, Base, Placed
<1>5. next[v] \in Nat
  <2>1. next[v] \in Links
    BY <1>0, <1>3, Types DEF Base
  <2> QED
    BY <2>1, Numbers
<1> HIDE DEF w, v
<1>6. Chained'
  <2>1. IsNext(v, 0, Linked) /\ IsNext(next[v], v, Linked)
    BY <1>0, <1>4 DEF Shape, Chained
  <2>2. IsNext(next[v], 0, Linked \ {v})
    BY <1>0, <1>3, <1>5, <2>1, Unhooked
  <2>3. ASSUME NEW p \in (Linked \ {v}) \ Fresh PROVE next[p] # Raw /\ IsNext(next[p], p, Linked \ {v})
    <3>1. next[p] # Raw /\ IsNext(next[p], p, Linked)
      BY DEF Shape, Chained
    <3>2. next[p] # v
      BY <1>0, <1>3, <3>1 DEF IsNext
    <3> QED
      BY <3>1, <3>2, StillNext
  <2> QED
    BY <1>0, <1>2, <2>2, <2>3 DEF Chained
<1>7. Kept' = Kept \ {v}
  BY <1>0, <1>2 DEF Kept
<1>8. ~First' => TailLast'
  <2> SUFFICES ASSUME ~First, NEW r \in Kept, r # v PROVE tail \in Kept \ {v} /\ \A q \in Kept : q <= tail
    BY <1>0, <1>2, <1>7 DEF TailLast
  <2>1. tail \in Kept /\ \A q \in Kept : q <= tail
    BY DEF Shape, TailLast
  <2>2. v < r /\ r <= tail /\ v \in Nat /\ r \in Nat /\ tail \in Nat
    <3>1. r \in Linked /\ tail \in Linked
      BY <2>1, Linking
    <3> QED
      BY <1>0, <1>3, <2>1, <3>1
  <2> QED
    BY <2>1, <2>2
<1>9. Adding'
  <2>1. Appending => tail \in Kept \ {v} /\ v # cmds
    <3> SUFFICES ASSUME Appending PROVE tail \in Kept \ {v} /\ v # cmds
      OBVIOUS
    <3>1. tail \in Kept /\ v < tail /\ tail < cmds /\ tail \in Nat /\ cmds \in Nat /\ v \in Nat
      BY <1>0, <1>3, AtTheTail, Linking DEF v, w
    <3> QED
      BY <3>1
  <2>2. pc["main"] \in {"init", "movetail"} => work["main"].node \in Linked \ {v}
    BY <2>1, AtTheTail DEF Appending, Shape, Adding
  <2>3. pc["main"] # "inithead"
    <3>1. pc["main"] = "inithead" => v \in Fresh
      BY <1>0 DEF Shape, Adding, Fresh
    <3> QED
      BY <1>4, <3>1
  <2> QED
    BY <1>0, <1>1, <1>2, <1>7, <2>1, <2>2, <2>3 DEF Shape, Adding
<1>10. Deleting'
  BY <1>0, <1>1 DEF Deleting, v
<1> QED
  BY <1>6, <1>8, <1>9, <1>10 DEF Shape

\* or the tail moves back,
LEMMA DelTailShape ==
  ASSUME Base, Base', Shape, DelTail PROVE Shape'
<1> DEFINE w == work["recv"]
           v == w.node
           a == w.at
<1>0. /\ pc["recv"] = "deltail" /\ tail' = (IF tail = v THEN a ELSE tail) /\ Goto("recv", "unlink", w)
      /\ UNCHANGED <<head, next, live>> /\ v \in Linked /\ a \in Linked /\ next[a] = v /\ next[v] # Raw
      /\ Leaves = {}
  BY DEF DelTail, TailAfter, At, Shape, Deleting, Leaves
<1>1. /\ pc'["recv"] = "unlink" /\ work'["recv"] = w /\ pc'["main"] = pc["main"] /\ work'["main"] = work["main"]
  BY <1>0, Known, Gone
<1>2. /\ Linked' = Linked /\ Fresh' = Fresh /\ Added' = Added /\ Leaves' = {v} /\ (First' <=> First)
      /\ (Appending' <=> Appending) /\ Kept' = Kept \ {v}
  BY <1>0, <1>1 DEF Linked, Fresh, Added, Leaves, First, Appending, Kept
<1>3. /\ Linked \in SUBSET Nat /\ None \notin Linked /\ \A q \in Linked : q \in Nat
      /\ Kept \subseteq Linked
  BY Linking
<1>4. a < v /\ \A q \in Linked : q > a => v <= q
  <2>1. a \notin Fresh
    <3>1. a \in Fresh => next[a] = Raw
      BY DEF Fresh, Base, Placed
    <3>2. v # Raw
      BY <1>0, Numbers, Linking
    <3> QED
      BY <1>0, <3>1, <3>2
  <2>2. IsNext(v, a, Linked)
    BY <1>0, <2>1 DEF Shape, Chained
  <2> QED
    BY <1>0, <1>3, <2>2 DEF IsNext
<1>5. Appending => tail # v /\ tail \in Kept /\ v < tail
  <2> SUFFICES ASSUME Appending PROVE tail # v /\ tail \in Kept /\ v < tail
    OBVIOUS
  <2>1. tail \in Kept /\ v < tail
    BY <1>0, AtTheTail
  <2>2. tail \in Nat /\ v \in Nat
    BY <1>0, <1>3, <2>1
  <2> QED
    BY <2>1, <2>2
<1> HIDE DEF w, v, a
<1>6. Chained'
  BY <1>0, <1>2 DEF Shape, Chained, IsNext
<1>7. ~First' => TailLast'
  <2> SUFFICES ASSUME ~First, NEW r \in Kept, r # v PROVE tail' \in Kept \ {v} /\ \A q \in Kept \ {v} : q <= tail'
    BY <1>2 DEF TailLast
  <2>1. tail \in Kept /\ tail \in Nat /\ \A q \in Kept : q <= tail
    BY <1>3 DEF Shape, TailLast
  <2>2. CASE tail # v
    BY <1>0, <2>1, <2>2
  <2>3. CASE tail = v
    <3>1. Added = {}
      BY <1>5, <2>3 DEF Appending, Added
    <3>2. a \in Kept \ {v}
      <4>1. a \in Nat /\ v \in Nat
        BY <1>0, <1>3
      <4>2. a # v
        BY <1>4, <4>1
      <4> QED
        BY <1>0, <3>1, <4>2 DEF Kept
    <3>3. ASSUME NEW q \in Kept, q # v PROVE q <= a
      <4>1. q \in Nat /\ q <= v /\ a \in Nat /\ v \in Nat /\ q \in Linked
        BY <1>0, <1>3, <2>1, <2>3
      <4>2. ~(q > a)
        BY <1>4, <3>3, <4>1
      <4> QED
        BY <4>1, <4>2
    <3> QED
      BY <1>0, <2>3, <3>2, <3>3
  <2> QED
    BY <2>2, <2>3
<1>8. Adding'
  BY <1>0, <1>1, <1>2, <1>5 DEF Shape, Adding, Appending
<1>9. Deleting'
  BY <1>0, <1>1, <1>2, <1>5 DEF Shape, Deleting, v, a
<1> QED
  BY <1>6, <1>7, <1>8, <1>9 DEF Shape

\* the package in front gets the next one behind,
LEMMA UnlinkShape ==
  ASSUME Base, Base', Shape, Unlink PROVE Shape'
<1> DEFINE w == work["recv"]
           v == w.node
           a == w.at
<1>0. /\ pc["recv"] = "unlink" /\ next' = [next EXCEPT ![a] = next[v]] /\ Goto("recv", "free", w)
      /\ UNCHANGED <<head, tail, live>> /\ v \in Linked /\ a \in Linked /\ next[a] = v /\ next[v] # Raw
      /\ Leaves = {v} /\ Linked = live
  BY DEF Unlink, At, Shape, Deleting, Leaves, Linked
<1>1. /\ pc'["recv"] = "free" /\ work'["recv"] = w /\ pc'["main"] = pc["main"] /\ work'["main"] = work["main"]
  BY <1>0, Known, Gone
<1>2. /\ Linked' = Linked \ {v} /\ Fresh' = Fresh /\ Added' = Added /\ Leaves' = {} /\ (First' <=> First)
      /\ (Appending' <=> Appending)
  BY <1>0, <1>1 DEF Linked, Fresh, Added, Leaves, First, Appending
<1>3. /\ Linked \in SUBSET Nat /\ None \notin Linked /\ \A q \in Linked : q \in Nat /\ q \in Nodes
      /\ v \in Nat /\ a \in Nat /\ next[v] \in Nat /\ next \in [Nodes -> Links \cup {Raw}]
  <2>1. Linked \in SUBSET Nat /\ None \notin Linked /\ \A q \in Linked : q \in Nat /\ q \in Nodes
    BY Linking
  <2>2. next[v] \in Links /\ next \in [Nodes -> Links \cup {Raw}]
    BY <1>0, <2>1, Types DEF Base
  <2> QED
    BY <1>0, <2>1, <2>2, Numbers
<1>4. a \notin Fresh /\ v \notin Fresh
  <2>1. \A q \in Fresh : next[q] = Raw
    BY DEF Fresh, Base, Placed
  <2>2. v # Raw
    BY <1>0, <1>3, Numbers
  <2> QED
    BY <1>0, <2>1, <2>2
<1>5. Kept' = Kept
  BY <1>0, <1>2 DEF Kept
<1>6. Appending => v # cmds
  <2> SUFFICES ASSUME Appending PROVE v # cmds
    OBVIOUS
  <2>1. v < tail /\ tail < cmds /\ tail \in Nat /\ cmds \in Nat
    BY <1>0, AtTheTail, Linking
  <2> QED
    BY <1>3, <2>1
<1> HIDE DEF w, v, a
<1>7. Chained'
  <2>1. IsNext(v, a, Linked) /\ IsNext(next[v], v, Linked) /\ IsNext(head, 0, Linked)
    BY <1>0, <1>4 DEF Shape, Chained
  <2>2. IsNext(next[v], a, Linked \ {v})
    BY <1>0, <1>3, <2>1, Unhooked
  <2>3. head # v
    <3>1. head <= a /\ a < v
      BY <1>0, <1>3, <2>1, HeadLeast DEF IsNext
    <3> QED
      BY <1>3, <3>1
  <2>4. IsNext(head, 0, Linked \ {v})
    BY <2>1, <2>3, StillNext
  <2>5. ASSUME NEW p \in (Linked \ {v}) \ Fresh PROVE next'[p] # Raw /\ IsNext(next'[p], p, Linked \ {v})
    <3>1. CASE p = a
      BY <1>0, <1>3, <2>2, <3>1
    <3>2. CASE p # a
      <4>1. next'[p] = next[p] /\ next[p] # Raw /\ IsNext(next[p], p, Linked)
        BY <1>0, <1>3, <3>2 DEF Shape, Chained
      <4>2. next[p] # v
        BY <1>0, <1>3, <2>1, <3>2, <4>1, OneBefore
      <4> QED
        BY <4>1, <4>2, StillNext
    <3> QED
      BY <3>1, <3>2
  <2> QED
    BY <1>0, <1>2, <2>4, <2>5 DEF Chained
<1>8. ~First' => TailLast'
  BY <1>0, <1>2, <1>5 DEF Shape, TailLast
<1>9. Adding'
  <2>1. pc["main"] \in {"init", "movetail"} => work["main"].node \in Linked \ {v}
    BY <1>6, AtTheTail DEF Appending, Shape, Adding
  <2> QED
    BY <1>0, <1>1, <1>2, <1>5, <2>1 DEF Shape, Adding
<1>10. Deleting'
  BY <1>0, <1>1 DEF Deleting, v
<1> QED
  BY <1>7, <1>8, <1>9, <1>10 DEF Shape

\* and the package is freed.
LEMMA FreeShape ==
  ASSUME Base, Shape, Free PROVE Shape'
<1>0. /\ pc["recv"] = "free" /\ live' = live \ {work["recv"].node} /\ Goto("recv", "idle", Idle)
      /\ UNCHANGED <<head, tail, next>>
  BY DEF Free, At, Rest
<1>1. pc'["recv"] = "idle" /\ pc'["main"] = pc["main"] /\ work'["main"] = work["main"]
  BY <1>0, Known, Gone
<1>2. /\ Linked' = Linked /\ Fresh' = Fresh /\ Kept' = Kept /\ (First' <=> First) /\ (Appending' <=> Appending)
  BY <1>0, <1>1 DEF Linked, Fresh, Kept, Added, Leaves, First, Appending
<1>3. Chained' /\ (~First' => TailLast')
  BY <1>0, <1>2 DEF Shape, Chained, TailLast, IsNext
<1>4. Adding'
  BY <1>0, <1>1, <1>2 DEF Shape, Adding
<1>5. Deleting'
  BY <1>1 DEF Deleting
<1> QED
  BY <1>3, <1>4, <1>5 DEF Shape

LEMMA MainShape ==
  ASSUME Base, Base', Shape, ~Spoiling', Command \/ ListAdd \/ Reload \/ Build("main") PROVE Shape'
<1>1. CASE TestHead \/ InitHead \/ TailHead \/ Link \/ Hang \/ InitNext \/ MoveTail
  BY <1>1, TestHeadShape, InitHeadShape, TailHeadShape, LinkShape, HangShape, InitNextShape, MoveTailShape
<1>2. CASE Command
  <2>1. Goto("main", "test", [Idle EXCEPT !.id = mid, !.node = cmds + 1]) /\ UNCHANGED listVars /\ pc["main"] = "idle"
    BY <1>2 DEF Command, At
  <2>2. pc'["main"] = "test" /\ pc'["recv"] = pc["recv"] /\ work'["recv"] = work["recv"]
    BY <2>1, Known, Gone
  <2> QED
    BY <2>1, <2>2, MainQuiet DEF Appending
<1>3. CASE Scan
  <2>1. /\ \E v : \E l \in {"link", "idle", "scan"} : Goto("main", l, v)
        /\ UNCHANGED listVars /\ pc["main"] = "scan"
    BY <1>3 DEF Scan, At, Rest
  <2>2. pc'["main"] \in {"link", "idle", "scan"} /\ pc'["recv"] = pc["recv"] /\ work'["recv"] = work["recv"]
    BY <2>1, Known, Gone
  <2> QED
    BY <2>1, <2>2, MainQuiet DEF Appending
<1>4. CASE Reload
  <2>1. Goto("main", "store", [work["main"] EXCEPT !.id = mid]) /\ UNCHANGED listVars /\ pc["main"] = "count"
    BY <1>4 DEF Reload, At
  <2>2. pc'["main"] = "store" /\ pc'["recv"] = pc["recv"] /\ work'["recv"] = work["recv"]
    BY <2>1, Known, Gone
  <2> QED
    BY <2>1, <2>2, MainQuiet DEF Appending
<1>5. CASE Build("main") /\ ~Stray("main")
  <2>1. /\ \E l \in {"type", "body", "send", "sent", "idle", "ackbody", "acksend"}, v \in Works : Goto("main", l, v)
        /\ UNCHANGED listVars
    BY <1>5, Known, BuildEffects DEF Build, listVars
  <2>2. /\ pc'["main"] \in {"type", "body", "send", "sent", "idle", "ackbody", "acksend"}
        /\ pc'["recv"] = pc["recv"] /\ work'["recv"] = work["recv"]
    BY <2>1, Known, Gone
  <2>3. pc["main"] \in {"store", "type", "acktype", "body", "ackbody", "send", "acksend", "sent"}
    BY <1>5 DEF Build, Increment, BuildType, BuildBody, Send, Sent, At
  <2> QED
    BY <2>1, <2>2, <2>3, MainQuiet DEF Appending
<1>6. CASE Stray("main")
  BY <1>6, StillShape DEF Stray
<1> QED
  BY <1>1, <1>2, <1>3, <1>4, <1>5, <1>6 DEF ListAdd

LEMMA RecvShape ==
  ASSUME Base, Base', Shape, ~Spoiling', RecvStep PROVE Shape'
<1>1. CASE Delete
  BY <1>1, DelFirstShape, DelHeadShape, WalkShape, DelTailShape, UnlinkShape, FreeShape DEF Delete
<1>2. ASSUME UNCHANGED listVars, pc["recv"] \notin EndPcs, NEW l, l \notin EndPcs, NEW v, Goto("recv", l, v)
      PROVE  Shape'
  <2>1. pc'["recv"] = l /\ pc'["main"] = pc["main"] /\ work'["main"] = work["main"]
    BY <1>2, Known, Gone
  <2> QED
    BY <1>2, <2>1, RecvQuiet
<1>3. CASE Find \/ RecvMore \/ RecvLast
  <2>1. /\ pc["recv"] = "find" /\ UNCHANGED listVars
        /\ \E v : \E l \in {"find", "idle", "store", "del"} : Goto("recv", l, v)
    BY <1>3 DEF Find, RecvMore, RecvLast, Found, At, Rest
  <2> QED
    BY <1>2, <2>1 DEF EndPcs
<1>4. ASSUME NEW m \in inbox, RecvCon(m) \/ RecvAck(m) PROVE Shape'
  <2>1. /\ pc["recv"] = "idle" /\ UNCHANGED listVars
        /\ \E v : \E l \in {"acktype", "find"} : Goto("recv", l, v)
    BY <1>4 DEF RecvCon, RecvAck, At
  <2> QED
    BY <1>2, <2>1 DEF EndPcs
<1>5. CASE Build("recv") /\ ~Stray("recv")
  <2>1. /\ \E l \in {"type", "body", "send", "sent", "idle", "ackbody", "acksend"}, v \in Works : Goto("recv", l, v)
        /\ UNCHANGED listVars
    BY <1>5, Known, BuildEffects DEF Build, listVars
  <2>2. pc["recv"] \in {"store", "type", "acktype", "body", "ackbody", "send", "acksend", "sent"}
    BY <1>5 DEF Build, Increment, BuildType, BuildBody, Send, Sent, At
  <2> QED
    BY <1>2, <2>1, <2>2 DEF EndPcs
<1>6. CASE Stray("recv")
  BY <1>6, StillShape DEF Stray
<1> QED
  BY <1>1, <1>3, <1>4, <1>5, <1>6 DEF RecvStep, RecvWork

LEMMA InitIInv == Init => IInv
<1> SUFFICES ASSUME Init PROVE IInv
  OBVIOUS
<1>1. Base
  BY InitBase
<1>2. pc["main"] = "idle" /\ pc["recv"] = "idle"
  BY DEF Init, Threads
<1>3. Shape
  BY <1>2 DEF Init, Shape, Chained, TailLast, Adding, Deleting, Linked, Kept, Fresh, Added, Leaves, First, Appending, IsNext
<1>4. ~Spoiling
  BY <1>2 DEF Spoiling, Appending
<1> QED
  BY <1>1, <1>3, <1>4 DEF IInv, Base

LEMMA NextIInv == IInv /\ [Next]_vars => IInv'
<1> SUFFICES ASSUME IInv, [Next]_vars PROVE IInv'
  OBVIOUS
<1>1. CASE UNCHANGED vars
  <2>1. UNCHANGED <<head, tail, next, live, pkg, mid, pdu, pc, work, cmds, out, inbox, spoiled, ub>>
    BY <1>1 DEF vars, listVars
  <2>2. TypeOK' /\ Placed' /\ OnWire' /\ (Spoiling' => spoiled')
    BY <2>1 DEF IInv, TypeOK, Placed, OnWire, Spoiling, Appending
  <2>3. Shape => Shape'
    BY <2>1, StillShape DEF listVars
  <2> QED
    BY <2>1, <2>2, <2>3 DEF IInv
<1>2. CASE Next
  <2>1. spoiled' = (spoiled \/ Spoiling') /\ spoiled \in BOOLEAN /\ spoiled' \in BOOLEAN /\ Base
    BY <1>2 DEF Next, IInv, TypeOK, Base
  <2>2. Base'
    BY <1>2, <2>1, MainBase, BuildBase, RecvBase, NetBase DEF Next, MainStep, RecvStep, RecvWork, Threads
  <2>3. ~ub
    BY <1>2 DEF Next, MainStep, RecvStep, RecvWork, NetStep, Command, ListAdd, TestHead, InitHead, TailHead, Scan, Link,
       Hang, InitNext, MoveTail, Reload, Build, Increment, BuildType, BuildBody, Send, Sent, Stray, Find, Delete,
       RecvMore, RecvLast, Found, DelFirst, DelHead, Walk, DelTail, Unlink, Free, RecvCon, RecvAck, Answer, ServerCon, At
  <2>4. ASSUME ~ub', ~spoiled' PROVE Shape'
    <3>1. Shape /\ ~Spoiling'
      <4>1. ~Spoiling' /\ ~spoiled
        BY <2>1, <2>4
      <4> QED
        BY <2>3, <4>1 DEF IInv
    <3>2. CASE MainStep
      BY <2>1, <2>2, <3>1, <3>2, MainShape DEF MainStep
    <3>3. CASE RecvStep
      BY <2>1, <2>2, <3>1, <3>3, RecvShape
    <3>4. CASE NetStep
      BY <3>1, <3>4, StillShape DEF NetStep, Answer, ServerCon
    <3> QED
      BY <1>2, <3>2, <3>3, <3>4 DEF Next
  <2> QED
    BY <2>1, <2>2, <2>4 DEF IInv, Base
<1> QED
  BY <1>1, <1>2

(* However the statements of a delete fall between those of an append, when  *)
(* both are over the list is what is allocated, in order, none lost and none *)
(* that is freed left in it, and the tail is the last package: unless the    *)
(* last package was being deleted while another was hung on it.              *)
THEOREM ListKeepsShape == Spec => []ListShape
<1>1. IInv => ListShape
  <2> SUFFICES ASSUME IInv, ~ub, ~spoiled, AtRest PROVE IsList(live)
    BY DEF IInv, ListShape
  <2>1. Shape
    BY DEF IInv
  <2>2. Linked = live /\ Fresh = {} /\ Kept = live /\ ~First
    BY DEF AtRest, Appending, Linked, Fresh, Kept, Added, Leaves, First
  <2> QED
    BY <2>1, <2>2 DEF Shape, Chained, TailLast, IsList
<1> QED
  BY <1>1, InitIInv, NextIInv, PTL DEF Spec

-----------------------------------------------------------------------------
(* A single transfer.  Its blocks are asked for with the ids 1, 2, 3 ...:    *)
(* the id of a package, of a request and of an answer tells the block.  What *)
(* an acknowledgement that is built in the same PDU leaves of a request has  *)
(* the id of the server's message, which is none of them, or 0, and matches  *)
(* nothing.  A command is counted before its request is built, so that no    *)
(* answer is there while the counter is read, and read again.                *)
NoWrap == LastBlock + 1 < IdMod

Proper(d)  == d.id \in OwnIds => d.req = 1 /\ d.block = d.id - 1
Foreign(d) == d.id \notin OwnIds
Acks == {m \in inbox : m.type = "ACK"}
Counting == pc["main"] \in {"test", "inithead", "tailhead", "count", "store"}

\* No request has been built yet.
Unasked == cmds = 0 \/ Counting

WireProper == Proper(pdu) /\ \A d \in out \cup Acks : Proper(d)

WireForeign ==
  /\ Foreign(pdu) /\ \A d \in out \cup Acks : Foreign(d)
  /\ pc["recv"] \in AckPcs \cup {"idle", "find"}
  /\ pc["recv"] = "find" => work["recv"].id \notin OwnIds
  /\ pc["main"] \in {"idle", "test"} => head = None
  /\ pc["main"] \in {"inithead", "tailhead"} => head = 1

CounterAhead ==
  /\ cmds = 0 => mid = 1 /\ pc["main"] = "idle"
  /\ cmds = 1 /\ next[1] # Raw => pkg[1].id = pkg[1].block + 1
  /\ Counting => mid = 1 /\ (pc["main"] # "count" => work["main"].id = 1)
  /\ pc["main"] \in {"tailhead", "count", "store"} => next[1] # Raw /\ pkg[1].id = 1
  /\ cmds = 1 /\ ~Counting => next[1] # Raw /\
       IF pc["recv"] = "store" THEN mid = pkg[1].id /\ work["recv"].id = mid ELSE mid = Succ(pkg[1].id)
  /\ ~Appending

Ending ==
  /\ pc["recv"] \in AckPcs => work["recv"].id \notin OwnIds
  /\ pc["recv"] \in {"del", "walk"} \cup EndPcs => work["recv"].more # "more"
  /\ pc["recv"] \in EndPcs => work["recv"].node = 1 /\ pkg[1].id = work["recv"].id

TransferInv == WireProper /\ CounterAhead /\ Ending /\ (Unasked => WireForeign)

LEMMA NextId == ASSUME NoWrap, NEW i \in 1 .. LastBlock PROVE Succ(i) = i + 1
<1>1. i + 1 \in 0 .. IdMod - 1 /\ IdMod \in Nat \ {0}
  BY CoapClientAssumption DEF NoWrap
<1>2. \A x \in Nat, n \in Nat \ {0} : x < n => x % n = x
  OBVIOUS
<1> QED
  BY <1>1, <1>2 DEF Succ

LEMMA ZeroForeign == 0 \notin OwnIds
  BY CoapClientAssumption DEF OwnIds

\* Every action, for what none of them does.
LEMMA StaysDisturbed == Base /\ [Next]_vars /\ Undisturbed' => Undisturbed
<1> SUFFICES ASSUME Base, [Next]_vars, Undisturbed' PROVE Undisturbed
  OBVIOUS
<1>1. inbox \subseteq inbox' /\ cmds' \in {cmds, cmds + 1}
  <2>1. CASE MainStep
    BY <2>1 DEF MainStep, Command, ListAdd, TestHead, InitHead, TailHead, Scan, Link, Hang, InitNext, MoveTail, Reload,
       Build, Increment, BuildType, BuildBody, Send, Sent, Stray
  <2>2. CASE RecvStep
    BY <2>2 DEF RecvStep, RecvWork, Find, Delete, RecvMore, RecvLast, DelFirst, DelHead, Walk, DelTail, Unlink, Free,
       RecvCon, RecvAck, Build, Increment, BuildType, BuildBody, Send, Sent, Stray
  <2>3. CASE NetStep
    BY <2>3 DEF NetStep, Answer, ServerCon
  <2>4. CASE UNCHANGED vars
    BY <2>4 DEF vars
  <2> QED
    BY <2>1, <2>2, <2>3, <2>4 DEF Next
<1>2. cmds \in Nat
  BY Known
<1> QED
  BY <1>1, <1>2 DEF Undisturbed

LEMMA OneTransfer ==
  ASSUME Base, Undisturbed
  PROVE  /\ cmds \in {0, 1} /\ \A n \in live : n = 1 /\ cmds = 1
         /\ cmds = 1 => 1 \in Nodes /\ pkg[1].id \in MsgIds /\ pkg[1].block \in 0 .. LastBlock
         /\ \A t \in Threads : pc[t] \in BuildPcs \cup {"count"} => work[t].node = 1 /\ cmds = 1
         /\ pc["main"] \in BareAdd \cup {"inithead", "tailhead"} => work["main"].node = 1 /\ cmds = 1
         /\ head \in {0, 1} /\ (cmds = 0 => head = None)
<1>1. TypeOK /\ Placed /\ cmds \in Nat /\ cmds <= MaxCmds /\ live \subseteq 1 .. cmds
  BY Known
<1>2. cmds \in {0, 1}
  BY <1>1 DEF Undisturbed
<1>3. \A n : n \in 1 .. cmds => n = 1 /\ cmds = 1
  BY <1>2
<1>4. cmds = 1 => 1 \in Nodes
  BY <1>1, Numbers
<1>5. cmds = 1 => pkg[1].id \in MsgIds /\ pkg[1].block \in 0 .. LastBlock
  BY <1>1, <1>4 DEF TypeOK
<1>6. \A t \in Threads : pc[t] \in BuildPcs \cup {"count"} => work[t].node = 1 /\ cmds = 1
  BY <1>1, <1>3 DEF Placed
<1>7. pc["main"] \in BareAdd \cup {"inithead", "tailhead"} => work["main"].node = 1 /\ cmds = 1
  BY <1>1, <1>2, Numbers DEF Placed, None
<1>8. head \in {0, 1} /\ (cmds = 0 => head = None)
  <2>1. head \in Nat /\ head <= cmds
    BY <1>1, Types, Numbers DEF Placed
  <2> QED
    BY <1>2, <2>1 DEF None
<1> QED
  BY <1>1, <1>2, <1>3, <1>4, <1>5, <1>6, <1>7, <1>8

\* An answer with the id of the package: a request was made, and the answer is for its block.
LEMMA AnswerOfBlock ==
  ASSUME NoWrap, Base, Undisturbed, TransferInv, Found
  PROVE  /\ work["recv"].at = 1 /\ cmds = 1 /\ ~Unasked /\ work["recv"].id = pkg[1].id
         /\ work["recv"].block = pkg[1].block /\ pkg[1].id = pkg[1].block + 1 /\ pkg[1].block \in 0 .. LastBlock
         /\ work["recv"].more = "more" => work["recv"].block < LastBlock
<1> DEFINE w == work["recv"]
<1>1. pc["recv"] = "find" /\ w.at \in Packages /\ w.at \in live /\ next[w.at] # Raw /\ pkg[w.at].id = w.id
  BY SoundRecv DEF Found, Packages
<1>2. w.at = 1 /\ cmds = 1 /\ pkg[1].id = w.id
  BY <1>1, OneTransfer
<1>3. pkg[1].id = pkg[1].block + 1 /\ pkg[1].block \in 0 .. LastBlock
  BY <1>1, <1>2, OneTransfer DEF TransferInv, CounterAhead
<1>4. w.id \in OwnIds
  BY <1>2, <1>3, CoapClientAssumption DEF OwnIds
<1>5. ~Unasked
  BY <1>1, <1>4 DEF TransferInv, WireForeign
<1>6. PICK m \in inbox : m.type = "ACK" /\ m.id = w.id /\ m.block = w.block /\ m.more = w.more
  BY <1>1 DEF Base, OnWire, FindPcs
<1>7. m \in Acks
  BY <1>6 DEF Acks
<1>8. m.block = m.id - 1
  BY <1>4, <1>6, <1>7 DEF TransferInv, WireProper, Proper
<1>9. w.more = "more" => w.block < LastBlock
  BY <1>6 DEF Base, OnWire
<1>10. w.block = pkg[1].block
  <2>1. w.block = (pkg[1].block + 1) - 1 /\ pkg[1].block \in Int
    <3>1. m.id = pkg[1].block + 1
      BY <1>2, <1>3, <1>6
    <3>2. w.block = m.id - 1
      BY <1>6, <1>8
    <3>3. pkg[1].block \in Int
      BY <1>3, CoapClientAssumption
    <3> QED
      BY <3>1, <3>2, <3>3
  <2> QED
    BY <2>1
<1> QED
  BY <1>2, <1>3, <1>5, <1>9, <1>10

LEMMA InitTransfer == NoWrap /\ Init => TransferInv
<1> SUFFICES ASSUME NoWrap, Init PROVE TransferInv
  OBVIOUS
<1>1. mid = 1
  <2>1. 1 < IdMod /\ IdMod \in Nat \ {0}
    BY CoapClientAssumption DEF NoWrap
  <2>2. \A x \in Nat, n \in Nat \ {0} : x < n => x % n = x
    OBVIOUS
  <2> QED
    BY <2>1, <2>2 DEF Init
<1>2. /\ pc["main"] = "idle" /\ pc["recv"] = "idle" /\ cmds = 0 /\ head = None /\ out = {} /\ Acks = {}
  BY DEF Init, Threads, Acks
<1>3. pdu.id = 0
  BY DEF Init, Datagram
<1>4. WireProper /\ WireForeign
  BY <1>2, <1>3, ZeroForeign DEF WireProper, WireForeign, Proper, Foreign
<1>5. CounterAhead
  BY <1>1, <1>2 DEF CounterAhead, Counting, Appending
<1> QED
  BY <1>2, <1>4, <1>5 DEF TransferInv, Ending, AckPcs, EndPcs

LEMMA MainTransfer ==
  ASSUME NoWrap, Base, Undisturbed, TransferInv, Command \/ ListAdd \/ Reload, Undisturbed', Base'
  PROVE  TransferInv'
<1> DEFINE w == work["main"]
<1>0. /\ UNCHANGED <<mid, pdu, out, inbox, Acks>> /\ cmds \in {0, 1} /\ cmds' \in {0, 1}
      /\ WireProper /\ CounterAhead /\ Ending /\ (Unasked => WireForeign) /\ ~Appending
      /\ head \in {0, 1} /\ \A n \in live : n = 1
  <2>1. UNCHANGED <<mid, pdu, out, inbox>>
    BY DEF Command, ListAdd, TestHead, InitHead, TailHead, Scan, Link, Hang, InitNext, MoveTail, Reload
  <2>2. Acks' = Acks
    BY <2>1 DEF Acks
  <2>3. cmds' \in {cmds, cmds + 1}
    BY DEF Command, ListAdd, TestHead, InitHead, TailHead, Scan, Link, Hang, InitNext, MoveTail, Reload
  <2>4. cmds \in {0, 1} /\ head \in {0, 1} /\ \A n \in live : n = 1
    BY OneTransfer
  <2>5. cmds' \in {0, 1}
    BY <2>3, <2>4 DEF Undisturbed
  <2> QED
    BY <2>1, <2>2, <2>4, <2>5 DEF TransferInv, CounterAhead
<1>1. WireProper'
  BY <1>0 DEF WireProper, Proper
\* The receiving thread is where it was.
<1>2. ASSUME pc'["recv"] = pc["recv"], work'["recv"] = work["recv"], pkg'[1].id = pkg[1].id \/ WireForeign
      PROVE  Ending'
  BY <1>0, <1>2 DEF Ending, WireForeign, AckPcs, EndPcs
<1>3. CASE Command
  <2> DEFINE v == [Idle EXCEPT !.id = mid, !.node = cmds + 1]
  <2>1. /\ cmds' = cmds + 1 /\ Goto("main", "test", v) /\ UNCHANGED <<head, next, pkg>>
    BY <1>3 DEF Command, listVars
  <2>2. cmds = 0 /\ cmds' = 1 /\ mid = 1 /\ WireForeign /\ head = None
    BY <1>0, <2>1, OneTransfer DEF CounterAhead, Unasked
  <2>3. /\ pc'["main"] = "test" /\ work'["main"].id = 1 /\ pc'["recv"] = pc["recv"] /\ work'["recv"] = work["recv"]
    <3>1. v.id = 1
      BY <2>2 DEF Idle
    <3> HIDE DEF v
    <3> QED
      BY <2>1, <3>1, Known, Gone
  <2>4. next'[1] = Raw
    BY <2>2, <2>3 DEF Base, Placed, BareAdd
  <2>5. CounterAhead'
    BY <1>0, <2>2, <2>3, <2>4 DEF CounterAhead, Counting, Appending
  <2>6. WireForeign'
    BY <1>0, <2>1, <2>2, <2>3 DEF WireForeign, Foreign
  <2> QED
    BY <1>1, <1>2, <2>1, <2>3, <2>5, <2>6 DEF TransferInv
<1>4. CASE TestHead
  <2>1. pc["main"] = "test" /\ UNCHANGED <<cmds, next, pkg>> /\ w.node = 1 /\ cmds = 1 /\ w.id = 1 /\ mid = 1
    BY <1>0, <1>4, OneTransfer DEF TestHead, At, BareAdd, CounterAhead, Counting
  <2>2. WireForeign /\ head = None
    BY <1>0, <2>1 DEF Unasked, Counting, WireForeign
  <2>3. head' = 1 /\ Goto("main", "inithead", w)
    BY <1>4, <2>1, <2>2 DEF TestHead
  <2>4. /\ pc'["main"] = "inithead" /\ work'["main"] = w /\ pc'["recv"] = pc["recv"] /\ work'["recv"] = work["recv"]
    BY <2>3, Known, Gone
  <2>5. next'[1] = Raw
    BY <2>1, <2>4 DEF Base, Placed
  <2>6. CounterAhead'
    BY <1>0, <2>1, <2>4, <2>5 DEF CounterAhead, Counting, Appending
  <2>7. WireForeign'
    BY <1>0, <2>2, <2>3, <2>4 DEF WireForeign, Foreign
  <2> QED
    BY <1>1, <1>2, <2>1, <2>4, <2>6, <2>7 DEF TransferInv
<1>5. CASE InitHead
  <2>1. /\ pc["main"] = "inithead" /\ UNCHANGED <<head, cmds>> /\ cmds = 1 /\ w.id = 1 /\ mid = 1 /\ 1 \in Nodes
        /\ next' = [next EXCEPT ![head] = None] /\ pkg' = [pkg EXCEPT ![head] = [id |-> w.id, block |-> 0]]
        /\ Goto("main", "tailhead", w)
    BY <1>0, <1>5, OneTransfer DEF InitHead, Initialised, At, BareAdd, CounterAhead, Counting
  <2>2. WireForeign /\ head = 1
    BY <1>0, <2>1 DEF Unasked, Counting, WireForeign
  <2>3. /\ pc'["main"] = "tailhead" /\ work'["main"] = w /\ pc'["recv"] = pc["recv"] /\ work'["recv"] = work["recv"]
    BY <2>1, Known, Gone
  <2>4. next'[1] # Raw /\ pkg'[1].id = 1 /\ pkg'[1].block = 0
    BY <2>1, <2>2, Types, Numbers DEF Base, Links
  <2>5. CounterAhead'
    BY <1>0, <2>1, <2>3, <2>4 DEF CounterAhead, Counting, Appending
  <2>6. WireForeign'
    BY <1>0, <2>1, <2>2, <2>3 DEF WireForeign, Foreign
  <2> QED
    BY <1>1, <1>2, <2>2, <2>3, <2>5, <2>6 DEF TransferInv
<1>6. CASE TailHead
  <2>1. /\ pc["main"] = "tailhead" /\ UNCHANGED <<head, cmds, next, pkg>> /\ cmds = 1 /\ mid = 1
        /\ next[1] # Raw /\ pkg[1].id = 1
    BY <1>0, <1>6, OneTransfer DEF TailHead, At, BareAdd, CounterAhead, Counting
  <2>2. WireForeign /\ head = 1
    BY <1>0, <2>1 DEF Unasked, Counting, WireForeign
  <2>3. Goto("main", "count", [Idle EXCEPT !.node = head])
    BY <1>6, <2>2 DEF TailHead, Returns, None
  <2>4. /\ pc'["main"] = "count" /\ pc'["recv"] = pc["recv"] /\ work'["recv"] = work["recv"]
    BY <2>3, Known, Gone
  <2>5. CounterAhead'
    BY <1>0, <2>1, <2>4 DEF CounterAhead, Counting, Appending
  <2>6. WireForeign'
    BY <1>0, <2>1, <2>2, <2>4 DEF WireForeign, Foreign
  <2> QED
    BY <1>1, <1>2, <2>1, <2>4, <2>5, <2>6 DEF TransferInv
<1>7. CASE Reload
  <2>1. /\ pc["main"] = "count" /\ UNCHANGED <<head, cmds, next, pkg>> /\ cmds = 1 /\ mid = 1
        /\ next[1] # Raw /\ pkg[1].id = 1 /\ Goto("main", "store", [w EXCEPT !.id = mid])
    BY <1>0, <1>7, OneTransfer DEF Reload, At, CounterAhead, Counting, listVars, Threads
  <2>2. WireForeign
    BY <1>0, <2>1 DEF Unasked, Counting
  <2>3. /\ pc'["main"] = "store" /\ work'["main"].id = 1 /\ pc'["recv"] = pc["recv"] /\ work'["recv"] = work["recv"]
    <3> DEFINE v == [w EXCEPT !.id = mid]
    <3>1. Goto("main", "store", v) /\ v.id = 1
      BY <2>1, Known DEF Works
    <3> HIDE DEF v
    <3> QED
      BY <3>1, Known, Gone
  <2>4. CounterAhead'
    BY <1>0, <2>1, <2>3 DEF CounterAhead, Counting, Appending
  <2>5. WireForeign'
    BY <1>0, <2>1, <2>2, <2>3 DEF WireForeign, Foreign
  <2> QED
    BY <1>1, <1>2, <2>1, <2>3, <2>4, <2>5 DEF TransferInv
<1>8. CASE Scan \/ Link \/ Hang \/ InitNext \/ MoveTail
  BY <1>0, <1>8 DEF Scan, Link, Hang, InitNext, MoveTail, At, Appending
<1> QED
  BY <1>3, <1>4, <1>5, <1>6, <1>7, <1>8 DEF ListAdd

LEMMA BuildTransfer ==
  ASSUME NoWrap, Base, Undisturbed, TransferInv, NEW t \in Threads, Build(t), Base'
  PROVE  TransferInv'
<1>0. /\ WireProper /\ CounterAhead /\ Ending /\ (Unasked => WireForeign) /\ ~Appending
      /\ cmds \in {0, 1} /\ t \in {"main", "recv"} /\ "main" \in Threads /\ "recv" \in Threads
  BY OneTransfer DEF TransferInv, CounterAhead, Threads
<1>1. CASE Stray(t)
  <2>1. UNCHANGED <<head, next, pkg, mid, pdu, pc, work, cmds, out, inbox, Acks>>
    BY <1>1 DEF Stray, listVars, Acks
  <2>2. WireProper' /\ CounterAhead' /\ Ending' /\ (Unasked' <=> Unasked) /\ (WireForeign => WireForeign')
    BY <1>0, <2>1 DEF WireProper, Proper, CounterAhead, Counting, Appending, Ending, Unasked, WireForeign, Foreign
  <2> QED
    BY <1>0, <2>2 DEF TransferInv
<1>2. CASE Increment(t) \/ BuildType(t) \/ BuildBody(t) \/ Send(t) \/ Sent(t)
  <2>0. /\ UNCHANGED <<head, tail, next, live, pkg, cmds, inbox, Acks>>
    <3>1. UNCHANGED <<head, tail, next, live, pkg, cmds, inbox>>
      BY <1>2, BuildEffects
    <3> QED
      BY <3>1 DEF Acks
  <2>1. PICK l \in {"type", "body", "send", "sent", "idle", "ackbody", "acksend"}, w \in Works :
               /\ Goto(t, l, w)
               /\ l \in BuildPcs => w.node = work[t].node /\ pc[t] \in BuildPcs
               /\ l \in AckPcs => pc[t] \in AckPcs
    BY <1>2, BuildEffects
  <2>2. pc'[t] = l /\ work'[t] = w /\ \A u \in Threads : u # t => pc'[u] = pc[u] /\ work'[u] = work[u]
    BY <2>1, Known, Gone
  <2>3. pc[t] \in {"store", "type", "acktype", "body", "ackbody", "send", "acksend", "sent"}
    BY <1>2 DEF Increment, BuildType, BuildBody, Send, Sent, At
  <2>L. BuildPcs = {"store", "type", "body", "send", "sent"} /\ AckPcs = {"acktype", "ackbody", "acksend"}
        /\ EndPcs = {"delhead", "deltail", "unlink", "free"}
    BY DEF BuildPcs, AckPcs, EndPcs
  <2>4. pc["main"] \notin AckPcs /\ (t = "main" => pc["main"] \in BuildPcs)
    BY <2>3, <2>L DEF Base, Placed, MainPcs, BareAdd
  \* A step of a request of the receiving thread comes after the first request.
  <2>5. (Unasked' => Unasked) /\ ~Appending'
    BY <1>0, <2>0, <2>1, <2>2, <2>3, <2>L DEF Unasked, Counting, Appending
  <2>6. t = "recv" /\ Unasked => pc["recv"] \in AckPcs
    BY <1>0, <2>3, <2>L DEF WireForeign
  \* An acknowledgement keeps the id of what it acknowledges, until it is sent.
  <2>7. pc'["recv"] \in AckPcs => work'["recv"].id \notin OwnIds
    <3>1. CASE t = "main"
      BY <1>0, <2>2, <3>1 DEF Ending
    <3>2. CASE t = "recv" /\ l \in AckPcs
      <4>1. work["recv"].id \notin OwnIds
        BY <1>0, <2>1, <3>2 DEF Ending
      <4>2. w = work["recv"] \/ w = Idle
        <5>1. CASE BuildType(t) \/ BuildBody(t)
          BY <2>1, <2>2, <3>2, <5>1, Gone, Known DEF BuildType, BuildBody
        <5>2. CASE Increment(t) \/ Send(t) \/ Sent(t)
          BY <2>L, <2>2, <3>2, <5>2, Gone, Known DEF Increment, Send, Sent, Rest
        <5> QED
          BY <1>2, <5>1, <5>2
      <4> QED
        BY <2>2, <3>2, <4>1, <4>2, ZeroForeign DEF Idle
    <3> QED
      BY <1>0, <2>2, <3>1, <3>2
  <2>8. Ending'
    <3>1. pc'["recv"] \in {"del", "walk"} \cup EndPcs => t = "main"
      BY <1>0, <2>1, <2>2, <2>L
    <3> QED
      BY <1>0, <2>0, <2>2, <2>7, <3>1 DEF Ending
  \* What WireForeign says of anything but the wire.
  <2>9. Unasked' => /\ Unasked /\ WireForeign
                    /\ pc'["recv"] \in AckPcs \cup {"idle", "find"}
                    /\ (pc'["recv"] = "find" => work'["recv"].id \notin OwnIds)
                    /\ (pc'["main"] \in {"idle", "test"} => head' = None)
                    /\ (pc'["main"] \in {"inithead", "tailhead"} => head' = 1)
    <3> SUFFICES ASSUME Unasked'
                 PROVE  /\ Unasked /\ WireForeign
                        /\ pc'["recv"] \in AckPcs \cup {"idle", "find"}
                        /\ (pc'["recv"] = "find" => work'["recv"].id \notin OwnIds)
                        /\ (pc'["main"] \in {"idle", "test"} => head' = None)
                        /\ (pc'["main"] \in {"inithead", "tailhead"} => head' = 1)
      OBVIOUS
    <3>1. Unasked /\ WireForeign
      BY <1>0, <2>5
    <3>2. CASE t = "main"
      <4>1. cmds = 1
        BY <2>4, <2>L, <3>2, OneTransfer
      <4>2. pc'["main"] \notin {"idle"} \cup BuildPcs
        BY <2>0, <2>1, <2>2, <2>L, <3>2, <4>1 DEF Unasked, Counting
      <4> QED
        BY <2>1, <2>2, <2>4, <2>L, <3>2, <4>2
    <3>3. CASE t = "recv"
      BY <1>0, <2>0, <2>1, <2>2, <2>6, <2>L, <3>1, <3>3 DEF WireForeign
    <3> QED
      BY <1>0, <3>2, <3>3
  <2>10. CASE Increment(t)
    <3>1. /\ pc[t] = "store" /\ mid' = Succ(work[t].id) /\ UNCHANGED <<pdu, out>> /\ l # "store" /\ work[t].node = 1 /\ cmds = 1
      BY <2>1, <2>10, <2>L, OneTransfer DEF Increment, At
    <3>2. WireProper' /\ (Unasked' => WireForeign')
      BY <1>0, <2>0, <2>9, <3>1 DEF WireProper, Proper, WireForeign, Foreign
    <3>3. CASE t = "main"
      <4>1. Counting /\ mid = 1 /\ work["main"].id = 1 /\ pkg[1].id = 1 /\ next[1] # Raw /\ Unasked
        BY <1>0, <3>1, <3>3 DEF CounterAhead, Counting, Unasked
      <4>2. mid' = Succ(pkg[1].id) /\ pc["recv"] # "store" /\ ~Counting'
        BY <1>0, <2>1, <2>2, <2>L, <3>1, <3>3, <4>1 DEF WireForeign, Counting
      <4> QED
        BY <1>0, <2>0, <2>2, <2>5, <2>8, <3>1, <3>2, <3>3, <4>1, <4>2 DEF TransferInv, CounterAhead, Counting
    <3>4. CASE t = "recv"
      <4>1. ~Unasked /\ ~Counting
        BY <2>6, <2>L, <3>1, <3>4 DEF Unasked
      <4>2. work["recv"].id = pkg[1].id /\ next[1] # Raw
        BY <1>0, <3>1, <3>4, <4>1 DEF CounterAhead
      <4>3. ~Counting' /\ pc'["recv"] # "store" /\ mid' = Succ(pkg[1].id)
        BY <1>0, <2>1, <2>2, <2>L, <3>1, <3>4, <4>1, <4>2 DEF Counting
      <4> QED
        BY <1>0, <2>0, <2>2, <2>5, <2>8, <3>1, <3>2, <3>4, <4>1, <4>2, <4>3 DEF TransferInv, CounterAhead, Counting
    <3> QED
      BY <1>0, <3>3, <3>4
  \* The other steps leave the counter alone.
  <2>11. ASSUME ~Increment(t), UNCHANGED mid PROVE CounterAhead'
    <3>1. pc[t] # "store" /\ l # "store"
      BY <1>2, <2>1, <2>11 DEF BuildType, BuildBody, Send, Sent, At
    <3>2. (Counting' <=> Counting) /\ (pc'["recv"] = "store" <=> pc["recv"] = "store")
      BY <1>0, <2>1, <2>2, <2>3, <3>1 DEF Counting
    <3>3. pc'["recv"] = "store" => work'["recv"] = work["recv"]
      BY <1>0, <2>2, <3>1
    <3>4. Counting => pc'["main"] = pc["main"] /\ work'["main"] = work["main"]
      BY <1>0, <2>2, <2>3, <2>4, <2>L, <3>1 DEF Counting
    <3>5. pc'["main"] \in {"tailhead", "count", "store"} => Counting'
      BY DEF Counting
    <3>6. cmds = 0 => t = "recv"
      BY <1>0, <2>4, OneTransfer
    <3>7. cmds = 0 => pc'["main"] = pc["main"]
      BY <1>0, <2>2, <3>6
    <3> QED
      BY <1>0, <2>0, <2>5, <2>11, <3>2, <3>3, <3>4, <3>5, <3>7 DEF CounterAhead
  <2>12. CASE BuildType(t)
    <3>1. UNCHANGED <<mid, out>> /\ pdu' \in {Datagram("CON", 0, None, 0, "none"), Datagram("ACK", 0, None, 0, "none")}
          /\ ~Increment(t)
      BY <2>12 DEF BuildType, Increment, At
    <3>2. pdu'.id \notin OwnIds
      BY <3>1, ZeroForeign DEF Datagram
    <3>3. WireProper'
      BY <1>0, <2>0, <3>1, <3>2 DEF WireProper, Proper
    <3>4. Unasked' => WireForeign'
      BY <2>0, <2>9, <3>1, <3>2 DEF WireForeign, Foreign
    <3> QED
      BY <2>8, <2>11, <3>1, <3>3, <3>4 DEF TransferInv
  <2>13. CASE BuildBody(t)
    <3>0. UNCHANGED <<mid, out>> /\ ~Increment(t) /\ pc[t] \in {"body", "ackbody"}
      BY <2>13 DEF BuildBody, Increment, At
    <3>1. CASE pc[t] = "body"
      <4>1. work[t].node = 1 /\ cmds = 1
        BY <2>L, <3>1, OneTransfer
      <4>2. pdu' = [pdu EXCEPT !.id = pkg[1].id, !.req = 1, !.block = pkg[1].block] /\ work[t].node \in Packages
        BY <2>13, <3>1, <4>1 DEF BuildBody, At, Sound, Touched
      <4>3. pdu'.id = pkg[1].id /\ pdu'.req = 1 /\ pdu'.block = pkg[1].block
        BY <4>2, Types DEF Base, Datagrams
      <4>4. pkg[1].id = pkg[1].block + 1 /\ pkg[1].block \in 0 .. LastBlock
        BY <1>0, <4>1, <4>2, OneTransfer DEF CounterAhead, Packages
      <4>5. Proper(pdu')
        BY <4>3, <4>4 DEF Proper
      <4>6. WireProper'
        BY <1>0, <2>0, <3>0, <4>5 DEF WireProper, Proper
      <4>7. ~Unasked
        <5>1. CASE t = "main"
          BY <3>1, <4>1, <5>1 DEF Unasked, Counting
        <5>2. CASE t = "recv"
          BY <2>6, <2>L, <3>1, <5>2
        <5> QED
          BY <1>0, <5>1, <5>2
      <4> QED
        BY <2>5, <2>8, <2>11, <3>0, <4>6, <4>7 DEF TransferInv
    <3>2. CASE pc[t] = "ackbody"
      <4>1. t = "recv"
        BY <1>0, <2>4, <2>L, <3>2
      <4>2. pdu' = [pdu EXCEPT !.id = work["recv"].id] /\ work["recv"].id \notin OwnIds
        BY <1>0, <2>13, <2>L, <3>2, <4>1 DEF BuildBody, Ending, At
      <4>3. pdu'.id \notin OwnIds
        BY <4>2, Types DEF Base, Datagrams
      <4>4. WireProper'
        BY <1>0, <2>0, <3>0, <4>3 DEF WireProper, Proper
      <4>5. Unasked' => WireForeign'
        BY <2>0, <2>9, <3>0, <4>3 DEF WireForeign, Foreign
      <4> QED
        BY <2>8, <2>11, <3>0, <4>4, <4>5 DEF TransferInv
    <3> QED
      BY <3>0, <3>1, <3>2
  <2>14. CASE Send(t) \/ Sent(t)
    <3>1. UNCHANGED <<mid, pdu>> /\ out' \in {out, out \cup {pdu}} /\ ~Increment(t)
      BY <2>14 DEF Send, Sent, Increment, At
    <3>2. WireProper'
      BY <1>0, <2>0, <3>1 DEF WireProper, Proper
    <3>3. Unasked' => WireForeign'
      BY <2>0, <2>9, <3>1 DEF WireForeign, Foreign
    <3> QED
      BY <2>8, <2>11, <3>1, <3>2, <3>3 DEF TransferInv
  <2> QED
    BY <1>2, <2>10, <2>12, <2>13, <2>14
<1> QED
  BY <1>1, <1>2 DEF Build

\* The receiving thread searches, goes on with the transfer, or ends it.
LEMMA RecvTransfer ==
  ASSUME NoWrap, Base, Undisturbed, TransferInv, Base',
         Find \/ RecvMore \/ RecvLast \/ Delete \/ (\E m \in inbox : RecvCon(m) \/ RecvAck(m))
  PROVE  TransferInv'
<1> DEFINE w == work["recv"]
<1>0. /\ UNCHANGED <<mid, pdu, cmds, out, inbox, Acks>>
      /\ WireProper /\ CounterAhead /\ Ending /\ (Unasked => WireForeign) /\ ~Appending
      /\ cmds \in {0, 1} /\ w \in Works
  <2>1. UNCHANGED <<mid, pdu, cmds, out, inbox>>
    BY DEF Find, RecvMore, RecvLast, Delete, DelFirst, DelHead, Walk, DelTail, Unlink, Free, RecvCon, RecvAck
  <2>2. Acks' = Acks
    BY <2>1 DEF Acks
  <2> QED
    BY <2>1, <2>2, OneTransfer, Known DEF TransferInv, CounterAhead
<1>L. AckPcs = {"acktype", "ackbody", "acksend"} /\ EndPcs = {"delhead", "deltail", "unlink", "free"}
  BY DEF AckPcs, EndPcs
<1>1. WireProper'
  BY <1>0 DEF WireProper, Proper
\* Steps that leave the package, and while nothing is asked the head, alone.
<1>2. ASSUME NEW l, NEW v, Goto("recv", l, v), pc["recv"] # "store", l # "store", pkg' = pkg,
             next[1] # Raw => next'[1] # Raw, next[1] = Raw => next'[1] = Raw,
             l \in AckPcs => v.id \notin OwnIds,
             l \in {"del", "walk"} \cup EndPcs => v.more # "more",
             l \in EndPcs => v.node = 1 /\ pkg[1].id = v.id,
             Unasked => l \in AckPcs \cup {"idle", "find"} /\ (l = "find" => v.id \notin OwnIds) /\ head' = head
      PROVE  TransferInv'
  <2>1. pc'["recv"] = l /\ work'["recv"] = v /\ pc'["main"] = pc["main"] /\ work'["main"] = work["main"]
    BY <1>2, Known, Gone
  <2>2. (Counting' <=> Counting) /\ (Unasked' <=> Unasked) /\ (Appending' <=> Appending)
    BY <1>0, <2>1 DEF Counting, Unasked, Appending
  <2>3. CounterAhead'
    BY <1>0, <1>2, <2>1, <2>2 DEF CounterAhead
  <2>4. Ending'
    BY <1>2, <2>1 DEF Ending
  <2>5. Unasked' => WireForeign'
    BY <1>0, <1>2, <2>1, <2>2 DEF WireForeign, Foreign
  <2> QED
    BY <1>1, <2>3, <2>4, <2>5 DEF TransferInv
<1>A. ASSUME UNCHANGED <<head, next, pkg>>, Goto("recv", "idle", Idle), pc["recv"] # "store" PROVE TransferInv'
  BY <1>2, <1>A, <1>L
\* Nothing is deleted before something is asked for.
<1>U. pc["recv"] \in {"del", "walk"} \cup EndPcs => ~Unasked /\ w.more # "more"
  BY <1>0, <1>L DEF WireForeign, Ending
<1>3. ASSUME NEW m \in inbox, RecvCon(m) PROVE TransferInv'
  <2> DEFINE v == [Idle EXCEPT !.id = m.id]
  <2>1. /\ m.type = "CON" /\ UNCHANGED <<head, next, pkg>> /\ Goto("recv", "acktype", v) /\ pc["recv"] = "idle"
    BY <1>3 DEF RecvCon, At, listVars
  <2>2. v.id \notin OwnIds
    BY <2>1 DEF Undisturbed, Idle
  <2> HIDE DEF v
  <2> QED
    BY <1>2, <1>L, <2>1, <2>2
<1>4. ASSUME NEW m \in inbox, RecvAck(m) PROVE TransferInv'
  <2> DEFINE v == [id |-> m.id, at |-> head, node |-> None, block |-> m.block, more |-> m.more]
  <2>1. /\ m \in Acks /\ UNCHANGED <<head, next, pkg>> /\ Goto("recv", "find", v) /\ pc["recv"] = "idle"
    BY <1>4 DEF RecvAck, At, listVars, Acks
  <2>2. Unasked => v.id \notin OwnIds
    BY <1>0, <2>1 DEF WireForeign, Foreign
  <2> HIDE DEF v
  <2> QED
    BY <1>2, <1>L, <2>1, <2>2
<1>5. CASE Find
  <2> DEFINE v == [w EXCEPT !.at = next[w.at]]
  <2>1. pc["recv"] = "find" /\ UNCHANGED <<head, next, pkg>>
    BY <1>5 DEF Find, At, listVars
  <2>2. Goto("recv", "idle", Idle) \/ Goto("recv", "find", v)
    BY <1>5 DEF Find, Rest
  <2>3. v.id = w.id
    BY <1>0 DEF Works
  <2>4. Unasked => w.id \notin OwnIds
    BY <1>0, <2>1 DEF WireForeign
  <2> HIDE DEF v
  <2> QED
    BY <1>2, <1>A, <1>L, <2>1, <2>2, <2>3, <2>4
<1>6. CASE RecvMore
  <2>1. /\ w.at = 1 /\ cmds = 1 /\ ~Unasked /\ ~Counting /\ pkg[1].block \in 0 .. LastBlock /\ pc["recv"] = "find"
        /\ w.block = pkg[1].block /\ pkg[1].id = pkg[1].block + 1 /\ w.block < LastBlock
    BY <1>6, AnswerOfBlock DEF RecvMore, Unasked, IsLast, Found, At
  <2> DEFINE v == [Idle EXCEPT !.id = mid, !.node = w.at]
  <2>2. /\ UNCHANGED <<head, next>> /\ Goto("recv", "store", v)
        /\ pkg' = [pkg EXCEPT ![1] = [id |-> mid, block |-> w.block + 1]]
    BY <1>6, <2>1 DEF RecvMore, Renewed, listVars
  <2>3. mid = pkg[1].id + 1 /\ next[1] # Raw
    <3>1. mid = Succ(pkg[1].id) /\ next[1] # Raw
      BY <1>0, <2>1 DEF CounterAhead
    <3>2. pkg[1].id \in 1 .. LastBlock
      BY <2>1, CoapClientAssumption
    <3> QED
      BY <3>1, <3>2, NextId
  <2>4. pkg'[1].id = mid /\ pkg'[1].block = w.block + 1
    BY <2>1, <2>2, OneTransfer, Types DEF Base
  <2>5. v.id = mid
    BY DEF Idle
  <2> HIDE DEF v
  <2>6. pc'["recv"] = "store" /\ work'["recv"] = v /\ pc'["main"] = pc["main"] /\ work'["main"] = work["main"]
    BY <2>2, Known, Gone
  <2>7. ~Unasked' /\ ~Counting' /\ ~Appending'
    BY <1>0, <2>1, <2>6 DEF Unasked, Counting, Appending
  <2>8. pkg'[1].id = pkg'[1].block + 1
    BY <2>1, <2>3, <2>4
  <2>9. CounterAhead'
    BY <1>0, <2>1, <2>2, <2>3, <2>4, <2>5, <2>6, <2>7, <2>8 DEF CounterAhead, Counting
  <2>10. Ending'
    BY <1>L, <2>6 DEF Ending
  <2> QED
    BY <1>1, <2>7, <2>9, <2>10 DEF TransferInv
<1>7. CASE RecvLast
  <2> DEFINE v == [w EXCEPT !.at = None]
  <2>1. ~Unasked /\ w.more # "more" /\ pc["recv"] = "find"
    BY <1>7, AnswerOfBlock DEF RecvLast, IsLast, Found, At
  <2>2. UNCHANGED <<head, next, pkg>> /\ Goto("recv", "del", v)
    BY <1>7 DEF RecvLast, listVars
  <2>3. v.more = w.more
    BY <1>0 DEF Works
  <2> HIDE DEF v
  <2> QED
    BY <1>2, <1>L, <2>1, <2>2, <2>3
<1>8. CASE DelFirst
  <2> DEFINE v == [w EXCEPT !.node = head]
             x == [w EXCEPT !.at = head]
  <2>1. pc["recv"] = "del" /\ UNCHANGED <<head, next, pkg>>
    BY <1>8 DEF DelFirst, At, listVars
  <2>2. \/ Goto("recv", "idle", Idle)
        \/ head # None /\ pkg[head].id = w.id /\ Goto("recv", "delhead", v)
        \/ Goto("recv", "walk", x)
    BY <1>8 DEF DelFirst, Rest
  <2>3. v.more = w.more /\ v.node = head /\ v.id = w.id /\ x.more = w.more
    BY <1>0 DEF Works
  <2>4. head # None => head = 1
    BY OneTransfer DEF None
  <2> HIDE DEF v, x
  <2> QED
    BY <1>2, <1>A, <1>L, <1>U, <2>1, <2>2, <2>3, <2>4
<1>9. CASE Walk
  <2> DEFINE n == next[w.at]
             v == [w EXCEPT !.node = n]
             x == [w EXCEPT !.at = n]
  <2>1. pc["recv"] = "walk" /\ UNCHANGED <<head, next, pkg>>
    BY <1>9 DEF Walk, At, listVars
  <2>2. \/ Goto("recv", "idle", Idle)
        \/ n # None /\ pkg[n].id = w.id /\ Goto("recv", "deltail", v)
        \/ Goto("recv", "walk", x)
    BY <1>9 DEF Walk, Rest
  <2>3. v.more = w.more /\ v.node = n /\ v.id = w.id /\ x.more = w.more
    BY <1>0 DEF Works
  <2>4. n # None => n = 1
    BY <1>9, SoundRecv, OneTransfer DEF Walk
  <2> HIDE DEF v, x, n
  <2> QED
    BY <1>2, <1>A, <1>L, <1>U, <2>1, <2>2, <2>3, <2>4
<1>10. CASE DelHead \/ DelTail
  <2>1. /\ pc["recv"] \in {"delhead", "deltail"} /\ UNCHANGED <<next, pkg>>
        /\ Goto("recv", "free", w) \/ Goto("recv", "unlink", w)
    BY <1>10 DEF DelHead, DelTail, At
  <2>2. w.node = 1 /\ pkg[1].id = w.id
    BY <1>0, <1>L, <2>1 DEF Ending
  <2> QED
    BY <1>2, <1>L, <1>U, <2>1, <2>2
<1>11. CASE Unlink
  <2>1. /\ pc["recv"] = "unlink" /\ UNCHANGED <<head, pkg>> /\ Goto("recv", "free", w)
        /\ next' = [next EXCEPT ![w.at] = next[w.node]]
    BY <1>11 DEF Unlink, At
  <2>2. w.node = 1 /\ pkg[1].id = w.id
    BY <1>0, <1>L, <2>1 DEF Ending
  <2>3. w.node \in Packages /\ w.at \in Packages
    BY <1>11, SoundRecv DEF Unlink
  <2>4. next[w.node] # Raw /\ next[1] # Raw /\ next'[1] # Raw
    BY <2>1, <2>2, <2>3, Types DEF Packages, Base
  <2> QED
    BY <1>2, <1>L, <1>U, <2>1, <2>2, <2>4
<1>12. CASE Free
  <2>1. /\ pc["recv"] = "free" /\ UNCHANGED <<head, next, pkg>> /\ Goto("recv", "idle", Idle)
    BY <1>12 DEF Free, At, Rest
  <2> QED
    BY <1>A, <2>1
<1> QED
  BY <1>3, <1>4, <1>5, <1>6, <1>7, <1>8, <1>9, <1>10, <1>11, <1>12 DEF Delete

LEMMA NetTransfer ==
  ASSUME NoWrap, Base, Undisturbed, TransferInv, NetStep PROVE TransferInv'
<1>1. UNCHANGED <<head, next, pkg, mid, pdu, pc, work, cmds, out>>
  BY DEF NetStep, Answer, ServerCon, listVars
<1>2. \A a \in Acks' : a \in Acks \/ \E d \in out : a.id = d.id /\ a.req = d.req /\ a.block = d.block
  BY DEF NetStep, Answer, Answers, ServerCon, Acks, Datagram
<1>3. WireProper'
  BY <1>1, <1>2 DEF TransferInv, WireProper, Proper
<1>4. CounterAhead' /\ Ending'
  BY <1>1 DEF TransferInv, CounterAhead, Counting, Appending, Ending
<1>5. Unasked' => WireForeign'
  BY <1>1, <1>2 DEF TransferInv, WireForeign, Foreign, Unasked, Counting
<1> QED
  BY <1>3, <1>4, <1>5 DEF TransferInv

FlightInv == Undisturbed => TransferInv

LEMMA NextFlight == NoWrap /\ IInv /\ FlightInv /\ [Next]_vars => FlightInv'
<1> SUFFICES ASSUME NoWrap, IInv, FlightInv, [Next]_vars, Undisturbed' PROVE TransferInv'
  BY DEF FlightInv
<1>0. Base /\ Base'
  BY NextIInv DEF IInv, Base
<1>1. Undisturbed /\ TransferInv
  BY <1>0, StaysDisturbed DEF FlightInv
<1>2. CASE UNCHANGED vars
  <2>1. UNCHANGED <<head, next, pkg, mid, pdu, pc, work, cmds, out, inbox>>
    BY <1>2 DEF vars, listVars
  <2>2. WireProper' /\ CounterAhead' /\ Ending' /\ (Unasked' => WireForeign')
    BY <1>1, <2>1 DEF TransferInv, WireProper, WireForeign, CounterAhead, Ending, Unasked, Counting, Appending, Acks,
       Proper, Foreign
  <2> QED
    BY <2>2 DEF TransferInv
<1>3. CASE MainStep
  BY <1>0, <1>1, <1>3, MainTransfer, BuildTransfer DEF MainStep, Threads
<1>4. CASE RecvStep
  BY <1>0, <1>1, <1>4, RecvTransfer, BuildTransfer DEF RecvStep, RecvWork, Threads
<1>5. CASE NetStep
  BY <1>0, <1>1, <1>5, NetTransfer
<1> QED
  BY <1>2, <1>3, <1>4, <1>5 DEF Next


\* What a step does to the block and the life of a package.
LEMMA ChangesPackages ==
  ASSUME NoWrap, IInv, FlightInv, [Next]_vars, Undisturbed
  PROVE  /\ \A n \in Packages \cap live' : pkg'[n].block - pkg[n].block \in {0, 1}
         /\ \A n \in live \ live' : \E m \in inbox : m.type = "ACK" /\ m.req = n /\ m.block = pkg[n].block /\ m.more # "more"
<1> DEFINE w == work["recv"]
           Blocks == \A n \in Packages \cap live' : pkg'[n].block - pkg[n].block \in {0, 1}
           Drops  == \A n \in live \ live' : \E m \in inbox : m.type = "ACK" /\ m.req = n /\ m.block = pkg[n].block
                                                              /\ m.more # "more"
<1>0. /\ Base /\ TransferInv /\ WireProper /\ CounterAhead /\ Ending /\ (Unasked => WireForeign) /\ ~Appending
      /\ \A n \in live : n = 1 /\ cmds = 1
      /\ \A n \in Packages : n \in live /\ next[n] # Raw /\ pkg[n].block \in Int
  <2>1. Base /\ TransferInv
    BY DEF IInv, Base, FlightInv
  <2>2. \A n \in Packages : n \in live /\ next[n] # Raw
    BY DEF Packages
  <2>3. \A n \in Packages : pkg[n].block \in Int
    BY <2>1, <2>2, OneTransfer, CoapClientAssumption
  <2> QED
    BY <2>1, <2>2, <2>3, OneTransfer DEF TransferInv, CounterAhead
<1>1. ASSUME pkg' = pkg, live \subseteq live' PROVE Blocks /\ Drops
  <2>1. \A n \in Packages : pkg'[n].block - pkg[n].block = 0
    BY <1>0, <1>1
  <2> QED
    BY <1>1, <2>1
<1>2. CASE InitHead
  <2>1. pc["main"] = "inithead" /\ live' = live /\ pkg' = [pkg EXCEPT ![head] = [id |-> work["main"].id, block |-> 0]]
    BY <1>2 DEF InitHead, At, Initialised
  <2>2. work["main"].node = 1 /\ cmds = 1
    BY <1>0, <2>1, OneTransfer
  <2>3. next[1] = Raw
    BY <1>0, <2>1, <2>2 DEF Base, Placed
  <2>4. Packages = {}
    BY <1>0, <2>3
  <2> QED
    BY <2>1, <2>4
<1>3. CASE RecvMore
  <2>1. w.at = 1 /\ w.block = pkg[1].block /\ live' = live /\ pkg' = [pkg EXCEPT ![w.at] = Renewed(w)]
    BY <1>0, <1>3, AnswerOfBlock DEF RecvMore, listVars
  <2>2. \A n \in Packages : n = 1 /\ pkg'[n].block = w.block + 1
    <3>1. \A n \in Packages : n = 1 /\ n \in Nodes
      BY <1>0, Types DEF Base
    <3> QED
      BY <1>0, <2>1, <3>1, Types DEF Renewed, Base
  <2>3. \A n \in Packages : pkg'[n].block - pkg[n].block = 1
    BY <1>0, <2>1, <2>2
  <2> QED
    BY <2>1, <2>3
<1>4. CASE Free
  <2>1. pc["recv"] = "free" /\ pkg' = pkg /\ live' = live \ {w.node}
    BY <1>4 DEF Free, At
  <2>2. w.node = 1 /\ pkg[1].id = w.id /\ w.more # "more" /\ ~Unasked
    BY <1>0, <2>1 DEF Ending, EndPcs, WireForeign, AckPcs
  <2>3. PICK m \in inbox : m.type = "ACK" /\ m.id = w.id /\ m.block = w.block /\ m.more = w.more
    BY <1>0, <2>1 DEF Base, OnWire, EndPcs
  <2>4. Drops
    <3> SUFFICES ASSUME NEW n \in live, n = 1 PROVE m.req = n /\ m.block = pkg[n].block
      BY <1>0, <2>2, <2>3
    <3>1. cmds = 1 /\ ~Counting
      BY <1>0, <2>2 DEF Unasked
    <3>2. pkg[1].id = pkg[1].block + 1 /\ pkg[1].block \in 0 .. LastBlock
      BY <1>0, <3>1, OneTransfer DEF CounterAhead
    <3>3. m.id = pkg[1].block + 1 /\ m.id \in OwnIds
      BY <2>2, <2>3, <3>2, CoapClientAssumption DEF OwnIds
    <3>4. m.req = 1 /\ m.block = m.id - 1
      BY <1>0, <2>3, <3>3 DEF WireProper, Proper, Acks
    <3>5. m.block = (pkg[1].block + 1) - 1 /\ pkg[1].block \in Int
      BY <3>2, <3>3, <3>4, CoapClientAssumption
    <3> QED
      BY <3>4, <3>5
  <2>5. Blocks
    <3>1. \A n \in Packages : pkg'[n].block - pkg[n].block = 0
      BY <1>0, <2>1
    <3> QED
      BY <3>1
  <2> QED
    BY <2>4, <2>5
<1>5. CASE UNCHANGED vars
  BY <1>1, <1>5 DEF vars, listVars
<1>6. CASE MainStep
  <2>1. CASE Command \/ TestHead \/ TailHead \/ Scan \/ Link \/ Hang \/ MoveTail \/ Reload
    BY <1>1, <2>1 DEF Command, TestHead, TailHead, Scan, Link, Hang, MoveTail, Reload, listVars
  <2>2. CASE InitNext
    BY <1>0, <2>2 DEF InitNext, At, Appending
  <2>3. CASE Build("main")
    BY <1>1, <2>3 DEF Build, Increment, BuildType, BuildBody, Send, Sent, Stray, listVars
  <2> QED
    BY <1>2, <1>6, <2>1, <2>2, <2>3 DEF MainStep, ListAdd
<1>7. CASE RecvStep
  <2>1. CASE Find \/ RecvLast \/ DelFirst \/ DelHead \/ Walk \/ DelTail \/ Unlink
    BY <1>1, <2>1 DEF Find, RecvLast, DelFirst, DelHead, Walk, DelTail, Unlink, listVars
  <2>2. CASE Build("recv")
    BY <1>1, <2>2 DEF Build, Increment, BuildType, BuildBody, Send, Sent, Stray, listVars
  <2>3. ASSUME NEW m \in inbox, RecvCon(m) \/ RecvAck(m) PROVE Blocks /\ Drops
    BY <1>1, <2>3 DEF RecvCon, RecvAck, listVars
  <2> QED
    BY <1>3, <1>4, <1>7, <2>1, <2>2, <2>3 DEF RecvStep, RecvWork, Delete
<1>8. CASE NetStep
  BY <1>1, <1>8 DEF NetStep, Answer, ServerCon, listVars
<1> QED
  BY <1>5, <1>6, <1>7, <1>8 DEF Next

(* A single transfer goes on block by block, as long as the message ids do   *)
(* not wrap: no answer that is repeated, late or out of order makes its      *)
(* package go back or skip a block, although acknowledgements of the server's *)
(* messages are built in the same PDU at any moment.                         *)
THEOREM TransferInOrder == ASSUME LastBlock + 1 < IdMod PROVE Spec => BlocksInOrder
<1>0. NoWrap
  BY DEF NoWrap
<1>1. Init => IInv /\ FlightInv
  BY <1>0, InitIInv, InitTransfer DEF FlightInv
<1>2. (IInv /\ FlightInv) /\ [Next]_vars => (IInv /\ FlightInv)'
  BY <1>0, NextIInv, NextFlight
<1>3. (IInv /\ FlightInv) /\ [Next]_vars =>
        [Undisturbed => \A n \in Packages \cap live' : pkg'[n].block - pkg[n].block \in {0, 1}]_vars
  BY <1>0, ChangesPackages
<1> QED
  BY <1>1, <1>2, <1>3, PTL DEF Spec, BlocksInOrder

(* A package of a single transfer is freed only when the server has answered *)
(* the request that was last sent for it: with its last block, or with an    *)
(* acknowledgement that has no Block2 option.                                *)
THEOREM TransferEndsComplete == ASSUME LastBlock + 1 < IdMod PROVE Spec => DroppedWhenAnswered
<1>0. NoWrap
  BY DEF NoWrap
<1>1. Init => IInv /\ FlightInv
  BY <1>0, InitIInv, InitTransfer DEF FlightInv
<1>2. (IInv /\ FlightInv) /\ [Next]_vars => (IInv /\ FlightInv)'
  BY <1>0, NextIInv, NextFlight
<1>3. (IInv /\ FlightInv) /\ [Next]_vars =>
        [Undisturbed => \A n \in live \ live' :
           \E m \in inbox : m.type = "ACK" /\ m.req = n /\ m.block = pkg[n].block /\ m.more # "more"]_vars
  BY <1>0, ChangesPackages
<1> QED
  BY <1>1, <1>2, <1>3, PTL DEF Spec, DroppedWhenAnswered

-----------------------------------------------------------------------------
(* The socket layer.                                                         *)

(* The callback is where the receiving thread sends, and main is in no call  *)
(* when it closes the socket or opens it again.                              *)
SocketInv ==
  /\ sockfd \in Int
  /\ doing \in [Callers -> Messages \cup {"none"}]
  /\ doing["recv"] # "none" => thread = "callback"
  /\ UsesOpenSocket

LEMMA InitSocket == LayerInit => SocketInv
  BY DEF LayerInit, SocketInv, UsesOpenSocket, InUse, Ended, Callers, Messages

(* SocketInv is inductive.                                                   *)
LEMMA NextSocket == SocketInv /\ [LayerNext]_layerVars => SocketInv'
<1> SUFFICES ASSUME SocketInv, [LayerNext]_layerVars PROVE SocketInv'
  OBVIOUS
<1>a. "main" \in Callers /\ "recv" \in Callers /\ "main" # "recv"
      /\ \A c \in Callers : c = "main" \/ c = "recv"
  BY DEF Callers
<1>1. CASE SockInit
  <2>1. UNCHANGED <<doing, thread, mishaps>> /\ doing["main"] = "none" /\ ~IsOpen
    BY <1>1 DEF SockInit, SockCreate, sendVars, threadVars, SocketInv, IsOpen
  <2>2. sockfd' \in Int /\ (sockfd' > 0 => sockfd' \in open' \/ "close_failed" \in mishaps')
    BY <1>1 DEF SocketInv, UsesOpenSocket, SockInit, SockCreate, sockVars, Fds
  <2>3. InUse \/ (\E c \in Callers : doing[c] # "none") => "closed_in_use" \in mishaps
    BY <2>1 DEF SocketInv, UsesOpenSocket
  <2> QED
    BY <2>1, <2>2, <2>3 DEF SocketInv, UsesOpenSocket, InUse, Ended
<1>2. CASE Deinit
  <2>1. UNCHANGED <<thread, doing>> /\ doing["main"] = "none"
    BY <1>2 DEF Deinit, sendVars, threadVars
  <2>2. /\ sockfd' \in Int /\ mishaps \subseteq mishaps'
        /\ sockfd' > 0 => "close_failed" \in mishaps'
        /\ InUse => "closed_in_use" \in mishaps'
    BY <1>2 DEF Deinit, SockClose, SocketInv
  <2>3. (\E c \in Callers : doing[c] # "none") => InUse
    BY <1>a, <2>1 DEF SocketInv, InUse, Ended
  <2> QED
    BY <2>1, <2>2, <2>3 DEF SocketInv, UsesOpenSocket, InUse, Ended
<1>3. CASE TaskStart
  <2>1. UNCHANGED <<sockfd, handle, open, mishaps, doing>> /\ IsOpen /\ thread = "none" /\ thread' = "started"
    BY <1>3 DEF TaskStart, sockVars, sendVars
  <2> QED
    BY <2>1, <1>a DEF SocketInv, UsesOpenSocket, IsOpen, InUse, Ended
<1>4. ASSUME NEW c \in Callers, SendRefused(c) PROVE SocketInv'
  BY <1>4 DEF SendRefused, SocketInv, UsesOpenSocket, IsOpen, InUse, Ended, sockVars, threadVars
<1>5. ASSUME NEW c \in Callers, SendBegin(c) PROVE SocketInv'
  <2>1. UNCHANGED <<sockfd, handle, open, mishaps, thread>> /\ IsOpen
    BY <1>5 DEF SendBegin, sockVars, threadVars
  <2>2. PICK m \in Messages : doing' = [doing EXCEPT ![c] = m]
    BY <1>5 DEF SendBegin, Messages
  <2>3. c = "recv" => thread = "callback"
    BY <1>5 DEF SendBegin, Calls
  <2> QED
    BY <1>a, <2>1, <2>2, <2>3 DEF SocketInv, UsesOpenSocket, IsOpen, InUse, Ended
<1>6. ASSUME NEW c \in Callers, SendTurn(c) PROVE SocketInv'
  <2>1. UNCHANGED <<sockfd, handle, open, mishaps, thread>> /\ doing[c] # "none"
    BY <1>6 DEF SendTurn, sockVars, threadVars
  <2>2. doing' \in {doing, [doing EXCEPT ![c] = "none"]}
    BY <1>6 DEF SendTurn, Turn
  <2>3. IsOpen \/ "closed_in_use" \in mishaps
    BY <2>1 DEF SocketInv, UsesOpenSocket
  <2> QED
    BY <1>a, <2>1, <2>2, <2>3 DEF SocketInv, UsesOpenSocket, IsOpen, InUse, Ended
<1>7. CASE \/ ThreadStarts \/ SetBit \/ SelectReady \/ SelectStale \/ SelectInterrupted
           \/ SelectFails \/ Receive \/ CallbackReturns
  <2>1. UNCHANGED <<sockfd, handle, open, mishaps, doing>>
    BY <1>7 DEF ThreadStarts, SetBit, SelectReady, SelectStale, SelectInterrupted, SelectFails,
                Receive, CallbackReturns, sockVars, sendVars
  <2>2. InUse /\ (thread' = "callback" \/ doing["recv"] = "none")
    BY <1>7 DEF ThreadStarts, SetBit, SelectReady, SelectStale, SelectInterrupted, SelectFails,
                Receive, CallbackReturns, SocketInv, InUse, Ended
  <2>3. thread' = "undefined" => sockfd < 0
    BY <1>7 DEF ThreadStarts, SetBit, SelectReady, SelectStale, SelectInterrupted, SelectFails,
                Receive, CallbackReturns
  <2>4. IsOpen \/ "closed_in_use" \in mishaps
    BY <2>2 DEF SocketInv, UsesOpenSocket
  <2>5. thread' = "undefined" => "closed_in_use" \in mishaps
    BY <2>3, <2>4 DEF SocketInv, IsOpen
  <2> QED
    BY <1>a, <2>1, <2>2, <2>4, <2>5 DEF SocketInv, UsesOpenSocket, IsOpen
<1>8. CASE Arrive
  BY <1>8 DEF Arrive, SocketInv, UsesOpenSocket, IsOpen, InUse, Ended, sockVars, sendVars, threadVars
<1>9. CASE UNCHANGED layerVars
  BY <1>9 DEF SocketInv, UsesOpenSocket, IsOpen, InUse, Ended, layerVars, sockVars, sendVars, threadVars
<1> QED
  BY <1>1, <1>2, <1>3, <1>4, <1>5, <1>6, <1>7, <1>8, <1>9 DEF LayerNext

(* Both threads only ever use a socket that is open, while neither close     *)
(* fails nor main closes the socket under the receiving thread: the error    *)
(* paths of mbtk_coap_sock_init leave no dead descriptor.  Only a close      *)
(* under it leads the receiving thread to an undefined FD_SET.               *)
THEOREM SocketIsOpen == LayerSpec => []UsesOpenSocket
<1>1. SocketInv => UsesOpenSocket
  BY DEF SocketInv
<1> QED
  BY InitSocket, NextSocket, <1>1, PTL DEF LayerSpec

(* A turn of retry_send ends the call, as the channel's End does, or changes *)
(* nothing a caller or the network can see.                                  *)
LEMMA TurnEnds ==
  ASSUME SocketInv, NEW c \in Callers, SendTurn(c)
  PROVE  (\E r \in {"sent", "failed"} : Ch!End(c, r)) \/ UNCHANGED <<wire, doing, result>>
<1>1. PICK res \in {-1, Length} : Turn(c, res, 0)
  BY DEF SendTurn, SendResults
<1>2. CASE res = Length
  <2>1. 0 + res = Length
    BY <1>2, SendAssumption
  <2> QED
    BY <1>1, <1>2, <2>1 DEF Turn, Ch!End, SendTurn
<1>3. CASE res = -1
  <2>1. 0 + res # Length /\ res # Length
    BY <1>3, SendAssumption
  <2> QED
    BY <1>1, <2>1 DEF Turn, Ch!End, SendTurn
<1> QED
  BY <1>1, <1>2, <1>3

LEMMA StepSends ==
  SocketInv /\ [LayerNext]_layerVars => [Ch!ChannelNext]_<<wire, doing, result>>
<1> SUFFICES ASSUME SocketInv, [LayerNext]_layerVars
             PROVE  Ch!ChannelNext \/ UNCHANGED <<wire, doing, result>>
  OBVIOUS
<1>1. CASE \/ SockInit \/ Deinit \/ TaskStart \/ ThreadStarts \/ SetBit \/ SelectReady \/ SelectStale
           \/ SelectInterrupted \/ SelectFails \/ Receive \/ CallbackReturns \/ Arrive \/ UNCHANGED layerVars
  BY <1>1 DEF SockInit, SockCreate, Deinit, SockClose, TaskStart, ThreadStarts, SetBit, SelectReady, SelectStale,
              SelectInterrupted, SelectFails, Receive, CallbackReturns, Arrive, sendVars, layerVars
<1>2. ASSUME NEW c \in Callers, SendRefused(c) PROVE Ch!ChannelNext
  BY <1>2 DEF SendRefused, Calls, Ch!ChannelNext, Ch!Refuse
<1>3. ASSUME NEW c \in Callers, SendBegin(c) PROVE Ch!ChannelNext
  <2>1. PICK m \in Messages : doing' = [doing EXCEPT ![c] = m]
    BY <1>3 DEF SendBegin, Messages
  <2> QED
    BY <1>3, <2>1 DEF SendBegin, Calls, Ch!ChannelNext, Ch!Begin
<1>4. ASSUME NEW c \in Callers, SendTurn(c)
      PROVE  Ch!ChannelNext \/ UNCHANGED <<wire, doing, result>>
  BY <1>4, TurnEnds DEF Ch!ChannelNext
<1> QED
  BY <1>1, <1>2, <1>3, <1>4 DEF LayerNext

(* mbtk_coap_udp_sendto implements the datagram channel: whatever pending    *)
(* errors and failures come in between its turns, and whatever the other     *)
(* thread sends meanwhile, a call that returns success has sent its message  *)
(* once, and one that fails has not sent it.                                 *)
THEOREM ChannelRefinement == LayerSpec => SendsOnce
<1>1. LayerInit => Ch!ChannelInit
  BY DEF LayerInit, Ch!ChannelInit
<1> QED
  BY <1>1, InitSocket, NextSocket, StepSends, PTL DEF LayerSpec, SendsOnce, Ch!Channel, Ch!channelVars
=============================================================================
