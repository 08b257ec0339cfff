------------------------------- MODULE MList -------------------------------
(***************************************************************************)
(* The queue of lib/m_queue.c and the list of lib/m_list.c: cells that     *)
(* malloc gives out, with whatever an earlier use has left in them, linked *)
(* behind a head.  What is put in a queue or a list are its numbers 1, 2,  *)
(* and so on.                                                              *)
(***************************************************************************)
EXTENDS Integers, Sequences, FiniteSets

CONSTANTS
  Heads,       (* queues and lists                                           *)
  Cells,       (* bound: cells of the heap, positive numbers                 *)
  MaxPuts      (* bound: items put in one of them                            *)

ASSUME MListAssumption ==
  Cells \subseteq Nat \ {0} /\ MaxPuts \in Nat /\ Heads \cap Cells = {}

VARIABLES
  next,        (* of every head and cell, 0 for NULL; kept when it is freed   *)
  data,        (* of every cell                                               *)
  live,        (* cells that are allocated                                    *)
  puts, taken, (* items put in, items taken out or freed                      *)
  over,        (* heads not yet initialised, and lists list_free has freed    *)
  list_free_func,  (* whose function the one static variable holds            *)
  givenTo      (* whose function the freed items of a list were given to      *)

listVars == <<next, data, live, puts, taken, over, list_free_func, givenTo>>

ListInit ==
  /\ next = [n \in Heads \cup Cells |-> 0] /\ data = [c \in Cells |-> 0] /\ live = {}
  /\ puts = [h \in Heads |-> 0] /\ taken = [h \in Heads |-> 0] /\ over = Heads
  /\ list_free_func = 0 /\ givenTo = [h \in Heads |-> 0]

(* q_init, or list_init, which changes the function of every list.          *)
HeadInit(h) ==
  /\ h \in over
  /\ next' = [next EXCEPT ![h] = 0]
  /\ puts' = [puts EXCEPT ![h] = 0] /\ taken' = [taken EXCEPT ![h] = 0]
  /\ over' = over \ {h} /\ list_free_func' \in {h, list_free_func}
  /\ UNCHANGED <<data, live, givenTo>>

(* The cells from a head on, as the loops of the library find them; no      *)
(* more than the items put in.                                              *)
NodeBefore(h, c, k)  == IF k = 1 THEN h ELSE c[k - 1]
IsChain(links, h, c) == /\ \A k \in 1 .. Len(c) : links[NodeBefore(h, c, k)] = c[k]
                        /\ links[NodeBefore(h, c, Len(c) + 1)] = 0
Walks    == UNION {[1 .. k -> Cells] : k \in 0 .. MaxPuts}
Chain(h) == CHOOSE c \in Walks : IsChain(next, h, c)

CellsOf(h)  == {Chain(h)[k] : k \in DOMAIN Chain(h)}
LastCell(h) == NodeBefore(h, Chain(h), Len(Chain(h)) + 1)

(* Mutant: the new cell's next is not set.                                  *)
LinkedStale(h, c) == [next EXCEPT ![LastCell(h)] = c]

(* The new cell has no next and becomes the next of the last one.           *)
Linked(h, c) == [next EXCEPT ![LastCell(h)] = c, ![c] = 0]

(* q_put and list_add; malloc may fail.                                     *)
QPut(h) ==
  /\ h \notin over /\ puts[h] < MaxPuts
  /\ \/ UNCHANGED <<next, data, live, puts>>
     \/ \E c \in Cells \ live :
          /\ live' = live \cup {c} /\ next' = Linked(h, c)
          /\ puts' = [puts EXCEPT ![h] = @ + 1]
          /\ data' = [data EXCEPT ![c] = puts'[h]]
  /\ UNCHANGED <<taken, over, list_free_func, givenTo>>

(* q_get: the first cell, if there is one.                                  *)
QGet(h) ==
  /\ h \notin over /\ next[h] # 0
  /\ next' = [next EXCEPT ![h] = next[next[h]]]
  /\ live' = live \ {next[h]}
  /\ taken' = [taken EXCEPT ![h] = @ + 1]
  /\ UNCHANGED <<data, puts, over, list_free_func, givenTo>>

(* list_free: every item is given to the function of the list_init that was *)
(* called last, for whichever list, and its cell freed; the head keeps its  *)
(* next, so the list is not used again before list_init.                    *)
ListFree(h) ==
  /\ h \notin over
  /\ live' = live \ CellsOf(h)
  /\ taken' = [taken EXCEPT ![h] = @ + Len(Chain(h))]
  /\ over' = over \cup {h}
  /\ givenTo' = [givenTo EXCEPT ![h] = list_free_func]
  /\ UNCHANGED <<next, data, puts, list_free_func>>

ListNext == \E h \in Heads : HeadInit(h) \/ QPut(h) \/ QGet(h) \/ ListFree(h)

ListSpec == ListInit /\ [][ListNext]_listVars

-----------------------------------------------------------------------------
(* A queue has an end, and holds what was put in and not yet taken out,     *)
(* first in first out, whichever freed cells malloc gives out again and to  *)
(* which queue.                                                             *)
FirstInFirstOut ==
  \A h \in Heads \ over :
    LET c == Chain(h) IN
    /\ \E w \in Walks : IsChain(next, h, w)
    /\ Len(c) = puts[h] - taken[h]
    /\ \A k \in DOMAIN c : data[c[k]] = taken[h] + k

(* Every allocated cell is in one queue only, none is lost, and no queue    *)
(* holds a freed one.                                                       *)
CellsOwned ==
  /\ live = UNION {CellsOf(h) : h \in Heads \ over}
  /\ \A g, h \in Heads \ over : g # h => CellsOf(g) \cap CellsOf(h) = {}

(* However puts, gets and frees of several queues alternate, each queue     *)
(* keeps its own items in order, and every cell has one owner.              *)
QueuesExact == FirstInFirstOut /\ CellsOwned
=============================================================================
