-------------------------- MODULE DescriptorTable --------------------------
(***************************************************************************)
(* What the stanet sessions promise about descriptors, with no queue, no   *)
(* thread and no state machine: a descriptor is created fresh, only the    *)
(* session that holds it closes it, and only once.  A session may lose one *)
(* that is still open (stanet_daemon.c overwrites session->sockfd when a   *)
(* second OPEN reaches a session), but never takes another one's.          *)
(***************************************************************************)
EXTENDS Integers

CONSTANTS Holders, Fds

VARIABLES open, held, watched

tableVars == <<open, held, watched>>

TInit == /\ open = {} /\ watched = {}
         /\ held = [h \in Holders |-> -1]

(* A fresh descriptor; what the holder had before is lost, not closed.      *)
Create(h, fd) == /\ fd \in Fds \ open
                 /\ open' = open \cup {fd}
                 /\ held' = [held EXCEPT ![h] = fd]
                 /\ UNCHANGED watched

(* No descriptor could be created; what the holder had before is lost.      *)
Lose(h) == /\ held' = [held EXCEPT ![h] = -1]
           /\ UNCHANGED <<open, watched>>

Watch(h) == /\ held[h] \in open
            /\ watched' = watched \cup {held[h]}
            /\ UNCHANGED <<open, held>>

(* The holder closes its own descriptor, which nobody else holds.           *)
CloseOwn(h) == /\ held[h] \in open
               /\ \A g \in Holders \ {h} : held[g] # held[h]
               /\ open' = open \ {held[h]}
               /\ watched' = watched \ {held[h]}
               /\ held' = [held EXCEPT ![h] = -1]

TNext == \E h \in Holders : \/ \E fd \in Fds : Create(h, fd)
                            \/ Lose(h) \/ Watch(h) \/ CloseOwn(h)

TSpec == TInit /\ [][TNext]_tableVars
=============================================================================
