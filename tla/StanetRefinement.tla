-------------------------- MODULE StanetRefinement --------------------------
(* The sessions of Stanet implement the descriptor table.                    *)
EXTENDS Stanet

Table == INSTANCE DescriptorTable
           WITH Holders <- Ids, open <- fds, held <- sockfd, watched <- epoll

(* Every step of the daemon that touches a descriptor, session->sockfd or    *)
(* the epoll set is a step of the descriptor table: in particular the        *)
(* close() of session_reset hits a descriptor its own session holds alone.   *)
ImplementsTable == Table!TSpec
=============================================================================
