----------------------------- MODULE MCStanetQmi -----------------------------
(* The shipped daemon: one caller, one server.                               *)
EXTENDS StanetQmi

CONSTANT server

MCHostLen == [h \in Hosts |-> 1]
=============================================================================
