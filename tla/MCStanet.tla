------------------------------ MODULE MCStanet ------------------------------
(* Small instances of Stanet: a short and a long host name, and an IPv6      *)
(* literal, whose colons the parser of the OPEN message meets first.         *)
EXTENDS StanetRefinement

CONSTANTS c1, c2, short, long, ipv6

MCHostLen == [h \in Hosts |-> IF h = short THEN 1 ELSE 2]
=============================================================================
