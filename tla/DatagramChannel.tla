--------------------------- MODULE DatagramChannel ---------------------------
(* What a caller of mbtk_coap_udp_sendto may rely on: a call puts its message *)
(* on the wire once and says so, or not at all and says that.  CoapClient     *)
(* takes sending to be this.                                                  *)
EXTENDS Sequences

CONSTANTS Callers, Messages

VARIABLES
  wire,    \* the messages sent, in order
  doing,   \* the message a caller is in the middle of sending, "none" if none
  result   \* "sent" or "failed": what the caller's last call returned

channelVars == <<wire, doing, result>>

ChannelInit ==
  /\ wire = << >>
  /\ doing = [c \in Callers |-> "none"]
  /\ result = [c \in Callers |-> "failed"]

\* The channel is not open.
Refuse(c) ==
  /\ doing[c] = "none"
  /\ result' = [result EXCEPT ![c] = "failed"]
  /\ UNCHANGED <<wire, doing>>

Begin(c, m) ==
  /\ doing[c] = "none"
  /\ doing' = [doing EXCEPT ![c] = m]
  /\ UNCHANGED <<wire, result>>

End(c, r) ==
  /\ doing[c] # "none"
  /\ wire' = IF r = "sent" THEN Append(wire, doing[c]) ELSE wire
  /\ doing' = [doing EXCEPT ![c] = "none"]
  /\ result' = [result EXCEPT ![c] = r]

ChannelNext ==
  \E c \in Callers :
    \/ Refuse(c)
    \/ \E m \in Messages : Begin(c, m)
    \/ \E r \in {"sent", "failed"} : End(c, r)

Channel == ChannelInit /\ [][ChannelNext]_channelVars
==============================================================================
