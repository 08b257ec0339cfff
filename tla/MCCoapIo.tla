----------------------------- MODULE MCCoapIo -----------------------------
(***************************************************************************)
(* The two layers under the CoAP client, one of which a behaviour          *)
(* exercises: datagrams with settings of every kind (block numbers of one  *)
(* and two bytes, numbers at the limits of a byte, paths and queries, and  *)
(* two types, If-Match and Accept, that the client does not send), and the *)
(* socket that two threads use.                                            *)
(***************************************************************************)
EXTENDS CoapSock, CoapMessage

VARIABLE layer

Setting(t, v) == [type |-> t, value |-> v]
Block(n)      == [number |-> n, more |-> 0, size |-> 2]

MCSettings ==
  {Setting(BLOCK2, Block(15)), Setting(BLOCK2, Block(16)), Setting(BLOCK1, Block(0)), Setting(BLOCK1, Block(4096)),
   Setting(MAX_AGE, 1), Setting(MAX_AGE, 255), Setting(OBSERVE, 0),
   Setting(CONTENT_FORMAT, 0), Setting(CONTENT_FORMAT, 50),
   Setting(URI_PATH, <<47, 120>>), Setting(URI_PATH, <<47, 120, 121, 47, 120>>),
   Setting(URI_PATH, <<47, 120, 63, 97, 61, 49>>),
   Setting(URI_QUERY, <<120, 61, 49>>), Setting(1, <<120>>), Setting(17, 40)}

MCTokens   == {<< >>, <<182, 229>>, <<1, 2, 3, 4, 5, 6, 7, 255>>}
MCPayloads == {<< >>, <<255, 64>>}

MCInit == LayerInit /\ MessageInit /\ layer \in {"socket", "message"}

MCNext ==
  /\ UNCHANGED layer
  /\ \/ layer = "socket" /\ LayerNext /\ UNCHANGED messageVars
     \/ layer = "message" /\ MessageNext /\ UNCHANGED layerVars

MCSpec ==
  /\ MCInit /\ [][MCNext]_<<layer, layerVars, messageVars>>
  /\ layer = "socket" => Fairness
=============================================================================
