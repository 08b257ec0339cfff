---------------------------- MODULE MCCoapClient ----------------------------
(* Small instances of CoapClient.                                            *)
EXTENDS CoapClient
=============================================================================
