------------------------------ MODULE MCCoapPdu ------------------------------
(* Small instances of CoapPdu.  x stands for any character of a word.        *)
EXTENDS CoapPdu

x == <<120>>
xy == <<120, 121>>

(* "/", "/x", "/xy/x", "/x?xy", "/xy?x&x": paths and queries of one and two  *)
(* characters, alone, first and last.                                        *)
MCUris == {<<<< >>, << >>>>, <<<<x>>, << >>>>, <<<<xy, x>>, << >>>>,
           <<<<x>>, <<xy>>>>, <<<<xy>>, <<x, x>>>>}

=============================================================================
