--------------------------- MODULE MCEchoServers ---------------------------
(* The instance of EchoServers: its constants are given in echo.cfg.        *)
EXTENDS EchoServers
=============================================================================
