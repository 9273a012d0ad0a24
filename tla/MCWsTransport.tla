--------------------------- MODULE MCWsTransport ---------------------------
(* Small instances of WsTransport for TLC.                                   *)
EXTENDS WsTransport

CONSTANTS s1, s2
=============================================================================
