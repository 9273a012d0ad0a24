------------------------- MODULE MCKlineForwarder --------------------------
(* Small instances of KlineForwarder for TLC.                                *)
EXTENDS KlineForwarder
=============================================================================
