--------------------------- MODULE MCDerivedBars ---------------------------
(* Small instances of DerivedBars for TLC.                                   *)
EXTENDS DerivedBars
=============================================================================
