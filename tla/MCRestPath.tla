----------------------------- MODULE MCRestPath -----------------------------
(* Small instances of RestPath for TLC.                                      *)
EXTENDS RestPath

CONSTANTS order, data

\* The order endpoint is the heavier one: two orders do not fit in a window.
Weights == [t \in Tasks |-> IF t = order THEN 2 ELSE 1]
=============================================================================
