---------------------------- MODULE SharedStream ----------------------------
(***************************************************************************)
(* What the Station promises the consumers of one SeriesKey: they share    *)
(* one upstream stream, which starts with the first of them, stays up      *)
(* while any of them is attached, and stops after the last one left.  Only *)
(* a forced teardown stops it earlier.                                     *)
(***************************************************************************)
CONSTANT Clients

VARIABLES
  attached,  \* the consumers whose handle is alive
  forcing,   \* a forced teardown was asked for
  stream     \* "down", "up" or "closing"

vars == <<attached, forcing, stream>>

Init == attached = {} /\ forcing = FALSE /\ stream = "down"

\* The first consumer starts the stream; handles of a stream that was forced
\* down are gone by then.
Start(c) ==
  /\ stream = "down" /\ attached = {}
  /\ stream' = "up"
  /\ attached' = {c}
  /\ UNCHANGED forcing

Join(c) ==
  /\ stream = "up" /\ ~forcing
  /\ c \notin attached
  /\ attached' = attached \cup {c}
  /\ UNCHANGED <<forcing, stream>>

Leave(c) ==
  /\ c \in attached
  /\ attached' = attached \ {c}
  /\ UNCHANGED <<forcing, stream>>

Stop ==
  /\ stream = "up" /\ attached = {}
  /\ stream' = "closing"
  /\ UNCHANGED <<attached, forcing>>

Force ==
  /\ stream = "up"
  /\ forcing' = TRUE
  /\ UNCHANGED <<attached, stream>>

ForcedStop ==
  /\ forcing
  /\ stream' = IF stream = "up" THEN "closing" ELSE stream
  /\ forcing' = FALSE
  /\ UNCHANGED attached

Closed ==
  /\ stream = "closing"
  /\ stream' = "down"
  /\ UNCHANGED <<attached, forcing>>

Next == \/ \E c \in Clients : Start(c) \/ Join(c) \/ Leave(c)
        \/ Stop \/ Force \/ ForcedStop \/ Closed

Spec == Init /\ [][Next]_vars

\* With nobody attached the stream does stop, and closing comes to an end.
FairSpec == /\ Spec
            /\ WF_vars(Stop) /\ WF_vars(ForcedStop) /\ WF_vars(Closed)
=============================================================================
