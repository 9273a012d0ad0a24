---------------------------- MODULE MCStationMux ----------------------------
(* Small instances of StationMux for TLC.                                    *)
EXTENDS StationMux, TLC

CONSTANTS c1, c2, c3, f1, f2, p1

\* Clients, and forcers, are interchangeable: none is named by the actions.
Symmetry == Permutations(Clients) \cup Permutations(Forcers)

\* The stations of a run.
Plain(family) == [family |-> family, grace |-> FALSE, persist |-> FALSE]
WithGrace(family) == [family |-> family, grace |-> TRUE, persist |-> FALSE]
WithDisk(family) == [family |-> family, grace |-> FALSE, persist |-> TRUE]
PlainStream == {Plain("ws")}
GraceStream == {WithGrace("ws")}
ConcurrentConfigs == {Plain("ws"), WithGrace("poll"), WithDisk("kline")}
DisciplinedConfigs == {[family |-> "kline", grace |-> TRUE, persist |-> TRUE],
                       Plain("poll")}
=============================================================================
