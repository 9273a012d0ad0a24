-------------------------- MODULE StationMuxProofs --------------------------
(***************************************************************************)
(* What StationMux guarantees for every number of callers, forwarders and  *)
(* timers, every configuration and every interleaving.  First whatever     *)
(* overlaps: no orphan, no dead entry, no trace.  Then until calls first   *)
(* overlap at the key: a handle is served, one forwarder runs at a time,   *)
(* and the registries find it.  Then how far the count of consumers drifts *)
(* once they do.  Last, until calls overlap or an upstream cuts a          *)
(* forwarder off, that the key is a SharedStream: whatever its tasks do to *)
(* the registries, its consumers see one shared stream.                    *)
(***************************************************************************)
EXTENDS StationMux, FiniteSetTheorems, TLAPS

-----------------------------------------------------------------------------
(* The strengthening.  Forwarder numbers are handed out once; the number a   *)
(* subscribe call is about to insert is known to nobody else; what a forcer  *)
(* holds is already marked as ended.                                         *)

SpawnPcs == {"spawn", "ack", "insert"}
Spawning(c) == client[c].at \in SpawnPcs
HoldsSender(f) == forcer[f].at \in {"unmux", "unseries", "fire"} /\ forcer[f].holds # 0

\* Numbers above `gens` are not in use.
NumbersFresh ==
  /\ mux.gen <= gens
  /\ \A c \in Clients : client[c].gen <= gens
  /\ \A f \in Forcers : forcer[f].holds <= gens
  /\ seriesHandle <= gens /\ exitAck <= gens /\ flushHandle <= gens
  /\ \A g \in fired : g <= gens
  /\ \A g \in Gens : g > gens => pc[g] = "unborn"

\* A number being spawned is private to its subscribe call.
SpawnPrivate ==
  \A c \in Clients : Spawning(c) =>
    /\ client[c].gen \in Gens
    /\ mux.gen # client[c].gen
    /\ client[c].gen \notin fired
    /\ \A d \in Clients : Spawning(d) /\ client[d].gen = client[c].gen => d = c
    /\ \A f \in Forcers : HoldsSender(f) => forcer[f].holds # client[c].gen
    /\ client[c].at \in {"spawn", "ack"} => pc[client[c].gen] = "unborn"
    /\ client[c].at = "insert" =>
         pc[client[c].gen] \in Running \/ client[c].gen \in ended

\* A shutdown sender out of the registry belongs to a forced teardown.
SendersMarked == \A f \in Forcers : HoldsSender(f) => forcer[f].holds \in ended

\* Where a forwarder may be while a registry still names it.
Registered ==
  /\ seriesHandle # 0 => HasSeries
  /\ \A g \in Gens :
       /\ seriesHandle = g => pc[g] \notin {"unack", "signal", "gone"}
       /\ exitAck = g => pc[g] \notin {"signal", "gone"}
       /\ g \in disk => pc[g] \in {"live", "healing", "unflush", "flushing"}
       /\ flushHandle = g => g \in disk /\ pc[g] \in {"live", "healing", "unflush"}

IInv == /\ TypeOK
        /\ NumbersFresh
        /\ SpawnPrivate
        /\ SendersMarked
        /\ MuxMeansLive
        /\ Registered

-----------------------------------------------------------------------------
USE DEF registries, tasks, history

\* The empty entry is no Multiplexer.
LEMMA NoMuxGen == NoMux.gen = 0 /\ \A m \in Muxes : m # NoMux /\ m.gen # 0
  BY MuxAssumption DEF Muxes, NoMux, Gens

\* The fields of a Multiplexer.
LEMMA MuxFields ==
  ASSUME NEW m \in Muxes
  PROVE  /\ m.gen \in Gens /\ m.consumers \in 0 .. Modulus - 1
         /\ m.shutdown \in BOOLEAN /\ m.cancel \in 0 .. NumTimers
  BY DEF Muxes

\* The counter has room: more values than there are clients.
LEMMA Room == Cardinality(Clients) \in Nat /\ Modulus \in Nat \ {0}
<1>1. Cardinality(Clients) \in Nat
  BY MuxAssumption, FS_CardinalityType
<1> QED
  BY <1>1, MuxAssumption

\* A fresh Multiplexer, as subscribe inserts it.
LEMMA FreshMux ==
  ASSUME NEW g \in Gens
  PROVE  [gen |-> g, consumers |-> 1 % Modulus, shutdown |-> TRUE, cancel |-> 0] \in Muxes
  BY MuxAssumption, Room DEF Muxes

\* The usize counter wraps within its range.
LEMMA Wraps == ASSUME NEW n \in Int PROVE n % Modulus \in 0 .. Modulus - 1
  BY Room

\* One more consumer leaves a Multiplexer.
LEMMA CountUpTyped == ASSUME NEW m \in Muxes PROVE CountUp(m) \in Muxes
<1>1. (m.consumers + 1) % Modulus \in 0 .. Modulus - 1
  BY Wraps DEF Muxes
<1>2. 0 \in 0 .. NumTimers
  BY MuxAssumption
<1> QED
  BY <1>1, <1>2 DEF CountUp, Muxes

\* One consumer less leaves a Multiplexer, at 0 too: the counter wraps.
LEMMA CountDownTyped == ASSUME NEW m \in Muxes PROVE CountDown(m) \in Muxes
<1>1. (m.consumers - 1) % Modulus \in 0 .. Modulus - 1
  BY Wraps DEF Muxes
<1> QED
  BY <1>1 DEF CountDown, Muxes

\* So does arming or disarming its grace timer, and taking its shutdown sender.
LEMMA CancelTyped ==
  ASSUME NEW m \in Muxes, NEW t \in 0 .. NumTimers
  PROVE  /\ [m EXCEPT !.cancel = t] \in Muxes
         /\ [m EXCEPT !.shutdown = FALSE, !.cancel = t] \in Muxes
  BY DEF Muxes

\* The channels a displaced entry resolves, the empty entry's included.
LEMMA ResolvedTyped ==
  ASSUME NEW m \in Muxes \cup {NoMux}
  PROVE  CancelledBy(m) \subseteq Timers /\ FiredBy(m) \subseteq Gens
  BY MuxAssumption DEF Muxes, NoMux, CancelledBy, FiredBy, Timers

\* A task's place and what it holds stay in range when a step moves it.
LEMMA ClientMoves ==
  ASSUME NEW k \in [Clients -> ClientStates], NEW c \in Clients, NEW n \in 0 .. MaxGen,
         NEW at \in {"idle", "wire", "spawn", "ack", "insert", "held", "zero"}
  PROVE  /\ [k EXCEPT ![c].at = at] \in [Clients -> ClientStates]
         /\ [k EXCEPT ![c] = [at |-> at, gen |-> n]] \in [Clients -> ClientStates]
  BY DEF ClientStates

\* The same for a forced teardown.
LEMMA ForcerMoves ==
  ASSUME NEW k \in [Forcers -> ForcerStates], NEW f \in Forcers,
         NEW n \in 0 .. MaxGen, NEW m \in 0 .. MaxGen,
         NEW at \in {"idle", "unmux", "unseries", "fire", "ack", "await", "done"}
  PROVE  /\ [k EXCEPT ![f].at = at] \in [Forcers -> ForcerStates]
         /\ [k EXCEPT ![f].at = at, ![f].holds = n] \in [Forcers -> ForcerStates]
         /\ [k EXCEPT ![f].at = at, ![f].target = n] \in [Forcers -> ForcerStates]
         /\ [k EXCEPT ![f] = [at |-> at, target |-> m, holds |-> n]]
              \in [Forcers -> ForcerStates]
  BY DEF ForcerStates

\* The same for a flush.
LEMMA FlusherMoves ==
  ASSUME NEW k \in [Flushers -> FlusherStates], NEW f \in Flushers, NEW n \in 0 .. MaxGen,
         NEW at \in {"idle", "send", "wait", "sweep"}
  PROVE  /\ [k EXCEPT ![f].at = at] \in [Flushers -> FlusherStates]
         /\ [k EXCEPT ![f] = [at |-> at, gen |-> n]] \in [Flushers -> FlusherStates]
  BY DEF FlusherStates

\* The initial state is well typed.
LEMMA InitType == Init => TypeOK
  BY MuxAssumption DEF Init, TypeOK, HistoryOK, Running, Teardown, ClientStates, ForcerStates, FlusherStates

\* Displacing the key's entry by a well-typed one keeps the types it touches.
LEMMA ReplaceTyped ==
  ASSUME TypeOK, NEW m \in Muxes \cup {NoMux}, ReplaceMux(m)
  PROVE  mux' \in Muxes \cup {NoMux} /\ fired' \subseteq Gens /\ cancelled' \subseteq Timers
  BY ResolvedTyped DEF TypeOK, ReplaceMux

\* What the history records, step by step: a breach when a call begins and when a
\* forwarder is cut off, a stray when a handle is dropped.
LEMMA HistoryStep ==
  ASSUME Next
  PROVE  /\ breaches' \in {breaches, breaches \cup {"overlap"}, breaches \cup {"cut"}}
         /\ strays' \in {0, strays, strays + 1}
<1>1. ASSUME NEW c \in Clients, ClientNext(c)
      PROVE  /\ breaches' \in {breaches, breaches \cup {"overlap"}, breaches \cup {"cut"}}
             /\ strays' \in {0, strays, strays + 1}
  BY <1>1 DEF ClientNext, SubscribeStep, ReleaseStep, AcquireHit, AcquireMiss, WireOk, WireFail,
     InsertSeries, SpawnForwarder, InsertMux, Release, ShutdownNow, ArmGrace, RemoveMux,
     ReplaceMux, BeginSubscribe, BeginCall, Begin
<1>2. ASSUME NEW t \in Timers, TimerNext(t)
      PROVE  breaches' = breaches /\ strays' \in {0, strays}
  BY <1>2 DEF TimerNext, TimerCancelled, TimerExpires, TimerRemovesMux, TimerRemovesSeries,
     RemoveMux, ReplaceMux
<1>3. ASSUME NEW f \in Forcers, ForceTakes(f) \/ ForceStep(f)
      PROVE  /\ breaches' \in {breaches, breaches \cup {"overlap"}} /\ strays' \in {0, strays}
  BY <1>3 DEF ForceTakes, ForceStep, ForceRemovesMux, ForceRemovesSeries, ForceFires,
     ForceTakesAck, ForceAcked, ForceReturns, RemoveMux, ReplaceMux, BeginCall, Begin
<1>4. ASSUME NEW f \in Flushers, FlushSnapshot(f) \/ FlushStep(f)
      PROVE  /\ breaches' \in {breaches, breaches \cup {"overlap"}} /\ strays' = strays
  BY <1>4 DEF FlushSnapshot, FlushStep, FlushSend, FlushDropped, FlushSweep, BeginCall, Begin
<1>5. ASSUME NEW g \in Gens, ForwarderNext(g)
      PROVE  breaches' \in {breaches, breaches \cup {"cut"}} /\ strays' \in {0, strays}
  BY <1>5 DEF ForwarderNext, ForwarderStep, OpenStore, ObserveShutdown, ExitOnDisconnect,
     StartHeal, EndHeal, ServeFlush, UnregisterFlush, FinalFlush, CountConsumers, RemoveDeadMux,
     UnregisterSeries, UnregisterAck, SignalExit, RemoveMux, ReplaceMux
<1> QED BY <1>1, <1>2, <1>3, <1>4, <1>5 DEF Next

\* The history keeps its type.
LEMMA HistoryTyped == ASSUME HistoryOK, Next PROVE HistoryOK'
<1>1. breaches' \subseteq {"overlap", "cut"}
  BY HistoryStep DEF HistoryOK
<1>2. strays' \in Nat
  <2>1. strays' \in {0, strays, strays + 1}
    BY HistoryStep
  <2> QED
    BY <2>1 DEF HistoryOK
<1> QED
  BY <1>1, <1>2 DEF HistoryOK

\* Every step of a caller keeps the types.
LEMMA ClientType ==
  ASSUME TypeOK, SpawnPrivate, NEW c \in Clients, ClientNext(c)
  PROVE  TypeOK'
<1>0. HistoryOK'
  BY HistoryTyped DEF Next, TypeOK
<1> USE <1>0 DEF TypeOK
<1>1. CASE AcquireHit(c)
  <2>1. CountUp(mux) \in Muxes /\ CancelledBy(mux) \subseteq Timers /\ mux.gen \in 0 .. MaxGen
    BY <1>1, CountUpTyped, ResolvedTyped, MuxFields DEF AcquireHit, Gens
  <2> QED
    BY <1>1, <2>1, ClientMoves DEF AcquireHit
<1>2. CASE AcquireMiss(c)
  BY <1>2, ClientMoves DEF AcquireMiss, Goto
<1>3. CASE WireOk(c)
  <2>1. gens + 1 \in 0 .. MaxGen
    BY <1>3, MuxAssumption DEF WireOk
  <2> QED
    BY <1>3, <2>1, ClientMoves DEF WireOk
<1>4. CASE WireFail(c)
  BY <1>4, ClientMoves DEF WireFail, Goto
<1>5. CASE InsertSeries(c)
  <2>1. client[c].gen \in 0 .. MaxGen
    BY DEF ClientStates
  <2> QED
    BY <1>5, <2>1, ClientMoves DEF InsertSeries, Goto
<1>6. CASE SpawnForwarder(c)
  <2>1. client[c].gen \in Gens /\ client[c].gen \in 0 .. MaxGen
    BY <1>6 DEF SpawnForwarder, SpawnPrivate, Spawning, SpawnPcs, Gens
  <2> QED
    BY <1>6, <2>1, ClientMoves DEF SpawnForwarder, Goto, Running
<1>7. CASE InsertMux(c)
  <2>1. client[c].gen \in Gens
    BY <1>7 DEF InsertMux, SpawnPrivate, Spawning, SpawnPcs
  <2>2. /\ mux' \in Muxes \cup {NoMux}
        /\ fired' \subseteq Gens /\ cancelled' \subseteq Timers
    BY <1>7, <2>1, FreshMux, ReplaceTyped DEF InsertMux
  <2> QED
    BY <1>7, <2>2, ClientMoves DEF InsertMux, Goto
<1>8. CASE Release(c)
  <2>1. mux' \in Muxes \cup {NoMux}
    BY <1>8, CountDownTyped DEF Release
  <2>2. PICK at \in {"idle", "zero"} : client' = [client EXCEPT ![c].at = at]
    BY <1>8 DEF Release, Goto
  <2> QED
    BY <1>8, <2>1, <2>2, ClientMoves DEF Release
<1>9. CASE ShutdownNow(c)
  BY <1>9, ReplaceTyped, ClientMoves DEF ShutdownNow, Goto, RemoveMux
<1>10. CASE ArmGrace(c)
  <2>1. CASE mux = NoMux
    BY <1>10, <2>1, ClientMoves DEF ArmGrace, Goto
  <2>2. CASE mux # NoMux
    <3>1. PICK t \in Timers :
            /\ timer' = [timer EXCEPT ![t] = "armed"]
            /\ mux' = [mux EXCEPT !.cancel = t]
            /\ cancelled' = cancelled \cup CancelledBy(mux)
      BY <1>10, <2>2 DEF ArmGrace
    <3>2. mux \in Muxes /\ t \in 0 .. NumTimers
      BY <2>2, MuxAssumption DEF Timers
    <3>3. [mux EXCEPT !.cancel = t] \in Muxes /\ CancelledBy(mux) \subseteq Timers
      BY <3>2, CancelTyped, ResolvedTyped
    <3> QED
      BY <1>10, <3>1, <3>3, ClientMoves DEF ArmGrace, Goto
  <2> QED
    BY <2>1, <2>2
<1> QED
  BY <1>1, <1>2, <1>3, <1>4, <1>5, <1>6, <1>7, <1>8, <1>9, <1>10
  DEF ClientNext, SubscribeStep, ReleaseStep

\* Every step of a grace timer keeps the types.
LEMMA TimerType ==
  ASSUME TypeOK, NEW t \in Timers, TimerNext(t)
  PROVE  TypeOK'
<1>0. HistoryOK'
  BY HistoryTyped DEF Next, TypeOK
<1> USE <1>0 DEF TypeOK
<1>1. CASE TimerCancelled(t)
  BY <1>1 DEF TimerCancelled
<1>2. CASE TimerExpires(t)
  <2>1. mux' \in Muxes \cup {NoMux}
    <3>1. CASE mux \in Muxes
      <4>1. 0 \in 0 .. NumTimers
        BY MuxAssumption
      <4>2. [mux EXCEPT !.cancel = 0] \in Muxes
        BY <3>1, <4>1, CancelTyped
      <4> QED
        BY <1>2, <3>1, <4>2 DEF TimerExpires
    <3>2. CASE mux = NoMux
      BY <1>2, <3>2, MuxAssumption DEF TimerExpires, NoMux, Timers
    <3> QED
      BY <3>1, <3>2
  <2> QED
    BY <1>2, <2>1 DEF TimerExpires
<1>3. CASE TimerRemovesMux(t)
  BY <1>3, ReplaceTyped DEF TimerRemovesMux, RemoveMux
<1>4. CASE TimerRemovesSeries(t)
  BY <1>4, MuxAssumption DEF TimerRemovesSeries
<1> QED
  BY <1>1, <1>2, <1>3, <1>4 DEF TimerNext

\* Every step of a forced teardown keeps the types.
LEMMA ForceType ==
  ASSUME TypeOK, NEW f \in Forcers, ForceTakes(f) \/ ForceStep(f)
  PROVE  TypeOK'
<1>0. HistoryOK'
  BY HistoryTyped DEF Next, TypeOK
<1> USE <1>0 DEF TypeOK
<1>1. CASE ForceTakes(f)
  <2>1. mux \in Muxes /\ 0 \in 0 .. NumTimers
    BY <1>1, MuxAssumption DEF ForceTakes
  <2>2. [mux EXCEPT !.shutdown = FALSE, !.cancel = 0] \in Muxes
    BY <2>1, CancelTyped
  <2>3. mux.gen \in Gens /\ mux.gen \in 0 .. MaxGen /\ CancelledBy(mux) \subseteq Timers
    BY <2>1, MuxFields, ResolvedTyped DEF Gens
  <2> DEFINE h == IF mux.shutdown THEN mux.gen ELSE 0
  <2>4. h \in 0 .. MaxGen
    BY <2>3, MuxAssumption
  <2>5. forcer' = [forcer EXCEPT ![f] = [at |-> "unmux", target |-> mux.gen, holds |-> h]]
    BY <1>1 DEF ForceTakes
  <2> HIDE DEF h
  <2>6. forcer' \in [Forcers -> ForcerStates]
    BY <2>3, <2>4, <2>5, ForcerMoves
  <2> QED
    BY <1>1, <2>2, <2>3, <2>6 DEF ForceTakes
<1>2. CASE ForceRemovesMux(f)
  BY <1>2, ReplaceTyped, ForcerMoves DEF ForceRemovesMux, RemoveMux, ForcerTo
<1>3. CASE ForceRemovesSeries(f)
  <2>1. 0 \in 0 .. MaxGen
    BY MuxAssumption
  <2>2. forcer' \in [Forcers -> ForcerStates]
    BY <1>3, <2>1, ForcerMoves DEF ForceRemovesSeries, ForcerTo
  <2> QED
    BY <1>3, <2>1, <2>2 DEF ForceRemovesSeries
<1>4. CASE ForceFires(f)
  <2>1. {forcer[f].holds} \ {0} \subseteq Gens /\ 0 \in 0 .. MaxGen
    BY MuxAssumption DEF Gens, ForcerStates
  <2>2. forcer' \in [Forcers -> ForcerStates]
    BY <1>4, <2>1, ForcerMoves DEF ForceFires
  <2> QED
    BY <1>4, <2>1, <2>2 DEF ForceFires
<1>5. CASE ForceTakesAck(f)
  <2>1. (IF AckToAwait = 0 THEN "done" ELSE "await") \in {"done", "await"}
    OBVIOUS
  <2>2. forcer' \in [Forcers -> ForcerStates]
    BY <1>5, <2>1, ForcerMoves, ZenonT(40) DEF ForceTakesAck, AckToAwait
  <2> QED
    BY <1>5, <2>2, MuxAssumption DEF ForceTakesAck
<1>6. CASE ForceAcked(f)
  <2>1. 0 \in 0 .. MaxGen
    BY MuxAssumption
  <2> QED
    BY <1>6, <2>1, ForcerMoves DEF ForceAcked
<1>7. CASE ForceReturns(f)
  <2>1. 0 \in 0 .. MaxGen
    BY MuxAssumption
  <2> QED
    BY <1>7, <2>1, ForcerMoves DEF ForceReturns
<1> QED
  BY <1>1, <1>2, <1>3, <1>4, <1>5, <1>6, <1>7 DEF ForceStep

\* Every step of a flush keeps the types.
LEMMA FlushType ==
  ASSUME TypeOK, NEW f \in Flushers, FlushSnapshot(f) \/ FlushStep(f)
  PROVE  TypeOK'
<1>0. HistoryOK'
  BY HistoryTyped DEF Next, TypeOK
<1> USE <1>0 DEF TypeOK
<1>1. CASE FlushSnapshot(f)
  <2>1. (IF flushHandle = 0 THEN "sweep" ELSE "send") \in {"sweep", "send"}
    OBVIOUS
  <2> QED
    BY <1>1, <2>1, FlusherMoves DEF FlushSnapshot
<1>2. CASE FlushSend(f)
  <2>1. PICK at \in {"sweep", "wait"} : flusher' = [flusher EXCEPT ![f].at = at]
    BY <1>2 DEF FlushSend, FlusherTo
  <2>2. flusher' \in [Flushers -> FlusherStates]
    <3>1. flusher[f].gen \in 0 .. MaxGen
      BY DEF FlusherStates
    <3> QED
      BY <2>1, <3>1, FlusherMoves
  <2>3. box' \in [Gens -> SUBSET Flushers]
    BY <1>2 DEF FlushSend
  <2> QED
    BY <1>2, <2>2, <2>3 DEF FlushSend
<1>3. CASE FlushDropped(f)
  BY <1>3, FlusherMoves DEF FlushDropped, FlusherTo
<1>4. CASE FlushSweep(f)
  <2>1. 0 \in 0 .. MaxGen
    BY MuxAssumption
  <2> QED
    BY <1>4, <2>1, FlusherMoves DEF FlushSweep, Swept
<1> QED
  BY <1>1, <1>2, <1>3, <1>4 DEF FlushStep

\* Every step of a forwarder keeps the types.
LEMMA ForwarderType ==
  ASSUME TypeOK, NEW g \in Gens, ForwarderNext(g)
  PROVE  TypeOK'
<1>0. HistoryOK'
  BY HistoryTyped DEF Next, TypeOK
<1> USE <1>0 DEF TypeOK, FwdTo, Running, Teardown
<1>1. CASE OpenStore(g)
  <2>1. g \in 0 .. MaxGen
    BY MuxAssumption DEF Gens
  <2>2. disk' \subseteq Gens
    BY <1>1 DEF OpenStore
  <2>3. flushHandle' \in 0 .. MaxGen
    BY <1>1, <2>1 DEF OpenStore
  <2> QED
    BY <1>1, <2>2, <2>3 DEF OpenStore
<1>2. CASE ObserveShutdown(g)
  BY <1>2 DEF ObserveShutdown
<1>3. CASE ExitOnDisconnect(g)
  BY <1>3 DEF ExitOnDisconnect
<1>4. CASE StartHeal(g)
  BY <1>4 DEF StartHeal
<1>5. CASE EndHeal(g)
  BY <1>5 DEF EndHeal
<1>6. CASE ServeFlush(g)
  <2>1. PICK f \in Flushers : flusher' = [flusher EXCEPT ![f].at = "sweep"]
    BY <1>6 DEF ServeFlush, FlusherTo
  <2> QED
    BY <1>6, <2>1, FlusherMoves DEF ServeFlush
<1>7. CASE UnregisterFlush(g)
  BY <1>7, MuxAssumption DEF UnregisterFlush
<1>8. CASE FinalFlush(g)
  BY <1>8 DEF FinalFlush
<1>9. CASE CountConsumers(g)
  <2>1. PICK at \in {"unmux", "unseries"} : pc' = [pc EXCEPT ![g] = at]
    BY <1>9 DEF CountConsumers
  <2> QED
    BY <1>9, <2>1 DEF CountConsumers
<1>10. CASE RemoveDeadMux(g)
  BY <1>10, ReplaceTyped DEF RemoveDeadMux, RemoveMux
<1>11. CASE UnregisterSeries(g)
  BY <1>11, MuxAssumption DEF UnregisterSeries
<1>12. CASE UnregisterAck(g)
  BY <1>12, MuxAssumption DEF UnregisterAck
<1>13. CASE SignalExit(g)
  BY <1>13 DEF SignalExit
<1> QED
  BY <1>1, <1>2, <1>3, <1>4, <1>5, <1>6, <1>7, <1>8, <1>9, <1>10, <1>11, <1>12, <1>13
  DEF ForwarderNext, ForwarderStep

-----------------------------------------------------------------------------
(* The steps that leave the registries other than muxes, the forwarders and  *)
(* their stores as they are.                                                 *)

\* Callers and timers that work on muxes alone.
LEMMA MuxOnly ==
  ASSUME \/ \E c \in Clients : AcquireHit(c) \/ AcquireMiss(c) \/ WireOk(c) \/ WireFail(c)
                             \/ InsertMux(c) \/ Release(c) \/ ReleaseStep(c)
         \/ \E t \in Timers : TimerCancelled(t) \/ TimerExpires(t) \/ TimerRemovesMux(t)
         \/ \E f \in Forcers : ForceTakes(f) \/ ForceRemovesMux(f) \/ ForceFires(f)
                             \/ ForceAcked(f) \/ ForceReturns(f)
         \/ \E f \in Flushers : FlushSnapshot(f) \/ FlushSend(f) \/ FlushDropped(f)
  PROVE  UNCHANGED <<conf, seriesHandle, exitAck, flushHandle, pc, disk>>
  BY DEF AcquireHit, AcquireMiss, WireOk, WireFail, InsertMux, Release, ReleaseStep,
         ShutdownNow, ArmGrace, TimerCancelled, TimerExpires, TimerRemovesMux, ForceTakes,
         ForceRemovesMux, ForceFires, ForceAcked, ForceReturns, FlushSnapshot, FlushSend,
         FlushDropped

\* The registries name only forwarders that have not come to remove the entry.
LEMMA RegisteredStep == ASSUME IInv, Next PROVE Registered'
<1> USE DEF IInv, Registered, HasSeries
<1>1. CASE UNCHANGED <<conf, seriesHandle, exitAck, flushHandle, pc, disk>>
  BY <1>1
<1>2. ASSUME NEW c \in Clients, InsertSeries(c) PROVE Registered'
  <2>1. client[c].gen \in Gens /\ pc[client[c].gen] = "unborn"
    BY <1>2 DEF InsertSeries, SpawnPrivate, Spawning, SpawnPcs
  <2> QED
    BY <1>2, <2>1 DEF InsertSeries
<1>3. ASSUME NEW c \in Clients, SpawnForwarder(c) PROVE Registered'
  <2>1. client[c].gen \in Gens /\ pc[client[c].gen] = "unborn"
    BY <1>3 DEF SpawnForwarder, SpawnPrivate, Spawning, SpawnPcs
  <2> QED
    BY <1>3, <2>1 DEF SpawnForwarder, TypeOK
<1>4. ASSUME NEW t \in Timers, TimerRemovesSeries(t) PROVE Registered'
  BY <1>4 DEF TimerRemovesSeries, Gens
<1>5. ASSUME NEW f \in Forcers, ForceRemovesSeries(f) PROVE Registered'
  BY <1>5 DEF ForceRemovesSeries, Gens
<1>6. ASSUME NEW f \in Forcers, ForceTakesAck(f) PROVE Registered'
  BY <1>6 DEF ForceTakesAck, Gens
<1>7. ASSUME NEW f \in Flushers, FlushSweep(f) PROVE Registered'
  BY <1>7 DEF FlushSweep, Swept, Gens
<1>8. ASSUME NEW g \in Gens, ForwarderNext(g) PROVE Registered'
  <2> USE DEF FwdTo, TypeOK
  <2>1. CASE OpenStore(g)
    BY <2>1 DEF OpenStore
  <2>2. CASE ObserveShutdown(g) \/ ExitOnDisconnect(g) \/ StartHeal(g) \/ EndHeal(g)
    BY <2>2 DEF ObserveShutdown, ExitOnDisconnect, StartHeal, EndHeal
  <2>3. CASE ServeFlush(g)
    BY <2>3 DEF ServeFlush
  <2>4. CASE UnregisterFlush(g)
    BY <2>4 DEF UnregisterFlush, Gens
  <2>5. CASE FinalFlush(g)
    BY <2>5 DEF FinalFlush
  <2>6. CASE CountConsumers(g)
    BY <2>6 DEF CountConsumers
  <2>7. CASE RemoveDeadMux(g)
    BY <2>7 DEF RemoveDeadMux
  <2>8. CASE UnregisterSeries(g)
    BY <2>8 DEF UnregisterSeries, Gens
  <2>9. CASE UnregisterAck(g)
    BY <2>9 DEF UnregisterAck, Gens
  <2>10. CASE SignalExit(g)
    BY <2>10 DEF SignalExit
  <2> QED
    BY <1>8, <2>1, <2>2, <2>3, <2>4, <2>5, <2>6, <2>7, <2>8, <2>9, <2>10
    DEF ForwarderNext, ForwarderStep
<1> QED
  BY <1>1, <1>2, <1>3, <1>4, <1>5, <1>6, <1>7, <1>8, MuxOnly
  DEF Next, ClientNext, SubscribeStep, TimerNext, ForceStep, FlushStep

-----------------------------------------------------------------------------
\* What a displaced entry resolves, and what a removal leaves.
LEMMA Displaced ==
  ASSUME TypeOK, NEW m, ReplaceMux(m)
  PROVE  /\ mux' = m
         /\ fired \subseteq fired'
         /\ \A g \in fired' : g \in fired \/ g = mux.gen
  BY DEF ReplaceMux, FiredBy

\* An entry is changed in place, put in by its subscribe call, or removed.
LEMMA MuxChange ==
  ASSUME IInv, Next
  PROVE  \/ mux'.gen = mux.gen
         \/ mux' = NoMux
         \/ \E c \in Clients : InsertMux(c) /\ mux'.gen = client[c].gen
<1> USE DEF IInv, TypeOK
<1>1. ASSUME NEW c \in Clients, ClientNext(c)
      PROVE \/ mux'.gen = mux.gen \/ mux' = NoMux
            \/ InsertMux(c) /\ mux'.gen = client[c].gen
  <2>1. CASE AcquireHit(c) \/ Release(c)
    BY <2>1 DEF AcquireHit, Release, CountUp, CountDown, Muxes
  <2>2. CASE InsertMux(c)
    BY <2>2 DEF InsertMux, ReplaceMux
  <2>3. CASE ReleaseStep(c)
    BY <2>3 DEF ReleaseStep, ShutdownNow, ArmGrace, RemoveMux, ReplaceMux, Muxes
  <2>4. CASE AcquireMiss(c) \/ WireOk(c) \/ WireFail(c) \/ InsertSeries(c) \/ SpawnForwarder(c)
    BY <2>4 DEF AcquireMiss, WireOk, WireFail, InsertSeries, SpawnForwarder
  <2> QED
    BY <1>1, <2>1, <2>2, <2>3, <2>4 DEF ClientNext, SubscribeStep
<1>2. ASSUME NEW t \in Timers, TimerNext(t) PROVE mux'.gen = mux.gen \/ mux' = NoMux
  BY <1>2 DEF TimerNext, TimerCancelled, TimerExpires, TimerRemovesMux,
     TimerRemovesSeries, RemoveMux, ReplaceMux, Muxes, NoMux
<1>3. ASSUME NEW f \in Forcers, ForceTakes(f) \/ ForceStep(f)
      PROVE mux'.gen = mux.gen \/ mux' = NoMux
  BY <1>3 DEF ForceStep, ForceTakes, ForceRemovesMux, ForceRemovesSeries, ForceFires,
     ForceTakesAck, ForceAcked, ForceReturns, RemoveMux, ReplaceMux, Muxes
<1>4. ASSUME NEW f \in Flushers, FlushSnapshot(f) \/ FlushStep(f) PROVE mux' = mux
  BY <1>4 DEF FlushStep, FlushSnapshot, FlushSend, FlushDropped, FlushSweep
<1>5. ASSUME NEW g \in Gens, ForwarderNext(g) PROVE mux' = mux \/ mux' = NoMux
  BY <1>5 DEF ForwarderNext, ForwarderStep, ObserveShutdown, ExitOnDisconnect, StartHeal,
     ServeFlush, OpenStore, EndHeal, UnregisterFlush, FinalFlush, CountConsumers,
     RemoveDeadMux, UnregisterSeries, UnregisterAck, SignalExit, RemoveMux, ReplaceMux
<1> QED
  BY <1>1, <1>2, <1>3, <1>4, <1>5 DEF Next

\* A forwarder is told to stop only by the displacement of its entry or by the
\* teardown that took its sender, and then it is marked as ended.
LEMMA FiredChange ==
  ASSUME IInv, Next
  PROVE  /\ fired \subseteq fired'
         /\ \A g \in fired' : \/ g \in fired
                              \/ g = mux.gen /\ mux \in Muxes /\ mux'.gen # mux.gen
                              \/ \E f \in Forcers : HoldsSender(f) /\ forcer[f].holds = g
<1> USE DEF IInv, TypeOK
<1>1. ASSUME NEW m, ReplaceMux(m), m.gen # mux.gen \/ ~mux.shutdown
      PROVE /\ fired \subseteq fired'
            /\ \A g \in fired' :
                 g \in fired \/ (g = mux.gen /\ mux \in Muxes /\ mux'.gen # mux.gen)
  <2>1. mux' = m /\ fired' = fired \cup FiredBy(mux)
    BY <1>1 DEF ReplaceMux
  <2>2. \A g \in FiredBy(mux) : g = mux.gen /\ mux.shutdown
    BY DEF FiredBy
  <2>3. mux.shutdown => mux \in Muxes
    BY DEF NoMux
  <2>4. \A g \in FiredBy(mux) : g = mux.gen /\ mux \in Muxes /\ m.gen # mux.gen
    BY <1>1, <2>2, <2>3
  <2> HIDE DEF IInv, TypeOK
  <2> QED
    BY <2>1, <2>4
<1>2. RemoveMux => \E m : ReplaceMux(m) /\ (m.gen # mux.gen \/ ~mux.shutdown)
  <2>1. mux = NoMux => ~mux.shutdown
    BY DEF NoMux
  <2>2. mux # NoMux => NoMux.gen # mux.gen
    BY NoMuxGen
  <2> QED
    BY <2>1, <2>2 DEF RemoveMux
<1>3. ASSUME NEW c \in Clients, InsertMux(c)
      PROVE \E m : ReplaceMux(m) /\ (m.gen # mux.gen \/ ~mux.shutdown)
  BY <1>3 DEF InsertMux, SpawnPrivate, Spawning, SpawnPcs
<1>4. ASSUME NEW f \in Forcers, ForceFires(f)
      PROVE /\ fired \subseteq fired'
            /\ \A g \in fired' : g \in fired
                 \/ \E e \in Forcers : HoldsSender(e) /\ forcer[e].holds = g
  BY <1>4 DEF ForceFires, HoldsSender
<1>5. ASSUME NEW c \in Clients, ClientNext(c)
      PROVE UNCHANGED fired \/ InsertMux(c) \/ RemoveMux
  BY <1>5 DEF ClientNext, SubscribeStep, ReleaseStep, AcquireHit, AcquireMiss, WireOk,
     WireFail, InsertSeries, SpawnForwarder, Release, ShutdownNow, ArmGrace
<1>6. ASSUME NEW t \in Timers, TimerNext(t) PROVE UNCHANGED fired \/ RemoveMux
  BY <1>6 DEF TimerNext, TimerCancelled, TimerExpires, TimerRemovesMux, TimerRemovesSeries
<1>7. ASSUME NEW f \in Forcers, ForceTakes(f) \/ ForceStep(f)
      PROVE UNCHANGED fired \/ RemoveMux \/ ForceFires(f)
  BY <1>7 DEF ForceStep, ForceTakes, ForceRemovesMux, ForceRemovesSeries, ForceTakesAck,
     ForceAcked, ForceReturns
<1>8. ASSUME NEW f \in Flushers, FlushSnapshot(f) \/ FlushStep(f) PROVE UNCHANGED fired
  BY <1>8 DEF FlushStep, FlushSnapshot, FlushSend, FlushDropped, FlushSweep
<1>9. ASSUME NEW g \in Gens, ForwarderNext(g) PROVE UNCHANGED fired \/ RemoveMux
  BY <1>9 DEF ForwarderNext, ForwarderStep, ObserveShutdown, ExitOnDisconnect, StartHeal,
     ServeFlush, OpenStore, EndHeal, UnregisterFlush, FinalFlush, CountConsumers,
     RemoveDeadMux, UnregisterSeries, UnregisterAck, SignalExit
<1> QED
  BY <1>1, <1>2, <1>3, <1>4, <1>5, <1>6, <1>7, <1>8, <1>9 DEF Next

\* History only grows.
LEMMA EndedGrows == ASSUME Next PROVE ended \subseteq ended'
  BY DEF Next, ClientNext, SubscribeStep, ReleaseStep, AcquireHit, AcquireMiss, WireOk,
     WireFail, InsertSeries, SpawnForwarder, InsertMux, Release, ShutdownNow, ArmGrace,
     TimerNext, TimerCancelled, TimerExpires, TimerRemovesMux, TimerRemovesSeries,
     ForceStep, ForceTakes, ForceRemovesMux, ForceRemovesSeries, ForceFires,
     ForceTakesAck, ForceAcked, ForceReturns,
     FlushStep, FlushSnapshot, FlushSend, FlushDropped, FlushSweep,
     ForwarderNext, ForwarderStep, ObserveShutdown, ExitOnDisconnect, StartHeal,
     ServeFlush, OpenStore, EndHeal, UnregisterFlush, FinalFlush, CountConsumers,
     RemoveDeadMux, UnregisterSeries, UnregisterAck, SignalExit

\* A forwarder is started by its subscribe call, runs until it is told to stop
\* or cut off, and never comes back from its teardown.
LEMMA PcChange ==
  ASSUME IInv, Next, NEW g \in Gens
  PROVE  \/ pc'[g] = pc[g]
         \/ pc[g] \in Running /\ (pc'[g] \in Running \/ g \in fired \/ g \in ended')
         \/ pc[g] \in Teardown /\ pc'[g] \notin Running \cup {"unborn"}
         \/ \E c \in Clients : /\ SpawnForwarder(c) /\ client[c].gen = g
                              /\ pc'[g] = "opening"
<1> USE DEF IInv, TypeOK
<1>1. CASE UNCHANGED pc
  BY <1>1
<1>2. ASSUME NEW c \in Clients, SpawnForwarder(c)
      PROVE  pc'[g] = pc[g] \/ (client[c].gen = g /\ pc'[g] = "opening")
  BY <1>2 DEF SpawnForwarder
<1>3. ASSUME NEW h \in Gens, ForwarderNext(h)
      PROVE  \/ pc'[g] = pc[g]
             \/ pc[g] \in Running /\ (pc'[g] \in Running \/ g \in fired \/ g \in ended')
             \/ pc[g] \in Teardown /\ pc'[g] \notin Running \cup {"unborn"}
  <2> USE DEF FwdTo, Running, Teardown
  <2>1. CASE OpenStore(h) \/ StartHeal(h) \/ EndHeal(h)
    BY <2>1 DEF OpenStore, StartHeal, EndHeal
  <2>2. CASE ObserveShutdown(h) \/ ExitOnDisconnect(h)
    BY <2>2 DEF ObserveShutdown, ExitOnDisconnect
  <2>3. CASE ServeFlush(h)
    BY <2>3 DEF ServeFlush
  <2>4. CASE UnregisterFlush(h) \/ FinalFlush(h) \/ CountConsumers(h)
    BY <2>4 DEF UnregisterFlush, FinalFlush, CountConsumers
  <2>5. CASE RemoveDeadMux(h) \/ UnregisterSeries(h) \/ UnregisterAck(h) \/ SignalExit(h)
    BY <2>5 DEF RemoveDeadMux, UnregisterSeries, UnregisterAck, SignalExit
  <2> QED
    BY <1>3, <2>1, <2>2, <2>3, <2>4, <2>5 DEF ForwarderNext, ForwarderStep
<1>4. ASSUME NEW c \in Clients, InsertSeries(c) PROVE UNCHANGED pc
  BY <1>4 DEF InsertSeries
<1>5. ASSUME NEW t \in Timers, TimerRemovesSeries(t) PROVE UNCHANGED pc
  BY <1>5 DEF TimerRemovesSeries
<1>6. ASSUME NEW f \in Forcers, ForceRemovesSeries(f) \/ ForceTakesAck(f) PROVE UNCHANGED pc
  BY <1>6 DEF ForceRemovesSeries, ForceTakesAck
<1>7. ASSUME NEW f \in Flushers, FlushSweep(f) PROVE UNCHANGED pc
  BY <1>7 DEF FlushSweep
<1> QED
  BY <1>1, <1>2, <1>3, <1>4, <1>5, <1>6, <1>7, MuxOnly
  DEF Next, ClientNext, SubscribeStep, TimerNext, ForceStep, FlushStep

\* A forcer holds a sender because it took it just now or held it before.
LEMMA ForcerChange ==
  ASSUME IInv, Next, NEW f \in Forcers, HoldsSender(f)'
  PROVE  \/ HoldsSender(f) /\ forcer'[f].holds = forcer[f].holds
         \/ mux \in Muxes /\ forcer'[f].holds = mux.gen /\ mux.gen \in ended'
<1> USE DEF IInv, TypeOK, HoldsSender
<1>1. CASE UNCHANGED forcer
  BY <1>1
<1>2. ASSUME NEW e \in Forcers, ForceTakes(e)
      PROVE  \/ HoldsSender(f) /\ forcer'[f].holds = forcer[f].holds
             \/ mux \in Muxes /\ forcer'[f].holds = mux.gen /\ mux.gen \in ended'
  BY <1>2 DEF ForceTakes
<1>3. ASSUME NEW e \in Forcers, ForceStep(e)
      PROVE  HoldsSender(f) /\ forcer'[f].holds = forcer[f].holds
  <2>1. CASE ForceRemovesMux(e) \/ ForceRemovesSeries(e)
    <3>3. forcer \in [Forcers -> ForcerStates]
      OBVIOUS
    <3> HIDE DEF IInv, TypeOK
    <3>1. forcer[e].at \in {"unmux", "unseries"}
      BY <2>1 DEF ForceRemovesMux, ForceRemovesSeries
    <3>2. \E at \in {"unseries", "fire"} : forcer' = [forcer EXCEPT ![e].at = at]
      BY <2>1, Zenon DEF ForceRemovesMux, ForceRemovesSeries, ForcerTo
    <3>4. forcer'[f].holds = forcer[f].holds
      BY <3>2, <3>3 DEF ForcerStates
    <3>5. f # e => forcer'[f] = forcer[f]
      BY <3>2, <3>3
    <3> QED
      BY <3>1, <3>4, <3>5
  <2>2. CASE ForceFires(e) \/ ForceTakesAck(e) \/ ForceAcked(e) \/ ForceReturns(e)
    BY <2>2 DEF ForceFires, ForceTakesAck, ForceAcked, ForceReturns, ForcerStates
  <2> QED
    BY <1>3, <2>1, <2>2 DEF ForceStep
<1>4. ASSUME NEW c \in Clients, ClientNext(c) PROVE UNCHANGED forcer
  BY <1>4 DEF ClientNext, SubscribeStep, ReleaseStep, AcquireHit, AcquireMiss, WireOk,
     WireFail, InsertSeries, SpawnForwarder, InsertMux, Release, ShutdownNow, ArmGrace
<1>5. ASSUME NEW t \in Timers, TimerNext(t) PROVE UNCHANGED forcer
  BY <1>5 DEF TimerNext, TimerCancelled, TimerExpires, TimerRemovesMux, TimerRemovesSeries
<1>6. ASSUME NEW e \in Flushers, FlushSnapshot(e) \/ FlushStep(e) PROVE UNCHANGED forcer
  BY <1>6 DEF FlushStep, FlushSnapshot, FlushSend, FlushDropped, FlushSweep
<1>7. ASSUME NEW g \in Gens, ForwarderNext(g) PROVE UNCHANGED forcer
  BY <1>7 DEF ForwarderNext, ForwarderStep, ObserveShutdown, ExitOnDisconnect, StartHeal,
     ServeFlush, OpenStore, EndHeal, UnregisterFlush, FinalFlush, CountConsumers,
     RemoveDeadMux, UnregisterSeries, UnregisterAck, SignalExit
<1> QED
  BY <1>1, <1>2, <1>3, <1>4, <1>5, <1>6, <1>7 DEF Next

\* A subscribe call gets its forwarder's number once and keeps it.
LEMMA ClientChange ==
  ASSUME IInv, Next, NEW c \in Clients, Spawning(c)'
  PROVE  \/ WireOk(c) /\ client'[c] = [at |-> "spawn", gen |-> gens + 1]
         \/ /\ Spawning(c) /\ client'[c].gen = client[c].gen
            /\ ~InsertMux(c)
            /\ client'[c].at = "insert" => client[c].at = "insert" \/ SpawnForwarder(c)
            /\ client'[c].at # "insert" => client[c].at # "insert" /\ ~SpawnForwarder(c)
<1> USE DEF IInv, TypeOK, Spawning, SpawnPcs, ClientStates
<1>1. CASE UNCHANGED client
  BY <1>1 DEF InsertMux, SpawnForwarder, Goto
<1>2. ASSUME NEW d \in Clients, WireOk(d)
      PROVE  \/ WireOk(c) /\ client'[c] = [at |-> "spawn", gen |-> gens + 1]
             \/ client'[c] = client[c]
  BY <1>2 DEF WireOk
<1>3. ASSUME NEW d \in Clients, AcquireHit(d) \/ AcquireMiss(d) \/ WireFail(d) \/ InsertMux(d)
                               \/ Release(d) \/ ReleaseStep(d)
      PROVE  client'[c] = client[c]
  BY <1>3 DEF AcquireHit, AcquireMiss, WireFail, InsertMux, Release, ReleaseStep,
     ShutdownNow, ArmGrace, Goto
<1>4. ASSUME NEW d \in Clients, InsertSeries(d)
      PROVE  client'[c] = client[c] \/ (/\ client[c].at = "spawn" /\ client'[c].at = "ack"
                                        /\ client'[c].gen = client[c].gen)
  BY <1>4 DEF InsertSeries, Goto
<1>5. ASSUME NEW d \in Clients, SpawnForwarder(d)
      PROVE  \/ client'[c] = client[c]
             \/ /\ SpawnForwarder(c) /\ client[c].at = "ack" /\ client'[c].at = "insert"
                /\ client'[c].gen = client[c].gen
  BY <1>5 DEF SpawnForwarder, Goto
<1>6. InsertMux(c) => client'[c].at = "held"
  BY DEF InsertMux, Goto
<1>7. SpawnForwarder(c) => client[c].at = "ack" /\ client'[c].at = "insert"
  BY DEF SpawnForwarder, Goto
<1>8. ASSUME NEW t \in Timers, TimerNext(t) PROVE UNCHANGED client
  BY <1>8 DEF TimerNext, TimerCancelled, TimerExpires, TimerRemovesMux, TimerRemovesSeries
<1>9. ASSUME NEW f \in Forcers, ForceTakes(f) \/ ForceStep(f) PROVE UNCHANGED client
  BY <1>9 DEF ForceStep, ForceTakes, ForceRemovesMux, ForceRemovesSeries, ForceFires,
     ForceTakesAck, ForceAcked, ForceReturns
<1>10. ASSUME NEW e \in Flushers, FlushSnapshot(e) \/ FlushStep(e) PROVE UNCHANGED client
  BY <1>10 DEF FlushStep, FlushSnapshot, FlushSend, FlushDropped, FlushSweep
<1>11. ASSUME NEW g \in Gens, ForwarderNext(g) PROVE UNCHANGED client
  BY <1>11 DEF ForwarderNext, ForwarderStep, ObserveShutdown, ExitOnDisconnect, StartHeal,
     ServeFlush, OpenStore, EndHeal, UnregisterFlush, FinalFlush, CountConsumers,
     RemoveDeadMux, UnregisterSeries, UnregisterAck, SignalExit
<1>12. client'[c] = client[c] => ~InsertMux(c) /\ ~SpawnForwarder(c)
  BY <1>6, <1>7
<1> QED
  BY <1>1, <1>2, <1>3, <1>4, <1>5, <1>6, <1>7, <1>8, <1>9, <1>10, <1>11, <1>12
  DEF Next, ClientNext, SubscribeStep

-----------------------------------------------------------------------------
(* Every part of the invariant is preserved by every step.                   *)

\* A sender out of the registry stays marked.
LEMMA MarkedStep == ASSUME IInv, Next PROVE SendersMarked'
<1> SUFFICES ASSUME NEW f \in Forcers, HoldsSender(f)' PROVE forcer'[f].holds \in ended'
  BY DEF SendersMarked, HoldsSender
<1> QED
  BY ForcerChange, EndedGrows DEF IInv, SendersMarked

\* The private number of a subscribe call stays private.
LEMMA PrivateStep == ASSUME IInv, Next PROVE SpawnPrivate'
<1> SUFFICES ASSUME NEW c \in Clients, Spawning(c)'
             PROVE  /\ client'[c].gen \in Gens
                    /\ mux'.gen # client'[c].gen
                    /\ client'[c].gen \notin fired'
                    /\ \A d \in Clients :
                         Spawning(d)' /\ client'[d].gen = client'[c].gen => d = c
                    /\ \A f \in Forcers :
                         HoldsSender(f)' => forcer'[f].holds # client'[c].gen
                    /\ client'[c].at \in {"spawn", "ack"} => pc'[client'[c].gen] = "unborn"
                    /\ client'[c].at = "insert" =>
                         pc'[client'[c].gen] \in Running \/ client'[c].gen \in ended'
  BY DEF SpawnPrivate, Spawning, HoldsSender
<1> DEFINE n == client'[c].gen
<1> USE DEF IInv
<1>1. CASE WireOk(c) /\ client'[c] = [at |-> "spawn", gen |-> gens + 1]
  <2>1. n = gens + 1 /\ client'[c].at = "spawn" /\ n \in Gens /\ gens \in Int
    BY <1>1, MuxAssumption DEF WireOk, TypeOK, Gens
  <2>2. UNCHANGED <<mux, fired, forcer, pc>>
    BY <1>1 DEF WireOk
  <2>3. \A d \in Clients : d # c => client'[d] = client[d]
    BY <1>1 DEF WireOk, TypeOK
  <2>4. mux.gen \in Int /\ fired \subseteq Gens
        /\ (\A d \in Clients : client[d].gen \in Int)
        /\ (\A f \in Forcers : forcer[f].holds \in Int)
    BY MuxAssumption DEF TypeOK, Muxes, NoMux, Gens, ClientStates, ForcerStates
  <2>5. mux.gen # n /\ n \notin fired /\ pc[n] = "unborn"
        /\ (\A d \in Clients : client[d].gen # n)
        /\ (\A f \in Forcers : forcer[f].holds # n)
    BY <2>1, <2>4 DEF NumbersFresh
  <2> QED
    BY <2>1, <2>2, <2>3, <2>5 DEF HoldsSender
<1>2. CASE /\ Spawning(c) /\ client'[c].gen = client[c].gen
           /\ ~InsertMux(c)
           /\ client'[c].at = "insert" => client[c].at = "insert" \/ SpawnForwarder(c)
           /\ client'[c].at # "insert" => client[c].at # "insert" /\ ~SpawnForwarder(c)
  <2>1. n = client[c].gen /\ n \in Gens /\ n # 0 /\ n <= gens /\ gens \in Int
    BY <1>2, MuxAssumption DEF SpawnPrivate, Gens, NumbersFresh, TypeOK
  <2>2. /\ mux.gen # n /\ n \notin fired
        /\ \A d \in Clients : Spawning(d) /\ client[d].gen = n => d = c
        /\ \A f \in Forcers : HoldsSender(f) => forcer[f].holds # n
    BY <1>2, <2>1 DEF SpawnPrivate
  <2>3. mux'.gen # n
    <3>1. ASSUME NEW d \in Clients, InsertMux(d), mux'.gen = client[d].gen PROVE mux'.gen # n
      BY <1>2, <2>2, <3>1 DEF InsertMux, Spawning, SpawnPcs
    <3> QED
      BY <2>1, <2>2, <3>1, MuxChange, NoMuxGen
  <2>4. n \notin fired'
    BY <2>2, FiredChange
  <2>5. \A d \in Clients : Spawning(d)' /\ client'[d].gen = n => d = c
    <3>1. ASSUME NEW d \in Clients, Spawning(d)', client'[d].gen = n PROVE d = c
      BY <2>1, <2>2, <3>1, ClientChange
    <3> QED
      BY <3>1
  <2>6. \A f \in Forcers : HoldsSender(f)' => forcer'[f].holds # n
    BY <2>2, ForcerChange
  <2>7. \A d \in Clients : SpawnForwarder(d) /\ client[d].gen = n => d = c
    BY <2>2 DEF SpawnForwarder, Spawning, SpawnPcs
  <2>8. client'[c].at \in {"spawn", "ack"} => pc'[n] = "unborn"
    <3>1. SUFFICES ASSUME client'[c].at \in {"spawn", "ack"} PROVE pc'[n] = "unborn"
      OBVIOUS
    <3>2. client[c].at \in {"spawn", "ack"} /\ ~SpawnForwarder(c)
      BY <1>2, <3>1 DEF Spawning, SpawnPcs
    <3>3. pc[n] = "unborn"
      BY <1>2, <2>1, <3>2 DEF SpawnPrivate
    <3> QED
      BY <2>1, <2>7, <3>2, <3>3, PcChange DEF Running, Teardown
  <2>9. client'[c].at = "insert" => pc'[n] \in Running \/ n \in ended'
    <3>1. SUFFICES ASSUME client'[c].at = "insert" PROVE pc'[n] \in Running \/ n \in ended'
      OBVIOUS
    <3>2. CASE client[c].at = "insert"
      <4>1. pc[n] \in Running \/ n \in ended
        BY <1>2, <2>1, <3>2 DEF SpawnPrivate
      <4> QED
        BY <2>1, <2>2, <4>1, PcChange, EndedGrows DEF Running, Teardown
    <3>3. CASE SpawnForwarder(c)
      BY <2>1, <3>3 DEF SpawnForwarder, Running, TypeOK
    <3> QED
      BY <1>2, <3>1, <3>2, <3>3
  <2> QED
    BY <2>1, <2>3, <2>4, <2>5, <2>6, <2>8, <2>9
<1> QED
  BY <1>1, <1>2, ClientChange

\* An entry of muxes is served, unless its forwarder was forced down or cut off.
LEMMA MuxMeansLiveStep == ASSUME IInv, Next, TypeOK' PROVE MuxMeansLive'
<1> SUFFICES ASSUME mux' # NoMux, mux'.gen \notin ended'
             PROVE  pc'[mux'.gen] \in Running /\ mux'.gen \notin fired'
  BY DEF MuxMeansLive
<1> USE DEF IInv
<1>1. mux'.gen \in Gens /\ mux'.gen \notin ended
  BY MuxFields, EndedGrows DEF TypeOK
<1>2. \A f \in Forcers : HoldsSender(f) => forcer[f].holds # mux'.gen
  BY <1>1 DEF SendersMarked
<1>3. CASE mux'.gen = mux.gen
  <2>1. pc[mux.gen] \in Running /\ mux.gen \notin fired
    <3>1. mux # NoMux
      BY <1>1, <1>3, NoMuxGen, MuxAssumption DEF Gens
    <3> QED
      BY <1>1, <1>3, <3>1 DEF MuxMeansLive
  <2>2. mux.gen \notin fired'
    BY <1>2, <1>3, <2>1, FiredChange
  <2>3. pc'[mux.gen] \in Running
    BY <1>1, <1>3, <2>1, PcChange DEF Running, Teardown
  <2> QED
    BY <1>3, <2>2, <2>3
<1>4. ASSUME NEW c \in Clients, InsertMux(c), mux'.gen = client[c].gen
      PROVE  pc'[mux'.gen] \in Running /\ mux'.gen \notin fired'
  <2>1. Spawning(c) /\ client[c].at = "insert" /\ pc' = pc
    BY <1>4 DEF InsertMux, Spawning, SpawnPcs
  <2>2. pc[mux'.gen] \in Running /\ mux'.gen \notin fired /\ mux'.gen # mux.gen
    BY <1>1, <1>4, <2>1 DEF SpawnPrivate
  <2>3. mux'.gen \notin fired'
    BY <1>2, <2>2, FiredChange
  <2> QED
    BY <2>1, <2>2, <2>3
<1> QED
  BY <1>3, <1>4, MuxChange

\* Numbers in use, those the steps of a caller hand on included.
LEMMA ClientFresh == ASSUME IInv, NEW c \in Clients, ClientNext(c) PROVE NumbersFresh'
<1> USE DEF IInv, TypeOK, NumbersFresh
<1>0. /\ gens \in Int /\ MaxGen \in Int /\ mux.gen \in Int
      /\ client[c].gen \in Int /\ 0 <= gens
  BY MuxAssumption DEF Muxes, NoMux, Gens, ClientStates
<1>1. CASE AcquireHit(c)
  <2>1. CountUp(mux).gen = mux.gen
    BY <1>1 DEF AcquireHit, CountUp, Muxes
  <2> QED
    BY <1>1, <2>1 DEF AcquireHit
<1>2. CASE AcquireMiss(c) \/ WireFail(c)
  BY <1>2 DEF AcquireMiss, WireFail, Goto, ClientStates
<1>3. CASE WireOk(c)
  <2>1. UNCHANGED <<registries, fired, forcer, pc>> /\ gens' = gens + 1
    BY <1>3 DEF WireOk
  <2>2. \A d \in Clients : client'[d].gen <= gens + 1
    <3>1. \A d \in Clients : client'[d].gen = client[d].gen \/ client'[d].gen = gens + 1
      BY <1>3 DEF WireOk
    <3>2. \A d \in Clients : client[d].gen \in Int
      BY MuxAssumption DEF ClientStates
    <3> QED
      BY <1>0, <3>1, <3>2
  <2>3. \A f \in Forcers : forcer[f].holds <= gens + 1
    BY <1>0, MuxAssumption DEF ForcerStates
  <2>4. /\ mux.gen <= gens + 1
        /\ seriesHandle <= gens + 1 /\ exitAck <= gens + 1 /\ flushHandle <= gens + 1
    BY <1>0
  <2>5. \A g \in Gens : g > gens + 1 => g > gens
    BY <1>0 DEF Gens
  <2>6. \A g \in Gens : g <= gens => g <= gens + 1
    BY <1>0 DEF Gens
  <2> QED
    BY <2>1, <2>2, <2>3, <2>4, <2>5, <2>6
<1>4. CASE InsertSeries(c)
  BY <1>4 DEF InsertSeries, Goto, ClientStates
<1>5. CASE SpawnForwarder(c)
  BY <1>0, <1>5 DEF SpawnForwarder, Goto, ClientStates, Gens
<1>6. CASE InsertMux(c)
  <2>1. mux'.gen = client[c].gen
    BY <1>6 DEF InsertMux, ReplaceMux
  <2>2. \A g \in fired' : g <= gens
    BY <1>6, Displaced DEF InsertMux
  <2> QED
    BY <1>6, <2>1, <2>2 DEF InsertMux, Goto, ClientStates
<1>7. CASE Release(c)
  <2>1. mux'.gen = mux.gen
    BY <1>7 DEF Release, CountDown, Muxes
  <2> QED
    BY <1>7, <2>1 DEF Release, Goto, ClientStates
<1>8. CASE ShutdownNow(c)
  <2>1. mux'.gen = 0 /\ (\A g \in fired' : g <= gens)
    BY <1>8, NoMuxGen, Displaced DEF ShutdownNow, RemoveMux
  <2> QED
    BY <1>0, <1>8, <2>1 DEF ShutdownNow, Goto, ClientStates
<1>9. CASE ArmGrace(c)
  <2>1. mux'.gen = mux.gen
    BY <1>9 DEF ArmGrace, Muxes
  <2> QED
    BY <1>9, <2>1 DEF ArmGrace, Goto, ClientStates
<1> QED
  BY <1>1, <1>2, <1>3, <1>4, <1>5, <1>6, <1>7, <1>8, <1>9
  DEF ClientNext, SubscribeStep, ReleaseStep

\* The other tasks use no number that is not in use.
LEMMA FreshStep == ASSUME IInv, Next PROVE NumbersFresh'
<1> USE DEF IInv, TypeOK, NumbersFresh
<1>0. 0 <= gens /\ 0 \in Int
  BY MuxAssumption
<1>1. ASSUME NEW c \in Clients, ClientNext(c) PROVE NumbersFresh'
  BY <1>1, ClientFresh
<1>2. ASSUME NEW t \in Timers, TimerNext(t) PROVE NumbersFresh'
  <2>1. CASE TimerCancelled(t) \/ TimerRemovesSeries(t)
    BY <1>0, <2>1 DEF TimerCancelled, TimerRemovesSeries
  <2>2. CASE TimerExpires(t)
    <3>1. mux'.gen = mux.gen
      BY <2>2 DEF TimerExpires, Muxes, NoMux
    <3> QED
      BY <2>2, <3>1 DEF TimerExpires
  <2>3. CASE TimerRemovesMux(t)
    <3>1. mux'.gen = 0 /\ (\A g \in fired' : g <= gens)
      BY <2>3, NoMuxGen, Displaced DEF TimerRemovesMux, RemoveMux
    <3> QED
      BY <1>0, <2>3, <3>1 DEF TimerRemovesMux
  <2> QED
    BY <1>2, <2>1, <2>2, <2>3 DEF TimerNext
<1>3. ASSUME NEW f \in Forcers, ForceTakes(f) \/ ForceStep(f) PROVE NumbersFresh'
  <2>1. CASE ForceTakes(f)
    <3>1. mux'.gen = mux.gen
      BY <2>1 DEF ForceTakes, Muxes
    <3>2. \A e \in Forcers : forcer'[e].holds \in {forcer[e].holds, mux.gen, 0}
      BY <2>1 DEF ForceTakes, ForcerStates
    <3> QED
      BY <1>0, <2>1, <3>1, <3>2 DEF ForceTakes
  <2>2. CASE ForceRemovesMux(f)
    <3>1. mux'.gen = 0 /\ (\A g \in fired' : g <= gens)
      BY <2>2, NoMuxGen, Displaced DEF ForceRemovesMux, RemoveMux
    <3> QED
      BY <1>0, <2>2, <3>1 DEF ForceRemovesMux, ForcerTo, ForcerStates
  <2>3. CASE ForceRemovesSeries(f)
    BY <1>0, <2>3 DEF ForceRemovesSeries, ForcerTo, ForcerStates
  <2>4. CASE ForceFires(f)
    BY <1>0, <2>4 DEF ForceFires, ForcerStates
  <2>5. CASE ForceTakesAck(f)
    <3>1. \A e \in Forcers : forcer'[e].holds \in {forcer[e].holds, exitAck}
      BY <2>5 DEF ForceTakesAck, AckToAwait, ForcerStates
    <3> QED
      BY <1>0, <2>5, <3>1 DEF ForceTakesAck
  <2>6. CASE ForceAcked(f) \/ ForceReturns(f)
    <3>1. \A e \in Forcers : forcer'[e].holds \in {forcer[e].holds, 0}
      <4>1. CASE ForceAcked(f)
        BY <4>1 DEF ForceAcked, ForcerStates
      <4>2. CASE ForceReturns(f)
        BY <4>2 DEF ForceReturns, ForcerStates
      <4> QED
        BY <2>6, <4>1, <4>2
    <3> QED
      BY <1>0, <2>6, <3>1 DEF ForceAcked, ForceReturns
  <2> QED
    BY <1>3, <2>1, <2>2, <2>3, <2>4, <2>5, <2>6 DEF ForceStep
<1>4. ASSUME NEW f \in Flushers, FlushSnapshot(f) \/ FlushStep(f) PROVE NumbersFresh'
  <2>1. CASE FlushSweep(f)
    BY <1>0, <2>1 DEF FlushSweep, Swept
  <2>2. CASE FlushSnapshot(f) \/ FlushSend(f) \/ FlushDropped(f)
    BY <2>2 DEF FlushSnapshot, FlushSend, FlushDropped
  <2> QED
    BY <1>4, <2>1, <2>2 DEF FlushStep
<1>5. ASSUME NEW g \in Gens, ForwarderNext(g) PROVE NumbersFresh'
  <2>1. g <= gens
    <3>1. pc[g] # "unborn"
      BY <1>5 DEF ForwarderNext, ForwarderStep, ObserveShutdown, ExitOnDisconnect,
         StartHeal, ServeFlush, OpenStore, EndHeal, UnregisterFlush, FinalFlush,
         CountConsumers, RemoveDeadMux, UnregisterSeries, UnregisterAck, SignalExit
    <3> QED
      BY <3>1, MuxAssumption DEF Gens
  <2>2. \A h \in Gens : h # g => pc'[h] = pc[h]
    BY <1>5 DEF FwdTo, ForwarderNext, ForwarderStep, ObserveShutdown, ExitOnDisconnect,
       StartHeal, ServeFlush, OpenStore, EndHeal, UnregisterFlush, FinalFlush,
       CountConsumers, RemoveDeadMux, UnregisterSeries, UnregisterAck, SignalExit
  <2>3. \A h \in Gens : h > gens => pc'[h] = "unborn"
    BY <2>1, <2>2, MuxAssumption DEF Gens
  <2>4. UNCHANGED <<gens, client, forcer>>
    BY <1>5 DEF ForwarderNext, ForwarderStep, ObserveShutdown, ExitOnDisconnect,
       StartHeal, ServeFlush, OpenStore, EndHeal, UnregisterFlush, FinalFlush,
       CountConsumers, RemoveDeadMux, UnregisterSeries, UnregisterAck, SignalExit
  <2>5. CASE RemoveDeadMux(g)
    <3>1. mux'.gen = 0 /\ (\A h \in fired' : h <= gens)
      BY <2>5, NoMuxGen, Displaced DEF RemoveDeadMux, RemoveMux
    <3> QED
      BY <1>0, <2>3, <2>4, <2>5, <3>1 DEF RemoveDeadMux
  <2>6. CASE ~RemoveDeadMux(g)
    <3>1. /\ UNCHANGED <<mux, fired>>
          /\ seriesHandle' \in {0, seriesHandle} /\ exitAck' \in {0, exitAck}
          /\ flushHandle' \in {0, g, flushHandle}
      BY <1>5, <2>6 DEF ForwarderNext, ForwarderStep, ObserveShutdown, ExitOnDisconnect,
         StartHeal, ServeFlush, OpenStore, EndHeal, UnregisterFlush, FinalFlush,
         CountConsumers, UnregisterSeries, UnregisterAck, SignalExit
    <3> QED
      BY <1>0, <2>1, <2>3, <2>4, <3>1
  <2> QED
    BY <2>5, <2>6
<1> QED
  BY <1>1, <1>2, <1>3, <1>4, <1>5 DEF Next

\* Whoever could stop a running forwarder still can, handed the means on, or
\* has stopped it.
LEMMA OwnedStep ==
  ASSUME IInv, Next, NEW g \in Gens, Owned(g), g \notin fired'
  PROVE  Owned(g)'
<1> USE DEF IInv, TypeOK, Owned
<1>1. CASE mux.gen = g /\ mux.shutdown
  <2>1. mux # NoMux /\ mux \in Muxes
    BY <1>1, NoMuxGen DEF Gens
  <2>2. ASSUME NEW m, ReplaceMux(m) PROVE FALSE
    BY <1>1, <2>2 DEF ReplaceMux, FiredBy
  <2>3. ASSUME NEW c \in Clients, ClientNext(c) PROVE mux'.gen = g /\ mux'.shutdown
    <3>1. CASE AcquireHit(c)
      BY <1>1, <2>1, <3>1 DEF AcquireHit, CountUp, Muxes
    <3>2. CASE Release(c)
      BY <1>1, <2>1, <3>2 DEF Release, CountDown, Muxes
    <3>3. CASE ArmGrace(c)
      BY <1>1, <2>1, <3>3 DEF ArmGrace, Muxes
    <3>4. CASE AcquireMiss(c) \/ WireOk(c) \/ WireFail(c) \/ InsertSeries(c) \/ SpawnForwarder(c)
      BY <1>1, <3>4 DEF AcquireMiss, WireOk, WireFail, InsertSeries, SpawnForwarder
    <3> QED
      BY <2>2, <2>3, <3>1, <3>2, <3>3, <3>4
      DEF ClientNext, SubscribeStep, ReleaseStep, InsertMux, ShutdownNow, RemoveMux
  <2>4. ASSUME NEW t \in Timers, TimerNext(t) PROVE mux'.gen = g /\ mux'.shutdown
    <3>1. CASE TimerExpires(t)
      BY <1>1, <2>1, <3>1 DEF TimerExpires, Muxes
    <3>2. CASE TimerCancelled(t) \/ TimerRemovesSeries(t)
      BY <1>1, <3>2 DEF TimerCancelled, TimerRemovesSeries
    <3> QED
      BY <2>2, <2>4, <3>1, <3>2 DEF TimerNext, TimerRemovesMux, RemoveMux
  <2>5. ASSUME NEW f \in Forcers, ForceTakes(f) PROVE Owned(g)'
    <3>1. forcer'[f].at = "unmux" /\ forcer'[f].holds = g
      BY <1>1, <2>5 DEF ForceTakes
    <3> QED
      BY <3>1
  <2>6. ASSUME NEW f \in Forcers, ForceStep(f) PROVE mux'.gen = g /\ mux'.shutdown
    BY <1>1, <2>2, <2>6 DEF ForceStep, ForceRemovesMux, ForceRemovesSeries, ForceFires,
       ForceTakesAck, ForceAcked, ForceReturns, RemoveMux
  <2>7. ASSUME NEW f \in Flushers, FlushSnapshot(f) \/ FlushStep(f) PROVE mux' = mux
    BY <2>7 DEF FlushStep, FlushSnapshot, FlushSend, FlushDropped, FlushSweep
  <2>8. ASSUME NEW h \in Gens, ForwarderNext(h) PROVE mux' = mux
    BY <2>2, <2>8 DEF ForwarderNext, ForwarderStep, ObserveShutdown, ExitOnDisconnect,
       StartHeal, ServeFlush, OpenStore, EndHeal, UnregisterFlush, FinalFlush,
       CountConsumers, RemoveDeadMux, UnregisterSeries, UnregisterAck, SignalExit, RemoveMux
  <2> QED
    BY <1>1, <2>3, <2>4, <2>5, <2>6, <2>7, <2>8 DEF Next
<1>2. ASSUME NEW c \in Clients, client[c].at = "insert", client[c].gen = g PROVE Owned(g)'
  <2>1. CASE client'[c] = client[c]
    BY <1>2, <2>1
  <2>2. CASE InsertMux(c)
    <3>1. mux' = [gen |-> g, consumers |-> 1 % Modulus, shutdown |-> TRUE, cancel |-> 0]
      BY <1>2, <2>2 DEF InsertMux, ReplaceMux
    <3>2. mux'.gen = g /\ mux'.shutdown
      BY <3>1
    <3> QED
      BY <3>2
  <2>3. ASSUME NEW d \in Clients, ClientNext(d) PROVE client'[c] = client[c] \/ InsertMux(c)
    BY <1>2, <2>3 DEF ClientNext, SubscribeStep, ReleaseStep, AcquireHit, AcquireMiss, WireOk,
       WireFail, InsertSeries, SpawnForwarder, InsertMux, Release, ShutdownNow, ArmGrace, Goto
  <2>4. ASSUME NEW t \in Timers, TimerNext(t) PROVE client' = client
    BY <2>4 DEF TimerNext, TimerCancelled, TimerExpires, TimerRemovesMux, TimerRemovesSeries
  <2>5. ASSUME NEW f \in Forcers, ForceTakes(f) \/ ForceStep(f) PROVE client' = client
    BY <2>5 DEF ForceStep, ForceTakes, ForceRemovesMux, ForceRemovesSeries, ForceFires,
       ForceTakesAck, ForceAcked, ForceReturns
  <2>6. ASSUME NEW e \in Flushers, FlushSnapshot(e) \/ FlushStep(e) PROVE client' = client
    BY <2>6 DEF FlushStep, FlushSnapshot, FlushSend, FlushDropped, FlushSweep
  <2>7. ASSUME NEW h \in Gens, ForwarderNext(h) PROVE client' = client
    BY <2>7 DEF ForwarderNext, ForwarderStep, ObserveShutdown, ExitOnDisconnect,
       StartHeal, ServeFlush, OpenStore, EndHeal, UnregisterFlush, FinalFlush,
       CountConsumers, RemoveDeadMux, UnregisterSeries, UnregisterAck, SignalExit
  <2> QED
    BY <2>1, <2>2, <2>3, <2>4, <2>5, <2>6, <2>7 DEF Next
<1>3. ASSUME NEW f \in Forcers, forcer[f].at \in {"unmux", "unseries", "fire"},
             forcer[f].holds = g
      PROVE  Owned(g)'
  <2>1. CASE forcer'[f] = forcer[f]
    BY <1>3, <2>1
  <2>2. CASE ForceRemovesMux(f) \/ ForceRemovesSeries(f)
    <3>1. forcer'[f].at \in {"unseries", "fire"} /\ forcer'[f].holds = g
      BY <1>3, <2>2 DEF ForceRemovesMux, ForceRemovesSeries, ForcerTo, ForcerStates
    <3> QED
      BY <3>1
  <2>3. ~ForceFires(f)
    BY <1>3 DEF ForceFires, Gens
  <2>4. ASSUME NEW e \in Forcers, ForceTakes(e) \/ ForceStep(e)
        PROVE  \/ forcer'[f] = forcer[f]
               \/ ForceRemovesMux(f) \/ ForceRemovesSeries(f) \/ ForceFires(f)
    BY <1>3, <2>4 DEF ForceStep, ForceTakes, ForceRemovesMux, ForceRemovesSeries,
       ForceFires, ForceTakesAck, ForceAcked, ForceReturns, ForcerTo
  <2>5. ASSUME NEW c \in Clients, ClientNext(c) PROVE forcer' = forcer
    BY <2>5 DEF ClientNext, SubscribeStep, ReleaseStep, AcquireHit, AcquireMiss, WireOk,
       WireFail, InsertSeries, SpawnForwarder, InsertMux, Release, ShutdownNow, ArmGrace
  <2>6. ASSUME NEW t \in Timers, TimerNext(t) PROVE forcer' = forcer
    BY <2>6 DEF TimerNext, TimerCancelled, TimerExpires, TimerRemovesMux, TimerRemovesSeries
  <2>7. ASSUME NEW e \in Flushers, FlushSnapshot(e) \/ FlushStep(e) PROVE forcer' = forcer
    BY <2>7 DEF FlushStep, FlushSnapshot, FlushSend, FlushDropped, FlushSweep
  <2>8. ASSUME NEW h \in Gens, ForwarderNext(h) PROVE forcer' = forcer
    BY <2>8 DEF ForwarderNext, ForwarderStep, ObserveShutdown, ExitOnDisconnect,
       StartHeal, ServeFlush, OpenStore, EndHeal, UnregisterFlush, FinalFlush,
       CountConsumers, RemoveDeadMux, UnregisterSeries, UnregisterAck, SignalExit
  <2> QED
    BY <2>1, <2>2, <2>3, <2>4, <2>5, <2>6, <2>7, <2>8 DEF Next
<1> QED
  BY <1>1, <1>2, <1>3

\* No step leaves a forwarder running with nobody able to stop it.
LEMMA OrphanStep == ASSUME IInv, NoOrphanForwarder, Next PROVE NoOrphanForwarder'
<1> SUFFICES ASSUME NEW g \in Gens, pc'[g] \in Running, g \notin fired' PROVE Owned(g)'
  BY DEF NoOrphanForwarder, Owned
<1>1. g \notin fired
  BY FiredChange
<1>2. CASE pc[g] \in Running
  BY <1>1, <1>2, OwnedStep DEF NoOrphanForwarder
<1>3. ASSUME NEW c \in Clients, SpawnForwarder(c), client[c].gen = g PROVE Owned(g)'
  <2>1. client'[c].at = "insert" /\ client'[c].gen = g
    BY <1>3 DEF SpawnForwarder, Goto, IInv, TypeOK, ClientStates
  <2> QED
    BY <2>1 DEF Owned
<1> QED
  BY <1>2, <1>3, PcChange DEF Running, Teardown

-----------------------------------------------------------------------------
(* The theorems.                                                             *)

\* The strengthening is an invariant of every station.
THEOREM IInvHolds == Spec => [](IInv /\ NoOrphanForwarder)
<1>1. Init => IInv /\ NoOrphanForwarder
  <2>1. Init => NumbersFresh /\ SpawnPrivate /\ SendersMarked
    BY MuxAssumption DEF Init, NumbersFresh, SpawnPrivate, Spawning, SpawnPcs, SendersMarked,
       HoldsSender, NoMux
  <2>2. Init => MuxMeansLive /\ Registered /\ NoOrphanForwarder
    BY DEF Init, MuxMeansLive, Registered, NoOrphanForwarder, Running, Gens
  <2> QED
    BY <2>1, <2>2, InitType DEF IInv
<1>2. IInv /\ NoOrphanForwarder /\ [Next]_vars => (IInv /\ NoOrphanForwarder)'
  <2>1. ASSUME IInv, NoOrphanForwarder, Next PROVE (IInv /\ NoOrphanForwarder)'
    <3>1. TypeOK'
      BY <2>1, ClientType, TimerType, ForceType, FlushType, ForwarderType DEF Next, IInv
    <3> QED
      BY <2>1, <3>1, FreshStep, PrivateStep, MarkedStep, MuxMeansLiveStep, RegisteredStep,
         OrphanStep DEF IInv
  <2>2. ASSUME IInv, NoOrphanForwarder, UNCHANGED vars PROVE (IInv /\ NoOrphanForwarder)'
    BY <2>2 DEF vars, IInv, TypeOK, HistoryOK, NumbersFresh, SpawnPrivate, Spawning, SendersMarked,
       HoldsSender, MuxMeansLive, Registered, HasSeries, NoOrphanForwarder, Owned
  <2> QED
    BY <2>1, <2>2
<1> QED
  BY <1>1, <1>2, PTL DEF Spec

\* Every variable stays in its range, the usize counter and the channels included.
THEOREM TypeCorrect == Spec => []TypeOK
<1>1. IInv => TypeOK
  BY DEF IInv
<1> QED
  BY <1>1, IInvHolds, PTL

\* Whatever the interleaving, no forwarder runs with nobody able to stop it.
THEOREM NoOrphan == Spec => []NoOrphanForwarder
  BY IInvHolds, PTL

\* Whatever the interleaving, an entry of muxes is served by a forwarder that
\* runs, unless it was forced down or its upstream cut it off.
THEOREM MuxLive == Spec => []MuxMeansLive
<1>1. IInv => MuxMeansLive
  BY DEF IInv
<1> QED
  BY <1>1, IInvHolds, PTL

\* Whatever the interleaving, a forwarder that sent its exit ack is named by no
\* registry, but for the mux of one that was cut off.
THEOREM NoTrace == Spec => []ExitLeavesNoTrace
<1>1. IInv => ExitLeavesNoTrace
  <2> SUFFICES ASSUME IInv, NEW g \in Gens, pc[g] = "gone"
               PROVE  /\ seriesHandle # g /\ exitAck # g /\ flushHandle # g
                      /\ mux.gen = g => g \in ended
    BY DEF ExitLeavesNoTrace
  <2>1. seriesHandle # g /\ exitAck # g /\ flushHandle # g
    BY DEF IInv, Registered
  <2>2. mux.gen = g => mux # NoMux
    BY NoMuxGen DEF Gens
  <2> QED
    BY <2>1, <2>2 DEF IInv, MuxMeansLive, Running
<1> QED
  BY <1>1, IInvHolds, PTL

-----------------------------------------------------------------------------
(* Until calls overlap.                                                      *)

\* No call has begun yet while another call, a teardown or a handle of a replaced
\* entry was there.
Orderly == "overlap" \notin breaches

-----------------------------------------------------------------------------
(* The strengthening.                                                        *)

Active(g) == pc[g] \in Running \cup Teardown
PreInsert(c) == client[c].at \in {"wire", "spawn", "ack", "insert"}

\* Of all callers at most one is inside a call.
OneCall ==
  /\ \A c, d \in Clients : InCall(c) /\ InCall(d) => c = d
  /\ \A f, h \in Forcers : forcer[f].at # "idle" /\ forcer[h].at # "idle" => f = h
  /\ \A c \in Clients, f \in Forcers : InCall(c) => forcer[f].at = "idle"

\* While a subscribe call is on its way to muxes.insert the key is empty, nobody
\* has a handle, no timer is about to remove anything, and no forwarder is alive
\* but the one this call has spawned.
PreInsertQuiet ==
  \A c \in Clients : PreInsert(c) =>
    /\ mux = NoMux /\ Holders = {}
    /\ \A t \in Timers : timer[t] \notin {"remove", "series"}
    /\ \A g \in Gens : Active(g) => client[c].at = "insert" /\ g = client[c].gen
    /\ client[c].at = "insert" => pc[client[c].gen] # "unborn"

\* The handles alive beside an entry are handles of that entry, and counted.
Counted ==
  /\ mux # NoMux => /\ \A c \in Holders : client[c].gen = mux.gen
                    /\ mux.consumers = Cardinality(Holders)
  /\ \A c \in Clients : client[c].at = "zero" => Holders = {}

\* A timer removes what nobody uses.
TimersLate ==
  \A t \in Timers : /\ timer[t] \in {"remove", "series"} => Holders = {}
                    /\ timer[t] = "series" => mux = NoMux

\* No forwarder is alive beside the one of the entry.
NewestOnly ==
  /\ OneForwarder
  /\ mux # NoMux => /\ pc[mux.gen] # "unborn"
                    /\ \A g \in Gens : Active(g) => g = mux.gen

\* A handle has its entry, unless its forwarder was forced down or cut off.
HeldIsThere ==
  \A c \in Holders : /\ client[c].gen \in Gens
                     /\ client[c].gen \notin ended => mux.gen = client[c].gen

\* What a forced teardown has done so far to the forwarder it found.
ForceState ==
  \A f \in Forcers : forcer[f].at # "idle" =>
    /\ forcer[f].target \in Gens
    /\ forcer[f].target \in ended /\ pc[forcer[f].target] # "unborn"
    /\ mux # NoMux => forcer[f].at = "unmux" /\ mux.gen = forcer[f].target
    /\ forcer[f].at = "await" => \/ forcer[f].holds = forcer[f].target
                                 \/ pc[forcer[f].target] \in {"signal", "gone"}
    /\ forcer[f].at = "done" => pc[forcer[f].target] \in {"signal", "gone"}

\* The ack of a forwarder that has still to remove it is in exit_acks, or with
\* the forced teardown that awaits it.
AckKnown ==
  \A g \in Gens : Active(g) /\ pc[g] # "signal" =>
    exitAck = g \/ \E f \in Forcers : forcer[f].at = "await" /\ forcer[f].holds = g

\* The registries by which a forwarder is found.
ServedBy(g) == (HasSeries => seriesHandle = g) /\ (g \in disk => flushHandle = g)
RegistriesServe ==
  /\ mux # NoMux /\ mux.gen \notin ended => ServedBy(mux.gen)
  /\ \A c \in Clients :
       /\ client[c].at = "ack" => (HasSeries => seriesHandle = client[c].gen)
       /\ client[c].at = "insert" /\ client[c].gen \notin ended => ServedBy(client[c].gen)

DInv == OneCall /\ PreInsertQuiet /\ Counted /\ TimersLate /\ NewestOnly /\ HeldIsThere
        /\ ForceState /\ AckKnown /\ RegistriesServe

-----------------------------------------------------------------------------
(* How a step moves a task, and what a call finds that does not overlap.     *)

\* A step that moves a client to another place leaves its forwarder and the others.
LEMMA MovedClient ==
  ASSUME TypeOK, NEW c \in Clients, NEW at, client' = [client EXCEPT ![c].at = at]
  PROVE  /\ client'[c].at = at /\ client'[c].gen = client[c].gen
         /\ \A d \in Clients : d # c => client'[d] = client[d]
  BY DEF TypeOK, ClientStates

\* The same for a forced teardown.
LEMMA MovedForcer ==
  ASSUME TypeOK, NEW f \in Forcers, NEW at, forcer' = [forcer EXCEPT ![f].at = at]
  PROVE  /\ forcer'[f].at = at
         /\ forcer'[f].holds = forcer[f].holds /\ forcer'[f].target = forcer[f].target
         /\ \A h \in Forcers : h # f => forcer'[h] = forcer[h]
  BY DEF TypeOK, ForcerStates

\* Order, once lost, does not come back.
LEMMA OrderLasts == ASSUME [Next]_vars PROVE Orderly' => Orderly
<1>1. CASE Next
  BY <1>1, HistoryStep DEF Orderly
<1>2. CASE UNCHANGED vars
  BY <1>2 DEF vars, Orderly
<1> QED BY <1>1, <1>2

\* A call that does not overlap finds no other one under way.
LEMMA CallAlone ==
  ASSUME Orderly', BeginCall \/ BeginSubscribe
  PROVE  /\ \A c \in Clients : ~InCall(c)
         /\ \A f \in Forcers : forcer[f].at = "idle"
         /\ BeginSubscribe => Settled /\ NoStaleRefs
  BY DEF Orderly, BeginCall, BeginSubscribe, Begin, Quiet

\* The counter is wide enough for the handles there are.
LEMMA FewHolders ==
  /\ IsFiniteSet(Holders) /\ Cardinality(Holders) \in Nat /\ Cardinality(Holders) < Modulus
  /\ IsFiniteSet(Holders') /\ Cardinality(Holders') \in Nat /\ Cardinality(Holders') < Modulus
  /\ Modulus \in Nat
<1>1. IsFiniteSet(Clients) /\ Modulus \in Nat /\ Cardinality(Clients) < Modulus
  BY MuxAssumption
<1>2. Holders \subseteq Clients /\ Holders' \subseteq Clients
  BY DEF Holders
<1>3. /\ IsFiniteSet(Holders) /\ Cardinality(Holders) <= Cardinality(Clients)
      /\ IsFiniteSet(Holders') /\ Cardinality(Holders') <= Cardinality(Clients)
  BY <1>1, <1>2, FS_Subset
<1> QED BY <1>1, <1>3, FS_CardinalityType

\* The strengthening holds of a station just built.
LEMMA DInvInit == ASSUME Init PROVE DInv
<1>1. Holders = {} /\ mux = NoMux /\ \A g \in Gens : ~Active(g)
  BY DEF Init, Holders, Active, Running, Teardown
<1>2. OneCall /\ PreInsertQuiet /\ TimersLate
  BY <1>1 DEF Init, OneCall, InCall, PreInsertQuiet, PreInsert, TimersLate
<1>3. Counted /\ HeldIsThere
  BY <1>1 DEF Counted, Init, HeldIsThere
<1>4. NewestOnly
  BY <1>1 DEF NewestOnly, OneForwarder, Active
<1>5. ForceState /\ AckKnown /\ RegistriesServe
  BY <1>1 DEF Init, ForceState, AckKnown, RegistriesServe
<1> QED BY <1>2, <1>3, <1>4, <1>5 DEF DInv

\* A step that touches nothing the strengthening speaks of.
Seen == <<conf, mux, seriesHandle, exitAck, flushHandle, pc, disk, client, forcer, timer, ended>>
LEMMA Unseen == ASSUME DInv, UNCHANGED Seen PROVE DInv'
  BY DEF Seen, DInv, OneCall, InCall, PreInsertQuiet, PreInsert, Holders, Active, Counted,
     TimersLate, NewestOnly, OneForwarder, HeldIsThere, ForceState, AckKnown, RegistriesServe,
     ServedBy, HasSeries

\* A subscriber that finds the entry is counted with the handles alive.
LEMMA HitStep ==
  ASSUME Orderly', IInv, DInv, NEW c \in Clients, AcquireHit(c)
  PROVE  DInv'
<1>1. /\ \A d \in Clients : ~InCall(d)
      /\ \A f \in Forcers : forcer[f].at = "idle"
  BY CallAlone DEF AcquireHit
<1>2. /\ mux \in Muxes /\ mux # NoMux /\ mux.gen \in Gens
      /\ \A d \in Holders : client[d].gen = mux.gen
      /\ \A t \in Timers : timer[t] \notin {"remove", "series"}
  BY MuxFields, CallAlone DEF AcquireHit, Settled, NoStaleRefs, IInv, TypeOK
<1>3. /\ client'[c] = [at |-> "held", gen |-> mux.gen]
      /\ \A d \in Clients : d # c => client'[d] = client[d]
      /\ client[c].at = "idle"
  BY DEF AcquireHit, IInv, TypeOK
<1>4. UNCHANGED <<conf, seriesHandle, exitAck, flushHandle, pc, disk, forcer, timer, ended>>
  BY DEF AcquireHit
<1>5. /\ mux'.gen = mux.gen /\ mux' # NoMux
      /\ mux'.consumers = (mux.consumers + 1) % Modulus
  BY <1>2, CountUpTyped, NoMuxGen DEF AcquireHit, CountUp, Muxes
<1>6. Holders' = Holders \cup {c} /\ c \notin Holders
  BY <1>3 DEF Holders
<1>7. \A d \in Clients : ~InCall(d)'
  BY <1>1, <1>3 DEF InCall
<1>8. Counted'
  <2>1. Cardinality(Holders') = Cardinality(Holders) + 1
    BY <1>6, FewHolders, FS_AddElement
  <2>4. mux.consumers = Cardinality(Holders)
    BY <1>2 DEF DInv, Counted
  <2>5. mux'.consumers = Cardinality(Holders')
    BY <1>5, <2>1, <2>4, FewHolders
  <2>6. \A d \in Holders' : client'[d].gen = mux'.gen
    BY <1>2, <1>3, <1>5, <1>6 DEF Holders
  <2>7. \A d \in Clients : client'[d].at # "zero"
    BY <1>7 DEF InCall
  <2> QED BY <2>5, <2>6, <2>7 DEF Counted
<1>9. OneCall' /\ PreInsertQuiet' /\ ForceState'
  BY <1>1, <1>4, <1>7 DEF OneCall, PreInsertQuiet, PreInsert, InCall, ForceState
<1>10. TimersLate' /\ NewestOnly' /\ AckKnown'
  BY <1>2, <1>4, <1>5 DEF DInv, TimersLate, NewestOnly, OneForwarder, Active, AckKnown
<1>11. HeldIsThere'
  BY <1>2, <1>3, <1>4, <1>5, <1>6 DEF DInv, HeldIsThere, Holders
<1>12. RegistriesServe'
  BY <1>2, <1>3, <1>4, <1>5 DEF DInv, RegistriesServe, ServedBy, HasSeries
<1> QED BY <1>8, <1>9, <1>10, <1>11, <1>12 DEF DInv

\* A subscriber that finds no entry finds no handle and no forwarder either: an
\* orphan would be one that nobody can stop.
LEMMA MissStep ==
  ASSUME Orderly', IInv, NoOrphanForwarder, DInv, NEW c \in Clients, AcquireMiss(c)
  PROVE  DInv'
<1>1. /\ \A d \in Clients : ~InCall(d)
      /\ \A f \in Forcers : forcer[f].at = "idle"
  BY CallAlone DEF AcquireMiss
<1>2. /\ mux = NoMux /\ Settled /\ NoStaleRefs
  BY CallAlone DEF AcquireMiss
<1>3. /\ client'[c].at = "wire" /\ client'[c].gen = client[c].gen
      /\ \A d \in Clients : d # c => client'[d] = client[d]
      /\ client[c].at = "idle"
  BY MovedClient DEF AcquireMiss, IInv, Goto
<1>4. UNCHANGED <<conf, mux, seriesHandle, exitAck, flushHandle, pc, disk, forcer, timer, ended>>
  BY DEF AcquireMiss
<1>5. Holders' = Holders /\ Holders = {}
  <2>1. Holders' = Holders
    BY <1>3 DEF Holders
  <2>2. \A d \in Holders : client[d].gen \in Gens /\ client[d].gen = 0
    BY <1>2, NoMuxGen DEF NoStaleRefs, DInv, HeldIsThere
  <2> QED BY <2>1, <2>2 DEF Gens
<1>6. ASSUME NEW g \in Gens PROVE ~Active(g)
  <2>1. pc[g] \notin Teardown /\ (g \in fired => pc[g] \notin Running)
    BY <1>2 DEF Settled
  <2>2. ~Owned(g)
    BY <1>1, <1>2 DEF Owned, NoMux, InCall
  <2> QED BY <2>1, <2>2 DEF NoOrphanForwarder, Active
<1>7. \A d \in Clients : InCall(d)' => d = c
  BY <1>1, <1>3 DEF InCall
<1>8. OneCall' /\ ForceState'
  BY <1>1, <1>4, <1>7 DEF OneCall, ForceState
<1>9. PreInsertQuiet'
  <2>1. \A d \in Clients : PreInsert(d)' => d = c
    BY <1>7 DEF InCall, PreInsert
  <2> QED BY <1>2, <1>3, <1>4, <1>5, <1>6, <2>1 DEF PreInsertQuiet, Settled, Active
<1>10. TimersLate' /\ NewestOnly' /\ AckKnown' /\ HeldIsThere'
  BY <1>2, <1>4, <1>5 DEF DInv, TimersLate, NewestOnly, OneForwarder, Active, AckKnown,
     HeldIsThere
<1>11. Counted' /\ RegistriesServe'
  BY <1>2, <1>3, <1>4, <1>5 DEF DInv, Counted, RegistriesServe, ServedBy, HasSeries
<1> QED BY <1>8, <1>9, <1>10, <1>11 DEF DInv

\* The steps of a subscribe call up to the forwarder's spawn.
LEMMA WireStep ==
  ASSUME IInv, DInv, NEW c \in Clients, WireOk(c) \/ WireFail(c) \/ InsertSeries(c)
  PROVE  DInv'
<1>1. /\ client[c].at \in {"wire", "spawn"}
      /\ client'[c].at \in {"spawn", "idle", "ack"}
      /\ client'[c].at = "ack" /\ HasSeries => seriesHandle' = client'[c].gen
      /\ \A d \in Clients : d # c => client'[d] = client[d]
  <2>1. CASE WireOk(c)
    BY <2>1 DEF WireOk, IInv, TypeOK
  <2>2. CASE WireFail(c)
    BY <2>2, MovedClient DEF WireFail, Goto, IInv
  <2>3. CASE InsertSeries(c)
    BY <2>3, MovedClient DEF InsertSeries, Goto, IInv
  <2> QED BY <2>1, <2>2, <2>3
<1>2. UNCHANGED <<conf, mux, exitAck, flushHandle, pc, disk, forcer, timer, ended>>
  BY DEF WireOk, WireFail, InsertSeries
<1>3. /\ \A d \in Clients : InCall(d) => d = c
      /\ \A f \in Forcers : forcer[f].at = "idle"
  BY <1>1 DEF DInv, OneCall, InCall
<1>4. /\ mux = NoMux /\ Holders = {}
      /\ \A t \in Timers : timer[t] \notin {"remove", "series"}
      /\ \A g \in Gens : ~Active(g)
  BY <1>1 DEF DInv, PreInsertQuiet, PreInsert
<1>5. Holders' = {}
  BY <1>1, <1>4 DEF Holders
<1>6. \A d \in Clients : InCall(d)' => d = c
  BY <1>1, <1>3 DEF InCall
<1>7. OneCall' /\ ForceState'
  BY <1>2, <1>3, <1>6 DEF OneCall, ForceState
<1>8. PreInsertQuiet'
  BY <1>1, <1>2, <1>4, <1>5, <1>6 DEF PreInsertQuiet, PreInsert, InCall, Active
<1>9. TimersLate' /\ NewestOnly' /\ AckKnown' /\ HeldIsThere'
  BY <1>2, <1>4, <1>5 DEF TimersLate, NewestOnly, OneForwarder, Active, AckKnown, HeldIsThere
<1>10. Counted'
  BY <1>2, <1>4, <1>5 DEF Counted
<1>11. RegistriesServe'
  BY <1>1, <1>2, <1>4, <1>6 DEF RegistriesServe, InCall, HasSeries
<1> QED BY <1>7, <1>8, <1>9, <1>10, <1>11 DEF DInv

\* The forwarder spawned is the only one, and its ack the one registered.
LEMMA SpawnStep ==
  ASSUME IInv, DInv, NEW c \in Clients, SpawnForwarder(c)
  PROVE  DInv'
<1> DEFINE n == client[c].gen
<1>1. /\ client[c].at = "ack" /\ client'[c].at = "insert" /\ client'[c].gen = n
      /\ \A d \in Clients : d # c => client'[d] = client[d]
  BY MovedClient DEF SpawnForwarder, Goto, IInv
<1>2. UNCHANGED <<conf, mux, seriesHandle, flushHandle, disk, forcer, timer, ended>>
  BY DEF SpawnForwarder
<1>3. n \in Gens /\ pc[n] = "unborn"
  BY <1>1 DEF IInv, SpawnPrivate, Spawning, SpawnPcs
<1>4. /\ exitAck' = n /\ pc'[n] = "opening"
      /\ \A g \in Gens : g # n => pc'[g] = pc[g]
  BY <1>3 DEF SpawnForwarder, IInv, TypeOK
<1>5. /\ \A d \in Clients : InCall(d) => d = c
      /\ \A f \in Forcers : forcer[f].at = "idle"
  BY <1>1 DEF DInv, OneCall, InCall
<1>6. /\ mux = NoMux /\ Holders = {}
      /\ \A t \in Timers : timer[t] \notin {"remove", "series"}
      /\ \A g \in Gens : ~Active(g)
  BY <1>1 DEF DInv, PreInsertQuiet, PreInsert
<1>7. Holders' = {}
  BY <1>1, <1>6 DEF Holders
<1>8. \A d \in Clients : InCall(d)' => d = c
  BY <1>1, <1>5 DEF InCall
<1>9. \A g \in Gens : Active(g)' => g = n
  BY <1>4, <1>6 DEF Active
<1>10. HasSeries => seriesHandle = n
  BY <1>1 DEF DInv, RegistriesServe
<1>11. n \notin disk
  BY <1>3 DEF IInv, Registered
<1> HIDE DEF n
<1>12. OneCall' /\ ForceState'
  BY <1>2, <1>5, <1>8 DEF OneCall, ForceState
<1>13. PreInsertQuiet'
  BY <1>1, <1>2, <1>4, <1>6, <1>7, <1>8, <1>9 DEF PreInsertQuiet, PreInsert, InCall
<1>14. TimersLate' /\ AckKnown' /\ HeldIsThere' /\ Counted'
  BY <1>2, <1>4, <1>6, <1>7, <1>9 DEF TimersLate, AckKnown, HeldIsThere, Counted
<1>15. NewestOnly'
  BY <1>2, <1>6, <1>9 DEF NewestOnly, OneForwarder, Active
<1>16. RegistriesServe'
  BY <1>1, <1>2, <1>6, <1>8, <1>10, <1>11 DEF RegistriesServe, InCall, HasSeries, ServedBy
<1> QED BY <1>12, <1>13, <1>14, <1>15, <1>16 DEF DInv

\* The entry inserted displaces none, and counts the one handle there is.
LEMMA InsertStep ==
  ASSUME Orderly', IInv, DInv, NEW c \in Clients, InsertMux(c)
  PROVE  DInv'
<1> DEFINE n == client[c].gen
<1>1. /\ client[c].at = "insert" /\ client'[c].at = "held" /\ client'[c].gen = n
      /\ \A d \in Clients : d # c => client'[d] = client[d]
  BY MovedClient DEF InsertMux, Goto, IInv
<1>2. UNCHANGED <<conf, seriesHandle, exitAck, flushHandle, pc, disk, forcer, timer, ended>>
  BY DEF InsertMux
<1>3. n \in Gens
  BY <1>1 DEF IInv, SpawnPrivate, Spawning, SpawnPcs
<1>4. mux'.gen = n /\ mux' # NoMux /\ mux'.consumers = 1 % Modulus
  BY <1>3, FreshMux, NoMuxGen DEF InsertMux, ReplaceMux
<1>5. /\ \A d \in Clients : InCall(d) => d = c
      /\ \A f \in Forcers : forcer[f].at = "idle"
  BY <1>1 DEF DInv, OneCall, InCall
<1>6. /\ Holders = {} /\ pc[n] # "unborn"
      /\ \A t \in Timers : timer[t] \notin {"remove", "series"}
      /\ \A g \in Gens : Active(g) => g = n
  BY <1>1 DEF DInv, PreInsertQuiet, PreInsert
<1>7. Holders' = {c}
  BY <1>1, <1>6 DEF Holders
<1>8. \A d \in Clients : ~InCall(d)'
  BY <1>1, <1>5 DEF InCall
<1>9. n \notin ended => ServedBy(n)
  BY <1>1 DEF DInv, RegistriesServe
<1> HIDE DEF n
<1>10. mux'.consumers = Cardinality(Holders')
  <2>1. Cardinality(Holders') = 1
    BY <1>7, FS_Singleton
  <2>2. 1 < Modulus /\ Modulus \in Nat
    BY <2>1, FewHolders
  <2> QED BY <1>4, <2>1, <2>2
<1>11. Counted'
  BY <1>1, <1>4, <1>7, <1>8, <1>10 DEF Counted, InCall
<1>12. OneCall' /\ PreInsertQuiet' /\ ForceState'
  BY <1>2, <1>5, <1>8 DEF OneCall, PreInsertQuiet, PreInsert, InCall, ForceState
<1>13. TimersLate' /\ AckKnown' /\ HeldIsThere'
  BY <1>1, <1>2, <1>3, <1>4, <1>6, <1>7 DEF TimersLate, DInv, AckKnown, Active, HeldIsThere
<1>14. NewestOnly'
  BY <1>2, <1>4, <1>6 DEF NewestOnly, OneForwarder, Active
<1>15. RegistriesServe'
  BY <1>1, <1>2, <1>4, <1>8, <1>9 DEF RegistriesServe, InCall, HasSeries, ServedBy
<1> QED BY <1>11, <1>12, <1>13, <1>14, <1>15 DEF DInv

\* A handle dropped is counted out; the call that goes on to remove the entry was
\* the last one's.
LEMMA ReleaseCounts ==
  ASSUME Orderly', IInv, DInv, NEW c \in Clients, Release(c)
  PROVE  DInv'
<1>1. /\ \A d \in Clients : ~InCall(d)
      /\ \A f \in Forcers : forcer[f].at = "idle"
  BY CallAlone DEF Release
<1>2. PICK at \in {"idle", "zero"} :
        /\ client' = [client EXCEPT ![c].at = at]
        /\ at = "zero" <=> mux # NoMux /\ BecameZero
  BY DEF Release, Goto
<1>3. /\ client[c].at = "held" /\ client'[c].at = at
      /\ \A d \in Clients : d # c => client'[d] = client[d]
  BY <1>2, MovedClient DEF Release, IInv
<1>4. UNCHANGED <<conf, seriesHandle, exitAck, flushHandle, pc, disk, forcer, timer, ended>>
  BY DEF Release
<1>5. Holders' = Holders \ {c} /\ c \in Holders
  BY <1>3 DEF Holders
<1>6. Cardinality(Holders') = Cardinality(Holders) - 1
  BY <1>5, FewHolders, FS_RemoveElement
<1>7. /\ mux' # NoMux <=> mux # NoMux
      /\ mux'.gen = mux.gen
      /\ mux # NoMux => /\ mux.consumers = Cardinality(Holders)
                        /\ mux'.consumers = Cardinality(Holders')
  <2>1. CASE mux = NoMux
    BY <2>1 DEF Release
  <2>2. CASE mux # NoMux
    <3>1. mux \in Muxes
      BY <2>2 DEF IInv, TypeOK
    <3>2. mux' = CountDown(mux) /\ mux' \in Muxes
      BY <2>2, <3>1, CountDownTyped DEF Release
    <3>3. mux'.gen = mux.gen /\ mux'.consumers = (mux.consumers - 1) % Modulus /\ mux' # NoMux
      BY <3>1, <3>2, NoMuxGen DEF CountDown, Muxes
    <3>4. mux.consumers = Cardinality(Holders)
      BY <2>2 DEF DInv, Counted
    <3>5. mux'.consumers = Cardinality(Holders')
      BY <1>6, <3>3, <3>4, FewHolders
    <3> QED BY <2>2, <3>3, <3>4, <3>5
  <2> QED BY <2>1, <2>2
<1>8. at = "zero" => Holders' = {}
  <2>1. at = "zero" => Cardinality(Holders') = 0
    BY <1>2, <1>6, <1>7, FewHolders DEF BecameZero
  <2> QED BY <2>1, FewHolders, FS_EmptySet
<1>9. \A d \in Clients : InCall(d)' => d = c /\ at = "zero"
  BY <1>1, <1>3 DEF InCall
<1>10. Counted'
  <2>1. \A d \in Holders' : client'[d] = client[d] /\ d \in Holders
    BY <1>3, <1>5 DEF Holders
  <2>2. mux' # NoMux => \A d \in Holders' : client'[d].gen = mux'.gen
    BY <1>7, <2>1 DEF DInv, Counted
  <2>3. \A d \in Clients : client'[d].at = "zero" => Holders' = {}
    BY <1>8, <1>9 DEF InCall
  <2> QED BY <1>7, <2>2, <2>3 DEF Counted
<1>11. OneCall' /\ PreInsertQuiet' /\ ForceState'
  BY <1>1, <1>3, <1>4, <1>9 DEF OneCall, PreInsertQuiet, PreInsert, InCall, ForceState
<1>12. TimersLate' /\ NewestOnly' /\ AckKnown'
  BY <1>4, <1>5, <1>7 DEF DInv, TimersLate, NewestOnly, OneForwarder, Active, AckKnown
<1>13. HeldIsThere'
  BY <1>3, <1>4, <1>5, <1>7 DEF DInv, HeldIsThere, Holders
<1>14. RegistriesServe'
  BY <1>3, <1>4, <1>7, <1>9 DEF DInv, RegistriesServe, ServedBy, HasSeries, InCall
<1> QED BY <1>10, <1>11, <1>12, <1>13, <1>14 DEF DInv

\* The end of a drop: remove the entry, or arm its grace timer.
LEMMA ZeroStep ==
  ASSUME IInv, DInv, NEW c \in Clients, ReleaseStep(c)
  PROVE  DInv'
<1>1. /\ client[c].at = "zero" /\ client'[c].at = "idle"
      /\ \A d \in Clients : d # c => client'[d] = client[d]
  BY MovedClient DEF ReleaseStep, ShutdownNow, ArmGrace, Goto, IInv
<1>2. /\ UNCHANGED <<conf, seriesHandle, exitAck, flushHandle, pc, disk, forcer, ended>>
      /\ \A t \in Timers : timer'[t] \in {"remove", "series"} => timer'[t] = timer[t]
  BY DEF ReleaseStep, ShutdownNow, ArmGrace, IInv, TypeOK
<1>3. \/ mux' = NoMux
      \/ mux' # NoMux /\ mux # NoMux /\ mux'.gen = mux.gen /\ mux'.consumers = mux.consumers
  <2>1. CASE ShutdownNow(c)
    BY <2>1 DEF ShutdownNow, RemoveMux, ReplaceMux
  <2>2. CASE ArmGrace(c)
    <3>1. CASE mux = NoMux
      BY <2>2, <3>1 DEF ArmGrace
    <3>2. CASE mux # NoMux
      <4>1. PICK t \in Timers : mux' = [mux EXCEPT !.cancel = t]
        BY <2>2, <3>2 DEF ArmGrace
      <4>2. mux \in Muxes /\ t \in 0 .. NumTimers
        BY <3>2, MuxAssumption DEF IInv, TypeOK, Timers
      <4>3. mux' \in Muxes /\ mux'.gen = mux.gen /\ mux'.consumers = mux.consumers
        BY <4>1, <4>2, CancelTyped DEF Muxes
      <4> QED BY <3>2, <4>3, NoMuxGen
    <3> QED BY <3>1, <3>2
  <2> QED BY <2>1, <2>2 DEF ReleaseStep
<1>4. Holders = {} /\ Holders' = {}
  <2>1. Holders = {}
    BY <1>1 DEF DInv, Counted
  <2> QED BY <1>1, <2>1 DEF Holders
<1>5. /\ \A d \in Clients : InCall(d) => d = c
      /\ \A f \in Forcers : forcer[f].at = "idle"
  BY <1>1 DEF DInv, OneCall, InCall
<1>6. \A d \in Clients : ~InCall(d)'
  BY <1>1, <1>5 DEF InCall
<1>7. OneCall' /\ PreInsertQuiet' /\ ForceState'
  BY <1>2, <1>5, <1>6 DEF OneCall, PreInsertQuiet, PreInsert, InCall, ForceState
<1>8. TimersLate' /\ HeldIsThere'
  BY <1>2, <1>3, <1>4 DEF DInv, TimersLate, HeldIsThere
<1>9. NewestOnly' /\ AckKnown'
  BY <1>2, <1>3 DEF DInv, NewestOnly, OneForwarder, Active, AckKnown
<1>10. Counted'
  BY <1>3, <1>4, <1>6 DEF DInv, Counted, InCall
<1>11. RegistriesServe'
  BY <1>2, <1>3, <1>6 DEF DInv, RegistriesServe, ServedBy, HasSeries, InCall
<1> QED BY <1>7, <1>8, <1>9, <1>10, <1>11 DEF DInv

\* A timer goes on to remove the entry only when no handle is alive, and nobody
\* subscribes until it has.
LEMMA TimerStep ==
  ASSUME Orderly', IInv, DInv, NEW t \in Timers, TimerNext(t)
  PROVE  DInv'
<1>1. /\ UNCHANGED <<conf, exitAck, flushHandle, pc, disk, client, forcer, ended>>
      /\ \A u \in Timers : u # t => timer'[u] = timer[u]
  BY DEF TimerNext, TimerCancelled, TimerExpires, TimerRemovesMux, TimerRemovesSeries,
     IInv, TypeOK
<1>2. Holders' = Holders /\ OneCall'
  BY <1>1 DEF Holders, DInv, OneCall, InCall
<1>3. CASE TimerCancelled(t) \/ TimerExpires(t)
  <2>1. UNCHANGED seriesHandle
    BY <1>3 DEF TimerCancelled, TimerExpires
  <2>2. mux' = mux \/ (mux # NoMux /\ mux' # NoMux /\ mux'.gen = mux.gen
                       /\ mux'.consumers = mux.consumers)
    <3>1. CASE mux # NoMux /\ mux' # mux
      <4>1. mux \in Muxes /\ 0 \in 0 .. NumTimers /\ mux' = [mux EXCEPT !.cancel = 0]
        BY <1>3, <3>1, MuxAssumption DEF TimerCancelled, TimerExpires, IInv, TypeOK
      <4>2. mux' \in Muxes /\ mux'.gen = mux.gen /\ mux'.consumers = mux.consumers
        BY <4>1, CancelTyped DEF Muxes
      <4> QED BY <3>1, <4>2, NoMuxGen
    <3>2. CASE mux = NoMux
      BY <1>3, <3>2, MuxAssumption DEF TimerCancelled, TimerExpires, NoMux, Timers
    <3> QED BY <3>1, <3>2
  <2>3. mux # NoMux /\ mux.consumers = 0 => Holders = {}
    <3>1. mux # NoMux => mux.consumers = Cardinality(Holders)
      BY DEF DInv, Counted
    <3> QED BY <3>1, FewHolders, FS_EmptySet
  <2>4. timer'[t] # "series" /\ (timer'[t] = "remove" => StillZero)
    BY <1>3 DEF TimerCancelled, TimerExpires, IInv, TypeOK
  <2>5. timer'[t] = "remove" => mux # NoMux /\ Holders = {}
    BY <2>3, <2>4 DEF StillZero
  <2>6. PreInsertQuiet' /\ TimersLate'
    BY <1>1, <1>2, <2>2, <2>4, <2>5 DEF DInv, PreInsertQuiet, PreInsert, TimersLate, Active
  <2>7. Counted' /\ NewestOnly' /\ HeldIsThere'
    BY <1>1, <1>2, <2>2 DEF DInv, Counted, NewestOnly, OneForwarder, Active, HeldIsThere
  <2>8. ForceState' /\ AckKnown' /\ RegistriesServe'
    BY <1>1, <2>1, <2>2 DEF DInv, ForceState, AckKnown, Active, RegistriesServe, ServedBy,
       HasSeries
  <2> QED BY <1>2, <2>6, <2>7, <2>8 DEF DInv
<1>4. CASE TimerRemovesMux(t) \/ TimerRemovesSeries(t)
  <2>1. timer[t] \in {"remove", "series"}
    BY <1>4 DEF TimerRemovesMux, TimerRemovesSeries
  <2>2. Holders = {} /\ mux' = NoMux /\ timer'[t] \in {"series", "free"}
    BY <1>4, <2>1 DEF TimerRemovesMux, TimerRemovesSeries, RemoveMux, ReplaceMux, DInv,
       TimersLate, IInv, TypeOK
  <2>3. \A c \in Clients : ~PreInsert(c) /\ ~PreInsert(c)'
    BY <1>1, <2>1 DEF DInv, PreInsertQuiet, PreInsert
  <2>4. PreInsertQuiet' /\ TimersLate' /\ Counted' /\ HeldIsThere'
    BY <1>1, <1>2, <2>2, <2>3 DEF PreInsertQuiet, TimersLate, DInv, Counted, HeldIsThere
  <2>5. NewestOnly' /\ AckKnown' /\ ForceState'
    BY <1>1, <2>2 DEF DInv, NewestOnly, OneForwarder, Active, AckKnown, ForceState
  <2>6. RegistriesServe'
    BY <2>2, <2>3 DEF RegistriesServe, PreInsert
  <2> QED BY <1>2, <2>4, <2>5, <2>6 DEF DInv
<1> QED BY <1>3, <1>4 DEF TimerNext

\* A forced teardown finds the key's forwarder.
LEMMA ForceTakesStep ==
  ASSUME Orderly', IInv, DInv, NEW f \in Forcers, ForceTakes(f)
  PROVE  DInv'
<1>1. /\ \A c \in Clients : ~InCall(c)
      /\ \A h \in Forcers : forcer[h].at = "idle"
  BY CallAlone DEF ForceTakes
<1>2. /\ mux # NoMux /\ mux \in Muxes /\ mux.gen \in Gens /\ pc[mux.gen] # "unborn"
  BY MuxFields DEF ForceTakes, IInv, TypeOK, DInv, NewestOnly
<1>3. /\ forcer'[f].at = "unmux" /\ forcer'[f].target = mux.gen
      /\ \A h \in Forcers : h # f => forcer'[h] = forcer[h]
  BY DEF ForceTakes, IInv, TypeOK
<1>4. /\ UNCHANGED <<conf, seriesHandle, exitAck, flushHandle, pc, disk, client, timer>>
      /\ ended' = ended \cup {mux.gen}
  BY DEF ForceTakes
<1>5. mux' # NoMux /\ mux'.gen = mux.gen /\ mux'.consumers = mux.consumers
  <2>1. mux' = [mux EXCEPT !.shutdown = FALSE, !.cancel = 0]
    BY DEF ForceTakes
  <2>2. 0 \in 0 .. NumTimers
    BY MuxAssumption
  <2>3. mux' \in Muxes /\ mux'.gen = mux.gen /\ mux'.consumers = mux.consumers
    BY <1>2, <2>1, <2>2, CancelTyped DEF Muxes
  <2> QED BY <1>2, <2>3, NoMuxGen
<1>6. Holders' = Holders
  BY <1>4 DEF Holders
<1>7. OneCall' /\ ForceState'
  BY <1>1, <1>2, <1>3, <1>4, <1>5 DEF OneCall, InCall, ForceState
<1>8. PreInsertQuiet' /\ TimersLate' /\ Counted'
  BY <1>1, <1>2, <1>4, <1>5, <1>6 DEF DInv, PreInsertQuiet, PreInsert, InCall, TimersLate,
     Counted
<1>9. NewestOnly' /\ HeldIsThere'
  <2>1. NewestOnly'
    BY <1>2, <1>4, <1>5 DEF DInv, NewestOnly, OneForwarder, Active
  <2>2. HeldIsThere'
    BY <1>4, <1>5, <1>6 DEF DInv, HeldIsThere
  <2> QED BY <2>1, <2>2
<1>10. AckKnown'
  BY <1>1, <1>4 DEF DInv, AckKnown, Active
<1>11. RegistriesServe'
  BY <1>1, <1>4, <1>5 DEF DInv, RegistriesServe, ServedBy, HasSeries, InCall
<1> QED BY <1>7, <1>8, <1>9, <1>10, <1>11 DEF DInv

\* While a forced teardown is under way nobody else is in a call, and after its next
\* step the key is empty: the entry, if there is one, is the one it found.
LEMMA UnderForce ==
  ASSUME IInv, DInv, NEW f \in Forcers, ForceStep(f)
  PROVE  /\ forcer[f].at # "idle" /\ mux' = NoMux
         /\ mux # NoMux => forcer[f].at = "unmux" /\ mux.gen = forcer[f].target
         /\ \A c \in Clients : ~InCall(c)
         /\ \A h \in Forcers : h # f => forcer[h].at = "idle" /\ forcer'[h] = forcer[h]
<1>1. forcer[f].at # "idle" /\ \A h \in Forcers : h # f => forcer'[h] = forcer[h]
  BY DEF ForceStep, ForceRemovesMux, ForceRemovesSeries, ForceFires, ForceTakesAck,
     ForceAcked, ForceReturns, ForcerTo, IInv, TypeOK, ForcerStates
<1>2. /\ \A c \in Clients : ~InCall(c)
      /\ \A h \in Forcers : h # f => forcer[h].at = "idle"
  BY <1>1 DEF DInv, OneCall
<1>3. mux # NoMux => forcer[f].at = "unmux" /\ mux.gen = forcer[f].target
  BY <1>1 DEF DInv, ForceState
<1>4. mux' = NoMux
  BY <1>3 DEF ForceStep, ForceRemovesMux, ForceRemovesSeries, ForceFires, ForceTakesAck,
     ForceAcked, ForceReturns, RemoveMux, ReplaceMux
<1> QED BY <1>1, <1>2, <1>3, <1>4

\* The steps of a forced teardown that is under way.
LEMMA ForceStepKeeps ==
  ASSUME IInv, DInv, NEW f \in Forcers, ForceStep(f)
  PROVE  DInv'
<1>1. /\ forcer[f].at # "idle"
      /\ \A h \in Forcers : h # f => forcer'[h] = forcer[h]
      /\ forcer'[f].at # "idle" => forcer'[f].target = forcer[f].target
      /\ forcer'[f].at # "unmux"
  BY DEF ForceStep, ForceRemovesMux, ForceRemovesSeries, ForceFires, ForceTakesAck,
     ForceAcked, ForceReturns, ForcerTo, IInv, TypeOK, ForcerStates
<1>2. /\ \A c \in Clients : ~InCall(c)
      /\ \A h \in Forcers : h # f => forcer[h].at = "idle"
  BY UnderForce
<1>3. UNCHANGED <<conf, flushHandle, pc, disk, client, timer, ended>>
  BY DEF ForceStep, ForceRemovesMux, ForceRemovesSeries, ForceFires, ForceTakesAck,
     ForceAcked, ForceReturns
<1>4. /\ forcer[f].target \in Gens /\ forcer[f].target \in ended
      /\ pc[forcer[f].target] # "unborn"
      /\ mux # NoMux => forcer[f].at = "unmux" /\ mux.gen = forcer[f].target
  BY <1>1 DEF DInv, ForceState
<1>5. mux' = NoMux
  BY UnderForce
<1>6. Holders' = Holders /\ \A c \in Holders : client[c].gen \in ended
  <2>1. ASSUME NEW c \in Holders, client[c].gen \notin ended PROVE FALSE
    <3>1. mux.gen = client[c].gen /\ client[c].gen \in Gens
      BY <2>1 DEF DInv, HeldIsThere
    <3> QED BY <1>4, <2>1, <3>1, NoMuxGen DEF Gens
  <2> QED BY <1>3, <2>1 DEF Holders
<1>7. OneCall' /\ PreInsertQuiet'
  BY <1>1, <1>2, <1>3 DEF OneCall, InCall, PreInsertQuiet, PreInsert
<1>8. Counted' /\ TimersLate' /\ NewestOnly' /\ HeldIsThere'
  BY <1>2, <1>3, <1>5, <1>6 DEF DInv, Counted, InCall, TimersLate, NewestOnly, OneForwarder,
     Active, HeldIsThere
<1>9. RegistriesServe'
  BY <1>2, <1>3, <1>5 DEF RegistriesServe, InCall
<1>10. ForceState' /\ AckKnown'
  <2>1. CASE ForceTakesAck(f)
    <3>1. forcer[f].at = "ack" /\ exitAck' = 0 /\ forcer'[f].holds = exitAck
          /\ forcer'[f].at = IF exitAck = 0 THEN "done" ELSE "await"
      BY <2>1 DEF ForceTakesAck, AckToAwait, IInv, TypeOK, ForcerStates
    <3>2. \A g \in Gens : Active(g) /\ pc[g] # "signal" => exitAck = g
      BY <1>2, <3>1 DEF DInv, AckKnown
    <3>3. exitAck # forcer[f].target => pc[forcer[f].target] \in {"signal", "gone"}
      BY <1>4, <3>2 DEF Active, IInv, TypeOK
    <3>4. ForceState'
      BY <1>1, <1>2, <1>3, <1>4, <1>5, <3>1, <3>3 DEF ForceState, Gens
    <3>5. AckKnown'
      BY <1>3, <3>1, <3>2 DEF AckKnown, Active, Gens
    <3> QED BY <3>4, <3>5
  <2>2. CASE ForceAcked(f) \/ ForceReturns(f)
    <3>1. /\ exitAck' = exitAck
          /\ \/ /\ forcer[f].at = "await" /\ forcer'[f].at = "done"
                /\ pc[forcer[f].holds] = "gone"
             \/ forcer[f].at = "done" /\ forcer'[f].at = "idle"
      <4>1. CASE ForceAcked(f)
        BY <4>1 DEF ForceAcked, IInv, TypeOK, ForcerStates
      <4>2. CASE ForceReturns(f)
        BY <4>2 DEF ForceReturns, IInv, TypeOK, ForcerStates
      <4> QED BY <2>2, <4>1, <4>2
    <3>2. forcer'[f].at = "done" => pc[forcer[f].target] \in {"signal", "gone"}
      BY <3>1 DEF DInv, ForceState
    <3>3. ForceState'
      BY <1>1, <1>2, <1>3, <1>4, <1>5, <3>1, <3>2 DEF ForceState
    <3>4. \A g \in Gens : Active(g) /\ pc[g] # "signal" => exitAck = g
      BY <1>2, <3>1 DEF DInv, AckKnown, Active, Running, Teardown
    <3>5. AckKnown'
      BY <1>3, <3>1, <3>4 DEF AckKnown, Active
    <3> QED BY <3>3, <3>5
  <2>3. CASE ForceRemovesMux(f) \/ ForceRemovesSeries(f) \/ ForceFires(f)
    <3>1. /\ exitAck' = exitAck
          /\ forcer[f].at # "await"
          /\ forcer'[f].at \in {"unseries", "fire", "ack"}
      BY <2>3 DEF ForceRemovesMux, ForceRemovesSeries, ForceFires, ForcerTo, IInv, TypeOK,
         ForcerStates
    <3>2. ForceState'
      BY <1>1, <1>2, <1>3, <1>4, <1>5, <3>1 DEF ForceState
    <3>3. \A g \in Gens : Active(g) /\ pc[g] # "signal" => exitAck = g
      BY <1>2, <3>1 DEF DInv, AckKnown
    <3>4. AckKnown'
      BY <1>3, <3>1, <3>3 DEF AckKnown, Active
    <3> QED BY <3>2, <3>4
  <2> QED BY <2>1, <2>2, <2>3 DEF ForceStep
<1> QED BY <1>7, <1>8, <1>9, <1>10 DEF DInv

\* A flush takes no forwarder's registration away while it runs.
LEMMA FlushKeeps ==
  ASSUME IInv, DInv, NEW f \in Flushers, FlushSnapshot(f) \/ FlushStep(f)
  PROVE  DInv'
<1>1. UNCHANGED Seen
  <2>1. CASE FlushSweep(f)
    <3>1. flushHandle # 0 => pc[flushHandle] # "gone"
      BY DEF IInv, Registered, TypeOK, Gens
    <3> QED BY <2>1, <3>1 DEF FlushSweep, Swept, Seen
  <2>2. CASE FlushSnapshot(f) \/ FlushSend(f) \/ FlushDropped(f)
    BY <2>2 DEF FlushSnapshot, FlushSend, FlushDropped, Seen
  <2> QED BY <2>1, <2>2 DEF FlushStep
<1> QED BY <1>1, Unseen

\* What a forwarder's step touches: its own place, and the key's registries.
LEMMA ForwarderMoves ==
  ASSUME IInv, NEW g \in Gens, ForwarderNext(g)
  PROVE  /\ UNCHANGED <<conf, client, forcer, timer>>
         /\ Active(g) /\ pc'[g] \in Running \cup Teardown \cup {"gone"}
         /\ pc[g] = "signal" => pc'[g] = "gone"
         /\ \A h \in Gens : h # g => pc'[h] = pc[h]
         /\ mux' = mux \/ (mux' = NoMux /\ pc[g] = "unmux")
         /\ ended \subseteq ended' /\ ended' \subseteq ended \cup {g}
         /\ exitAck' = exitAck \/ pc'[g] = "signal"
         /\ pc[g] \in Running =>
              /\ seriesHandle' = seriesHandle
              /\ \/ UNCHANGED <<disk, flushHandle>>
                 \/ disk' = disk \cup {g} /\ flushHandle' = g
<1>1. CASE \/ ObserveShutdown(g) \/ ExitOnDisconnect(g) \/ StartHeal(g) \/ EndHeal(g)
           \/ OpenStore(g)
  BY <1>1 DEF ObserveShutdown, ExitOnDisconnect, StartHeal, EndHeal, OpenStore, FwdTo,
     Active, Running, Teardown, IInv, TypeOK
<1>2. CASE ServeFlush(g)
  BY <1>2 DEF ServeFlush, Active, Running, Teardown
<1>3. CASE UnregisterFlush(g) \/ FinalFlush(g) \/ CountConsumers(g) \/ SignalExit(g)
  BY <1>3 DEF UnregisterFlush, FinalFlush, CountConsumers, SignalExit, FwdTo,
     Active, Running, Teardown, IInv, TypeOK
<1>4. CASE RemoveDeadMux(g) \/ UnregisterSeries(g) \/ UnregisterAck(g)
  BY <1>4 DEF RemoveDeadMux, RemoveMux, ReplaceMux, UnregisterSeries, UnregisterAck, FwdTo,
     Active, Running, Teardown, IInv, TypeOK
<1> QED BY <1>1, <1>2, <1>3, <1>4 DEF ForwarderNext, ForwarderStep

\* A forwarder cleans the registries by key, and they are its own: no other one
\* is alive.
LEMMA ForwarderKeeps ==
  ASSUME IInv, DInv, NEW g \in Gens, ForwarderNext(g)
  PROVE  DInv'
<1>1. /\ UNCHANGED <<conf, client, forcer, timer>> /\ Active(g)
      /\ pc'[g] # "unborn" /\ (pc[g] = "signal" => pc'[g] = "gone")
      /\ \A h \in Gens : h # g => pc'[h] = pc[h]
      /\ mux' = mux \/ (mux' = NoMux /\ pc[g] = "unmux")
      /\ ended \subseteq ended' /\ ended' \subseteq ended \cup {g}
      /\ exitAck' = exitAck \/ pc'[g] = "signal"
  BY ForwarderMoves DEF Running, Teardown
<1>2. Holders' = Holders /\ OneCall'
  BY <1>1 DEF Holders, DInv, OneCall, InCall
<1>3. \A h \in Gens : Active(h)' => Active(h)
  BY <1>1 DEF Active
<1>4. /\ mux # NoMux => mux.gen = g
      /\ \A h \in Gens : Active(h) => h = g
      /\ \A c \in Clients : PreInsert(c) => client[c].at = "insert" /\ client[c].gen = g
  BY <1>1 DEF DInv, NewestOnly, OneForwarder, Active, PreInsertQuiet
<1>5. PreInsertQuiet'
  BY <1>1, <1>2, <1>3 DEF DInv, PreInsertQuiet, PreInsert
<1>6. Counted' /\ TimersLate'
  BY <1>1, <1>2 DEF DInv, Counted, TimersLate
<1>7. NewestOnly'
  BY <1>1, <1>3, <1>4, MuxFields DEF DInv, NewestOnly, OneForwarder, Active, IInv, TypeOK
<1>8. HeldIsThere'
  <2>1. ASSUME mux' # mux PROVE g \in ended
    BY <1>1, <1>4, <2>1 DEF IInv, MuxMeansLive, Running
  <2>2. ASSUME NEW c \in Holders, client[c].gen \notin ended, mux' # mux PROVE FALSE
    BY <1>4, <2>1, <2>2, NoMuxGen DEF DInv, HeldIsThere, Gens
  <2> QED BY <1>1, <1>2, <2>2 DEF DInv, HeldIsThere
<1>9. ForceState'
  <2>1. \A h \in Gens : /\ pc[h] \in {"signal", "gone"} => pc'[h] \in {"signal", "gone"}
                        /\ pc[h] # "unborn" => pc'[h] # "unborn"
    BY <1>1 DEF Active, Running, Teardown
  <2> QED BY <1>1, <2>1 DEF DInv, ForceState
<1>10. AckKnown'
  <2> SUFFICES ASSUME NEW h \in Gens, Active(h)', pc'[h] # "signal"
               PROVE  exitAck' = h \/ \E f \in Forcers : forcer'[f].at = "await"
                                                       /\ forcer'[f].holds = h
    BY DEF AckKnown
  <2>1. Active(h) /\ h = g
    BY <1>3, <1>4
  <2>2. pc[h] # "signal"
    BY <1>1, <2>1 DEF Active, Running, Teardown
  <2> QED BY <1>1, <2>1, <2>2 DEF DInv, AckKnown
<1>11. RegistriesServe'
  <2>1. ASSUME pc[g] \in Running, ServedBy(g) PROVE ServedBy(g)'
    BY <2>1, ForwarderMoves DEF ServedBy, HasSeries
  <2>2. ASSUME mux' # NoMux, mux'.gen \notin ended' PROVE ServedBy(mux.gen)'
    <3>1. mux' = mux /\ mux # NoMux /\ mux.gen = g /\ g \notin ended
      BY <1>1, <1>4, <2>2
    <3>2. pc[g] \in Running /\ ServedBy(g)
      BY <3>1 DEF IInv, MuxMeansLive, DInv, RegistriesServe
    <3> QED BY <2>1, <3>1, <3>2
  <2>3. ASSUME NEW c \in Clients, client[c].at = "insert", client[c].gen \notin ended'
        PROVE  ServedBy(client[c].gen)'
    <3>1. client[c].gen = g /\ g \notin ended
      BY <1>1, <1>4, <2>3 DEF PreInsert
    <3>2. pc[g] \in Running
      BY <2>3, <3>1 DEF IInv, SpawnPrivate, Spawning, SpawnPcs
    <3>3. ServedBy(g)
      BY <2>3, <3>1 DEF DInv, RegistriesServe
    <3> QED BY <1>1, <2>1, <3>1, <3>2, <3>3
  <2>4. \A c \in Clients : client[c].at # "ack"
    BY <1>4 DEF PreInsert
  <2>5. \A c \in Clients : client'[c].at # "ack"
    BY <1>1, <2>4
  <2> QED BY <1>1, <2>2, <2>3, <2>5 DEF RegistriesServe
<1> QED BY <1>2, <1>5, <1>6, <1>7, <1>8, <1>9, <1>10, <1>11 DEF DInv

-----------------------------------------------------------------------------
(* The theorems.                                                             *)

\* Until calls overlap every step keeps the strengthening.
LEMMA DInvStep ==
  ASSUME Orderly', IInv, NoOrphanForwarder, DInv, [Next]_vars
  PROVE  DInv'
<1>1. ASSUME NEW c \in Clients, ClientNext(c) PROVE DInv'
  BY <1>1, HitStep, MissStep, WireStep, SpawnStep, InsertStep, ReleaseCounts, ZeroStep
  DEF ClientNext, SubscribeStep
<1>2. ASSUME NEW t \in Timers, TimerNext(t) PROVE DInv'
  BY <1>2, TimerStep
<1>3. ASSUME NEW f \in Forcers, ForceTakes(f) \/ ForceStep(f) PROVE DInv'
  BY <1>3, ForceTakesStep, ForceStepKeeps
<1>4. ASSUME NEW f \in Flushers, FlushSnapshot(f) \/ FlushStep(f) PROVE DInv'
  BY <1>4, FlushKeeps
<1>5. ASSUME NEW g \in Gens, ForwarderNext(g) PROVE DInv'
  BY <1>5, ForwarderKeeps
<1>6. CASE UNCHANGED vars
  BY <1>6, Unseen DEF vars, Seen
<1> QED BY <1>1, <1>2, <1>3, <1>4, <1>5, <1>6 DEF Next

\* The strengthening holds of every station until calls overlap at the key.
THEOREM DInvHolds == Spec => [](IInv /\ NoOrphanForwarder /\ (Orderly => DInv))
<1>1. Init => DInv
  BY DInvInit
<1>2. IInv /\ NoOrphanForwarder /\ (Orderly => DInv) /\ [Next]_vars => (Orderly => DInv)'
  BY DInvStep, OrderLasts
<1> QED BY <1>1, <1>2, IInvHolds, PTL DEF Spec

\* Until calls overlap, a handle's forwarder runs, untold to stop, until the last
\* handle is dropped, unless it was forced down or its upstream cut it off.
THEOREM Served == Spec => [](Orderly => HolderServed)
<1>1. IInv /\ DInv => HolderServed
  <2> SUFFICES ASSUME IInv, DInv, NEW c \in Holders, client[c].gen \notin ended
               PROVE  /\ mux.gen = client[c].gen /\ pc[client[c].gen] \in Running
                      /\ client[c].gen \notin fired
    BY DEF HolderServed
  <2>1. mux.gen = client[c].gen /\ client[c].gen \in Gens
    BY DEF DInv, HeldIsThere
  <2>2. mux # NoMux
    BY <2>1, NoMuxGen DEF Gens
  <2> QED BY <2>1, <2>2 DEF IInv, MuxMeansLive
<1> QED BY <1>1, DInvHolds, PTL

\* Until calls overlap, two forwarders of the key are never alive at once, teardown
\* included.
THEOREM OnlyForwarder == Spec => [](Orderly => OneForwarder)
<1>1. DInv => OneForwarder
  BY DEF DInv, NewestOnly
<1> QED BY <1>1, DInvHolds, PTL

\* Until calls overlap, the forwarder of a handle that is held is found in
\* series_handles, exit_acks and flush_handles.
THEOREM RegistriesFind == Spec => [](Orderly => RegistriesServeHolder)
<1>1. IInv /\ DInv => RegistriesServeHolder
  <2> SUFFICES ASSUME IInv, DInv, NEW c \in Holders, client[c].gen \notin ended
               PROVE  /\ HasSeries => seriesHandle = client[c].gen
                      /\ exitAck = client[c].gen
                      /\ client[c].gen \in disk => flushHandle = client[c].gen
    BY DEF RegistriesServeHolder
  <2>1. mux.gen = client[c].gen /\ client[c].gen \in Gens
    BY DEF DInv, HeldIsThere
  <2>2. mux # NoMux /\ pc[client[c].gen] \in Running
    BY <2>1, NoMuxGen DEF Gens, IInv, MuxMeansLive
  <2>3. \A f \in Forcers : forcer[f].at # "await"
    BY <2>2 DEF DInv, ForceState
  <2>4. exitAck = client[c].gen
    BY <2>1, <2>2, <2>3 DEF DInv, AckKnown, Active, Running
  <2> QED BY <2>1, <2>2, <2>4 DEF DInv, RegistriesServe, ServedBy
<1> QED BY <1>1, DInvHolds, PTL

\* Until calls overlap, force_unsubscribe_and_await returns only once the forwarder
\* it found has finished its teardown.
THEOREM ForcedIsGone == Spec => [](Orderly => ForceMeansGone)
<1>1. DInv => ForceMeansGone
  BY DEF DInv, ForceState, ForceMeansGone
<1> QED BY <1>1, DInvHolds, PTL

-----------------------------------------------------------------------------
(* How far the count can drift, whatever overlaps.                           *)

\* The handles of the key's entry.
OwnHolders == {c \in Holders : client[c].gen = mux.gen}

\* A number on its way into muxes is no handle's.
HeldApart ==
  \A c \in Holders, d \in Clients : Spawning(d) => client[c].gen # client[d].gen

\* What a division leaves.
LEMMA Division ==
  ASSUME NEW n \in Int
  PROVE  /\ n \div Modulus \in Int /\ n % Modulus \in 0 .. Modulus - 1
         /\ n = (n \div Modulus) * Modulus + (n % Modulus)
<1>1. Modulus \in Int /\ Modulus > 0
  BY Room
<1> QED BY <1>1

\* A remainder is the only one.
LEMMA OneRemainder ==
  ASSUME NEW q \in Int, NEW r \in 0 .. Modulus - 1
  PROVE  (q * Modulus + r) % Modulus = r
<1>1. Modulus \in Int /\ Modulus > 0
  BY Room
<1> DEFINE n == q * Modulus + r
           p == n \div Modulus
           s == n % Modulus
<1>2. n \in Int
  BY <1>1
<1> HIDE DEF n
<1>3. p \in Int /\ s \in 0 .. Modulus - 1 /\ n = p * Modulus + s
  BY <1>2, Division
<1> HIDE DEF p, s
<1>4. (q - p) * Modulus = s - r
  <2>1. q * Modulus + r = p * Modulus + s
    BY <1>3 DEF n
  <2> QED BY <1>1, <1>3, <2>1
<1>5. q - p \in Int /\ s - r \in Int /\ s - r < Modulus /\ s - r > -Modulus
  BY <1>1, <1>3
<1>6. CASE q - p >= 1
  <2>1. (q - p) * Modulus >= Modulus
    BY <1>1, <1>5, <1>6
  <2> QED BY <1>1, <1>4, <1>5, <2>1
<1>7. CASE q - p <= -1
  <2>1. (q - p) * Modulus <= -Modulus
    BY <1>1, <1>5, <1>7
  <2> QED BY <1>1, <1>4, <1>5, <2>1
<1>8. CASE q - p = 0
  <2>1. s = r
    BY <1>1, <1>3, <1>4, <1>8
  <2> QED BY <2>1 DEF s, n
<1> QED BY <1>5, <1>6, <1>7, <1>8

\* Adding before or after the division makes no difference.
LEMMA AddThenDivide ==
  ASSUME NEW n \in Int, NEW d \in Int
  PROVE  ((n % Modulus) + d) % Modulus = (n + d) % Modulus
<1>1. Modulus \in Int /\ Modulus > 0
  BY Room
<1> DEFINE k == (n % Modulus) + d
<1>2. /\ n \div Modulus \in Int /\ n % Modulus \in Int
      /\ n = (n \div Modulus) * Modulus + (n % Modulus)
  BY <1>1, Division
<1>3. /\ k \in Int /\ k \div Modulus \in Int /\ k % Modulus \in 0 .. Modulus - 1
      /\ k = (k \div Modulus) * Modulus + (k % Modulus)
  BY <1>2, Division
<1>4. n + d = (n \div Modulus) * Modulus + k
  BY <1>1, <1>2
<1>5. n + d = (n \div Modulus + k \div Modulus) * Modulus + (k % Modulus)
  <2> DEFINE a == n \div Modulus
             b == k \div Modulus
             r == k % Modulus
  <2>1. a \in Int /\ b \in Int /\ r \in Int
    BY <1>2, <1>3
  <2>2. n + d = a * Modulus + (b * Modulus + r)
    <3>1. k = b * Modulus + r
      BY <1>3
    <3>2. n + d = a * Modulus + k
      BY <1>4
    <3> HIDE DEF a, b, r, k
    <3> QED BY <3>1, <3>2
  <2> HIDE DEF a, b, r, k
  <2>3. a * Modulus + (b * Modulus + r) = (a + b) * Modulus + r
    BY <1>1, <2>1
  <2> QED BY <2>2, <2>3 DEF a, b, r
<1>6. n \div Modulus + k \div Modulus \in Int
  BY <1>2, <1>3
<1> HIDE DEF k
<1>7. (n + d) % Modulus = k % Modulus
  BY <1>3, <1>5, <1>6, OneRemainder
<1> QED BY <1>7 DEF k

\* There are finitely many.
LEMMA OwnFew ==
  IsFiniteSet(OwnHolders) /\ Cardinality(OwnHolders) \in Nat /\ Cardinality(OwnHolders) < Modulus
<1>1. OwnHolders \subseteq Holders
  BY DEF OwnHolders
<1> QED BY <1>1, FewHolders, FS_Subset, FS_CardinalityType

\* The entry's count goes up with each handle it gives out and down with each it loses;
\* a handle of a replaced entry is a stray.
LEMMA ClientDrift ==
  ASSUME IInv, HeldApart, CountDrift, NEW c \in Clients, ClientNext(c)
  PROVE  CountDrift'
<1> SUFFICES ASSUME mux' # NoMux
             PROVE  (mux'.consumers + strays') % Modulus = Cardinality(OwnHolders') % Modulus
  BY DEF CountDrift, OwnHolders
<1>0. strays \in Int /\ TypeOK
  BY DEF IInv, TypeOK, HistoryOK
<1>1. mux # NoMux => mux.consumers \in Int /\ mux \in Muxes
  BY <1>0, Room, MuxFields DEF TypeOK
<1>2. mux # NoMux => (mux.consumers + strays) % Modulus = Cardinality(OwnHolders) % Modulus
  BY DEF CountDrift, OwnHolders
<1>3. Cardinality(OwnHolders) \in Int
  BY OwnFew
<1>9. ASSUME mux # NoMux, NEW d \in Int, NEW e \in Int
      PROVE  (((mux.consumers + d) % Modulus) + (strays + e)) % Modulus
               = (Cardinality(OwnHolders) + (d + e)) % Modulus
  <2> DEFINE x == mux.consumers
             n == Cardinality(OwnHolders)
  <2>1. x \in Int /\ n \in Int /\ (x + strays) % Modulus = n % Modulus
    BY <1>1, <1>2, <1>3, <1>9
  <2> HIDE DEF x, n
  <2>2. (((x + d) % Modulus) + (strays + e)) % Modulus = (n + (d + e)) % Modulus
    <3>1. (((x + d) % Modulus) + (strays + e)) % Modulus = ((x + d) + (strays + e)) % Modulus
      BY <1>0, <1>9, <2>1, AddThenDivide
    <3>2. (x + d) + (strays + e) = (x + strays) + (d + e)
      BY <1>0, <1>9, <2>1
    <3>3. (((x + strays) % Modulus) + (d + e)) % Modulus = ((x + strays) + (d + e)) % Modulus
      BY <1>0, <1>9, <2>1, AddThenDivide
    <3>4. ((n % Modulus) + (d + e)) % Modulus = (n + (d + e)) % Modulus
      BY <1>9, <2>1, AddThenDivide
    <3> QED BY <2>1, <3>1, <3>2, <3>3, <3>4
  <2> QED BY <2>2 DEF x, n
<1>4. CASE AcquireHit(c)
  <2>1. /\ mux # NoMux /\ mux'.gen = mux.gen /\ strays' = strays
        /\ mux'.consumers = (mux.consumers + 1) % Modulus
    BY <1>1, <1>4 DEF AcquireHit, CountUp, Muxes
  <2>2. client' = [client EXCEPT ![c] = [at |-> "held", gen |-> mux.gen]] /\ c \notin Holders
    BY <1>4 DEF AcquireHit, Holders
  <2>3. OwnHolders' = OwnHolders \cup {c} /\ c \notin OwnHolders
    BY <1>0, <2>1, <2>2 DEF OwnHolders, Holders, TypeOK
  <2>4. Cardinality(OwnHolders') = Cardinality(OwnHolders) + 1
    BY <2>3, OwnFew, FS_AddElement
  <2>5. (((mux.consumers + 1) % Modulus) + (strays + 0)) % Modulus
          = (Cardinality(OwnHolders) + (1 + 0)) % Modulus
    BY <1>9, <2>1
  <2> QED BY <1>0, <1>3, <2>1, <2>4, <2>5
<1>5. CASE InsertMux(c)
  <2>1. mux'.gen = client[c].gen /\ mux'.consumers = 1 % Modulus /\ strays' = 0
    BY <1>5 DEF InsertMux, ReplaceMux
  <2>2. /\ client'[c].at = "held" /\ client'[c].gen = client[c].gen
        /\ \A d \in Clients : d # c => client'[d] = client[d]
    BY <1>0, <1>5, MovedClient DEF InsertMux, Goto
  <2>3. \A d \in Holders : client[d].gen # client[c].gen
    BY <1>5 DEF HeldApart, InsertMux, Spawning, SpawnPcs
  <2>4. OwnHolders' = {c}
    BY <2>1, <2>2, <2>3 DEF OwnHolders, Holders
  <2>5. Cardinality(OwnHolders') = 1
    BY <2>4, FS_Singleton
  <2>6. 1 % Modulus \in 0 .. Modulus - 1
    BY Wraps
  <2>7. ((1 % Modulus) + 0) % Modulus = (1 + 0) % Modulus
    BY AddThenDivide
  <2> QED BY <2>1, <2>5, <2>6, <2>7
<1>6. CASE Release(c)
  <2>1. mux # NoMux
    BY <1>6 DEF Release
  <2>2. /\ mux'.gen = mux.gen /\ mux'.consumers = (mux.consumers - 1) % Modulus
        /\ strays' = IF client[c].gen = mux.gen THEN strays ELSE strays + 1
    BY <1>1, <1>6, <2>1 DEF Release, CountDown, Muxes
  <2>3. PICK at \in {"idle", "zero"} : client' = [client EXCEPT ![c].at = at]
    BY <1>6 DEF Release, Goto
  <2>4. /\ c \in Holders /\ client'[c].at # "held" /\ client'[c].gen = client[c].gen
        /\ \A d \in Clients : d # c => client'[d] = client[d]
    BY <1>0, <1>6, <2>3, MovedClient DEF Release, Holders
  <2>5. OwnHolders' = OwnHolders \ {c} /\ (c \in OwnHolders <=> client[c].gen = mux.gen)
    BY <2>2, <2>4 DEF OwnHolders, Holders
  <2> DEFINE d == IF client[c].gen = mux.gen THEN -1 ELSE 0
             e == IF client[c].gen = mux.gen THEN 0 ELSE 1
  <2>6. Cardinality(OwnHolders') = Cardinality(OwnHolders) + d
    <3>1. Cardinality(OwnHolders \ {c}) = IF c \in OwnHolders THEN Cardinality(OwnHolders) - 1
                                            ELSE Cardinality(OwnHolders)
      BY OwnFew, FS_RemoveElement
    <3> QED BY <1>3, <2>5, <3>1
  <2>7. (((mux.consumers + (-1)) % Modulus) + (strays + e)) % Modulus
          = (Cardinality(OwnHolders) + ((-1) + e)) % Modulus
    <3>1. e \in Int /\ -1 \in Int
      OBVIOUS
    <3> HIDE DEF e
    <3> QED BY <1>9, <2>1, <3>1
  <2>8. strays' = strays + e /\ mux.consumers + (-1) = mux.consumers - 1 /\ (-1) + e = d
    BY <1>0, <1>1, <2>1, <2>2
  <2> QED BY <2>2, <2>6, <2>7, <2>8
<1>7. CASE ShutdownNow(c)
  BY <1>7 DEF ShutdownNow, RemoveMux, ReplaceMux
<1>8. CASE ArmGrace(c) \/ AcquireMiss(c) \/ SpawnForwarder(c) \/ InsertSeries(c)
           \/ WireOk(c) \/ WireFail(c)
  <2>1. mux # NoMux /\ mux'.gen = mux.gen /\ mux'.consumers = mux.consumers /\ strays' = strays
    BY <1>1, <1>8 DEF ArmGrace, AcquireMiss, SpawnForwarder, InsertSeries, WireOk, WireFail, Muxes
  <2>2. /\ client[c].at # "held" /\ client'[c].at # "held"
        /\ \A d \in Clients : d # c => client'[d] = client[d]
    BY <1>0, <1>8, MovedClient DEF ArmGrace, AcquireMiss, SpawnForwarder, InsertSeries,
       WireOk, WireFail, Goto, TypeOK, ClientStates
  <2>3. OwnHolders' = OwnHolders
    BY <2>1, <2>2 DEF OwnHolders, Holders
  <2> QED BY <1>2, <2>1, <2>3
<1> QED BY <1>4, <1>5, <1>6, <1>7, <1>8 DEF ClientNext, SubscribeStep, ReleaseStep

\* Nobody else touches a handle, or the count of an entry that stays.
LEMMA OthersDrift ==
  ASSUME IInv, CountDrift,
         \/ \E t \in Timers : TimerNext(t)
         \/ \E f \in Forcers : ForceTakes(f) \/ ForceStep(f)
         \/ \E f \in Flushers : FlushSnapshot(f) \/ FlushStep(f)
         \/ \E g \in Gens : ForwarderNext(g)
         \/ UNCHANGED vars
  PROVE  CountDrift' /\ client' = client
<1> DEFINE Kept == /\ mux'.gen = mux.gen /\ mux'.consumers = mux.consumers /\ strays' = strays
                   /\ mux # NoMux
           Calm == client' = client /\ (mux' = NoMux \/ Kept)
<1> SUFFICES Calm
  BY DEF CountDrift, Holders
<1>1. mux # NoMux => mux \in Muxes
  BY DEF IInv, TypeOK
<1>2. CASE \E t \in Timers : TimerNext(t)
  <2>1. PICK t \in Timers : TimerNext(t)
    BY <1>2
  <2>2. CASE TimerExpires(t)
    <3>1. client' = client /\ strays' = strays
      BY <2>2 DEF TimerExpires
    <3>2. mux = NoMux => mux' = NoMux
      BY <2>2, MuxAssumption DEF TimerExpires, NoMux, Timers
    <3>3. mux # NoMux => mux'.gen = mux.gen /\ mux'.consumers = mux.consumers
      BY <1>1, <2>2 DEF TimerExpires, Muxes
    <3> QED BY <3>1, <3>2, <3>3
  <2>3. CASE TimerCancelled(t) \/ TimerRemovesMux(t) \/ TimerRemovesSeries(t)
    BY <2>3 DEF TimerCancelled, TimerRemovesMux, TimerRemovesSeries, RemoveMux, ReplaceMux
  <2> QED BY <2>1, <2>2, <2>3 DEF TimerNext
<1>3. CASE \E f \in Forcers : ForceTakes(f) \/ ForceStep(f)
  <2>1. PICK f \in Forcers : ForceTakes(f) \/ ForceStep(f)
    BY <1>3
  <2>2. CASE ForceTakes(f)
    BY <1>1, <2>2 DEF ForceTakes, Muxes
  <2>3. CASE ForceStep(f)
    BY <2>3 DEF ForceStep, ForceRemovesMux, ForceRemovesSeries, ForceFires, ForceTakesAck,
       ForceAcked, ForceReturns, RemoveMux, ReplaceMux
  <2> QED BY <2>1, <2>2, <2>3
<1>4. CASE \E f \in Flushers : FlushSnapshot(f) \/ FlushStep(f)
  BY <1>4 DEF FlushSnapshot, FlushStep, FlushSend, FlushDropped, FlushSweep
<1>5. CASE \E g \in Gens : ForwarderNext(g)
  BY <1>5 DEF ForwarderNext, ForwarderStep, ObserveShutdown, ExitOnDisconnect, StartHeal,
     ServeFlush, OpenStore, EndHeal, UnregisterFlush, FinalFlush, CountConsumers, RemoveDeadMux,
     UnregisterSeries, UnregisterAck, SignalExit, RemoveMux, ReplaceMux
<1>6. CASE UNCHANGED vars
  BY <1>6 DEF vars
<1> QED BY <1>2, <1>3, <1>4, <1>5, <1>6

\* A handle's number is the entry's, and no number on its way there is.
LEMMA ApartStep == ASSUME IInv, HeldApart, [Next]_vars, CountDrift PROVE HeldApart'
<1>1. CASE client' = client
  BY <1>1 DEF HeldApart, Holders, Spawning
<1>2. ASSUME NEW c \in Clients, ClientNext(c) PROVE HeldApart'
  <2> USE DEF HeldApart, Holders, Spawning, SpawnPcs
  <2>0. TypeOK
    BY DEF IInv
  <2>1. CASE AcquireHit(c)
    <3>1. \A d \in Clients : Spawning(d) => mux.gen # client[d].gen
      BY DEF IInv, SpawnPrivate
    <3>2. client' = [client EXCEPT ![c] = [at |-> "held", gen |-> mux.gen]]
      BY <2>1 DEF AcquireHit
    <3> QED BY <2>0, <3>1, <3>2 DEF TypeOK
  <2>2. CASE WireOk(c)
    <3>1. client' = [client EXCEPT ![c] = [at |-> "spawn", gen |-> gens + 1]]
      BY <2>2 DEF WireOk
    <3>2. \A d \in Clients : client[d].gen <= gens /\ client[d].gen \in Int /\ gens \in Int
      BY <2>0 DEF IInv, NumbersFresh, TypeOK, ClientStates
    <3> QED BY <2>0, <3>1, <3>2 DEF TypeOK
  <2>3. CASE InsertMux(c)
    <3>1. \A d \in Clients : d # c /\ Spawning(d) => client[d].gen # client[c].gen
      BY <2>3 DEF IInv, SpawnPrivate, InsertMux
    <3>2. /\ client'[c].at = "held" /\ client'[c].gen = client[c].gen
          /\ \A d \in Clients : d # c => client'[d] = client[d]
      BY <2>0, <2>3, MovedClient DEF InsertMux, Goto
    <3> QED BY <3>1, <3>2
  <2>4. CASE InsertSeries(c) \/ SpawnForwarder(c)
    <3>1. /\ Spawning(c) /\ client'[c].at # "held" /\ client'[c].gen = client[c].gen
          /\ \A d \in Clients : d # c => client'[d] = client[d]
      BY <2>0, <2>4, MovedClient DEF InsertSeries, SpawnForwarder, Goto
    <3> QED BY <3>1
  <2>5. CASE AcquireMiss(c) \/ WireFail(c) \/ Release(c) \/ ShutdownNow(c) \/ ArmGrace(c)
    <3>1. /\ client'[c].at \in {"wire", "idle", "zero"}
          /\ \A d \in Clients : d # c => client'[d] = client[d]
      BY <2>0, <2>5, MovedClient DEF AcquireMiss, WireFail, Release, ShutdownNow, ArmGrace, Goto
    <3> QED BY <3>1
  <2> QED BY <1>2, <2>1, <2>2, <2>3, <2>4, <2>5 DEF ClientNext, SubscribeStep, ReleaseStep
<1> QED BY <1>1, <1>2, OthersDrift DEF Next

\* Whatever the interleaving, the count of the key's entry is off from the handles of
\* that entry by the handles of replaced entries it was counted down for, and by
\* nothing else.
THEOREM CountDriftHolds == Spec => []CountDrift
<1>1. Init => HeldApart /\ CountDrift
  BY DEF Init, HeldApart, Holders, CountDrift
<1>2. IInv /\ HeldApart /\ CountDrift /\ [Next]_vars => (HeldApart /\ CountDrift)'
  BY ApartStep, ClientDrift, OthersDrift DEF Next
<1> QED BY <1>1, <1>2, IInvHolds, PTL DEF Spec

\* So an entry that has lost no handle of another is counted exactly, whatever
\* overlaps.
THEOREM CountExact == Spec => [](strays = 0 => RefCountExact)
<1>1. IInv /\ CountDrift => (strays = 0 => RefCountExact)
  <2> SUFFICES ASSUME IInv, CountDrift, strays = 0, mux # NoMux
               PROVE  mux.consumers = Cardinality(OwnHolders)
    BY DEF RefCountExact, OwnHolders
  <2>1. mux.consumers \in 0 .. Modulus - 1
    BY MuxFields DEF IInv, TypeOK
  <2>2. Cardinality(OwnHolders) \in 0 .. Modulus - 1
    BY Room, OwnFew
  <2>3. (mux.consumers + 0) % Modulus = Cardinality(OwnHolders) % Modulus
    BY DEF CountDrift, OwnHolders
  <2>4. \A n \in 0 .. Modulus - 1 : (0 * Modulus + n) % Modulus = n
    BY Room, OneRemainder
  <2>5. \A n \in 0 .. Modulus - 1 : n % Modulus = n
    BY <2>4, Room
  <2> QED BY <2>1, <2>2, <2>3, <2>5, Room
<1> QED BY <1>1, CountDriftHolds, IInvHolds, PTL

-----------------------------------------------------------------------------
(* Implements SharedStream.                                                  *)

\* Neither has a call overlapped nor an upstream cut a forwarder off.
Undisturbed == breaches = {}

\* The entry's forwarder runs and is not told to stop, a forced teardown on its way
\* or not; so does the one about to be inserted.
EntryRuns ==
  mux # NoMux =>
    /\ pc[mux.gen] \in Running /\ mux.gen \notin fired
    /\ mux.gen \in ended => \E f \in Forcers : forcer[f].at = "unmux"
InsertedRuns ==
  \A c \in Clients : client[c].at = "insert" =>
    pc[client[c].gen] \in Running /\ client[c].gen \notin ended
EndedBorn == \A g \in ended : pc[g] # "unborn"
RInv == EntryRuns /\ InsertedRuns /\ EndedBorn

AllInv == IInv /\ NoOrphanForwarder /\ DInv /\ RInv

-----------------------------------------------------------------------------
(* The strengthening is kept.                                                *)

\* A step after which nothing has gone amiss comes after one like it.
LEMMA CalmLasts ==
  ASSUME [Next]_vars, Undisturbed'
  PROVE  Undisturbed /\ Orderly /\ Orderly'
<1>1. CASE Next
  BY <1>1, HistoryStep DEF Orderly, Undisturbed
<1>2. CASE UNCHANGED vars
  BY <1>2 DEF vars, Orderly, Undisturbed
<1> QED BY <1>1, <1>2

\* A forwarder not told to stop, nor cut off, goes on running.
LEMMA RunsOn ==
  ASSUME Undisturbed', IInv, NEW g \in Gens, ForwarderNext(g), pc[g] \in Running, g \notin fired
  PROVE  pc'[g] \in Running /\ ended' = ended /\ fired' = fired
<1>1. ~ExitOnDisconnect(g)
  BY DEF ExitOnDisconnect, Undisturbed
<1>2. CASE OpenStore(g) \/ StartHeal(g) \/ EndHeal(g)
  BY <1>2 DEF OpenStore, StartHeal, EndHeal, FwdTo, IInv, TypeOK, Running
<1>3. CASE ServeFlush(g)
  BY <1>3 DEF ServeFlush
<1> QED
  BY <1>1, <1>2, <1>3 DEF ForwarderNext, ForwarderStep, ObserveShutdown, UnregisterFlush, FinalFlush,
     CountConsumers, RemoveDeadMux, UnregisterSeries, UnregisterAck, SignalExit, Running

\* A step that leaves the forwarders alone, and the entry or removes it, keeps it.
LEMMA Steady ==
  ASSUME RInv, UNCHANGED <<pc, ended>>,
         \A c \in Clients : client'[c].at = "insert" => client'[c] = client[c],
         mux' = NoMux \/ (/\ mux # NoMux /\ mux'.gen = mux.gen
                          /\ UNCHANGED <<fired, forcer>>)
  PROVE  RInv'
  BY DEF RInv, EntryRuns, InsertedRuns, EndedBorn

\* What the steps that only count or time do to the entry.
LEMMA EntryStays ==
  ASSUME IInv
  PROVE  /\ \A c \in Clients : AcquireHit(c) \/ Release(c) \/ ArmGrace(c) =>
              /\ UNCHANGED <<pc, fired, ended, forcer>>
              /\ mux'.gen = mux.gen /\ (mux # NoMux <=> mux' # NoMux)
         /\ \A t \in Timers : TimerCancelled(t) \/ TimerExpires(t) =>
              /\ UNCHANGED <<pc, fired, ended, forcer, client>>
              /\ mux'.gen = mux.gen /\ (mux # NoMux <=> mux' # NoMux)
         /\ \A f \in Forcers : ForceTakes(f) => mux # NoMux /\ mux' # NoMux /\ mux'.gen = mux.gen
<1>1. mux # NoMux => mux \in Muxes
  BY DEF IInv, TypeOK
<1>2. ASSUME mux' = mux \/ (mux # NoMux /\ mux'.gen = mux.gen)
      PROVE  mux'.gen = mux.gen /\ (mux # NoMux <=> mux' # NoMux)
  BY <1>1, <1>2, NoMuxGen
<1>3. ASSUME NEW c \in Clients, AcquireHit(c) \/ Release(c) \/ ArmGrace(c)
      PROVE  UNCHANGED <<pc, fired, ended, forcer>>
             /\ (mux' = mux \/ (mux # NoMux /\ mux'.gen = mux.gen))
  BY <1>1, <1>3 DEF AcquireHit, Release, ArmGrace, CountUp, CountDown, Muxes
<1>4. ASSUME NEW t \in Timers, TimerCancelled(t) \/ TimerExpires(t)
      PROVE  UNCHANGED <<pc, fired, ended, forcer, client>>
             /\ (mux' = mux \/ (mux # NoMux /\ mux'.gen = mux.gen))
  <2>1. mux.cancel = t => mux # NoMux
    BY MuxAssumption DEF NoMux, Timers
  <2> QED BY <1>1, <1>4, <2>1 DEF TimerCancelled, TimerExpires, Muxes
<1>5. ASSUME NEW f \in Forcers, ForceTakes(f)
      PROVE  mux # NoMux /\ mux'.gen = mux.gen
  BY <1>1, <1>5 DEF ForceTakes, Muxes
<1> QED BY <1>2, <1>3, <1>4, <1>5

\* The steps of a caller of subscribe and of a dropper.
LEMMA ClientRuns ==
  ASSUME IInv, DInv, RInv, NEW c \in Clients, ClientNext(c)
  PROVE  RInv'
<1>1. CASE SpawnForwarder(c)
  <2>1. /\ client[c].at = "ack" /\ client'[c].at = "insert"
        /\ client'[c].gen = client[c].gen
        /\ \A d \in Clients : d # c => client'[d] = client[d]
    BY <1>1, MovedClient DEF SpawnForwarder, Goto, IInv
  <2>2. client[c].gen \in Gens /\ mux' = NoMux /\ pc[client[c].gen] = "unborn"
    BY <1>1, <2>1 DEF SpawnForwarder, IInv, SpawnPrivate, Spawning, SpawnPcs, DInv,
       PreInsertQuiet, PreInsert
  <2>3. /\ pc'[client[c].gen] = "opening" /\ ended' = ended
        /\ \A g \in Gens : g # client[c].gen => pc'[g] = pc[g]
    BY <1>1, <2>2 DEF SpawnForwarder, IInv, TypeOK
  <2>4. client[c].gen \notin ended
    BY <2>2 DEF RInv, EndedBorn
  <2>5. \A d \in Clients : client'[d].at = "insert" => d = c
    BY <2>1 DEF DInv, OneCall, InCall
  <2>6. InsertedRuns'
    BY <2>1, <2>3, <2>4, <2>5 DEF InsertedRuns, Running
  <2>7. EndedBorn'
    BY <2>3, <2>4 DEF RInv, EndedBorn, IInv, TypeOK
  <2> QED BY <2>2, <2>6, <2>7 DEF RInv, EntryRuns
<1>2. CASE InsertMux(c)
  <2>1. /\ client[c].at = "insert" /\ client'[c].at = "held"
        /\ \A d \in Clients : d # c => client'[d] = client[d]
    BY <1>2, MovedClient DEF InsertMux, Goto, IInv
  <2>2. /\ mux'.gen = client[c].gen /\ fired' = fired \cup FiredBy(mux)
        /\ UNCHANGED <<pc, ended>>
    BY <1>2 DEF InsertMux, ReplaceMux
  <2>3. mux = NoMux
    BY <2>1 DEF DInv, PreInsertQuiet, PreInsert
  <2>4. fired' = fired
    BY <2>2, <2>3 DEF FiredBy, NoMux
  <2>5. client[c].gen \notin fired
    BY <2>1 DEF IInv, SpawnPrivate, Spawning, SpawnPcs
  <2>6. pc[client[c].gen] \in Running /\ client[c].gen \notin ended
    BY <2>1 DEF RInv, InsertedRuns
  <2>7. \A d \in Clients : client'[d].at # "insert"
    BY <2>1 DEF DInv, OneCall, InCall
  <2> QED BY <2>2, <2>4, <2>5, <2>6, <2>7 DEF RInv, EntryRuns, InsertedRuns, EndedBorn
<1>3. CASE ~SpawnForwarder(c) /\ ~InsertMux(c)
  <2>1. \A d \in Clients : client'[d].at = "insert" => client'[d] = client[d]
    BY <1>3 DEF ClientNext, SubscribeStep, ReleaseStep, AcquireHit, AcquireMiss, WireOk,
       WireFail, InsertSeries, Release, ShutdownNow, ArmGrace, Goto, IInv, TypeOK, ClientStates
  <2>2. CASE AcquireHit(c) \/ Release(c) \/ ArmGrace(c)
    BY <2>1, <2>2, EntryStays, Steady
  <2>3. CASE ShutdownNow(c)
    BY <2>1, <2>3, Steady DEF ShutdownNow, RemoveMux, ReplaceMux
  <2>4. CASE AcquireMiss(c) \/ WireOk(c) \/ WireFail(c) \/ InsertSeries(c)
    BY <2>1, <2>4, Steady DEF AcquireMiss, WireOk, WireFail, InsertSeries
  <2> QED BY <1>3, <2>2, <2>3, <2>4 DEF ClientNext, SubscribeStep, ReleaseStep
<1> QED BY <1>1, <1>2, <1>3

\* The steps of a grace timer, of a forced teardown and of a flush.
LEMMA OthersRun ==
  ASSUME Orderly', IInv, DInv, RInv,
         \/ \E t \in Timers : TimerNext(t)
         \/ \E f \in Forcers : ForceTakes(f) \/ ForceStep(f)
         \/ \E f \in Flushers : FlushSnapshot(f) \/ FlushStep(f)
  PROVE  RInv'
<1>1. client' = client /\ pc' = pc
  BY DEF TimerNext, TimerCancelled, TimerExpires, TimerRemovesMux, TimerRemovesSeries,
     ForceTakes, ForceStep, ForceRemovesMux, ForceRemovesSeries, ForceFires, ForceTakesAck,
     ForceAcked, ForceReturns, FlushStep, FlushSnapshot, FlushSend, FlushDropped, FlushSweep
<1>2. ASSUME NEW t \in Timers, TimerNext(t) PROVE RInv'
  <2>1. CASE TimerCancelled(t) \/ TimerExpires(t)
    BY <1>1, <2>1, EntryStays, Steady
  <2>2. CASE TimerRemovesMux(t) \/ TimerRemovesSeries(t)
    BY <1>1, <2>2, Steady DEF TimerRemovesMux, TimerRemovesSeries, RemoveMux, ReplaceMux
  <2> QED BY <1>2, <2>1, <2>2 DEF TimerNext
<1>3. ASSUME NEW f \in Forcers, ForceTakes(f) PROVE RInv'
  <2>1. /\ mux # NoMux /\ mux'.gen = mux.gen /\ fired' = fired
        /\ ended' = ended \cup {mux.gen}
    BY <1>3, EntryStays DEF ForceTakes
  <2>2. forcer'[f].at = "unmux"
    BY <1>3 DEF ForceTakes, IInv, TypeOK
  <2>3. \A c \in Clients : client[c].at # "insert"
    BY <1>3, CallAlone DEF ForceTakes, InCall
  <2>4. pc[mux.gen] \in Running /\ mux.gen \notin fired
    BY <2>1 DEF RInv, EntryRuns
  <2> QED BY <1>1, <2>1, <2>2, <2>3, <2>4 DEF RInv, EntryRuns, InsertedRuns, EndedBorn, Running
<1>4. ASSUME NEW f \in Forcers, ForceStep(f) PROVE RInv'
  <2>1. ended' = ended
    BY <1>4 DEF ForceStep, ForceRemovesMux, ForceRemovesSeries, ForceFires, ForceTakesAck,
       ForceAcked, ForceReturns
  <2>2. mux' = NoMux
    BY <1>4, UnderForce
  <2> QED BY <1>1, <2>1, <2>2, Steady
<1>5. ASSUME NEW f \in Flushers, FlushSnapshot(f) \/ FlushStep(f) PROVE RInv'
  BY <1>1, <1>5, Steady DEF FlushStep, FlushSnapshot, FlushSend, FlushDropped, FlushSweep
<1> QED BY <1>2, <1>3, <1>4, <1>5

\* The steps of a forwarder: the entry's and the one about to be inserted run on.
LEMMA ForwarderRuns ==
  ASSUME Undisturbed', IInv, DInv, RInv, NEW g \in Gens, ForwarderNext(g)
  PROVE  RInv'
<1>1. /\ UNCHANGED <<client, forcer>> /\ Active(g)
      /\ \A h \in Gens : h # g => pc'[h] = pc[h]
      /\ mux' = mux \/ (mux' = NoMux /\ pc[g] = "unmux")
      /\ ended \subseteq ended' /\ ended' \subseteq ended \cup {g} /\ pc'[g] # "unborn"
  BY ForwarderMoves DEF Running, Teardown
<1>2. mux # NoMux => mux.gen = g
  BY <1>1 DEF DInv, NewestOnly
<1>3. \A c \in Clients : client[c].at = "insert" => client[c].gen = g
  BY <1>1 DEF DInv, PreInsertQuiet, PreInsert
<1>4. EntryRuns'
  <2> SUFFICES ASSUME mux' # NoMux
               PROVE  /\ pc'[mux'.gen] \in Running /\ mux'.gen \notin fired'
                      /\ mux'.gen \in ended' => \E f \in Forcers : forcer'[f].at = "unmux"
    BY DEF EntryRuns
  <2>1. mux' = mux /\ mux # NoMux /\ mux.gen = g
    BY <1>1, <1>2
  <2>2. pc[g] \in Running /\ g \notin fired
    BY <2>1 DEF RInv, EntryRuns
  <2>3. pc'[g] \in Running /\ ended' = ended /\ fired' = fired
    BY <2>2, RunsOn
  <2> QED BY <1>1, <2>1, <2>2, <2>3 DEF RInv, EntryRuns
<1>5. InsertedRuns'
  <2> SUFFICES ASSUME NEW c \in Clients, client[c].at = "insert"
               PROVE  pc'[client[c].gen] \in Running /\ client[c].gen \notin ended'
    BY <1>1 DEF InsertedRuns
  <2>1. client[c].gen = g /\ pc[g] \in Running /\ g \notin ended
    BY <1>3 DEF RInv, InsertedRuns
  <2>2. g \notin fired
    BY <2>1 DEF IInv, SpawnPrivate, Spawning, SpawnPcs
  <2> QED BY <2>1, <2>2, RunsOn
<1>6. EndedBorn'
  BY <1>1 DEF RInv, EndedBorn, IInv, TypeOK
<1> QED BY <1>4, <1>5, <1>6 DEF RInv

\* The strengthening is an invariant.
LEMMA RInvHolds == Spec => [](Undisturbed => AllInv)
<1>1. Init => RInv
  BY DEF Init, RInv, EntryRuns, InsertedRuns, EndedBorn
<1>2. IInv /\ (Orderly => DInv) /\ (Undisturbed => RInv) /\ [Next]_vars
        => (Undisturbed => RInv)'
  <2> SUFFICES ASSUME IInv, Orderly => DInv, Undisturbed => RInv, [Next]_vars, Undisturbed'
               PROVE  RInv'
    OBVIOUS
  <2>0. Undisturbed /\ Orderly /\ Orderly' /\ DInv /\ RInv
    BY CalmLasts
  <2>1. CASE UNCHANGED vars
    BY <2>0, <2>1 DEF vars, RInv, EntryRuns, InsertedRuns, EndedBorn
  <2> QED BY <2>0, <2>1, ClientRuns, OthersRun, ForwarderRuns DEF Next
<1>3. Undisturbed => Orderly
  BY DEF Undisturbed, Orderly
<1> QED BY <1>1, <1>2, <1>3, DInvHolds, PTL DEF Spec, AllInv

-----------------------------------------------------------------------------
(* The stream as the registries and forwarders show it.                      *)

\* With an entry the stream is up.  Without one it closes while a forwarder is
\* alive, save the one that a subscribe call is about to register.
StreamReads ==
  /\ mux # NoMux => StreamNow = "up"
  /\ mux = NoMux /\ (\A c \in Clients : client[c].at # "insert") =>
       StreamNow = IF \E g \in Gens : Active(g) THEN "closing" ELSE "down"
  /\ \A c \in Clients : client[c].at = "insert" => StreamNow = "down"

\* Without an entry a running forwarder was told to stop or was forced down: nobody
\* else can hold its shutdown sender.
LEMMA StreamIs == ASSUME AllInv PROVE StreamReads
<1> SUFFICES /\ mux = NoMux /\ (\A c \in Clients : client[c].at # "insert") =>
                  StreamNow = IF \E g \in Gens : Active(g) THEN "closing" ELSE "down"
             /\ \A c \in Clients : client[c].at = "insert" => StreamNow = "down"
  BY DEF StreamReads, StreamNow
<1> USE DEF AllInv
<1>1. ASSUME mux = NoMux, \A c \in Clients : client[c].at # "insert"
      PROVE  \A g \in Gens : Active(g) <=> Dying(g)
  <2> SUFFICES ASSUME NEW g \in Gens, pc[g] \in Running, g \notin fired
               PROVE  g \in ended
    BY DEF Active, Dying
  <2>1. PICK f \in Forcers : /\ forcer[f].at \in {"unmux", "unseries", "fire"}
                             /\ forcer[f].holds = g
    BY <1>1 DEF NoOrphanForwarder, Owned, NoMux
  <2> QED BY <2>1 DEF IInv, SendersMarked, HoldsSender, Gens
<1>2. ASSUME NEW c \in Clients, client[c].at = "insert"
      PROVE  mux = NoMux /\ \A g \in Gens : ~Dying(g)
  <2>1. mux = NoMux /\ \A g \in Gens : Active(g) => g = client[c].gen
    BY <1>2 DEF DInv, PreInsertQuiet, PreInsert
  <2>2. pc[client[c].gen] \in Running /\ client[c].gen \notin ended
    BY <1>2 DEF RInv, InsertedRuns
  <2>3. client[c].gen \notin fired
    BY <1>2 DEF IInv, SpawnPrivate, Spawning, SpawnPcs
  <2> QED BY <2>1, <2>2, <2>3 DEF Dying, Active, Running, Teardown
<1> QED BY <1>1, <1>2 DEF StreamNow

\* A step that moves nothing the stream is read from leaves the shared stream alone.
LEMMA SharedUnseen ==
  ASSUME UNCHANGED <<pc, fired, ended, Holders, ForcePending>>,
         mux' = mux \/ (mux # NoMux /\ mux' # NoMux)
  PROVE  UNCHANGED Shared!vars
  BY DEF Shared!vars, StreamNow, Dying

\* Removing the entry that nobody holds and nobody is about to insert stops the
\* stream, if it was up.
LEMMA EntryRemoved ==
  ASSUME AllInv, StreamReads', Holders = {}, Holders' = {}, UNCHANGED <<pc, ended, ForcePending>>,
         \A c \in Clients : client'[c].at # "insert",
         mux' = NoMux, fired' = fired \cup FiredBy(mux)
  PROVE  [Shared!Next]_Shared!vars
<1>1. CASE mux = NoMux
  <2>1. UNCHANGED <<pc, fired, ended, Holders, ForcePending>>
    BY <1>1 DEF FiredBy, NoMux
  <2>2. UNCHANGED Shared!vars
    BY <1>1, <2>1, SharedUnseen
  <2> QED BY <2>2
<1>2. CASE mux # NoMux
  <2>1. StreamNow = "up"
    BY <1>2 DEF StreamNow
  <2>2. \E g \in Gens : Active(g)'
    BY <1>2, MuxFields DEF AllInv, IInv, TypeOK, RInv, EntryRuns, Active
  <2>3. StreamNow' = "closing"
    BY <2>2 DEF StreamReads
  <2>4. Shared!Stop
    BY <2>1, <2>3 DEF Shared!Stop
  <2> QED BY <2>4 DEF Shared!Next
<1> QED BY <1>1, <1>2

\* Of a caller's steps, four are steps of the shared stream.
LEMMA ClientShares ==
  ASSUME Orderly', AllInv, StreamReads, StreamReads', NEW c \in Clients, ClientNext(c)
  PROVE  [Shared!Next]_Shared!vars
<1>1. UNCHANGED <<ended, forcer, ForcePending>>
  BY DEF ClientNext, SubscribeStep, ReleaseStep, AcquireHit, AcquireMiss, WireOk, WireFail,
     InsertSeries, SpawnForwarder, InsertMux, Release, ShutdownNow, ArmGrace, ForcePending
<1>2. CASE AcquireHit(c)
  <2>1. \A f \in Forcers : forcer[f].at = "idle"
    BY <1>2, CallAlone DEF AcquireHit
  <2>2. mux # NoMux /\ mux' # NoMux
    BY <1>2, EntryStays DEF AcquireHit, AllInv
  <2>3. Holders' = Holders \cup {c} /\ c \notin Holders
    BY <1>2 DEF AcquireHit, Holders, AllInv, IInv, TypeOK
  <2>4. Shared!Join(c)
    BY <1>1, <2>1, <2>2, <2>3 DEF Shared!Join, StreamNow, ForcePending
  <2> QED BY <2>4 DEF Shared!Next
<1>3. CASE InsertMux(c)
  <2>1. /\ client[c].at = "insert" /\ client'[c].at = "held"
        /\ \A d \in Clients : d # c => client'[d] = client[d]
    BY <1>3, MovedClient DEF InsertMux, Goto, AllInv, IInv
  <2>2. StreamNow = "down"
    BY <2>1 DEF StreamReads
  <2>3. Holders = {} /\ Holders' = {c}
    BY <2>1 DEF AllInv, DInv, PreInsertQuiet, PreInsert, Holders
  <2>4. StreamNow' = "up"
    <3>1. mux'.gen \in Gens
      BY <1>3, <2>1 DEF InsertMux, ReplaceMux, AllInv, IInv, SpawnPrivate, Spawning, SpawnPcs
    <3>2. mux' # NoMux
      BY <3>1, NoMuxGen DEF Gens
    <3> QED BY <3>2 DEF StreamNow
  <2>5. Shared!Start(c)
    BY <1>1, <2>2, <2>3, <2>4 DEF Shared!Start
  <2> QED BY <2>5 DEF Shared!Next
<1>4. CASE Release(c)
  <2>1. Holders' = Holders \ {c} /\ c \in Holders
    BY <1>4 DEF Release, Goto, Holders, AllInv, IInv, TypeOK, ClientStates
  <2>2. StreamNow' = StreamNow
    <3>1. UNCHANGED <<pc, fired>> /\ (mux = NoMux => mux' = mux)
      BY <1>4 DEF Release
    <3>2. mux # NoMux => mux' # NoMux
      BY <1>4, EntryStays DEF AllInv
    <3> QED BY <1>1, <3>1, <3>2 DEF StreamNow, Dying
  <2>3. Shared!Leave(c)
    BY <1>1, <2>1, <2>2 DEF Shared!Leave
  <2> QED BY <2>3 DEF Shared!Next
<1>5. CASE ShutdownNow(c)
  <2>1. Holders = {} /\ Holders' = {}
    BY <1>5 DEF ShutdownNow, Goto, Holders, AllInv, DInv, Counted, IInv, TypeOK, ClientStates
  <2>2. \A d \in Clients : client'[d].at # "insert"
    BY <1>5 DEF ShutdownNow, Goto, AllInv, DInv, OneCall, InCall, IInv, TypeOK, ClientStates
  <2>3. pc' = pc /\ mux' = NoMux /\ fired' = fired \cup FiredBy(mux)
    BY <1>5 DEF ShutdownNow, RemoveMux, ReplaceMux
  <2> QED BY <1>1, <2>1, <2>2, <2>3, EntryRemoved
<1>6. CASE SpawnForwarder(c)
  <2>1. client[c].at = "ack" /\ client'[c].at = "insert" /\ client[c].gen = client'[c].gen
        /\ \A d \in Clients : d # c => client'[d] = client[d]
    BY <1>6, MovedClient DEF SpawnForwarder, Goto, AllInv, IInv
  <2>2. StreamNow' = "down" /\ StreamNow = "down"
    <3>1. mux = NoMux /\ \A g \in Gens : ~Active(g)
      BY <2>1 DEF AllInv, DInv, PreInsertQuiet, PreInsert
    <3>2. \A d \in Clients : client[d].at # "insert"
      BY <2>1 DEF AllInv, DInv, OneCall, InCall
    <3> QED BY <2>1, <3>1, <3>2 DEF StreamReads
  <2>3. Holders' = Holders
    BY <2>1 DEF Holders
  <2> QED BY <1>1, <2>2, <2>3 DEF Shared!vars
<1>7. CASE ArmGrace(c) \/ AcquireMiss(c) \/ WireOk(c) \/ WireFail(c) \/ InsertSeries(c)
  <2>1. UNCHANGED <<pc, fired>>
    BY <1>7 DEF ArmGrace, AcquireMiss, WireOk, WireFail, InsertSeries
  <2>2. Holders' = Holders
    <3>1. /\ client[c].at # "held" /\ client'[c].at # "held"
          /\ \A d \in Clients : d # c => client'[d] = client[d]
      BY <1>7, MovedClient DEF ArmGrace, AcquireMiss, WireOk, WireFail, InsertSeries, Goto,
         AllInv, IInv, TypeOK, ClientStates
    <3> QED BY <3>1 DEF Holders
  <2>3. mux' = mux \/ (mux # NoMux /\ mux' # NoMux)
    <3>1. CASE ArmGrace(c)
      <4>1. mux # NoMux <=> mux' # NoMux
        BY <3>1, EntryStays DEF AllInv
      <4> QED BY <4>1
    <3> QED BY <1>7, <3>1 DEF AcquireMiss, WireOk, WireFail, InsertSeries
  <2> QED BY <1>1, <2>1, <2>2, <2>3, SharedUnseen
<1> QED BY <1>2, <1>3, <1>4, <1>5, <1>6, <1>7 DEF ClientNext, SubscribeStep, ReleaseStep

\* Of the steps of a forced teardown two are, and its shutdown changes nothing: the
\* forwarder was marked when its sender was taken.
LEMMA ForceShares ==
  ASSUME Orderly', AllInv, StreamReads, StreamReads', NEW f \in Forcers,
         ForceTakes(f) \/ ForceStep(f)
  PROVE  [Shared!Next]_Shared!vars
<1>1. /\ pc' = pc /\ Holders' = Holders /\ client' = client
  BY DEF Holders, ForceTakes, ForceStep, ForceRemovesMux, ForceRemovesSeries, ForceFires,
     ForceTakesAck, ForceAcked, ForceReturns
<1>2. CASE ForceTakes(f)
  <2>1. StreamNow = "up" /\ StreamNow' = "up"
    BY <1>2, EntryStays DEF StreamNow, AllInv
  <2>2. ForcePending'
    BY <1>2 DEF ForceTakes, ForcePending, AllInv, IInv, TypeOK
  <2>3. Shared!Force
    BY <1>1, <2>1, <2>2 DEF Shared!Force
  <2> QED BY <2>3 DEF Shared!Next
<1>3. CASE ForceStep(f)
  <2>1. /\ mux' = NoMux /\ ended' = ended
        /\ mux # NoMux => forcer[f].at = "unmux"
        /\ \A c \in Clients : client[c].at # "insert"
        /\ \A h \in Forcers : h # f => forcer[h].at = "idle" /\ forcer'[h].at = "idle"
    BY <1>3, UnderForce DEF AllInv, InCall, ForceStep, ForceRemovesMux, ForceRemovesSeries,
       ForceFires, ForceTakesAck, ForceAcked, ForceReturns
  <2>2. forcer'[f].at # "unmux"
    BY <1>3 DEF ForceStep, ForceRemovesMux, ForceRemovesSeries, ForceFires, ForceTakesAck,
       ForceAcked, ForceReturns, ForcerTo, AllInv, IInv, TypeOK, ForcerStates
  <2>3. ForcePending' = FALSE /\ (ForcePending <=> forcer[f].at = "unmux")
    BY <2>1, <2>2 DEF ForcePending
  <2>4. CASE ForceRemovesMux(f)
    <3>1. ForcePending
      BY <2>3, <2>4 DEF ForceRemovesMux
    <3>2. mux = NoMux => fired' = fired
      BY <2>4 DEF ForceRemovesMux, RemoveMux, ReplaceMux, FiredBy, NoMux
    <3>3. mux # NoMux => StreamNow = "up" /\ StreamNow' = "closing"
      <4>1. mux # NoMux => StreamNow = "up" /\ \E g \in Gens : Active(g)
        BY MuxFields DEF StreamNow, AllInv, IInv, TypeOK, RInv, EntryRuns, Active
      <4> QED BY <1>1, <2>1, <4>1 DEF StreamReads, Active
    <3>4. mux = NoMux => StreamNow' = StreamNow /\ StreamNow # "up"
      BY <1>1, <2>1, <3>2 DEF StreamNow, Dying
    <3>5. Shared!ForcedStop
      BY <1>1, <2>3, <3>1, <3>3, <3>4 DEF Shared!ForcedStop
    <3> QED BY <3>5 DEF Shared!Next
  <2>5. CASE ~ForceRemovesMux(f)
    <3>1. forcer[f].at # "unmux"
      BY <1>3, <2>5 DEF ForceStep, ForceRemovesSeries, ForceFires, ForceTakesAck, ForceAcked,
         ForceReturns
    <3>2. mux' = mux /\ fired \cup ended = (fired \cup ended)'
      <4>1. CASE ForceFires(f)
        <5>1. {forcer[f].holds} \ {0} \subseteq ended
          BY <4>1 DEF ForceFires, AllInv, IInv, SendersMarked, HoldsSender
        <5> QED BY <2>1, <3>1, <4>1, <5>1 DEF ForceFires
      <4> QED BY <1>3, <2>1, <2>5, <3>1, <4>1 DEF ForceStep, ForceRemovesSeries,
               ForceTakesAck, ForceAcked, ForceReturns
    <3>3. StreamNow' = StreamNow
      BY <1>1, <3>2 DEF StreamNow, Dying
    <3>4. ForcePending' = ForcePending
      BY <2>1, <2>2, <3>1 DEF ForcePending
    <3> QED BY <1>1, <3>3, <3>4 DEF Shared!vars
  <2> QED BY <2>4, <2>5
<1> QED BY <1>2, <1>3

\* Of a timer's steps the removal is.
LEMMA TimerShares ==
  ASSUME Orderly', AllInv, StreamReads', NEW t \in Timers, TimerNext(t)
  PROVE  [Shared!Next]_Shared!vars
<1>1. /\ UNCHANGED <<pc, ended, client, forcer>>
      /\ Holders' = Holders /\ ForcePending' = ForcePending
  BY DEF TimerNext, TimerCancelled, TimerExpires, TimerRemovesMux, TimerRemovesSeries,
     Holders, ForcePending
<1>2. CASE TimerRemovesMux(t)
  <2>1. /\ Holders = {} /\ \A c \in Clients : client[c].at # "insert"
    BY <1>2 DEF TimerRemovesMux, AllInv, DInv, TimersLate, PreInsertQuiet, PreInsert
  <2>2. mux' = NoMux /\ fired' = fired \cup FiredBy(mux)
    BY <1>2 DEF TimerRemovesMux, RemoveMux, ReplaceMux
  <2> QED BY <1>1, <2>1, <2>2, EntryRemoved
<1>3. CASE ~TimerRemovesMux(t)
  <2>1. fired' = fired /\ (mux' = mux \/ (mux # NoMux /\ mux' # NoMux))
    <3>1. CASE TimerRemovesSeries(t)
      BY <3>1 DEF TimerRemovesSeries
    <3>2. CASE TimerCancelled(t) \/ TimerExpires(t)
      <4>1. fired' = fired /\ (mux # NoMux <=> mux' # NoMux)
        BY <3>2, EntryStays DEF AllInv
      <4> QED BY <4>1
    <3> QED BY <1>3, <3>1, <3>2 DEF TimerNext
  <2>2. UNCHANGED Shared!vars
    BY <1>1, <2>1, SharedUnseen
  <2> QED BY <2>2
<1> QED BY <1>2, <1>3

\* A forwarder's teardown is the closing of the stream, and its exit the end of it.
LEMMA ForwarderShares ==
  ASSUME Undisturbed', AllInv, StreamReads, StreamReads', NEW g \in Gens, ForwarderNext(g)
  PROVE  [Shared!Next]_Shared!vars
<1>1. /\ UNCHANGED <<client, forcer>> /\ Active(g)
      /\ \A h \in Gens : h # g => pc'[h] = pc[h]
      /\ mux' = mux \/ (mux' = NoMux /\ pc[g] = "unmux")
      /\ pc'[g] \in Running \cup Teardown \cup {"gone"}
  BY ForwarderMoves DEF AllInv
<1>2. Holders' = Holders /\ ForcePending' = ForcePending
  BY <1>1 DEF Holders, ForcePending
<1>3. mux' = mux
  <2>1. mux # NoMux => mux.gen = g /\ pc[g] \in Running
    BY <1>1 DEF AllInv, DInv, NewestOnly, RInv, EntryRuns
  <2> QED BY <1>1, <2>1 DEF Running
<1>4. CASE mux # NoMux \/ \E c \in Clients : client[c].at = "insert"
  <2>1. StreamNow' = StreamNow
    BY <1>1, <1>3, <1>4 DEF StreamReads
  <2> QED BY <1>2, <2>1 DEF Shared!vars
<1>5. CASE mux = NoMux /\ \A c \in Clients : client[c].at # "insert"
  <2>1. StreamNow = "closing"
    BY <1>1, <1>5 DEF StreamReads
  <2>2. CASE pc'[g] # "gone"
    <3>1. Active(g)'
      BY <1>1, <2>2 DEF Active
    <3>2. StreamNow' = "closing"
      BY <1>1, <1>3, <1>5, <3>1 DEF StreamReads
    <3> QED BY <1>2, <2>1, <3>2 DEF Shared!vars
  <2>3. CASE pc'[g] = "gone"
    <3>1. \A h \in Gens : ~Active(h)'
      BY <1>1, <2>3 DEF AllInv, DInv, NewestOnly, OneForwarder, Active, Running, Teardown
    <3>2. StreamNow' = "down"
      BY <1>1, <1>3, <1>5, <3>1 DEF StreamReads
    <3>3. Shared!Closed
      BY <1>2, <2>1, <3>2 DEF Shared!Closed
    <3> QED BY <3>3 DEF Shared!Next
  <2> QED BY <2>2, <2>3
<1> QED BY <1>4, <1>5

-----------------------------------------------------------------------------
(* The theorem.                                                              *)

\* However the tasks of the key interleave, until calls overlap or an upstream cuts a
\* forwarder off its consumers see one shared stream: it starts with the first of
\* them, stays up while one is attached, stops after the last has left or by force,
\* and starts again only when the one before has closed.
THEOREM SharesOneStream ==
  Spec => Shared!Init /\ [][Undisturbed' => Shared!Next]_Shared!vars
<1>1. Init => Shared!Init
  BY DEF Init, Shared!Init, Holders, ForcePending, StreamNow, Dying, Running, Teardown
<1>2. (Undisturbed => AllInv /\ StreamReads) /\ (Undisturbed => AllInv /\ StreamReads)'
        /\ [Next]_vars => [Undisturbed' => Shared!Next]_Shared!vars
  <2> SUFFICES ASSUME AllInv, AllInv', StreamReads, StreamReads', [Next]_vars, Undisturbed'
               PROVE  [Shared!Next]_Shared!vars
    <3>1. [Next]_vars /\ Undisturbed' => Undisturbed
      BY CalmLasts
    <3> QED BY <3>1
  <2>0. Orderly'
    BY CalmLasts
  <2>1. ASSUME NEW f \in Flushers, FlushSnapshot(f) \/ FlushStep(f)
        PROVE  UNCHANGED Shared!vars
    BY <2>1 DEF FlushStep, FlushSnapshot, FlushSend, FlushDropped, FlushSweep, Shared!vars,
       Holders, ForcePending, StreamNow, Dying
  <2>2. CASE UNCHANGED vars
    BY <2>2 DEF vars, Shared!vars, Holders, ForcePending, StreamNow, Dying
  <2> QED BY <2>0, <2>1, <2>2, ClientShares, ForceShares, TimerShares, ForwarderShares DEF Next
<1>3. AllInv => StreamReads
  BY StreamIs
<1> QED BY <1>1, <1>2, <1>3, RInvHolds, PTL DEF Spec

=============================================================================
