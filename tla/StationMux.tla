----------------------------- MODULE StationMux -----------------------------
(***************************************************************************)
(* The life of the multiplexer of ONE SeriesKey of the Station: the        *)
(* registries muxes, series_handles, exit_acks and flush_handles seen at   *)
(* that key, and every task that works on them: callers of subscribe and   *)
(* droppers of a SubscriptionHandle, callers of                            *)
(* force_unsubscribe_and_await, callers of flush_persistence, grace timers *)
(* and the successive forwarder tasks.                                     *)
(*                                                                         *)
(* One action is one operation on a DashMap, one send on a channel or one  *)
(* wait: between two of them any other task may run.  Forwarders are       *)
(* numbered in the order of their spawning; the code has no such number,   *)
(* its registries are keyed by SeriesKey alone.                            *)
(***************************************************************************)
EXTENDS Integers, FiniteSets

CONSTANTS
  Clients,        \* tasks that subscribe to the key and drop their handle
  Forcers,        \* tasks that call force_unsubscribe_and_await
  Flushers,       \* tasks that call flush_persistence
  NumTimers,      \* bound: grace timers alive at once
  MaxGen,         \* bound: forwarders ever spawned
  Modulus,        \* 2^w of the usize counter `consumers`
  Configs,        \* the stations considered: what runs for the key, and how
  Disconnects,    \* the upstream may fail: stream end, error, lag or silence
  Overlaps        \* calls may begin whatever else goes on at the key

\* family: the forwarder is a non-kline "ws" one, a "kline" one, a "derived" one
\* or a "poll"er; grace: unsubscribe_grace is not zero; persist: the kind is
\* persisted.
AllConfigs == [family : {"ws", "kline", "derived", "poll"},
               grace : BOOLEAN, persist : BOOLEAN]

ASSUME MuxAssumption ==
  /\ NumTimers \in Nat \ {0}
  /\ MaxGen \in Nat \ {0}
  /\ IsFiniteSet(Clients)
  /\ Modulus \in Nat /\ Cardinality(Clients) < Modulus
  /\ Configs \subseteq AllConfigs
  /\ {Disconnects, Overlaps} \subseteq BOOLEAN

Gens == 1 .. MaxGen
Timers == 1 .. NumTimers

VARIABLES
  conf,          \* the station's configuration, fixed at build()
  mux,           \* muxes[key]: the Multiplexer, or NoMux
  seriesHandle,  \* series_handles[key]: its forwarder, or 0
  exitAck,       \* exit_acks[key]: the forwarder whose ack it receives, or 0
  flushHandle,   \* flush_handles[key]: its forwarder, or 0
  gens,          \* number of forwarders created so far
  pc,            \* where each forwarder task is
  fired,         \* forwarders whose shutdown channel is sent on or dropped
  disk,          \* forwarders that hold an open DiskStore
  client,        \* each client's place in subscribe / drop, and its forwarder
  forcer,        \* each forcer's place, the shutdown sender it holds, its target
  flusher,       \* each flusher's place, and the forwarder it talks to
  box,           \* each forwarder's flush request channel, of capacity 1
  timer,         \* where each grace timer task is
  cancelled,     \* timers whose cancel channel is sent on or dropped
  ended,         \* history: forwarders forced down or cut off by the upstream
  breaches,      \* history: "overlap" if a call began while the key was not at
                 \* rest, "cut" if an upstream cut a forwarder off
  strays         \* history: handles of replaced entries that the present entry
                 \* has counted out

registries == <<mux, seriesHandle, exitAck, flushHandle>>
tasks == <<client, forcer, flusher>>
history == <<ended, breaches, strays>>
vars == <<conf, registries, gens, pc, fired, disk, tasks, box, timer, cancelled, history>>

\* muxes has no entry for the key.
NoMux == [gen |-> 0, consumers |-> 0, shutdown |-> FALSE, cancel |-> 0]

\* `gen` stands for the broadcast sender `tx`; `cancel` is the timer, or 0.
Muxes == [gen : Gens, consumers : 0 .. Modulus - 1, shutdown : BOOLEAN,
          cancel : 0 .. NumTimers]

HasSeries == conf.family # "poll"
SelfExits == conf.family \in {"ws", "derived"}

ClientStates ==
  [at : {"idle", "wire", "spawn", "ack", "insert", "held", "zero"}, gen : 0 .. MaxGen]
ForcerStates ==
  [at : {"idle", "unmux", "unseries", "fire", "ack", "await", "done"},
   holds : 0 .. MaxGen, target : 0 .. MaxGen]
FlusherStates == [at : {"idle", "send", "wait", "sweep"}, gen : 0 .. MaxGen]

Running == {"opening", "live", "healing"}
Teardown == {"unflush", "flushing", "count", "unmux", "unseries", "unack", "signal"}

Init ==
  /\ conf \in Configs
  /\ mux = NoMux
  /\ seriesHandle = 0 /\ exitAck = 0 /\ flushHandle = 0
  /\ gens = 0
  /\ pc = [g \in Gens |-> "unborn"]
  /\ fired = {} /\ disk = {} /\ cancelled = {}
  /\ ended = {} /\ breaches = {} /\ strays = 0
  /\ client = [c \in Clients |-> [at |-> "idle", gen |-> 0]]
  /\ forcer = [f \in Forcers |-> [at |-> "idle", holds |-> 0, target |-> 0]]
  /\ flusher = [f \in Flushers |-> [at |-> "idle", gen |-> 0]]
  /\ box = [g \in Gens |-> {}]
  /\ timer = [t \in Timers |-> "free"]

-----------------------------------------------------------------------------
(* Dropping a Multiplexer, or taking it apart, resolves its channels: a      *)
(* oneshot whose sender is dropped wakes its receiver as a send does.        *)

FiredBy(m) == {g \in {m.gen} : m.shutdown}
CancelledBy(m) == {m.cancel} \ {0}

\* Mutant: the displaced entry is kept somewhere, so its shutdown never fires.
ReplaceMux_Leaks(m) ==
  /\ mux' = m /\ strays' = 0
  /\ cancelled' = cancelled \cup CancelledBy(mux)
  /\ UNCHANGED fired

\* The key's entry becomes m; the senders of the one it displaces are gone.
ReplaceMux(m) ==
  /\ mux' = m /\ strays' = 0
  /\ fired' = fired \cup FiredBy(mux)
  /\ cancelled' = cancelled \cup CancelledBy(mux)

RemoveMux == ReplaceMux(NoMux)

-----------------------------------------------------------------------------
(* How calls begin.                                                          *)

\* The clients whose SubscriptionHandle is alive.
Holders == {c \in Clients : client[c].at = "held"}

\* No call is under way.
InCall(c) == client[c].at \notin {"idle", "held"}
Quiet == /\ \A c \in Clients : ~InCall(c)
         /\ \A f \in Forcers : forcer[f].at = "idle"
         /\ \A f \in Flushers : flusher[f].at = "idle"

\* No forwarder tears down or has been told to, and no handle of a replaced entry
\* is alive.
Settled == /\ \A g \in Gens : pc[g] \notin Teardown
           /\ \A g \in fired : pc[g] \notin Running
           /\ \A t \in Timers : timer[t] \notin {"remove", "series"}
NoStaleRefs == \A c \in Holders : client[c].gen = mux.gen

\* Nothing in the code makes a call wait for its turn.
Begin(orderly) ==
  /\ Overlaps \/ orderly
  /\ breaches' = IF orderly THEN breaches ELSE breaches \cup {"overlap"}
BeginCall == Begin(Quiet)
BeginSubscribe == Begin(Quiet /\ Settled /\ NoStaleRefs)

-----------------------------------------------------------------------------
(* Station::subscribe for the key: acquire_or_spawn, then the MultiplexRef.  *)

Goto(c, at) == client' = [client EXCEPT ![c].at = at]

\* Mutant: a subscriber that finds a mux is not counted.
CountUp_Forgotten(m) == [m EXCEPT !.cancel = 0]

CountUp(m) == [m EXCEPT !.consumers = (@ + 1) % Modulus, !.cancel = 0]

\* The mux is there: cancel its grace timer and count one more consumer.
AcquireHit(c) ==
  /\ client[c].at = "idle" /\ BeginSubscribe
  /\ mux # NoMux
  /\ mux' = CountUp(mux)
  /\ cancelled' = cancelled \cup CancelledBy(mux)
  /\ client' = [client EXCEPT ![c] = [at |-> "held", gen |-> mux.gen]]
  /\ UNCHANGED <<conf, seriesHandle, exitAck, flushHandle, gens, pc, fired, disk,
                 forcer, flusher, box, timer, ended, strays>>

\* No mux: nothing is reserved while the upstream subscription is awaited.
AcquireMiss(c) ==
  /\ client[c].at = "idle" /\ BeginSubscribe
  /\ mux = NoMux
  /\ Goto(c, "wire")
  /\ UNCHANGED <<conf, registries, gens, pc, fired, disk, forcer, flusher, box, timer,
                 cancelled, ended, strays>>

\* ws.subscribe (or the poll source, or the upstreams of a derived kind) and
\* the REST seed are there: the forwarder's channels are created.
WireOk(c) ==
  /\ client[c].at = "wire"
  /\ gens < MaxGen
  /\ gens' = gens + 1
  /\ client' = [client EXCEPT ![c] = [at |-> "spawn", gen |-> gens + 1]]
  /\ UNCHANGED <<conf, registries, pc, fired, disk, forcer, flusher, box, timer,
                 cancelled, history>>

\* The upstream refuses, or the caller drops the future: the entry is failed.
WireFail(c) ==
  /\ client[c].at = "wire"
  /\ Goto(c, "idle")
  /\ UNCHANGED <<conf, registries, gens, pc, fired, disk, forcer, flusher, box, timer,
                 cancelled, history>>

\* series_handles.insert; a poller registers no series.
InsertSeries(c) ==
  /\ client[c].at = "spawn"
  /\ seriesHandle' = IF HasSeries THEN client[c].gen ELSE seriesHandle
  /\ Goto(c, "ack")
  /\ UNCHANGED <<conf, mux, exitAck, flushHandle, gens, pc, fired, disk, forcer,
                 flusher, box, timer, cancelled, history>>

\* exit_acks.insert, then the forwarder task is spawned.
SpawnForwarder(c) ==
  /\ client[c].at = "ack"
  /\ exitAck' = client[c].gen
  /\ pc' = [pc EXCEPT ![client[c].gen] = "opening"]
  /\ Goto(c, "insert")
  /\ UNCHANGED <<conf, mux, seriesHandle, flushHandle, gens, fired, disk, forcer,
                 flusher, box, timer, cancelled, history>>

\* muxes.insert with consumers = 1: an entry already there is replaced, and
\* its senders are dropped.
InsertMux(c) ==
  /\ client[c].at = "insert"
  /\ ReplaceMux([gen |-> client[c].gen, consumers |-> 1 % Modulus,
                 shutdown |-> TRUE, cancel |-> 0])
  /\ Goto(c, "held")
  /\ UNCHANGED <<conf, seriesHandle, exitAck, flushHandle, gens, pc, disk, forcer,
                 flusher, box, timer, ended, breaches>>

-----------------------------------------------------------------------------
(* Dropping the handle: MultiplexRef::drop calls release_consumer.           *)

\* Mutant: the counter is a signed integer.
CountDown_Signed(m) == [m EXCEPT !.consumers = @ - 1]

CountDown(m) == [m EXCEPT !.consumers = (@ - 1) % Modulus]

\* Mutant: the count compared is the one before the call was counted out.
BecameZero_Early == mux.consumers <= 2

BecameZero == mux.consumers <= 1

\* consumers.fetch_sub under the map's guard; `prev <= 1` decides.
Release(c) ==
  /\ client[c].at = "held" /\ BeginCall
  /\ IF mux = NoMux
       THEN /\ Goto(c, "idle")
            /\ UNCHANGED <<mux, strays>>
       ELSE /\ mux' = CountDown(mux)
            /\ strays' = IF client[c].gen = mux.gen THEN strays ELSE strays + 1
            /\ Goto(c, IF BecameZero THEN "zero" ELSE "idle")
  /\ UNCHANGED <<conf, seriesHandle, exitAck, flushHandle, gens, pc, fired, disk,
                 forcer, flusher, box, timer, cancelled, ended>>

\* No grace: remove whatever entry the key has now and fire its shutdown.
ShutdownNow(c) ==
  /\ client[c].at = "zero" /\ ~conf.grace
  /\ RemoveMux
  /\ Goto(c, "idle")
  /\ UNCHANGED <<conf, seriesHandle, exitAck, flushHandle, gens, pc, disk, forcer,
                 flusher, box, timer, ended, breaches>>

\* Grace: store a cancel sender (dropping the one it replaces), start a timer.
ArmGrace(c) ==
  /\ client[c].at = "zero" /\ conf.grace
  /\ \/ /\ mux = NoMux
        /\ UNCHANGED <<mux, timer, cancelled>>
     \/ /\ mux # NoMux
        /\ \E t \in Timers :
             /\ timer[t] = "free"
             /\ timer' = [timer EXCEPT ![t] = "armed"]
             /\ mux' = [mux EXCEPT !.cancel = t]
             /\ cancelled' = cancelled \cup CancelledBy(mux)
  /\ Goto(c, "idle")
  /\ UNCHANGED <<conf, seriesHandle, exitAck, flushHandle, gens, pc, fired, disk,
                 forcer, flusher, box, history>>

-----------------------------------------------------------------------------
(* The grace timer task.                                                     *)

TimerCancelled(t) ==
  /\ timer[t] = "armed" /\ t \in cancelled
  /\ timer' = [timer EXCEPT ![t] = "free"]
  /\ cancelled' = cancelled \ {t}
  /\ UNCHANGED <<conf, registries, gens, pc, fired, disk, tasks, box, history>>

\* Mutant: no safety net, the key's entry is removed whatever it counts.
StillZero_Assumed == TRUE

StillZero == mux # NoMux /\ mux.consumers = 0

\* The sleep ends; select! may take this branch with the cancel ready too.
\* Then the safety net: go on only if the key's present entry counts zero.
\* A cancel sender left in the mux has no receiver any more.
TimerExpires(t) ==
  /\ timer[t] = "armed"
  /\ timer' = [timer EXCEPT ![t] = IF StillZero THEN "remove" ELSE "free"]
  /\ mux' = IF mux.cancel = t THEN [mux EXCEPT !.cancel = 0] ELSE mux
  /\ cancelled' = cancelled \ {t}
  /\ UNCHANGED <<conf, seriesHandle, exitAck, flushHandle, gens, pc, fired, disk, tasks,
                 box, history>>

\* Mutant: shutdown is fired and the entry left for the forwarder to remove.
TimerRemovesMux_Fires(t) ==
  /\ timer[t] = "remove"
  /\ fired' = fired \cup FiredBy(mux)
  /\ timer' = [timer EXCEPT ![t] = "series"]
  /\ UNCHANGED <<conf, registries, gens, pc, disk, tasks, box, cancelled, history>>

TimerRemovesMux(t) ==
  /\ timer[t] = "remove"
  /\ RemoveMux
  /\ timer' = [timer EXCEPT ![t] = "series"]
  /\ UNCHANGED <<conf, seriesHandle, exitAck, flushHandle, gens, pc, disk, tasks, box,
                 ended, breaches>>

TimerRemovesSeries(t) ==
  /\ timer[t] = "series"
  /\ seriesHandle' = 0
  /\ timer' = [timer EXCEPT ![t] = "free"]
  /\ UNCHANGED <<conf, mux, exitAck, flushHandle, gens, pc, fired, disk, tasks, box,
                 cancelled, history>>

-----------------------------------------------------------------------------
(* Station::force_unsubscribe_and_await.                                     *)

ForcerTo(f, at) == forcer' = [forcer EXCEPT ![f].at = at]

\* Cancel the grace timer and take the shutdown sender, under the guard.
ForceTakes(f) ==
  /\ forcer[f].at = "idle" /\ BeginCall
  /\ mux # NoMux
  /\ forcer' = [forcer EXCEPT ![f] =
                  [at |-> "unmux", target |-> mux.gen,
                   holds |-> IF mux.shutdown THEN mux.gen ELSE 0]]
  /\ mux' = [mux EXCEPT !.shutdown = FALSE, !.cancel = 0]
  /\ cancelled' = cancelled \cup CancelledBy(mux)
  /\ ended' = ended \cup {mux.gen}
  /\ UNCHANGED <<conf, seriesHandle, exitAck, flushHandle, gens, pc, fired, disk, client,
                 flusher, box, timer, strays>>

ForceRemovesMux(f) ==
  /\ forcer[f].at = "unmux"
  /\ RemoveMux
  /\ ForcerTo(f, "unseries")
  /\ UNCHANGED <<conf, seriesHandle, exitAck, flushHandle, gens, pc, disk, client,
                 flusher, box, timer, ended, breaches>>

ForceRemovesSeries(f) ==
  /\ forcer[f].at = "unseries"
  /\ seriesHandle' = 0
  /\ ForcerTo(f, "fire")
  /\ UNCHANGED <<conf, mux, exitAck, flushHandle, gens, pc, fired, disk, client, flusher,
                 box, timer, cancelled, history>>

\* Mutant: the forced teardown respects the consumers that are left.
ForceFires_IfUnused(f) ==
  /\ forcer[f].at = "fire"
  /\ fired' = fired \cup IF Holders = {} THEN {forcer[f].holds} \ {0} ELSE {}
  /\ forcer' = [forcer EXCEPT ![f].at = "ack", ![f].holds = 0]
  /\ UNCHANGED <<conf, registries, gens, pc, disk, client, flusher, box, timer,
                 cancelled, history>>

ForceFires(f) ==
  /\ forcer[f].at = "fire"
  /\ fired' = fired \cup ({forcer[f].holds} \ {0})
  /\ forcer' = [forcer EXCEPT ![f].at = "ack", ![f].holds = 0]
  /\ UNCHANGED <<conf, registries, gens, pc, disk, client, flusher, box, timer, cancelled,
                 history>>

\* Mutant: teardown is requested and not awaited.
AckToAwait_None == 0

AckToAwait == exitAck

\* exit_acks.remove: whatever ack the key has now, or none and return.
\* From here on `holds` is the forwarder whose ack is awaited.
ForceTakesAck(f) ==
  /\ forcer[f].at = "ack"
  /\ exitAck' = 0
  /\ forcer' = [forcer EXCEPT ![f].at = IF AckToAwait = 0 THEN "done" ELSE "await",
                              ![f].holds = AckToAwait]
  /\ UNCHANGED <<conf, mux, seriesHandle, flushHandle, gens, pc, fired, disk, client,
                 flusher, box, timer, cancelled, history>>

ForceAcked(f) ==
  /\ forcer[f].at = "await"
  /\ pc[forcer[f].holds] = "gone"
  /\ forcer' = [forcer EXCEPT ![f].at = "done", ![f].holds = 0]
  /\ UNCHANGED <<conf, registries, gens, pc, fired, disk, client, flusher, box, timer,
                 cancelled, history>>

\* The caller has its Ok(()) and goes on.
ForceReturns(f) ==
  /\ forcer[f].at = "done"
  /\ forcer' = [forcer EXCEPT ![f].at = "idle", ![f].target = 0]
  /\ UNCHANGED <<conf, registries, gens, pc, fired, disk, client, flusher, box, timer,
                 cancelled, history>>

-----------------------------------------------------------------------------
(* Station::flush_persistence, restricted to the key.                        *)

FlusherTo(f, at) == flusher' = [flusher EXCEPT ![f].at = at]

\* The snapshot of flush_handles.
FlushSnapshot(f) ==
  /\ flusher[f].at = "idle" /\ BeginCall
  /\ flusher' = [flusher EXCEPT ![f] =
                   [at |-> IF flushHandle = 0 THEN "sweep" ELSE "send",
                    gen |-> flushHandle]]
  /\ UNCHANGED <<conf, registries, gens, pc, fired, disk, client, forcer, box, timer,
                 cancelled, ended, strays>>

\* handle.send(ack).await: waits for room; an exited forwarder is "already gone".
FlushSend(f) ==
  /\ flusher[f].at = "send"
  /\ LET g == flusher[f].gen
     IN  \/ /\ pc[g] = "gone"
            /\ FlusherTo(f, "sweep")
            /\ UNCHANGED box
         \/ /\ pc[g] # "gone" /\ box[g] = {}
            /\ box' = [box EXCEPT ![g] = {f}]
            /\ FlusherTo(f, "wait")
  /\ UNCHANGED <<conf, registries, gens, pc, fired, disk, client, forcer, timer, cancelled,
                 history>>

\* The forwarder exited with the request unread: its ack sender is dropped.
FlushDropped(f) ==
  /\ flusher[f].at = "wait"
  /\ pc[flusher[f].gen] = "gone"
  /\ FlusherTo(f, "sweep")
  /\ UNCHANGED <<conf, registries, gens, pc, fired, disk, client, forcer, box, timer,
                 cancelled, history>>

\* Mutant: the sweep keeps the closed handles instead of the open ones.
Swept_Inverted == IF flushHandle # 0 /\ pc[flushHandle] # "gone" THEN 0 ELSE flushHandle

Swept == IF flushHandle # 0 /\ pc[flushHandle] = "gone" THEN 0 ELSE flushHandle

\* flush_handles.retain(!is_closed), then return.
FlushSweep(f) ==
  /\ flusher[f].at = "sweep"
  /\ flushHandle' = Swept
  /\ flusher' = [flusher EXCEPT ![f] = [at |-> "idle", gen |-> 0]]
  /\ UNCHANGED <<conf, mux, seriesHandle, exitAck, gens, pc, fired, disk, client, forcer,
                 box, timer, cancelled, history>>

-----------------------------------------------------------------------------
(* The forwarder task (spawn_forwarder, spawn_derived_forwarder,             *)
(* spawn_poller): open, run, tear down.  The registries are cleaned by key.  *)

FwdTo(g, at) == pc' = [pc EXCEPT ![g] = at]

\* Open the DiskStore, register the flush handle, warm-start.
OpenStore(g) ==
  /\ pc[g] = "opening"
  /\ \/ /\ conf.persist
        /\ disk' = disk \cup {g}
        /\ flushHandle' = g
     \/ UNCHANGED <<disk, flushHandle>>  \* persistence off, or the open failed
  /\ FwdTo(g, "live")
  /\ UNCHANGED <<conf, mux, seriesHandle, exitAck, gens, fired, tasks, box, timer,
                 cancelled, history>>

\* The shutdown branch of select!.
ObserveShutdown(g) ==
  /\ pc[g] = "live" /\ g \in fired
  /\ FwdTo(g, "unflush")
  /\ UNCHANGED <<conf, registries, gens, fired, disk, tasks, box, timer, cancelled,
                 history>>

\* Stream end, error, lag or silence of a kind that cannot be healed, or every
\* upstream of a derived kind closed: the forwarder leaves on its own.
ExitOnDisconnect(g) ==
  /\ pc[g] = "live" /\ SelfExits /\ Disconnects
  /\ FwdTo(g, "unflush")
  /\ ended' = ended \cup {g} /\ breaches' = breaches \cup {"cut"}
  /\ UNCHANGED <<conf, registries, gens, fired, disk, tasks, box, timer, cancelled,
                 strays>>

\* A kline forwarder heals over REST, resubscribes and re-attaches instead.
StartHeal(g) ==
  /\ pc[g] = "live" /\ conf.family = "kline" /\ Disconnects
  /\ FwdTo(g, "healing")
  /\ UNCHANGED <<conf, registries, gens, fired, disk, tasks, box, timer, cancelled,
                 history>>

EndHeal(g) ==
  /\ pc[g] = "healing"
  /\ FwdTo(g, "live")
  /\ UNCHANGED <<conf, registries, gens, fired, disk, tasks, box, timer, cancelled,
                 history>>

\* Mutant: the request is taken and never answered.
ServeFlush_Silent(g) ==
  /\ pc[g] = "live" /\ box[g] # {}
  /\ box' = [box EXCEPT ![g] = {}]
  /\ UNCHANGED <<conf, registries, gens, pc, fired, disk, tasks, timer, cancelled,
                 history>>

\* The flush-request branch of select!: flush the store, then answer.
ServeFlush(g) ==
  /\ pc[g] = "live" /\ box[g] # {}
  /\ \E f \in box[g] : FlusherTo(f, "sweep")
  /\ box' = [box EXCEPT ![g] = {}]
  /\ UNCHANGED <<conf, registries, gens, pc, fired, disk, client, forcer, timer, cancelled,
                 history>>

UnregisterFlush(g) ==
  /\ pc[g] = "unflush"
  /\ flushHandle' = IF g \in disk THEN 0 ELSE flushHandle
  /\ FwdTo(g, "flushing")
  /\ UNCHANGED <<conf, mux, seriesHandle, exitAck, gens, fired, disk, tasks, box, timer,
                 cancelled, history>>

FinalFlush(g) ==
  /\ pc[g] = "flushing"
  /\ disk' = disk \ {g}
  /\ FwdTo(g, "count")
  /\ UNCHANGED <<conf, registries, gens, fired, tasks, box, timer, cancelled, history>>

\* still_consumers: read the key's present entry, 0 if there is none.
CountConsumers(g) ==
  /\ pc[g] = "count"
  /\ FwdTo(g, IF mux.consumers = 0 THEN "unmux" ELSE "unseries")
  /\ UNCHANGED <<conf, registries, gens, fired, disk, tasks, box, timer, cancelled,
                 history>>

RemoveDeadMux(g) ==
  /\ pc[g] = "unmux"
  /\ RemoveMux
  /\ FwdTo(g, "unseries")
  /\ UNCHANGED <<conf, seriesHandle, exitAck, flushHandle, gens, disk, tasks, box, timer,
                 ended, breaches>>

UnregisterSeries(g) ==
  /\ pc[g] = "unseries"
  /\ seriesHandle' = IF HasSeries THEN 0 ELSE seriesHandle
  /\ FwdTo(g, "unack")
  /\ UNCHANGED <<conf, mux, exitAck, flushHandle, gens, fired, disk, tasks, box, timer,
                 cancelled, history>>

\* Mutant: the forwarder leaves its ack to the forcer to remove.
UnregisterAck_Skipped(g) ==
  /\ pc[g] = "unack"
  /\ FwdTo(g, "signal")
  /\ UNCHANGED <<conf, registries, gens, fired, disk, tasks, box, timer, cancelled,
                 history>>

UnregisterAck(g) ==
  /\ pc[g] = "unack"
  /\ exitAck' = 0
  /\ FwdTo(g, "signal")
  /\ UNCHANGED <<conf, mux, seriesHandle, flushHandle, gens, fired, disk, tasks, box, timer,
                 cancelled, history>>

\* exit_ack_tx.send(()); the task returns.
SignalExit(g) ==
  /\ pc[g] = "signal"
  /\ FwdTo(g, "gone")
  /\ UNCHANGED <<conf, registries, gens, fired, disk, tasks, box, timer, cancelled,
                 history>>

-----------------------------------------------------------------------------
SubscribeStep(c) ==
  WireOk(c) \/ WireFail(c) \/ InsertSeries(c) \/ SpawnForwarder(c) \/ InsertMux(c)
ReleaseStep(c) == ShutdownNow(c) \/ ArmGrace(c)
ClientNext(c) == AcquireHit(c) \/ AcquireMiss(c) \/ Release(c)
                 \/ SubscribeStep(c) \/ ReleaseStep(c)

TimerNext(t) == TimerCancelled(t) \/ TimerExpires(t) \/ TimerRemovesMux(t)
                \/ TimerRemovesSeries(t)

ForceStep(f) == ForceRemovesMux(f) \/ ForceRemovesSeries(f) \/ ForceFires(f)
                \/ ForceTakesAck(f) \/ ForceAcked(f) \/ ForceReturns(f)

FlushStep(f) == FlushSend(f) \/ FlushDropped(f) \/ FlushSweep(f)

ForwarderStep(g) ==
  OpenStore(g) \/ EndHeal(g) \/ UnregisterFlush(g) \/ FinalFlush(g)
  \/ CountConsumers(g) \/ RemoveDeadMux(g) \/ UnregisterSeries(g)
  \/ UnregisterAck(g) \/ SignalExit(g)
ForwarderNext(g) == ObserveShutdown(g) \/ ExitOnDisconnect(g) \/ StartHeal(g)
                    \/ ServeFlush(g) \/ ForwarderStep(g)

Next == \/ \E c \in Clients : ClientNext(c)
        \/ \E t \in Timers : TimerNext(t)
        \/ \E f \in Forcers : ForceTakes(f) \/ ForceStep(f)
        \/ \E f \in Flushers : FlushSnapshot(f) \/ FlushStep(f)
        \/ \E g \in Gens : ForwarderNext(g)

Spec == Init /\ [][Next]_vars

\* Tasks of the runtime run; callers are free to call, hold or never drop.
\* select! picks at random among its ready branches: strong fairness.
Fairness ==
  /\ \A c \in Clients : WF_vars(SubscribeStep(c)) /\ WF_vars(ReleaseStep(c))
  /\ \A t \in Timers : WF_vars(TimerNext(t))
  /\ \A f \in Forcers : WF_vars(ForceStep(f))
  /\ \A f \in Flushers : SF_vars(FlushSend(f)) /\ WF_vars(FlushStep(f))
  /\ \A g \in Gens : /\ WF_vars(ForwarderStep(g))
                     /\ SF_vars(ObserveShutdown(g))
                     /\ SF_vars(ServeFlush(g))
FairSpec == Spec /\ Fairness

-----------------------------------------------------------------------------
HistoryOK == breaches \subseteq {"overlap", "cut"} /\ strays \in Nat

\* The registries name generations of forwarders that exist or existed, and no
\* task leaves the steps its code has.
TypeOK ==
  /\ conf \in Configs
  /\ mux \in Muxes \cup {NoMux}
  /\ seriesHandle \in 0 .. MaxGen
  /\ exitAck \in 0 .. MaxGen
  /\ flushHandle \in 0 .. MaxGen
  /\ gens \in 0 .. MaxGen
  /\ pc \in [Gens -> Running \cup Teardown \cup {"unborn", "gone"}]
  /\ fired \subseteq Gens /\ disk \subseteq Gens /\ ended \subseteq Gens
  /\ client \in [Clients -> ClientStates]
  /\ forcer \in [Forcers -> ForcerStates]
  /\ flusher \in [Flushers -> FlusherStates]
  /\ box \in [Gens -> SUBSET Flushers]
  /\ timer \in [Timers -> {"free", "armed", "remove", "series"}]
  /\ cancelled \subseteq Timers
  /\ HistoryOK

-----------------------------------------------------------------------------
(* What holds under every interleaving of callers.                           *)

\* A running forwarder not yet told to stop has an owner who can still tell it:
\* the registry's mux, the subscribe call about to insert it, or a forcer
\* holding the sender it took.
Owned(g) ==
  \/ mux.gen = g /\ mux.shutdown
  \/ \E c \in Clients : client[c].at = "insert" /\ client[c].gen = g
  \/ \E f \in Forcers : forcer[f].at \in {"unmux", "unseries", "fire"}
                        /\ forcer[f].holds = g

\* No forwarder leaks: however subscribes, drops, timers and forced teardowns
\* interleave, replacing or removing a Multiplexer never leaves a task that
\* runs with nobody able to shut it down.
NoOrphanForwarder ==
  \A g \in Gens : pc[g] \in Running /\ g \notin fired => Owned(g)

\* "Presence in muxes == a live forwarder" (ws_health): an entry of muxes is
\* served by a forwarder that runs and has not been told to stop, unless its
\* upstream cut it off or a forced teardown is removing it.
MuxMeansLive ==
  mux # NoMux /\ mux.gen \notin ended =>
    pc[mux.gen] \in Running /\ mux.gen \notin fired

\* "Fire the exit ack LAST": once a forwarder's ack is sent none of the key's
\* registries names it, except a mux kept for the consumers of a forwarder
\* that was cut off.
ExitLeavesNoTrace ==
  \A g \in Gens : pc[g] = "gone" =>
    /\ seriesHandle # g /\ exitAck # g /\ flushHandle # g
    /\ mux.gen = g => g \in ended

\* `consumers` is off by what handles of replaced entries took from it and by nothing
\* else: each handle is counted in once on its own entry and counted out once, on
\* whatever entry the key has by then.
CountDrift ==
  mux # NoMux =>
    (mux.consumers + strays) % Modulus
      = Cardinality({c \in Holders : client[c].gen = mux.gen}) % Modulus

-----------------------------------------------------------------------------
(* What holds until the first call that begins while another call, a         *)
(* teardown or a handle of a replaced entry is there.                        *)

\* `consumers` counts exactly the handles that hold the mux.
RefCountExact ==
  mux # NoMux =>
    mux.consumers = Cardinality({c \in Holders : client[c].gen = mux.gen})

\* A handle's forwarder is not stopped under it: it runs until the last handle
\* is dropped, unless it was forced down or cut off.
HolderServed ==
  \A c \in Holders : client[c].gen \notin ended =>
    /\ mux.gen = client[c].gen
    /\ pc[client[c].gen] \in Running
    /\ client[c].gen \notin fired

\* "One multiplexer actor per SeriesKey": two forwarders of the key never run
\* at once, so a DiskStore has one writer and a consumer one source.
OneForwarder ==
  \A g, h \in Gens : pc[g] \in Running \cup Teardown /\ pc[h] \in Running \cup Teardown
                      => g = h

\* While a handle is held, Station::series finds its forwarder's ring, and
\* flush_persistence and force_unsubscribe_and_await find its forwarder.
RegistriesServeHolder ==
  \A c \in Holders : client[c].gen \notin ended =>
    /\ HasSeries => seriesHandle = client[c].gen
    /\ exitAck = client[c].gen
    /\ client[c].gen \in disk => flushHandle = client[c].gen

\* force_unsubscribe_and_await returns only when the forwarder it found has
\* actually exited.
ForceMeansGone ==
  \A f \in Forcers : forcer[f].at = "done" => pc[forcer[f].target] \in {"signal", "gone"}

\* A forced teardown always returns: "this method never hangs waiting for an
\* ack that will never come".
ForceReturnsAlways ==
  \A f \in Forcers : forcer[f].at # "idle" ~> forcer[f].at = "idle"

\* A flush always returns, whatever becomes of the forwarder it asked.
FlushReturnsAlways ==
  \A f \in Flushers : flusher[f].at # "idle" ~> flusher[f].at = "idle"

\* A forwarder that tears down, or runs and was told to.
Dying(g) == pc[g] \in Teardown \/ (pc[g] \in Running /\ g \in fired \cup ended)
ForcePending == \E f \in Forcers : forcer[f].at = "unmux"
StreamNow == IF mux # NoMux THEN "up"
             ELSE IF \E g \in Gens : Dying(g) THEN "closing" ELSE "down"

\* The whole as its callers see it: one shared stream that stops only when
\* nobody is attached, or by force, and then does stop.
Shared == INSTANCE SharedStream WITH
  attached <- Holders, forcing <- ForcePending, stream <- StreamNow

\* As long as no call overlaps and no forwarder is cut off, the registries
\* implement the shared stream.
ImplementsSharedStream == Shared!FairSpec
=============================================================================
