# digdigdig3 in TLA+

Models, model-checking runs and proofs for the core of the digdigdig3 workspace: the
Station (`crates/digdigdig3-station`), which shares one exchange stream among many
consumers, keeps it on disk, heals its gaps and derives charts from it, and below it
(`crates/digdigdig3/src/core`) the reconnecting WebSocket transport and the
rate-limited REST path. Line numbers refer to `crates/digdigdig3-station/src/station.rs` and
`crates/digdigdig3/src/core/websocket/transport.rs` unless a file is named.

Contents: [the system](#the-system), [the modules](#the-modules),
[the runs](#the-runs), [the proofs](#the-proofs),
[what the code does not do](#what-the-documentation-says-and-the-code-does-not-do),
[what is not modelled](#what-is-not-modelled), [the plan](#the-plan).

## The system

| Component | State it keeps | Operations | What is hard | What makes it correct |
|---|---|---|---|---|
| Station multiplexer registry (`station.rs`, `subscription.rs`) | `muxes`, `series_handles`, `exit_acks`, `flush_handles`: four concurrent maps by `SeriesKey`; a reference count and two one-shot senders per entry | `subscribe`, drop of a `SubscriptionHandle`, `force_unsubscribe_and_await`, `flush_persistence`, the grace timer, the teardown of a forwarder | each map operation is atomic and nothing spans two of them; everything is found by key, so an old task can touch a new one's entries | one forwarder per key; it runs while a handle is alive and stops afterwards; none leaks; forced teardown and flush return |
| WebSocket transport (`transport.rs`, `reconnect.rs`) | `state`, `active_subs`, a command channel, backoff counters | `connect`, `subscribe`, `unsubscribe`, `disconnect`; dial, authenticate, replay, read, write, watchdog | commands arrive in any phase; frames are lost with the connection; silent connections | the exchange ends up streaming what was asked; no command is forgotten; shutdown works; the status is true |
| Protocol shims (`protocol.rs`, `topic_registry.rs`, `base_websocket.rs`) | none | build and parse frames | - | tables, tested per exchange |
| Kline heal, ring (`gap_heal.rs`, `series/series.rs`, `bar_align.rs`) | a bounded ring per forwarder, the last emitted time | push, upsert, seed; heal after a disconnect | REST answers overlap live bars | the ring is ordered, bars are emitted once and in order |
| DiskStore (`series/store.rs`) | three buffered files per day | append, rotate, sweep, flush, read tail | a crash between blob and header, half a record, an error in the middle of a rotation | what is read back is a suffix of what was written |
| Derived streams (`derived.rs`) | per-kind folds; references to upstream multiplexers | acquire upstreams, fold, tear down | partial failure and cancellation while acquiring | upstreams live as long as the derived stream and no longer |
| Pollers (`polling.rs`) | last emitted time | poll, deduplicate, emit | as for forwarders | as for forwarders |
| Quotas (`quota.rs`) | active counter, references, a token bucket | subscribe under a cap, take a REST token | failure inside a batch | the cap bounds what is held |
| Order book tracker (`orderbook.rs`) | two price maps, the last sequence id | apply snapshot, apply delta | lost, repeated and reordered deltas | the book equals the exchange's, or a gap is reported |
| Rate limiters (`core/utils/rate_limiter.rs`) | timestamps and weights in a window, the server's last report | acquire, wait, correct | corrections that hide local requests | never more than the limit in a window |
| Event log, storage manager (`storage/`) | daily files, indexes, snapshots | append, rotate, read a range, sweep | truncated tails, rotation | reads return what was appended |
| Replay hub (`replay/`) | a broadcast channel and one task per subscription | subscribe, replay | tasks that unsubscribe does not stop | events in order, once |
| Cure (`cure/`), backfill (`backfill.rs`) | none (sequential passes) | repair stored series; page through REST history | boundaries of windows | idempotent; no gap and no duplicate |
| Hub, pools, HTTP client, caches, settings | concurrent maps | look up, replace | replaced while in use | - |

How they meet: a `Station` asks the hub for a transport, sends it `subscribe`, and
spawns a forwarder that reads the transport's broadcast stream, writes the ring
and the DiskStore and sends on the multiplexer's own broadcast channel; each
subscription handle owns a relay task per key that reads that channel. Derived
forwarders read the channels of other multiplexers and hold references to them
like any consumer. References release by key through `release_consumer`. Nobody
sends `unsubscribe` to the transport except a healing kline forwarder.

## The modules

| Module | What it is |
|---|---|
| `StationMux` | the multiplexer of one `SeriesKey`, every task that works on it |
| `SharedStream` | what the consumers of one key are promised: the abstract specification |
| `MCStationMux` | instances of `StationMux` for TLC |
| `StationMuxProofs` | theorems about `StationMux`, checked by TLAPS as all `...Proofs`: under every interleaving, until calls overlap, how far the count drifts when they do, and the safety half of `SharedStream` |
| `WsTransport` | the transport's handles and its driver task, against network and exchange |
| `WsTransportProofs` | theorems about `WsTransport`, checked by TLAPS |
| `DurableLog` | what a store of one series promises: the abstract specification |
| `DiskStore` | day files, buffered writers, rotation, retention, crashes, disk errors, tail read |
| `DiskStoreProofs` | theorems about what `DiskStore` writes and keeps |
| `DiskStoreLogProofs` | that `DiskStore` implements `DurableLog` |
| `DiskStoreReadProofs` | theorems about what is read back from `DiskStore` |
| `KlineForwarder`, `KlineForwarderProofs` | the data path of one kline stream: feed, ring, heal, log, warm start, and theorems about it |
| `DerivedBars`, `DerivedBarsProofs` | one derived stream of the seven kinds built from 1m klines, and theorems about it |
| `RestPath`, `RestPathProofs` | concurrent REST calls: weight limiter, retry loop, the exchange's own count, and theorems about them |
| `MCWsTransport`, `MCDiskStore`, `MCKlineForwarder`, `MCDerivedBars`, `MCRestPath` | their instances for TLC |

How they compose: `KlineForwarder` writes its log through `DurableLog` (`Disk!Write`,
`Disk!Crash`), and `DiskStore` is proved to implement `DurableLog`; `StationMux` has the
life cycle of the forwarders whose data path `KlineForwarder` and `DerivedBars` are, and
is checked to implement `SharedStream`; `WsTransport` is the connection that
`KlineForwarder` sees as `online`.

### StationMux

The grain is one operation on a `DashMap`, one send on a channel or one wait.
Between two of them another task may run, so every check-then-act of the code is
two actions. A guard returned by `get`/`get_mut` locks the entry's shard; what is
done under it is one action (`AcquireHit`, `Release`, `ForceTakes`).

* `mux`, `seriesHandle`, `exitAck`, `flushHandle` are the four maps at the key.
  The code's entries hold channels and rings; the model holds the number of the
  forwarder they belong to. The numbers are an observer's: no action decides by
  comparing them, except where the code compares channels (a closed flush handle).
* `pc` is the forwarder: `opening` (store, warm start), `live` (in `select!`),
  `healing` (kline only), then the teardown, one state per registry operation,
  and `gone` once the exit ack is sent.
* `fired` holds the forwarders whose `shutdown_rx` is ready. A one-shot receiver
  resolves when its sender sends *and* when it is dropped, so replacing or removing
  an entry fires too (`ReplaceMux`); so does the cancel channel of a timer.
* `timer`/`cancelled` are the grace tasks. `select!` picks at random when the sleep
  and the cancel are both ready, so `TimerExpires` has no guard on `cancelled`.
* `conf` gives the family: `ws` (ends on a disconnect), `kline` (heals), `derived`
  (ends with its upstreams), `poll` (no ring, never ends on its own).
* `ended`, `breaches` and `strays` are history: forwarders forced down or cut off; whether a call
  has begun while the key was not at rest (`"overlap"`) and whether an upstream has cut a forwarder off (`"cut"`);
  and how many handles of replaced entries the present entry has counted out.

The key is at rest for a drop, a force or a flush when no other call is under way (`Quiet`), and for a subscribe
when besides no forwarder is being shut down, no timer is past its check (`Settled`) and no handle of
a replaced multiplexer is alive (`NoStaleRefs`). Nothing in the code waits for that: `subscribe` takes `&self`, handles
drop on any thread, and derived forwarders release their upstreams from tasks of their own. With the constant
`Overlaps` TRUE a call begins whenever it likes and the first that does not find the key at rest leaves its mark in
`breaches`; with `Overlaps` FALSE there is no such call. What fails after one:

| A call begins during | Fails | Because |
|---|---|---|
| another call | `OneForwarder`, `HolderServed` | look-up, await, insert (1674, 1853, 2133) |
| a teardown | `HolderServed`, `RegistriesServeHolder`, `ForceMeansGone`, `ForceReturnsAlways` | check then remove (2679, 2685); teardown by key (3387, 3411, 3419); the ack by key (560) |
| the life of a handle of a replaced entry | `RefCountExact`, `HolderServed` | a reference knows its key only (2626) |

`mux_two_forwarders` and `mux_spurious_kill` show one of each of the first two kinds, where the documentation says
otherwise; with `Overlaps` TRUE in `MCStationMux_disciplined.cfg` TLC finds the others. The properties of `mux_disciplined` are checked with `Overlaps` FALSE; those of `mux_concurrent` hold
whatever overlaps. The theorems have no such constant: they hold of every station, the second part of
`StationMuxProofs` up to the first overlap.

### SharedStream

Attached consumers, a flag for a forced teardown, and a stream that is down, up or
closing. It starts with the first consumer, stops by itself only when nobody is
attached, and then does stop. `StationMux!Shared` maps it: attached are the clients that
hold a handle, the stream is up while `muxes` has an entry, closing while a
forwarder that was told to stop is on its way out. The safety half is proved until calls overlap or a forwarder is
cut off; TLC checks `Shared!FairSpec`, safety and liveness, as a property of `mux_disciplined`.

### WsTransport

* `pc` is the driver task: `sleep` (before the loop's top, every backoff included),
  `dial`, `auth`, `replay`, `loop`, `off`.
* `cmds` is the unbounded command channel, `writes` the channel to the write task,
  `todo` what is still to be replayed. Commands are read in `loop` only.
* `wire` and `server` are the environment: a connection is up, broken (error or
  EOF) or mute (noticed by the watchdog); `server` is what the exchange streams
  on it. A broken or mute connection takes frames and delivers none.
* `TakeCmd` changes `active_subs` first and builds the frame afterwards. For an unsubscribe that can fail
  (`MayRefuse`: always on Upbit, on Bitfinex while the ack of the subscription is pending): the driver warns and
  sends nothing.
* `wanted`, `asked` and `leftover` are history: what the accepted commands amount to, whether a
  `Shutdown` was sent, and what unsubscribes without a frame left streaming on the present connection.

Frames that carry data, pings, the lag monitor and `post_connect_frames` change
none of this and are left out. The connection is closed, in the model, when the loop is left; in
the code the last reference to it goes at the end of the backoff sleep.

### DurableLog and DiskStore

`DurableLog` is a log of two sequences, `stored` and `buffered`: points are accepted in order
and move to the disk in order, a crash keeps a prefix of what was buffered, days
expire from the front. `DiskStore!Log` maps it: stored are the whole records in the `.dat`
files of all days, one day after the other, buffered those in the writer of `.dat`.

* A record is `Parts` cells, a payload some cells of `.blob`. `datBuf` and `blobBuf` are the two
  `BufWriter`s with the rule of the standard library: what does not fit sends the buffer to the
  file, what is as large as the buffer bypasses it. `.idx` is never read and left out.
* `pc` walks through `append` (`AppendPoint`, the flush and reopening of a rotation, `WriteBlob`,
  `WriteDat`) and `flush_sync`, with one action per file operation, because each of them can
  fail (`MayFail`) and the process can die between any two (`Kill`). A write that fails or is
  cut off leaves any part of the buffer in the file.
* `day`, `datDay` and `blobDay` are what `current_day`, `self.dat` and `self.blob` refer to: they
  come apart while a rotation is half done.
* `ReadTail` is `read_tail`: newest day first, up to `MAX_TAIL_DAYS` (`OlderDays` are the older days among
  them), records counted from the end of the file (`ReadDayTail`), payloads stitched by the header's range
  (`ReadChunk`). The loop over the days is the function `back` of the number of days gone back.
* `torn` and `astray` are history: days on whose `.dat` part of a record is left, and days whose
  headers and `.blob` no longer agree. The properties that read records back except them.

### KlineForwarder

* A bar is its open time and the number of its updates. `cur`, `updates` are the exchange; `online`
  the transport; `feed` the receiver of `event_stream()`, with the rule of
  `tokio::sync::broadcast`: a full channel drops its oldest event and the receiver reads an error.
* `LoseWire` sends nothing: the driver leaves its loop and dials again. `WireError` is what is
  broadcast as an `Err`: a failed dial, or a frame that cannot be parsed.
* `pc`: `attach` (the forwarder is spawned and has not called `event_stream()`), `live`, `pull` (a heal
  waits for REST), `resub`. `Deliver` is the whole event branch: log, ring, `last_emitted_ms`,
  broadcast. `HealWith` is `run_kline_heal`.
* `HealWindow` is the end of what REST answered: `klines_recent` returns each bar once, oldest first, so
  the filter, sort and dedup of `select_heal_window` leave a suffix. `At` and `Copy` are the places of a bar in a
  ring or log and its last copy, which `rposition` finds.
* `view`, `live`, `newest` are what the consumers got. `gap` records what the code's comments
  except (a pull that fails or is off, an outage longer than `max_limit`) and the windows
  in which no receiver is attached; `unnoticed` an outage the feed did not tell of.

### DerivedBars

* `tape` is the market, as trades of one unit. A kline event is the state of the minute at a
  position of the tape (`Snapshot`), and the receiver of the upstream channel is a position `pos`.
* `Subscribe`, then `Fetch` or `NoFetch`, then `pc = "run"`: the order of
  `acquire_or_spawn_derived_body`, so that events pile up while REST is asked. `pending` are the
  synthetic trades still to be folded.
* `Minute` is the set of positions of a minute's trades; `Seed` the synthetic trades of the closed minutes one
  after the other, `Legs` of each.
* `Delta` is `KlineDeltaState::to_delta_trade`; the `Fold*` actions are `fold_trade` of each kind. Renko's
  loop is three actions (`RenkoEnter`, `RenkoBrick`, `RenkoLeave`), because whether it ends is the
  question.
* `folded` and `owed` are history: the volume handed to the fold, and the volume the exchange
  reported of the minutes the code promises to count.

### RestPath

* `Tasks` call the connector; those in `Essential` place orders. `Ask` is one turn of
  `rate_limit_wait` under both locks: pressure, `try_acquire`, `time_until_ready`. Instants are
  ages that stop at `Window`. `Younger` is what `cleanup` keeps when it takes expired entries off the front.
* `Send`, `Fail`, `Receive` are the loop of `HttpClient`; `Arrive` is the exchange, which counts what it
  accepts in its own window. A request given up by the client may still arrive (`ArriveStray`).
* `Receive` brings the header to `update_from_server` when the call succeeded, and only then; not when the
  header is missing or no number (a loss), and not after a `put` or `patch`, whose helpers return no headers:
  an essential call may be one of those. `amended` is history: tasks whose last good answer was such a one.
* `Fail` goes to the backoff or ends the call, for an error that `should_retry` refuses.

## The runs

| Run | Question | Result |
|---|---|---|
| `mux_concurrent` | two clients, a forcer, two timers, two forwarders, every interleaving; plain stream, poller with grace, persisted kline | passes, 2.1 million states |
| `mux_disciplined` | the same with a flusher, calls that find the key at rest, with fairness; kline with grace and persistence, plain poller | passes, 49 thousand states |
| `ws_reconnect` | two streams, three commands, two failures, with and without credentials, unsubscribes without a frame, dropped handles | passes, 72 thousand states |
| `disk_faults` | three days, three points, two crashes or disk errors at any step, with and without payloads | passes, 834 thousand states |
| `kline_heal` | three bars, two faults, two starts, with and without a log | passes, 389 thousand states |
| `derived_seam` | seven kinds, four trades at three prices, a channel of three events | passes, 468 thousand states |
| `rest_pace` | an order and a lighter market data call, two calls each, one loss | passes, 851 thousand states |
| `mux_two_forwarders`, `mux_spurious_kill`, `disk_payload`, `kline_reconnect`, `renko_loop` | one statement of the documentation each | violated, see below |

**mux_concurrent.** `NoOrphanForwarder`: a running forwarder that was not told to stop
has an owner that can tell it: the entry of `muxes`, the call about to insert it,
or a forced teardown holding its sender. `MuxMeansLive`: an entry is served by a
forwarder that runs, unless it was forced down or cut off. `ExitLeavesNoTrace`: a forwarder
that sent its ack is in no registry, the entry of one that was cut off excepted. `CountDrift`: the counter of an
entry plus `strays` is the number of its handles, modulo the wrap; so a count is wrong by the handles of replaced
entries and by nothing else.

**mux_disciplined.** `HolderServed`, `OneForwarder`,
`RegistriesServeHolder` (ring, ack and flush handle of a held stream are its own),
`ForceMeansGone` (when it returns, the forwarder it found has left),
`ForceReturnsAlways`, `FlushReturnsAlways`, `ImplementsSharedStream`.

**ws_reconnect.** `ExchangeAgrees`: on a working connection the exchange's
subscriptions, once the queued frames are applied to them, are `active_subs` and `leftover`.
`NothingForgotten`: `active_subs` with the queued commands applied is what the callers
asked for. `WantedIsServed`: in the end the transport is connected with exactly that and what
an unsubscribe without a frame left behind (which may stay for good), unless it was
shut down or let go of. `ShutdownStops`. `TypeOK` also says that
only subscribe and unsubscribe commands make frames (`transport.rs:91-96` recalls that a
connect used to), and that the attempt counter runs at most one ahead of the failures.

**disk_faults.** `OneDay`: payload and header of a point go to the
files of one day, the one `append` was called on, however often a rotation was begun and given up. `TailIsNewest`:
a warm start gets the newest accepted points of the days it visits, in order, each once,
all that no crash took; days that are torn or astray are excepted. `PayloadIsOwnUnlessAstray`: a record read back has its own payload, on every
day that is neither. `FlushedIsStored`: what an `Ok` of a flush confirmed is in its day's file until that day
expires, whatever fails later. `WindowOnlyGrows`: no sweep, rotation or reopening removes or
overwrites a cell of a day inside the retention window. `ImplementsDurableLog`: the refinement.

**kline_heal.** `EmittedInOrder`: what consumers get never goes back, across overflows and heals.
`NoHole`: between the first and the last bar they got, none is missing. `RingIsAhead`: what
`Station::series` shows of a bar is never older than what was sent. `LogIsAhead`: the log holds
what consumers got, at least as new, and ends with the newest bar. `EveryBarArrives` (liveness):
every bar comes, by the feed or by a heal. `NoHole` and `EveryBarArrives` except `gap` and
`unnoticed`; `kline_reconnect` shows that the second exception is needed.

**derived_seam.** `ExactAfterSeam`: seed, baseline and live deltas together fold each trade once,
over the minute roll and for a receiver that lags, unless an event older than the baseline came in
(`late`: such an event lowers the baseline, and part of the baseline's own volume, which nothing else
folds, is folded with the next one). `EachTradeOnce`: with or without such events the volume folded is
that of trades heard of, each at most once. `ChartVolume`: the volume of the bars a
consumer sees is the volume folded. `Chained`: bricks and lines connect as the kind's rule says.
`CatchesUp` (liveness): no event keeps the forwarder busy for good, with a reversal count of two.

**rest_pace.** `WaitIsExact`: as long as the limiter goes by its own entries, a refused task
sleeps exactly until its weight fits. `SoleCallerWelcome`: a caller alone on the connector that
loses nothing is never refused by the exchange, although the limiter's entries expire before the
exchange's; a caller whose last good answer was that of a `put` or `patch` has no report to go by, and can be. `EssentialServed` (liveness): an order is never dropped and gets through, whatever
reports say.

**Bounds.** Three days are the least with a rotation and an expiry, two faults the least with an
error followed by a crash; buffers of three and two cells spill, overflow and bypass within three points.
Three bars and a pull limit of two let an outage be longer than the pull; ring and channel of two
overflow. Four trades fill a minute, roll it and overrun a channel of three; three prices on boxes of
two cross one box, two boxes and none. A limit of three with weights one and two has every way to
be full. Two clients and two forwarders are the least with which one task can
act on another's entry, and a third forwarder meets the second as the second met the
first; two timers because a cancelled timer may still be asleep when the next is
armed; `Modulus` 4 so that a count below zero wraps to a value above two. When no forwarder number or
timer is left the model stops spawning: clients then stay at `wire` or `zero`, or fail. Two
failures let a reconnect fail in turn; three commands cover subscribe, unsubscribe
and subscribe again of one stream, and commands around a shutdown. The proofs do
away with the bounds for the properties they state: all the safety properties that hold.

**Fairness.** `DiskStore` is sequential and needs none. In `KlineForwarder` the driver dials again and
in the end succeeds, and a forwarder's ready branches are taken; the exchange, stops and crashes owe
nothing. In `DerivedBars` the forwarder's task runs. In `RestPath` time passes, ready tasks run, and
a request is answered or fails, which the client's timeout sees to. For the others: tasks of the runtime run: every wait that is ready proceeds (`WF` on the
rest of a call, on timers, on a forwarder's own steps). Callers owe nothing: they may never
subscribe, never drop, never force. `select!` polls its branches in random
order, so a branch that is ready again and again is taken: `SF` for the shutdown and the
flush branches, which a healing forwarder disables from time to time, and for
the send of a flush request, which waits for room. That a heal, a dial or an authentication ends is
justified by the timeouts of the REST client and the transport. In `WsTransport`
the failures are bounded by `MaxFails`; after the last of them dialing succeeds.
Dropped handles and an unreachable exchange make the driver dial for ever: the
liveness properties say what they promise in their statement.

**Deadlock** is checked for `StationMux`. For the others it is not: with the driver `off` and the handles gone,
the market quiet, the store closed for good or all calls made, nothing is left to do.

## The proofs

Every theorem holds for all values of the constants that the module's assumption admits; the assumptions
say that sizes and bounds are natural numbers, positive where the code's are.

### StationMux, every interleaving

The first part of `StationMuxProofs` proves, for every set of clients, forcers and flushers, every number of
forwarders, timers and counter width, every set of configurations and with every
overlap allowed:

* `TypeCorrect`: `Spec => []TypeOK`
* `NoOrphan`: `Spec => []NoOrphanForwarder`
* `MuxLive`: `Spec => []MuxMeansLive`
* `NoTrace`: `Spec => []ExitLeavesNoTrace`

The only assumption is `MuxAssumption`, on the constants. The proof is by the invariant

    IInv == TypeOK /\ NumbersFresh /\ SpawnPrivate /\ SendersMarked
            /\ MuxMeansLive /\ Registered

`MuxMeansLive` alone is not inductive: an entry could be inserted for a forwarder
that was already told to stop. `SpawnPrivate` excludes it: from the moment its channels
are created until its entry is inserted, a forwarder's number is known to its
subscribe call and to nobody else, so nobody can have fired it. That needs
`NumbersFresh` (a new number is in no register) and `SendersMarked` (a sender taken out of
the registry belongs to a forced teardown, which marked its forwarder as ended).
`Registered` ties each registry to the phases in which a forwarder may still be in it,
from which `ExitLeavesNoTrace` follows. The step lemmas go by what can change:
`MuxChange`, `FiredChange`, `PcChange`, `ForcerChange` and `ClientChange` each describe all the
ways a step can change one variable, and the preservation lemmas are proved from
them. `NoOrphanForwarder` is then preserved on top of `IInv` (`OwnedStep`: an owner hands its
means on or uses them).

### StationMux until calls overlap

The second part of `StationMuxProofs` proves, from the same assumption and for the same specification, what holds of
a key until the first call that begins while it is not at rest, `Orderly == "overlap" \notin breaches`:

* `Served`: `Spec => [](Orderly => HolderServed)`
* `OnlyForwarder`: `Spec => [](Orderly => OneForwarder)`
* `RegistriesFind`: `Spec => [](Orderly => RegistriesServeHolder)`
* `ForcedIsGone`: `Spec => [](Orderly => ForceMeansGone)`

by `IInv /\ NoOrphanForwarder /\ (Orderly => DInv)` (`DInvHolds`). That a call found the key at rest is seen when it
begins; what it gives to the steps in the middle has to be carried by the invariant. `OneCall`: only one
caller is inside a call. `PreInsertQuiet`: while a subscribe is on its way to `muxes.insert` there is no
entry, no handle, no timer past its check and no forwarder but the one it has spawned, so
nothing is replaced. `Counted` and `HeldIsThere` tie handles to the entry, `NewestOnly` live forwarders to it;
`TimersLate` says that a timer past its check removes what nobody uses. `ForceState` says how far a forced
teardown has come with the forwarder it found and `AckKnown` who has the ack, for `ForceMeansGone`;
`RegistriesServe` follows the entry's registrations from before its insertion. `OrderLasts`: a breach is never forgotten,
so a step after which the key is still orderly came from a state that was. The exception cannot be dropped: after
an overlap each of the four can fail (see the table above).

The third part is again about every interleaving:

* `CountDriftHolds`: `Spec => []CountDrift`
* `CountExact`: `Spec => [](strays = 0 => RefCountExact)`

`HeldApart`, that no handle has the number a subscribe is about to insert, makes the handles of an entry just
inserted one. The rest is arithmetic: a counter that wraps and a number that does not stay equal modulo
`Modulus` (`AddThenDivide`), and with fewer clients than values (`MuxAssumption`; a `usize` has more values than a process
has handles) equal modulo is equal.

The fourth part proves `SharesOneStream`:

    Spec => Shared!Init /\ [][Undisturbed' => Shared!Next]_Shared!vars

that is, initial states map to initial states and every step of every task, until a call overlaps or an upstream cuts a
forwarder off (`Undisturbed == breaches = {}`), maps to one step of `SharedStream` or leaves
`attached`, `forcing` and `stream` alone. A `ws` forwarder that ends on a disconnect ends its consumers' stream,
which the abstract specification does not allow. The strengthening `RInv` adds that
the entry's forwarder runs and was not told to stop. The liveness half of `ImplementsSharedStream` stays with TLC.

### WsTransport

`WsTransportProofs` proves, for every set of streams, every attempt limit and every number
of commands and failures, from `TransportAssumption`:

* `LinkTypeCorrect`: `Spec => []TypeOK`
* `ExchangeAgreesHolds`: `Spec => []ExchangeAgrees`
* `NothingForgottenHolds`: `Spec => []NothingForgotten`

by the invariant `LinkInv == TypeOK /\ Attempts /\ Offline /\ Replaying /\ ExchangeAgrees /\
NothingForgotten`. `ExchangeAgrees` speaks of the message loop only, so what a connection is
between its dial and that loop has to be said: it starts with nothing (`Offline`), and during
the replay what the exchange streams and what is still to be replayed make up `active_subs`
(`Replaying`). What an unsubscribe without a frame left behind is on its own (`leftover`, empty on a new connection).
`Attempts` bounds the attempt counter, for `TypeOK`. Both promises ask what
a queue of commands does to a set of streams; `OutcomeAppend` (a command added at the end
decides about its stream and no other) and `OutcomeHead` (applying the first one at once
changes nothing) are all the steps need, and are proved without induction, since
`Outcome` looks for the last command of a stream.

### DiskStore

`DiskStoreProofs` proves, for every record and buffer size, retention, number of days, points
and faults, from `StoreAssumption`:

* `OneDayHolds`: `Spec => []OneDay`
* `WindowOnlyGrowsHolds`: `Spec => WindowOnlyGrows`
* `StoreTypeCorrect`: `Spec => []TypeOK`
* `FlushedHolds`: `Spec => []FlushedIsStored`

`OneDay` is proved by `DayInv == CalendarType /\ Forward /\ HalfDone /\ Aligned /\ OneDay`. A
rotation assigns the writer of `.dat` before `.blob` is open, and both can fail in between: what
makes that harmless is `Aligned`, that a rotation given up leaves the writers on different
days only while `current_day` is past, so that the next append rotates again before it
writes. `Forward` says that a rotation goes to a later day that has begun, and `HalfDone`
which file is the new one when `.blob` is being opened. `WindowOnlyGrows` is an action property: with the types of what is
written (`FileType`), every step leaves both files alone (`NoFileStep`), sweeps days that
are out of the window (`SweepStep`), or adds a sequence at the end of one file (`DatStep`, `BlobStep`).

`FlushedIsStored` is about what a flush confirmed earlier; a step may not break it, but neither does it say
why the flush was right to confirm. `StoreInv` (types, the numbering of points, what the writers may hold in
each phase) and `Accounted` do: an accepted point that no crash took has its last cell on disk in its
day's file, or in the writer of that file, as long as its day is inside the window. A flush that returns Ok has an empty
writer, so everything accepted is on disk; an error keeps the writer's cells; a rotation flushes before it
changes files (`Buffers`); a crash puts what it takes in `lost`.

`DiskStoreLogProofs` proves the refinement:

* `StoreIsDurableLog`: `Spec => ImplementsDurableLog`

every step is one of the log's or leaves it alone. Midnights, the phases of an append and of a rotation
and everything about `.blob` are stutters; a flush, a spill and an error are a `Sync` of the whole records
that reached the file, a header that bypasses or spills the buffer an accept with a `Sync`, a sweep an
`Expire` of a prefix, a crash a loss of a suffix of what was buffered. Two facts carry it. What was buffered and is now at the end of
one day is at the end of the log, because the days after the writer's are empty (`LateInv`: a rotation goes
forward, and it opens the new file before anything is written to it). And a sweep takes a prefix of the
log, because it takes the earliest days. That part of a buffer may reach the file is no matter: the whole
records of two parts, put together, are the whole records of both (`Complete` and `FlattenSeq`
distribute over a concatenation).

`FlattenSeq` and the folds of the library are recursive. The module therefore begins with induction over the length
of a sequence that needs no operator as a parameter: a statement about `n` is the set of the `n` for which
it holds, and a non-empty set of naturals has a smallest element (`InductionTo`). The
recursive functions in the definition of `FlattenSeq` are shown to exist by the same means, and what it yields
when a sequence or an element grows follows.

`DiskStoreReadProofs` proves what a reader gets:

* `PayloadOwnHolds`: `Spec => []PayloadIsOwnUnlessAstray`
* `TailIsNewestHolds`: `Spec => []TailIsNewest`

The first is by `PayInv` (`PayInvHolds`), which speaks of `Virtual(d)`, the `.blob` of a day followed by
what its writer still holds: on a day that is not astray every header, in the file or in the writer of `.dat`, has its own
payload in its range of it (`StoredOwn`, `BufferedOwn`); so has the point between the two writes of an
append (`PointOwn`); `blob_pos` is its length (`PosIsEnd`), so that the next payload is put where
its header will say. A reader sees `.blob` only, which is a prefix, and a range within the prefix reads the same.

The second is by `TailInv` (`TailInvHolds`). `LaidOut`: what is written of a day that is not torn, file
and writer together, is a sequence of whole records (`Laid`), in the order of append, of points that were accepted on that day and
not lost. That none is missing is `Accounted`, proved with `FlushedIsStored`. `InOrder`: points are accepted in
the order of their numbers and of their days, so what is on an earlier day is older; `Window`: every day
with a file is in the retention window, where `Accounted` speaks; `Numbered`, `OfTheDay` and `LostWere` are what the steps that accept,
move and lose points need. The reading itself is then a calculation: counting chunks from the end of a
file of whole records finds the last records (`ChunksAre`), none of them is skipped, because its payload is
in bounds (`PayInv`), so the tail of a day is its newest points (`DayTail`). The newest of some points put
before the newest of later ones, with the limit that was left, are the newest of both (`TailsJoin`), which is one
step of the walk from day to day (`WalkReads`).

### KlineForwarder

`KlineForwarderProofs` proves, for every cadence and size of the heal, ring and channel capacity, number of
bars, faults and restarts, from `KlineAssumption`:

* `KlineTypeCorrect`: `Spec => []TypeOK`
* `InOrder`: `Spec => EmittedInOrder`
* `NoHoleHolds`: `Spec => []NoHole`
* `RingAhead`: `Spec => []RingIsAhead`
* `LogAhead`: `Spec => []LogIsAhead`

by `KInv` (`KInvHolds`). `RealBars`: feed, log and consumers have bars the exchange had, in states it had.
`NewestIsLast`: `last_emitted_ms` is the newest bar consumers got; `RingBehind`: the ring has none newer, so a heal
never evicts behind the back of the consumers. `FeedInOrder`: what the receiver holds is ordered and after
all that was emitted, across overflows, because errors only leave bars out. `FeedIsWhole`: up to the first error the
feed goes on from the last emitted bar without a hole, and a live feed without an error ends with the open
bar; `PullReaches`: the pull under way reaches back to the last emitted bar unless `max_limit` forbids it.
These two are what `NoHole` needs: a hole could only appear where an error is, and there a heal begins.
A heal folds `Upsert` over the answer; the intermediate rings are a table (`IsTable`), and what holds of the
first and is kept by one `Upsert` holds of the last, for there is no least length at which it fails.

### DerivedBars

`DerivedBarsProofs` proves, for every set of prices, box, reversal count (one included), threshold,
number of lines back, ring and channel capacity and length of the tape, from `DerivedAssumption`:

* `DerivedTypeCorrect`: `Spec => []TypeOK`
* `SeamHolds`: `Spec => []ExactAfterSeam`
* `PricesHold`: `Spec => []NothingInvented` (no bar shows a price that did not trade, within the grid's rounding)
* `VolumeHolds`: `Spec => [](lastId < MaxId => ChartVolume)`
* `ChainHolds`: `Spec => [](lastId < MaxId => Chained)`

`MaxId` is where the model lets open times saturate, which no run reaches; the code's are milliseconds
in an `i64`. With equal open times a bar would be upserted over another, so the last two say what they
say below that bound.

`Shape` is the common part: types (prices and bars with all their fields), and what `cur`, `anchor`, `dir` and `out`
are in each phase and kind. The rest is one strengthening per property. *Seam*: `Baseline`, that the
adapter's baseline is the kline of the newest position heard of; a delta is then the trades between it and the
event, whatever lies between (`DeltaVolume` adds up the minutes with cardinalities of sets of positions).
*Volume*: `Told`, that what is emitted is newer than the chart or replaces its last bar; so that a bar
closed is a bar seen. *Prices*: `Traded`, that bars, columns, anchor and grid line are near a trade, within
the slack of the kind. With a reversal count of one a turn may leave the grid line one box too far, and
then the loop turns for ever (`Stuck`; see `renko_loop`): it never leaves, so nothing wrong is sent, and the
theorem holds all the same. *Chain*: `Linked`, that the remembered lines are the last of the chart, and that the grid goes on
from the last brick, of the chart or of the loop. `Volume` is a fold over a sequence, treated like that of
`Upsert`, by the table of the sums of all its parts.

### RestPath

`RestPathProofs` proves, for every set of tasks, weights, limit, window and number of attempts, from
`RestAssumption`:

* `RestTypeCorrect`: `Spec => []TypeOK`
* `WaitHolds`: `Spec => []WaitIsExact`
* `SoleHolds`: `Spec => []SoleCallerWelcome`

by `PathInv == Logs /\ Numbers /\ Attempts`: the limiter keeps its entries oldest first, the counts are in their
ranges, and which attempts and answers a task in each phase can have. `WaitIsExact` is then a fact about sums:
`time_until_ready` finds the shortest front of the log that frees enough; when its last entry has expired the
weight fits, and an instant earlier that entry is alive and it does not. `SoleInv` says of a task that has the
connector to itself, and whose last good answer brought a report, what the exchange counts: before a call no more
than that report says, and nothing once it is too old to be used; on the way to the exchange it leaves room for the call. Sums are folds
over sequences; the lemmas about them choose a least counterexample.

### Only model-checked

* Liveness under fairness, in every module: the prover has no rules for `ENABLED` and fairness. With it the liveness half of `ImplementsSharedStream`.
* The statements of the documentation that do not hold: each is a run.
* That the bounds of an instance are reached, and that the system does not deadlock.

Where a model could say the same with a recursive operator of the library (a fold, a sort, `SelectSeq`)
or without it, it says it without; what is left of them is treated as described under
`KlineForwarder`, `DerivedBars` and `DiskStore`.

## What the documentation says and the code does not do

Shown by a run of its own:

1. **Two forwarders of one key** (`mux_two_forwarders`). Overlapping first subscribes
   both spawn.
2. **A payload under a foreign header** (`disk_payload`). Header and payload go through separate
   writers and `.dat` is flushed first; after a crash between the two the next payload takes the
   place of the lost one, and the old header reads it as its own. The doc of `append`
   (`series/store.rs:130-133`) only expects a header that is skipped.
3. **A short outage is not healed** (`kline_reconnect`). A lost connection is not broadcast, only a failed
   dial is. When the first dial succeeds within the silence timeout, the forwarder sees neither `Err` nor
   `None` and runs no heal, against `gap_heal.rs:7-11`; the bars that opened meanwhile are lost.
4. **Renko with one box of reversal never returns** (`renko_loop`). After a reversal of exactly one
   box the anchor goes up and down for ever, inside one call.
5. **The grace timer cuts a newcomer off** (`mux_spurious_kill`). The guard that "prevents a spurious kill"
   (2676-2678) checks (2679) and removes (2685) in two steps; a subscribe between them gets a handle whose
   forwarder is told to stop.

Met on the way, with no run of their own:

* *Registry.* A trade, ticker or book forwarder whose upstream ended keeps its entry in `muxes` while a
  consumer is attached (3401-3408): `ws_health` reports it connected and later subscribers attach to
  it.
* *Registry.* A forced teardown can wait for a forwarder nobody stopped: the entry is removed (546) before the
  ack is taken (560), both by key; a subscribe between them spawns a new forwarder, and the teardown takes that
  one's ack, against "never hangs waiting for an ack that will never come" (526). `ForceReturnsAlways` fails under
  `FairSpec` with `Overlaps` TRUE.
* *Transport.* When an unsubscribe frame cannot be built the driver warns (`transport.rs:859-861`), having forgotten
  the stream (852), and the exchange streams on; `leftover` in `WsTransport`. Upbit's shim always refuses and says that
  "the transport's reconnect-on-resub logic handles this path" (`upbit/protocol.rs:153-156`); there is none.
* *Transport.* The status stays Connected during the backoff sleep (918-919; `docs/plans/wave0-foundation.md:533-539`).
  `max_attempts` is compared where the count is zero (912, 581; `wave0-foundation.md:540`). After every
  handle is dropped the driver reconnects for ever (869-872). A failed dial is broadcast as an error
  that non-kline forwarders take for the end of their stream (492, 499).
* *Kline path.* The bar that was open at a disconnect gets its final REST value in ring and log, but is not
  sent again. Bars that open between the subscription and `event_stream()`, or between the pull and the
  new receiver, are lost unless another heal follows before the next live bar. A restart with a
  non-empty log asks REST for nothing, so the hole between its tail and the first live bar stays.
  The ring is seeded with the log's tail, where every update of a bar is a record of its own, so `Series` may
  hold a bar several times. A long silence repeats the heal, and each repetition appends the same bars again.
* *Store.* After a crash that left part of a record the file is appended to at that length, and
  the tail, counted from the end, is read at wrong offsets from then on.
* *Derived.* `fold_trade` returns one bar: of a trade that makes several bricks only the last is emitted,
  though the comment says "the remainder emit"; in the live loop bars are `push`ed (2979) where
  `derived.rs:480-482` says upserted. The volume of the trade that reverses a point-and-figure column is dropped
  and the new column overshoots by a box. A Kagi segment starts at the price of the trade that flips it.
  Events lost to lag are skipped without a repair. A kline update older than the REST baseline, waiting in the channel,
  lowers the baseline (`derived.rs:235-237`): part of the volume of the baseline kline, which is otherwise never folded, is
  then folded with the next update. For kinds built from trades the RAM seed, the REST seed
  and the receiver overlap.
* *REST.* `time_until_ready` is zero when the exchange reports more than the limiter's entries explain: the task
  then asks again without yielding, up to a window long. A heavy market data call may take the last
  tenth that `rate_limiter.rs:802` reserves for trading. Retries are not counted by the limiter, and a refused or
  failed response brings no header; neither does a `put` or `patch` (`binance/connector.rs:442-509`), so the limiter does
  not learn what an amendment weighed. `should_retry` lists 429 and 5xx (`client.rs:552-555`), but every response
  that arrives is returned at once (348, 406). A POST that timed out is sent again and may be executed twice.
* *Quotas.* `quota.rs` documents a rollback of failed batches that `subscribe` does not do, and its counter of
  active streams only grows.

## What is not modelled

* In the Station: the upstream references a derived forwarder holds, `rewarm_*`, `warmup`,
  the relay tasks and the events themselves, dropping of a subscribe future after its
  entry is inserted (derived kinds only), panics.
* In the transport: several accounts or exchanges (one driver each, no shared
  state), `active_subs` read by `active_subscriptions`.
* Exchange connectors, protocol shims, factory tables, HTTP proxy, command line and
  WASM variants of the same code: tables, pure I/O, or the same control flow.
* In the store: `.idx`, the wasm store. In the kline path: `Series::extend` and `tail`, `bar_align`.
* In the derived streams: the kinds built from trades (tick, imbalance, run, footprint, CVD, TPO), basis and
  funding settlement, `rewarm`, their log, and the references on several upstream keys.
* In the REST path: request-count, decaying and grouped limiters, URL and error mapping.
* Quotas, order book tracker, replay hub, cure, history pagers, event log, caches and settings: each is one task
  working through a sequence or a single map operation per call, so an interleaving adds nothing; what
  was noticed in them is recorded above.

Most of the workspace's 228 thousand lines are the connectors, that is endpoint tables, parsers and signing per
exchange, with no state that survives a call; the state machines they share are in `WsTransport` and `RestPath`. The map
therefore stays a small part of the whole.

## The plan

Done: `StationMux` with `SharedStream`, `WsTransport`, `DiskStore` with `DurableLog`, `KlineForwarder`, `DerivedBars`,
`RestPath`, each with proofs of its safety properties.

Every safety property that a passing run checks is also proved; what is left to TLC is liveness.

Next, models: several keys at once, with the upstream references a derived forwarder holds, partial failure and
cancellation while acquiring; transport, its channel and forwarders of several kinds in one model, for the `Err`
of a failed dial.
