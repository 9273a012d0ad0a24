--------------------------- MODULE KlineForwarder ---------------------------
(***************************************************************************)
(* The data path of one kline stream: the exchange's bars, the broadcast   *)
(* feed with its disconnects and overflows, the forwarder with its ring    *)
(* and last_emitted_ms, the REST heal, the log on disk, stops, crashes and *)
(* warm starts.  Life cycle and registries are in StationMux; the log is   *)
(* DurableLog, which DiskStore implements.  A bar is its open time, in     *)
(* intervals, and the number of updates it has seen.                       *)
(***************************************************************************)
EXTENDS Integers, Sequences, FiniteSets, SequencesExt

CONSTANTS
  Persist,       \* whether persistence is on, the cases to look at
  DefaultLimit,  \* GapHealConfig::default_limit
  MaxLimit,      \* GapHealConfig::max_limit
  Warm,          \* warm_start_capacity: ring capacity and length of a seed
  FeedCap,       \* capacity of the broadcast channel
  MaxBars,       \* bound: bars the exchange ever opens
  MaxUpdates,    \* bound: updates of one bar
  MaxFaults,     \* bound: lost connections, errors, silences, failed pulls and crashes
  MaxStarts      \* bound: forwarders started one after the other

ASSUME KlineAssumption ==
  /\ Persist \subseteq BOOLEAN
  /\ DefaultLimit \in Nat /\ MaxLimit \in Nat
  /\ Warm \in Nat \ {0} /\ FeedCap \in Nat \ {0}
  /\ MaxBars \in Nat \ {0} /\ MaxUpdates \in Nat /\ MaxFaults \in Nat /\ MaxStarts \in Nat

VARIABLES
  persist,   \* the forwarder has a DiskStore
  cur,       \* the exchange: the bar that is open ...
  updates,   \* ... and how often each bar has changed
  online,    \* the transport is connected and subscribed
  feed,      \* what the forwarder's event_stream still holds
  pc,        \* off, attach, live, pull or resub
  limit,     \* how many bars the heal under way asks for
  ring,      \* Series
  last,      \* last_emitted_ms
  stored, buffered,  \* the log on disk, see DurableLog
  view,      \* history: the copy of each bar the consumers of this forwarder hold
  live,      \* history: bars they got from the feed or a heal, not from the seed
  newest,    \* history: the last of those
  gap,       \* history: something happened that the heal cannot make good
  unnoticed, \* history: bars were lost in an outage the feed did not tell of
  starts, faults

log == <<stored, buffered>>
consumers == <<view, live, newest, gap, unnoticed>>
exchange == <<cur, updates>>
vars == <<persist, exchange, online, feed, pc, limit, ring, last, log, consumers, starts,
          faults>>

Times == 1 .. MaxBars
Bars == [ts : Times, val : 0 .. MaxUpdates]
NoBar == [ts |-> 0, val |-> 0]
None == -1
Err == [ts |-> 0, val |-> None]
Bar(t) == [ts |-> t, val |-> updates[t]]

Disk == INSTANCE DurableLog WITH Points <- Bars

Init ==
  /\ persist \in Persist
  /\ cur = 1 /\ updates = [t \in Times |-> 0]
  /\ online = TRUE /\ feed = <<>>
  /\ pc = "off" /\ limit = 0 /\ ring = <<>> /\ last = 0
  /\ Disk!LogInit
  /\ view = [t \in Times |-> None] /\ live = {} /\ newest = NoBar
  /\ gap = FALSE /\ unnoticed = FALSE
  /\ starts = 0 /\ faults = 0

MayFail == faults < MaxFaults /\ faults' = faults + 1

Largest(a, b) == IF a > b THEN a ELSE b
Least(a, b) == IF a < b THEN a ELSE b
Newest(s, n) == SubSeq(s, Largest(Len(s) - n, 0) + 1, Len(s))

\* The places of bar t in a sequence of bars, and its last copy there.
At(bars, t) == {i \in DOMAIN bars : bars[i].ts = t}
Copy(bars, t) == bars[Max(At(bars, t))]

-----------------------------------------------------------------------------
(* Series, heal_limit, select_heal_window, klines_recent.                    *)

\* Mutant: nothing is evicted.
Push_Grows(r, b) == Append(r, b)

Push(r, b) == Append(IF Len(r) = Warm THEN Tail(r) ELSE r, b)

\* Mutant: a bar that is there already is left as it is.
Upsert_Keeps(r, b) == IF At(r, b.ts) = {} THEN Push(r, b) ELSE r

Upsert(r, b) ==
  IF At(r, b.ts) = {} THEN Push(r, b) ELSE [r EXCEPT ![Max(At(r, b.ts))] = b]

\* Mutant: the pull is not sized to the gap.
HealLimit_Default(now, part) == Least(Largest(DefaultLimit, 1), Largest(MaxLimit, 1))

\* now is part of an interval into the open bar: the gap is rounded up.
HealLimit(now, part) ==
  LET base == Largest(DefaultLimit, 1)
      need == IF last = 0 \/ now + part <= last THEN base ELSE now + part - last
  IN  Least(Largest(need, base), Largest(MaxLimit, 1))

\* klines_recent has the bars in order, each once: the newer ones are its end.
HealWindow(bars) ==
  LET newer == {i \in DOMAIN bars : bars[i].ts > last}
  IN  IF newer = {} THEN <<>> ELSE SubSeq(bars, Min(newer), Len(bars))

KlinesRecent(n) ==
  LET first == Largest(cur - n, 0)
  IN  [i \in 1 .. cur - first |-> Bar(first + i)]

-----------------------------------------------------------------------------
(* The exchange and the connection.                                          *)

\* Mutant: an overflow goes unnoticed.
Broadcast_Silent(e) ==
  feed' = IF pc = "off" THEN feed
          ELSE IF Len(feed) < FeedCap THEN Append(feed, e)
          ELSE Append(Newest(feed, FeedCap - 1), e)

\* A full broadcast channel drops its oldest event; the receiver reads Lagged
\* before the rest.
Broadcast(e) ==
  feed' = IF pc = "off" THEN feed
          ELSE IF Len(feed) < FeedCap THEN Append(feed, e)
          ELSE <<Err>> \o Append(Newest(feed, FeedCap - 1), e)
Publish(b) == IF online THEN Broadcast(b) ELSE UNCHANGED feed

\* Nobody is attached that could see a bar that opens now, or the heal under way was
\* sized too early to reach back far enough with it.
Unwatched ==
  \/ pc \in {"attach", "resub"}
  \/ pc = "pull" /\ cur + 1 - last > limit

OpenBar ==
  /\ cur < MaxBars
  /\ cur' = cur + 1
  /\ Publish(Bar(cur + 1))
  /\ gap' = (gap \/ Unwatched)
  /\ UNCHANGED <<persist, updates, online, pc, limit, ring, last, log, view, live,
                 newest, unnoticed, starts, faults>>

UpdateBar ==
  /\ updates[cur] < MaxUpdates
  /\ updates' = [updates EXCEPT ![cur] = @ + 1]
  /\ Publish([ts |-> cur, val |-> updates[cur] + 1])
  /\ UNCHANGED <<persist, cur, online, pc, limit, ring, last, log, consumers, starts,
                 faults>>

\* The driver leaves its message loop without a word on the channel and dials again.
LoseWire ==
  /\ online /\ MayFail
  /\ online' = FALSE
  /\ UNCHANGED <<persist, exchange, feed, pc, limit, ring, last, log, consumers, starts>>

\* A failed dial is broadcast; so is, while connected, a frame that cannot be parsed.
WireError ==
  /\ MayFail
  /\ Broadcast(Err)
  /\ UNCHANGED <<persist, exchange, online, pc, limit, ring, last, log, consumers, starts>>

Known == {last} \cup {feed[i].ts : i \in DOMAIN feed}
Redial ==
  /\ ~online
  /\ online' = TRUE
  /\ unnoticed' = \/ unnoticed
                  \/ pc = "live" /\ Err \notin Range(feed) /\ \A t \in Known : t < cur
  /\ UNCHANGED <<persist, exchange, feed, pc, limit, ring, last, log, view, live, newest,
                 gap, starts, faults>>

-----------------------------------------------------------------------------
(* The forwarder.                                                            *)

\* A sequence of bars sent on the broadcast, in order.
EmitFresh(bars) ==
  /\ view' = [t \in Times |-> IF At(bars, t) = {} THEN view[t] ELSE Copy(bars, t).val]
  /\ live' = live \cup {bars[i].ts : i \in DOMAIN bars}
  /\ newest' = IF bars = <<>> THEN newest ELSE Last(bars)

LogBars(bars) ==
  IF persist /\ bars # <<>> THEN Disk!Write(bars, 0) ELSE UNCHANGED log

\* A new forwarder: the disk tail, else what REST answered before the spawn.
Start ==
  /\ pc = "off" /\ starts < MaxStarts
  /\ starts' = starts + 1
  /\ \E seed \in {Newest(stored, Warm),
                  IF stored = <<>> THEN KlinesRecent(Warm) ELSE Newest(stored, Warm)} :
       /\ ring' = seed
       /\ last' = Max({0} \cup {seed[i].ts : i \in DOMAIN seed})
       /\ view' = [t \in Times |-> IF At(seed, t) = {} THEN None ELSE Copy(seed, t).val]
  /\ live' = {} /\ newest' = NoBar /\ gap' = FALSE /\ unnoticed' = FALSE
  /\ feed' = <<>>
  /\ pc' = "attach"
  /\ UNCHANGED <<persist, exchange, online, limit, log, faults>>

\* Mutant: the old receiver is kept, its Err taken as read.
Attach_KeepsFeed ==
  /\ pc \in {"attach", "resub"}
  /\ pc' = "live" /\ feed' = SelectSeq(feed, LAMBDA e : e # Err)
  /\ UNCHANGED <<persist, exchange, online, limit, ring, last, log, consumers, starts, faults>>

\* ws.event_stream(), at the start and after a heal: the old receiver and what
\* it still held are dropped.
Attach ==
  /\ pc \in {"attach", "resub"}
  /\ pc' = "live" /\ feed' = <<>>
  /\ UNCHANGED <<persist, exchange, online, limit, ring, last, log, consumers, starts,
                 faults>>

Deliver ==
  /\ pc = "live" /\ feed # <<>> /\ Head(feed) # Err
  /\ LET b == Head(feed)
     IN  /\ LogBars(<<b>>)
         /\ ring' = Upsert(ring, b)
         /\ last' = Largest(last, b.ts)
         /\ EmitFresh(<<b>>)
  /\ feed' = Tail(feed)
  /\ UNCHANGED <<persist, exchange, online, pc, limit, gap, unnoticed, starts, faults>>

\* An Err item or the end of the stream; or no event for silence_timeout, on a quiet
\* stream as in an outage, again and again (bounded as a fault).
Disconnect ==
  /\ pc = "live"
  /\ \/ feed # <<>> /\ Head(feed) = Err /\ UNCHANGED faults
     \/ feed = <<>> /\ MayFail
  /\ pc' = "pull"
  /\ \E part \in {0, 1} : limit' = HealLimit(cur, part)
  /\ UNCHANGED <<persist, exchange, online, feed, ring, last, log, consumers, starts>>

\* Mutant: what the heal pulls is not written to the log.
HealWith_NoLog(bars, flushed) ==
  /\ UNCHANGED log
  /\ ring' = FoldLeft(Upsert, ring, bars)
  /\ EmitFresh(HealWindow(bars))
  /\ last' = Largest(last, IF ring' = <<>> THEN 0 ELSE Last(ring').ts)
  /\ pc' = "resub"

\* run_kline_heal with what REST answered, up to and including its flush.
HealWith(bars, flushed) ==
  /\ IF persist THEN Disk!Write(bars, IF flushed THEN Len(buffered) + Len(bars) ELSE 0)
     ELSE UNCHANGED log
  /\ ring' = FoldLeft(Upsert, ring, bars)
  /\ EmitFresh(HealWindow(bars))
  /\ last' = Largest(last, IF ring' = <<>> THEN 0 ELSE Last(ring').ts)
  /\ pc' = "resub"

Heal ==
  /\ pc = "pull"
  /\ HealWith(KlinesRecent(limit), TRUE)
  /\ gap' = (gap \/ cur - last > Largest(MaxLimit, 1))
  /\ UNCHANGED <<persist, exchange, online, feed, limit, unnoticed, starts, faults>>

\* REST fails and nothing is pulled, or the heal is not enabled at all.
NoHeal ==
  /\ pc = "pull" /\ MayFail
  /\ \E flushed \in BOOLEAN : HealWith(<<>>, flushed)
  /\ gap' = TRUE
  /\ UNCHANGED <<persist, exchange, online, feed, limit, unnoticed, starts>>

\* Shutdown with its last flush, taken between two events.
Stop ==
  /\ pc = "live"
  /\ pc' = "off" /\ feed' = <<>>
  /\ Disk!Write(<<>>, Len(buffered))
  /\ UNCHANGED <<persist, exchange, online, limit, ring, last, consumers, starts, faults>>

CrashStation ==
  /\ pc # "off" /\ MayFail
  /\ pc' = "off" /\ feed' = <<>>
  /\ \E n \in 0 .. Len(buffered) : Disk!Crash(n)
  /\ UNCHANGED <<persist, exchange, online, limit, ring, last, consumers, starts>>

Next == OpenBar \/ UpdateBar \/ LoseWire \/ WireError \/ Redial \/ Start \/ Attach \/ Deliver
        \/ Disconnect \/ Heal \/ NoHeal \/ Stop \/ CrashStation

Spec == Init /\ [][Next]_vars
Fairness == WF_vars(Redial) /\ WF_vars(Attach) /\ WF_vars(Deliver) /\ WF_vars(Disconnect)
            /\ WF_vars(Heal \/ NoHeal)
FairSpec == Spec /\ Fairness

-----------------------------------------------------------------------------
TypeOK ==
  /\ persist \in Persist
  /\ cur \in Times /\ updates \in [Times -> 0 .. MaxUpdates]
  /\ online \in BOOLEAN /\ feed \in Seq(Bars \cup {Err})
  /\ pc \in {"off", "attach", "live", "pull", "resub"}
  /\ limit \in 0 .. Largest(MaxLimit, 1)
  /\ ring \in Seq(Bars) /\ Len(ring) <= Warm
  /\ last \in 0 .. cur
  /\ stored \in Seq(Bars) /\ buffered \in Seq(Bars)
  /\ view \in [Times -> {None} \cup 0 .. MaxUpdates] /\ live \subseteq Times
  /\ newest \in Bars \cup {NoBar} /\ gap \in BOOLEAN /\ unnoticed \in BOOLEAN
  /\ starts \in 0 .. MaxStarts /\ faults \in 0 .. MaxFaults

Contiguous == \A t \in Times : live # {} /\ t > Min(live) /\ t < Max(live) => t \in live

\* What the consumers of one forwarder get from the feed and from heals never
\* goes back, across disconnects, overflows and heals: not to an earlier bar,
\* and not to an earlier state of a bar.
EmittedInOrder ==
  [][newest' # NoBar =>
       \/ newest'.ts > newest.ts
       \/ newest'.ts = newest.ts /\ newest'.val >= newest.val]_newest

\* "The forwarder upserts ALL of them and then emits only the ones strictly newer":
\* the consumers have every bar between the first and the last they got, after an
\* outage of any length up to max_limit that the forwarder was told of, if REST
\* answered and no bar that opened between sizing the pull and the end of the
\* reconnect fell through.
NoHole == gap \/ unnoticed \/ Contiguous

\* "When the underlying WS connection drops, the stream yields Err(...) or None":
\* there is no outage the feed did not tell of.
DisconnectIsHealed == gap \/ Contiguous

\* What Station::series shows of a bar is never older than what the consumers
\* were sent: the heal overwrites half-formed bars, and no late event of the
\* dead connection undoes it.
RingIsAhead ==
  pc # "off" => \A t \in live : At(ring, t) # {} => Copy(ring, t).val >= view[t]

\* Whatever the consumers got is in the log at least as new, and the log ends
\* with the newest bar, so that a warm start of any length goes on from there.
LogIsAhead ==
  persist /\ pc # "off" =>
    LET all == stored \o buffered
    IN  \A t \in live : /\ \E i \in At(all, t) : all[i].val >= view[t]
                        /\ Last(all).ts >= t

\* Every bar the exchange opens reaches the consumers in the end, by the feed or
\* by a heal, whatever the broadcast channel dropped; the exceptions are those of
\* NoHole.
EveryBarArrives ==
  \A t \in Times : (pc # "off" /\ live # {} /\ cur = t)
                     ~> (view[t] # None \/ gap \/ unnoticed \/ pc = "off" \/ live = {})
=============================================================================
