---------------------------- MODULE DerivedBars ----------------------------
(***************************************************************************)
(* The seven chart kinds that are built from 1m klines alone (range,       *)
(* volume, dollar, renko, point and figure, kagi, three line break): the   *)
(* subscription to the kline feed, the cold seed from REST, the delta-tick *)
(* adapter that joins the two, the fold of each kind, and the forwarder    *)
(* with its ring.  The exchange is a tape of trades; a kline is what the   *)
(* tape says of one minute, and the feed is a sequence of such snapshots,  *)
(* so a position on the tape stands for an event of the feed.  Prices and  *)
(* volumes are small integers for the code's f64 values.                   *)
(***************************************************************************)
EXTENDS Integers, Sequences, FiniteSets, SequencesExt

CONSTANTS
  Kinds,       \* the kinds to look at
  Prices,      \* the prices that trade
  Box,         \* range, box_size or reversal, by kind
  Reversal,    \* reversal_count
  Threshold,   \* of volume and dollar bars
  LinesBack,   \* lines_back
  Capacity,    \* of the ring
  FeedCap,     \* of the upstream broadcast channel
  MaxTape,     \* bound: trades of the exchange
  MaxId        \* bound: open times saturate here

ASSUME DerivedAssumption ==
  /\ Prices \subseteq Nat \ {0}
  /\ Box \in Nat \ {0} /\ Reversal \in Nat \ {0}
  /\ Threshold \in Nat \ {0} /\ LinesBack \in Nat \ {0}
  /\ Capacity \in Nat \ {0} /\ FeedCap \in Nat \ {0}
  /\ MaxTape \in Nat /\ MaxId \in Nat

VARIABLES
  kind,
  tape,      \* the exchange: the trades so far, each [min, price]
  pc,        \* idle, fetch, run or loop (inside the loop over renko bricks)
  seeded,    \* cold-start seeding is over
  pos,       \* the feed: the tape position of the next event to read
  pending,   \* trades still to be folded
  base,      \* KlineDeltaState
  cur,       \* the bar, column or line that is open
  lastId,    \* last_emitted_open_time
  anchor, dir, acc, lines,   \* fields of some kinds, see their folds
  out,       \* last_emitted in the renko loop
  ring,      \* the Series of the kind
  chart,     \* history: the emissions as a consumer keeps them, one per open time
  hi,        \* history: the last tape position the fold has heard of
  owed,      \* history: the volume the klines showed from the seed up to hi
  folded,    \* history: the volume of the trades handed to the fold
  late       \* history: an event was older than the seed or than one read before

builder == <<cur, lastId, anchor, dir, acc, lines, out>>
output == <<ring, chart>>
history == <<hi, owed, folded, late>>
vars == <<kind, tape, pc, seeded, pos, pending, base, builder, output, history>>

Legs == 4      \* synthetic trades of a kline; the volume of a trade on the tape
Interval == 4  \* interval_ms, in steps of a leg
NoBar == [id |-> 0, from |-> 0, to |-> 0, lo |-> 0, hi |-> 0, vol |-> 0]
NoBase == [min |-> 0, vol |-> 0, off |-> 0]
Unset == -Box       \* no price and no grid line is that low

Largest(a, b) == IF a > b THEN a ELSE b
Least(a, b) == IF a < b THEN a ELSE b
Dist(a, b) == Largest(a - b, b - a)
Add(sum, t) == sum + t.vol
Volume(s) == FoldLeft(Add, 0, s)

Init ==
  /\ kind \in Kinds
  /\ tape = <<>> /\ pc = "idle" /\ seeded = FALSE /\ pos = 0 /\ pending = <<>>
  /\ base = NoBase /\ cur = NoBar /\ lastId = 0
  /\ anchor = Unset /\ dir = 0 /\ acc = 0 /\ lines = <<>> /\ out = NoBar
  /\ ring = <<>> /\ chart = <<>>
  /\ hi = 0 /\ owed = 0 /\ folded = 0 /\ late = FALSE

-----------------------------------------------------------------------------
(* The tape, the klines it makes and the feed that carries them.             *)

\* The trades of minute m among the first n.
Minute(m, n) == {i \in 1 .. n : tape[i].min = m}

Snapshot(n) ==
  [min |-> tape[n].min, vol |-> Legs * Cardinality(Minute(tape[n].min, n)),
   price |-> tape[n].price]

\* kline_to_synthetic_trades of minute m as it stood after n trades.
SyntheticTrades(m, n) ==
  LET trades == Minute(m, n)
      prices == {tape[i].price : i \in trades}
      open == tape[Min(trades)].price
      close == tape[Max(trades)].price
      path == IF close >= open THEN <<open, Min(prices), Max(prices), close>>
              ELSE <<open, Max(prices), Min(prices), close>>
  IN  [i \in 1 .. Legs |->
         [ts |-> m * Interval + i - 1, price |-> path[i], vol |-> Cardinality(trades)]]

\* Mutant: the kline that is still forming is part of the seed.
Seed_All(n) ==
  [i \in 1 .. Legs * tape[n].min |->
     SyntheticTrades((i - 1) \div Legs + 1, n)[1 + ((i - 1) % Legs)]]

\* Those of every minute before that of trade n.
Seed(n) ==
  [i \in 1 .. Legs * (tape[n].min - 1) |->
     SyntheticTrades((i - 1) \div Legs + 1, n)[1 + ((i - 1) % Legs)]]

\* A receiver that lags loses the oldest events; the forwarder does not notice.
\* A fold looks at nothing the market does, so that trades need not come during one.
Trade ==
  /\ Len(tape) < MaxTape /\ pending = <<>>
  /\ \E p \in Prices :
       \E m \in IF tape = <<>> THEN {1} ELSE {Last(tape).min, Last(tape).min + 1} :
         tape' = Append(tape, [min |-> m, price |-> p])
  /\ pos' = IF pc = "idle" THEN pos ELSE Largest(pos, Len(tape') + 1 - FeedCap)
  /\ UNCHANGED <<kind, pc, seeded, pending, base, builder, output, history>>

-----------------------------------------------------------------------------
(* Cold start: subscribe, ask REST, spawn.                                   *)

\* up_tx.subscribe() comes before the REST call: events pile up behind it, among
\* them what the upstream's own warm start sends again.
Subscribe ==
  /\ pc = "idle"
  /\ pc' = "fetch"
  /\ pos' \in Largest(Len(tape) + 1 - FeedCap, 1) .. Len(tape) + 1
  /\ UNCHANGED <<kind, tape, seeded, pending, base, builder, output, history>>

\* Every kline but the last is history; the last, which may still be forming, is
\* the baseline of the live adapter.
Fetch ==
  /\ pc = "fetch" /\ tape # <<>>
  /\ LET n == Len(tape)
     IN  /\ pending' = Seed(n)
         /\ base' = [min |-> tape[n].min, vol |-> Snapshot(n).vol, off |-> 0]
         /\ hi' = n
  /\ owed' = Volume(pending') /\ folded' = owed'
  /\ pc' = "run"
  /\ UNCHANGED <<kind, tape, seeded, pos, builder, output, late>>

\* No warm start is asked for, or REST has nothing.
NoFetch ==
  /\ pc = "fetch"
  /\ pc' = "run"
  /\ UNCHANGED <<kind, tape, seeded, pos, pending, base, builder, output, history>>

SeedDone ==
  /\ pc = "run" /\ ~seeded /\ pending = <<>>
  /\ seeded' = TRUE
  /\ UNCHANGED <<kind, tape, pc, pos, pending, base, builder, output, history>>

-----------------------------------------------------------------------------
(* The live adapter.                                                         *)

\* Mutant: the volume of the last minute is subtracted across the roll.
Delta_KeepsBaseline(s) ==
  LET off == IF s.min > base.min THEN 0 ELSE base.off
      gain == Largest(s.vol - base.vol, 0)
      stays == [min |-> s.min, vol |-> s.vol, off |-> off]
  IN  IF base = NoBase \/ (s.min >= base.min /\ gain = 0) THEN [base |-> stays, ticks |-> <<>>]
      ELSE IF s.min < base.min THEN [base |-> base, ticks |-> <<>>]
      ELSE [base |-> [stays EXCEPT !.off = off + 1],
            ticks |-> <<[ts |-> s.min * Interval + Least(off, Interval - 1),
                         price |-> s.price, vol |-> gain]>>]

\* to_delta_trade: what a kline event has that is new, as at most one trade.
Delta(s) ==
  LET rolled == s.min > base.min
      off == IF rolled THEN 0 ELSE base.off
      gain == IF rolled THEN s.vol ELSE Largest(s.vol - base.vol, 0)
      stays == [min |-> s.min, vol |-> s.vol, off |-> off]
  IN  IF base = NoBase \/ (s.min = base.min /\ gain = 0) THEN [base |-> stays, ticks |-> <<>>]
      ELSE IF s.min < base.min THEN [base |-> base, ticks |-> <<>>]
      ELSE [base |-> [stays EXCEPT !.off = off + 1],
            ticks |-> <<[ts |-> s.min * Interval + Least(off, Interval - 1),
                         price |-> s.price, vol |-> gain]>>]

\* The trades of the minute of position n that come after position h, up to n.
Unheard(h, n) == {j \in h + 1 .. n : tape[j].min = tape[n].min}

Receive ==
  /\ pc = "run" /\ seeded /\ pending = <<>> /\ pos <= Len(tape)
  /\ base' = Delta(Snapshot(pos)).base
  /\ pending' = Delta(Snapshot(pos)).ticks
  /\ pos' = pos + 1
  /\ hi' = Largest(hi, pos)
  /\ owed' = IF base = NoBase THEN owed ELSE owed + Legs * Cardinality(Unheard(hi, pos))
  /\ folded' = folded + Volume(pending')
  /\ late' = (late \/ (pos < hi /\ tape[pos].min = base.min))
  /\ UNCHANGED <<kind, tape, pc, seeded, builder, output>>

-----------------------------------------------------------------------------
(* Emission: disk is left out (DiskStore), the ring is filled by upsert during *)
(* the cold start and by push in the live loop.                               *)

\* Mutant: the ring forgets its capacity.
Push_Grows(r, b) == Append(r, b)

Push(r, b) == Append(IF Len(r) = Capacity THEN Tail(r) ELSE r, b)
Upsert(r, b) ==
  LET same == {i \in DOMAIN r : r[i].id = b.id}
  IN  IF same = {} THEN Push(r, b) ELSE [r EXCEPT ![Max(same)] = b]

Emit(b) ==
  /\ ring' = IF seeded THEN Push(ring, b) ELSE Upsert(ring, b)
  /\ chart' = IF chart # <<>> /\ Last(chart).id = b.id
              THEN [chart EXCEPT ![Len(chart)] = b] ELSE Append(chart, b)
Emits(b, when) == IF when THEN Emit(b) ELSE UNCHANGED output

NewId(ts) == Least(Largest(ts, lastId + 1), MaxId)

Span(id, from, to, vol) ==
  [id |-> id, from |-> from, to |-> to, lo |-> Least(from, to), hi |-> Largest(from, to),
   vol |-> vol]

Floor(p) == (p \div Box) * Box

-----------------------------------------------------------------------------
(* fold_trade of each kind, with t the trade.                                *)

\* Mutant: the trade that closes a range bar is in neither bar.
NextBar_DropsCrossing(t) ==
  IF cur = NoBar THEN Span(NewId(t.ts), t.price, t.price, t.vol)
  ELSE IF kind = "range" /\ Dist(t.price, cur.from) >= Box
  THEN Span(NewId(t.ts), t.price, t.price, 0)
  ELSE [cur EXCEPT !.to = t.price, !.lo = Least(@, t.price), !.hi = Largest(@, t.price),
                   !.vol = @ + t.vol]

NextBar(t) ==
  IF cur = NoBar \/ (kind = "range" /\ Dist(t.price, cur.from) >= Box)
  THEN Span(NewId(t.ts), t.price, t.price, t.vol)
  ELSE [cur EXCEPT !.to = t.price, !.lo = Least(@, t.price), !.hi = Largest(@, t.price),
                   !.vol = @ + t.vol]

\* Range, volume and dollar bars; acc is the volume or the dollars of the bar.
FoldBar(t) ==
  /\ kind \in {"range", "volume", "dollar"}
  /\ LET worth == acc + (IF kind = "dollar" THEN t.price * t.vol ELSE t.vol)
         full == kind # "range" /\ worth >= Threshold
     IN  /\ cur' = IF full THEN NoBar ELSE NextBar(t)
         /\ acc' = IF full \/ kind = "range" THEN 0 ELSE worth
  /\ lastId' = Largest(lastId, NextBar(t).id)
  /\ Emit(NextBar(t))
  /\ UNCHANGED <<anchor, dir, lines>>

\* Point and figure: dir is 1 in an X column, -1 in an O column.
FoldColumn(t) ==
  /\ kind = "pnf"
  /\ LET ahead == dir * (t.price - cur.to)
         grown == [cur EXCEPT !.vol = @ + t.vol]
         turn == cur.to - dir * Box
         column ==
           IF cur = NoBar THEN Span(NewId(t.ts), Floor(t.price), Floor(t.price) + Box, t.vol)
           ELSE IF ahead >= Box
           THEN Span(cur.id, cur.from, cur.to + dir * Floor(ahead), grown.vol)
           ELSE IF -ahead >= Box * Reversal
           THEN Span(NewId(t.ts), turn, turn - dir * (Floor(-ahead - Box) + Box), 0)
           ELSE grown
     IN  /\ cur' = column
         /\ dir' = IF cur = NoBar THEN 1 ELSE IF column.id = cur.id THEN dir ELSE -dir
         /\ Emit(column)
  /\ lastId' = cur'.id
  /\ UNCHANGED <<anchor, acc, lines>>

\* Kagi: dir is 0 until the first swing.  Yang and yin are left out.
FoldSegment(t) ==
  /\ kind = "kagi"
  /\ LET ahead == dir * (t.price - anchor)
         swing == anchor # Unset /\ dir = 0 /\ Dist(t.price, anchor) >= Box
         turn == dir # 0 /\ -ahead >= Box
     IN  /\ anchor' = IF swing \/ turn \/ ahead > 0 \/ anchor = Unset THEN t.price
                      ELSE IF dir = 0 THEN Largest(anchor, t.price) ELSE anchor
         /\ dir' = IF swing THEN (IF t.price > anchor THEN 1 ELSE -1)
                   ELSE IF turn THEN -dir ELSE dir
         /\ Emits(IF swing THEN Span(NewId(t.ts), anchor, t.price, 0)
                  ELSE Span(NewId(t.ts), t.price, anchor, 0), swing \/ turn)
         /\ lastId' = IF swing \/ turn THEN NewId(t.ts) ELSE lastId
  /\ UNCHANGED <<cur, acc, lines>>

\* Mutant: one line too few is kept.
LastLines_Short(s) == IF Len(s) >= LinesBack THEN Tail(s) ELSE s

LastLines(s) == IF Len(s) > LinesBack THEN Tail(s) ELSE s

\* Three line break: cur is the line that forms, from its open.
FoldLine(t) ==
  /\ kind = "tlb"
  /\ LET line == Span(NewId(cur.id), cur.from, t.price, acc + t.vol)
         breaks == /\ cur # NoBar
                   /\ IF lines = <<>> THEN t.price # cur.from
                      ELSE \/ \A i \in DOMAIN lines : t.price > lines[i].hi
                           \/ \A i \in DOMAIN lines : t.price < lines[i].lo
         opens == breaks \/ cur = NoBar
     IN  /\ cur' = IF opens THEN [NoBar EXCEPT !.id = t.ts, !.from = t.price] ELSE cur
         /\ acc' = IF breaks THEN 0 ELSE acc + t.vol
         /\ lines' = IF breaks THEN LastLines(Append(lines, line)) ELSE lines
         /\ lastId' = IF breaks THEN line.id ELSE lastId
         /\ Emits(line, breaks)
  /\ UNCHANGED <<anchor, dir>>

Fold ==
  /\ pc = "run" /\ pending # <<>>
  /\ LET t == Head(pending) IN FoldBar(t) \/ FoldColumn(t) \/ FoldSegment(t) \/ FoldLine(t)
  /\ pending' = Tail(pending)
  /\ UNCHANGED <<kind, tape, pc, seeded, pos, base, out, history>>

\* Renko: the fold is a loop that makes one brick at a time and returns the last.
RenkoEnter ==
  /\ pc = "run" /\ pending # <<>> /\ kind = "renko"
  /\ pc' = "loop"
  /\ anchor' = IF anchor = Unset THEN Floor(Head(pending).price) ELSE anchor
  /\ acc' = acc + Head(pending).vol
  /\ out' = NoBar
  /\ UNCHANGED <<kind, tape, seeded, pos, pending, base, cur, lastId, dir, lines, output,
                 history>>

\* Mutant: a rising brick is made when the price reaches its foot.
BrickWay_Early(p) ==
  LET way == IF p >= anchor THEN 1 ELSE IF p <= anchor - Box THEN -1 ELSE 0
  IN  IF way # 0 /\ dir = -way /\ way * (p - anchor) < Box * Reversal THEN 0 ELSE way

\* Mutant: a reversal of one box is enough.
BrickWay_Eager(p) ==
  IF p >= anchor + Box THEN 1 ELSE IF p <= anchor - Box THEN -1 ELSE 0

\* 1, -1 or 0: the direction of the brick that price p makes, if any.
BrickWay(p) ==
  LET way == IF p >= anchor + Box THEN 1 ELSE IF p <= anchor - Box THEN -1 ELSE 0
  IN  IF way # 0 /\ dir = -way /\ way * (p - anchor) < Box * Reversal THEN 0 ELSE way

RenkoBrick ==
  /\ pc = "loop"
  /\ LET t == Head(pending)
         way == BrickWay(t.price)
         foot == anchor + (IF dir = -way THEN way * Box ELSE 0)  \* a turn leaves a gap
     IN  /\ way # 0
         /\ out' = Span(NewId(t.ts), foot, foot + way * Box, acc)
         /\ anchor' = foot + way * Box
         /\ dir' = way
  /\ acc' = 0
  /\ lastId' = out'.id
  /\ UNCHANGED <<kind, tape, pc, seeded, pos, pending, base, cur, lines, output, history>>

RenkoLeave ==
  /\ pc = "loop" /\ BrickWay(Head(pending).price) = 0
  /\ pc' = "run"
  /\ pending' = Tail(pending)
  /\ Emits(out, out # NoBar)
  /\ UNCHANGED <<kind, tape, seeded, pos, base, builder, history>>

-----------------------------------------------------------------------------
Forwarder == Fetch \/ NoFetch \/ SeedDone \/ Receive \/ Fold \/ RenkoEnter \/ RenkoBrick
             \/ RenkoLeave
Next == Trade \/ Subscribe \/ Forwarder

Spec == Init /\ [][Next]_vars
FairSpec == Spec /\ WF_vars(Forwarder)

-----------------------------------------------------------------------------
TypeOK ==
  /\ kind \in Kinds
  /\ tape \in Seq([min : Nat \ {0}, price : Prices])
  /\ pc \in {"idle", "fetch", "run", "loop"} /\ seeded \in BOOLEAN
  /\ pos \in 0 .. Len(tape) + 1
  /\ \A i \in DOMAIN pending : pending[i].ts \in Nat /\ pending[i].price \in Prices
  /\ base.off \in 0 .. MaxTape
  /\ lastId \in 0 .. MaxId
  /\ dir \in {-1, 0, 1} /\ acc \in Nat /\ Len(lines) <= LinesBack
  /\ Len(ring) <= Capacity
  /\ hi \in 0 .. Len(tape) /\ owed \in Nat /\ folded \in Nat /\ late \in BOOLEAN

\* Seed, overlap and live ticks together fold the volume the exchange reported,
\* each trade once, whatever the feed lost: a kline is cumulative, so only minutes
\* whose last events are lost or whose kline was the baseline are short, and owed
\* does not count those.  A late event of the minute in progress is the exception: it
\* lowers the baseline, and what it takes back is folded with the next event.
ExactAfterSeam == ~late => folded = owed

\* The baseline that the seed hands to the live adapter keeps the seam from being
\* counted twice, late events or not: what a late event takes off the baseline is
\* volume of the last kline, which was not part of the seed.
EachTradeOnce == folded <= Legs * hi

\* What a consumer draws hangs together, whatever the forwarder remembers: a
\* three-line-break line starts where the last one ended and closes beyond the last
\* lines_back lines; a renko brick never runs over the one before, and one that
\* turns leaves a box between.
Chained ==
  \A i \in 2 .. Len(chart) :
    LET b == chart[i]
        before == chart[i - 1]
        way(x) == IF x.to > x.from THEN 1 ELSE -1
    IN  /\ kind = "tlb" =>
             /\ b.from = before.to
             /\ LET last == {chart[j] : j \in Largest(1, i - LinesBack) .. i - 1}
                IN  (\A x \in last : b.to > x.hi) \/ (\A x \in last : b.to < x.lo)
        /\ kind = "renko" =>
             way(b) * (b.from - before.to) >= (IF way(b) = way(before) THEN 0 ELSE Box)

\* The volume a consumer sees in range, volume, dollar and three-line-break charts
\* is the volume that was folded; no bar is closed unseen.
ChartVolume ==
  kind \in {"range", "volume", "dollar", "tlb"} =>
    Volume(chart) + (IF kind = "tlb" THEN acc ELSE 0) + Volume(pending) = folded

\* No bar shows a price the market did not reach: within one box for the first
\* grid line of a renko chart and for point and figure columns, exactly else.
NothingInvented ==
  LET prices == {tape[i].price : i \in DOMAIN tape}
      slack == IF kind = "pnf" THEN Box ELSE IF kind = "renko" THEN Box - 1 ELSE 0
  IN  \A i \in DOMAIN chart : /\ chart[i].lo >= Min(prices) - slack
                              /\ chart[i].hi <= Max(prices) + slack

\* A forwarder that has subscribed ends its seed and reads all that the feed
\* holds: no event keeps it busy for good.
CatchesUp == (pc # "idle") ~> (seeded /\ pc = "run" /\ pending = <<>> /\ pos > Len(tape))

=============================================================================
