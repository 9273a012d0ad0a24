------------------------- MODULE DerivedBarsProofs -------------------------
(***************************************************************************)
(* Proofs about DerivedBars: types, the volume of a chart, the seam        *)
(* between seed and feed, the prices a bar may show and the chain of       *)
(* lines and bricks, for any set of prices, box, reversal, threshold,      *)
(* ring capacity, channel capacity and length of the tape.                 *)
(*                                                                         *)
(* Volume is a fold.  It is reasoned about through the table of the sums   *)
(* of all parts of a sequence (IsTable); a claim about each of them holds  *)
(* because there is no least length at which it fails (LeastNumber).       *)
(***************************************************************************)
EXTENDS DerivedBars, FiniteSetTheorems, SequenceTheorems, WellFoundedInduction, TLAPS

USE DerivedAssumption DEF DerivedAssumption

-----------------------------------------------------------------------------
(* The least of a set of numbers, on which the induction over a fold rests.  *)

NatLess == {p \in Nat \X Nat : p[1] < p[2]}

\* A set of numbers that is not empty has a least one.
LEMMA LeastNumber ==
  ASSUME NEW T \in SUBSET Nat, T # {}
  PROVE  \E x \in T : \A y \in T : x <= y
<1>1. IsWellFoundedOn(NatLess, Nat)
  <2>1. OpToRel(<, Nat) = NatLess
    BY DEF OpToRel, NatLess
  <2> QED BY <2>1, NatLessThanWellFounded, Zenon
<1>2. PICK x \in T : \A y \in T : ~ (<<y, x>> \in NatLess)
  BY <1>1, WFMin, Zenon
<1>3. ASSUME NEW y \in T PROVE x <= y
  <2>1. ~(<<y, x>> \in NatLess)
    BY <1>2
  <2>2. y \in Nat /\ x \in Nat
    OBVIOUS
  <2>3. ~(y < x)
    BY <2>1, <2>2 DEF NatLess
  <2> QED BY <2>2, <2>3
<1> QED BY <1>3

\* The minimum of a non-empty set of naturals is its least member.
LEMMA LeastIn ==
  ASSUME NEW S \in SUBSET Nat, S # {}
  PROVE  Min(S) \in S /\ \A y \in S : Min(S) <= y
<1>1. \E x \in S : \A y \in S : x <= y
  BY LeastNumber
<1> QED BY <1>1 DEF Min

\* The largest of some numbers with a bound.
LEMMA LargestIn ==
  ASSUME NEW n \in Nat, NEW S \in SUBSET (0 .. n), S # {}
  PROVE  Max(S) \in S /\ Max(S) \in 0 .. n /\ \A y \in S : Max(S) >= y
<1> DEFINE T == {u \in Nat : \A y \in S : y <= u}
<1>1. n \in T
  OBVIOUS
<1>2. PICK u \in T : \A v \in T : u <= v
  BY <1>1, LeastNumber
<1>3. u \in S
  <2> SUFFICES ASSUME u \notin S PROVE FALSE
    OBVIOUS
  <2>1. PICK y \in S : TRUE
    OBVIOUS
  <2>2. u - 1 \in Nat /\ \A z \in S : z <= u - 1
    <3>1. \A z \in S : z <= u /\ z # u /\ z \in 0 .. n
      BY <1>2
    <3> QED BY <2>1, <3>1
  <2>3. u - 1 \in T
    BY <2>2
  <2> QED BY <1>2, <2>3
<1>4. \E x \in S : \A y \in S : x >= y
  BY <1>2, <1>3
<1>5. Max(S) \in S /\ \A y \in S : Max(S) >= y
  BY <1>4 DEF Max
<1> QED BY <1>5

-----------------------------------------------------------------------------
(* Volume(s), one record after the other.                                    *)

\* The volume of some of the records, the last of them taken off first.
IsTable(g, s, n) ==
  g = [S \in SUBSET (1 .. n) |-> IF S = {} THEN 0 ELSE Add(g[S \ {Max(S)}], s[Max(S)])]

\* Such a table exists for every number of records.
LEMMA TableExists ==
  ASSUME NEW s, NEW k \in Nat
  PROVE  \A n \in 0 .. k : \E g : IsTable(g, s, n)
<1> DEFINE Has(n) == \E g : IsTable(g, s, n)
           Bad == {n \in 0 .. k : ~Has(n)}
<1> SUFFICES ASSUME Bad # {} PROVE FALSE
  OBVIOUS
<1>1. PICK n \in Bad : \A m \in Bad : n <= m
  <2>1. Bad \in SUBSET Nat
    OBVIOUS
  <2> HIDE DEF Bad
  <2> QED BY <2>1, LeastNumber
<1>2. n # 0
  <2> SUFFICES ASSUME n = 0 PROVE Has(0)
    OBVIOUS
  <2> DEFINE g == [S \in SUBSET (1 .. 0) |-> 0]
  <2>1. \A S \in SUBSET (1 .. 0) : S = {}
    OBVIOUS
  <2>2. IsTable(g, s, 0)
    BY <2>1 DEF IsTable
  <2> QED BY <2>2
<1>3. PICK h : IsTable(h, s, n - 1)
  <2>1. n - 1 \in 0 .. k /\ ~(n <= n - 1)
    BY <1>2
  <2>2. n - 1 \notin Bad
    BY <1>1, <2>1
  <2> QED BY <2>1, <2>2
<1> DEFINE g == [S \in SUBSET (1 .. n) |-> IF n \in S THEN Add(h[S \ {n}], s[n]) ELSE h[S]]
<1>4. n \in 1 .. k /\ n \in Nat
  BY <1>2
<1>5. ASSUME NEW S \in SUBSET (1 .. n)
      PROVE  g[S] = IF S = {} THEN 0 ELSE Add(g[S \ {Max(S)}], s[Max(S)])
  <2>1. CASE n \in S
    <3>1. Max(S) = n
      <4>1. S \in SUBSET (0 .. n) /\ S # {}
        BY <1>4, <2>1
      <4>2. Max(S) \in 0 .. n /\ Max(S) >= n
        BY <1>4, <2>1, <4>1, LargestIn
      <4> QED BY <1>4, <4>2
    <3>2. n \notin S \ {n} /\ S \ {n} \in SUBSET (1 .. n) /\ S \ {n} \in SUBSET (1 .. n - 1)
      BY <1>4
    <3> QED BY <2>1, <3>1, <3>2
  <2>2. CASE n \notin S
    <3>1. S \in SUBSET (1 .. n - 1)
      BY <1>4, <2>2
    <3>2. h[S] = IF S = {} THEN 0 ELSE Add(h[S \ {Max(S)}], s[Max(S)])
      BY <1>3, <3>1 DEF IsTable
    <3>3. \A x : n \notin S \ {x} /\ S \ {x} \in SUBSET (1 .. n)
      BY <2>2
    <3> QED BY <2>2, <3>2, <3>3
  <2> QED BY <2>1, <2>2
<1>6. IsTable(g, s, n)
  <2>1. g = [S \in SUBSET (1 .. n) |-> g[S]]
    OBVIOUS
  <2> HIDE DEF g
  <2> QED BY <1>5, <2>1 DEF IsTable
<1> QED BY <1>6

Table(s) == CHOOSE g : IsTable(g, s, Len(s))

\* The volume of the first m records of s.
Sum(s, m) == Table(s)[1 .. m]

\* A trade or a bar, as far as its volume goes.
Metered(X) == \A x \in X : x.vol \in Nat

\* The fold is the last of these sums, and each adds a volume to the one before.
LEMMA SumIs ==
  ASSUME NEW X, Metered(X), NEW s \in Seq(X)
  PROVE  /\ Volume(s) = Sum(s, Len(s)) /\ Sum(s, 0) = 0
         /\ \A m \in 1 .. Len(s) : Sum(s, m) = Sum(s, m - 1) + s[m].vol
<1> DEFINE g == Table(s)
           n == Len(s)
<1>1. n \in Nat /\ DOMAIN s = 1 .. n /\ n \in 0 .. n
  OBVIOUS
<1>2. \E x : IsTable(x, s, n)
  BY <1>1, TableExists
<1>3. IsTable(g, s, n)
  BY <1>2 DEF Table
<1>4. FoldLeft(Add, 0, s) = g[DOMAIN s]
  BY <1>1, Zenon DEF FoldLeft, MapThenFoldSet, Table, IsTable
<1> HIDE DEF g
<1>5. \A S \in SUBSET (1 .. n) : g[S] = IF S = {} THEN 0 ELSE Add(g[S \ {Max(S)}], s[Max(S)])
  BY <1>3 DEF IsTable
<1>6. g[1 .. 0] = 0
  <2>1. 1 .. 0 = {} /\ {} \in SUBSET (1 .. n)
    OBVIOUS
  <2>2. g[{}] = 0
    BY <1>5, <2>1
  <2> QED BY <2>1, <2>2
<1>7. ASSUME NEW m \in 1 .. n PROVE g[1 .. m] = g[1 .. m - 1] + s[m].vol
  <2>1. m \in Nat /\ 1 <= m /\ m <= n
    BY <1>1
  <2>2. 1 .. m \in SUBSET (1 .. n) /\ 1 .. m # {} /\ m \in 1 .. m /\ 1 .. m \in SUBSET (0 .. m)
    <3>1. \A i \in 1 .. m : i \in 1 .. n
      BY <1>1, <2>1
    <3>2. 1 .. m \in SUBSET (1 .. n)
      BY <3>1
    <3>3. 1 .. m \in SUBSET (0 .. m) /\ m \in 1 .. m
      BY <2>1
    <3> QED BY <3>2, <3>3
  <2>3. Max(1 .. m) \in 1 .. m /\ Max(1 .. m) >= m
    BY <2>1, <2>2, LargestIn
  <2>4. Max(1 .. m) = m /\ (1 .. m) \ {m} = 1 .. m - 1
    BY <2>1, <2>3
  <2>5. g[1 .. m] = IF 1 .. m = {} THEN 0 ELSE Add(g[(1 .. m) \ {Max(1 .. m)}], s[Max(1 .. m)])
    BY <1>5, <2>2
  <2> QED BY <2>2, <2>4, <2>5 DEF Add
<1> QED BY <1>1, <1>4, <1>6, <1>7 DEF Sum, Volume, g

\* The sums are numbers.
LEMMA SumType ==
  ASSUME NEW X, Metered(X), NEW s \in Seq(X)
  PROVE  \A m \in 0 .. Len(s) : Sum(s, m) \in Nat
<1> DEFINE Bad == {m \in 0 .. Len(s) : Sum(s, m) \notin Nat}
<1> SUFFICES ASSUME Bad # {} PROVE FALSE
  OBVIOUS
<1>1. PICK n \in Bad : \A m \in Bad : n <= m
  <2>1. Bad \in SUBSET Nat
    OBVIOUS
  <2> HIDE DEF Bad
  <2> QED BY <2>1, LeastNumber
<1>2. n # 0
  BY SumIs
<1>3. n \in 1 .. Len(s) /\ n - 1 \in 0 .. Len(s) /\ ~(n <= n - 1) /\ s[n] \in X
  BY <1>2
<1>4. Sum(s, n - 1) \in Nat
  BY <1>1, <1>3
<1>5. Sum(s, n) = Sum(s, n - 1) + s[n].vol /\ s[n].vol \in Nat
  BY <1>3, SumIs DEF Metered
<1> QED BY <1>4, <1>5

\* Sums of records with the same volumes, some of s that come after its first k, are
\* the same but for the volume of those.
LEMMA SameSum ==
  ASSUME NEW X, Metered(X), NEW s \in Seq(X), NEW q \in Seq(X), NEW n \in 0 .. Len(q),
         NEW k \in Nat, n + k <= Len(s), \A i \in 1 .. n : q[i] = s[i + k]
  PROVE  Sum(s, n + k) = Sum(s, k) + Sum(q, n)
<1> DEFINE Bad == {m \in 0 .. n : Sum(s, m + k) # Sum(s, k) + Sum(q, m)}
<1>0. /\ n \in Nat /\ k \in 0 .. Len(s) /\ Sum(s, k) \in Nat
      /\ \A m \in 1 .. Len(s) : Sum(s, m) = Sum(s, m - 1) + s[m].vol
      /\ \A m \in 1 .. Len(q) : Sum(q, m) = Sum(q, m - 1) + q[m].vol
      /\ Sum(q, 0) = 0
  BY SumIs, SumType
<1>1. SUFFICES ASSUME Bad # {} PROVE FALSE
  <2>1. n \in 0 .. n
    BY <1>0
  <2> QED BY <2>1
<1>2. PICK m \in Bad : \A j \in Bad : m <= j
  <2>1. Bad \in SUBSET Nat
    OBVIOUS
  <2> HIDE DEF Bad
  <2> QED BY <1>1, <2>1, LeastNumber
<1>3. m # 0
  BY <1>0, <1>2
<1>4. m \in 1 .. n /\ m - 1 \in 0 .. n /\ ~(m <= m - 1) /\ m \in 1 .. Len(q)
  BY <1>3
<1>5. Sum(s, (m - 1) + k) = Sum(s, k) + Sum(q, m - 1)
  BY <1>2, <1>4
<1>6. m + k \in 1 .. Len(s) /\ (m - 1) + k = m + k - 1
  BY <1>0, <1>4
<1>7. Sum(s, m + k) = Sum(s, m + k - 1) + s[m + k].vol
  BY <1>0, <1>6
<1>8. Sum(q, m) = Sum(q, m - 1) + q[m].vol /\ q[m] = s[m + k]
  BY <1>0, <1>4
<1>9. Sum(q, m - 1) \in Nat /\ q[m] \in X /\ q[m].vol \in Nat
  <2>1. m - 1 \in 0 .. Len(q) /\ m \in DOMAIN q
    BY <1>0, <1>4
  <2>2. Sum(q, m - 1) \in Nat
    BY <2>1, SumType
  <2>3. q[m] \in X
    BY <2>1
  <2> QED BY <2>2, <2>3 DEF Metered
<1>10. Sum(s, m + k) = Sum(s, k) + Sum(q, m)
  <2> HIDE DEF Bad
  <2> QED BY <1>0, <1>5, <1>6, <1>7, <1>8, <1>9
<1> QED BY <1>2, <1>10

\* What the volume of a sequence is after a change at one end.
LEMMA VolumeIs ==
  ASSUME NEW X, Metered(X), NEW s \in Seq(X), NEW x \in X
  PROVE  /\ Volume(s) \in Nat /\ Volume(<<>>) = 0 /\ Volume(<<x>>) = x.vol
         /\ Volume(Append(s, x)) = Volume(s) + x.vol
         /\ s # <<>> => Volume(s) = Head(s).vol + Volume(Tail(s))
         /\ s # <<>> => Volume([s EXCEPT ![Len(s)] = x]) = Volume(s) - Last(s).vol + x.vol
<1>0. x.vol \in Nat /\ Len(s) \in Nat
  BY DEF Metered
<1>1. \A q \in Seq(X) : /\ Volume(q) = Sum(q, Len(q)) /\ Sum(q, 0) = 0 /\ Volume(q) \in Nat
                        /\ \A m \in 1 .. Len(q) : Sum(q, m) = Sum(q, m - 1) + q[m].vol
                        /\ \A m \in 0 .. Len(q) : Sum(q, m) \in Nat
  <2> SUFFICES ASSUME NEW q \in Seq(X)
               PROVE  /\ Volume(q) = Sum(q, Len(q)) /\ Sum(q, 0) = 0 /\ Volume(q) \in Nat
                      /\ \A m \in 1 .. Len(q) : Sum(q, m) = Sum(q, m - 1) + q[m].vol
                      /\ \A m \in 0 .. Len(q) : Sum(q, m) \in Nat
    OBVIOUS
  <2>1. Len(q) \in 0 .. Len(q)
    OBVIOUS
  <2> QED BY <2>1, SumIs, SumType
<1>2. Volume(<<>>) = 0
  <2>1. <<>> \in Seq(X) /\ Len(<<>>) = 0
    OBVIOUS
  <2> QED BY <1>1, <2>1
<1>3. Volume(<<x>>) = x.vol
  <2> DEFINE q == <<x>>
  <2>1. q \in Seq(X) /\ Len(q) = 1 /\ q[1] = x /\ 1 \in 1 .. 1 /\ 1 - 1 = 0
    OBVIOUS
  <2> HIDE DEF q
  <2>2. Sum(q, 1) = Sum(q, 0) + x.vol
    BY <1>1, <2>1
  <2>3. Volume(q) = Sum(q, 1) /\ Sum(q, 0) = 0
    BY <1>1, <2>1
  <2>4. Volume(q) = x.vol
    BY <1>0, <2>2, <2>3
  <2> QED BY <2>4 DEF q
<1>4. Volume(Append(s, x)) = Volume(s) + x.vol
  <2> DEFINE q == Append(s, x)
             n == Len(s)
  <2>1. /\ q \in Seq(X) /\ Len(q) = n + 1 /\ q[n + 1] = x /\ \A i \in 1 .. n : s[i] = q[i + 0]
        /\ n \in 0 .. Len(s) /\ n \in Nat /\ n + 0 <= n + 1
    OBVIOUS
  <2> HIDE DEF q, n
  <2>2. Sum(q, n + 0) = Sum(q, 0) + Sum(s, n)
    <3>1. n \in 0 .. Len(s) /\ 0 \in Nat /\ n + 0 <= Len(q)
      BY <2>1
    <3> QED BY <2>1, <3>1, SameSum
  <2>3. n + 1 \in 1 .. Len(q) /\ (n + 1) - 1 = n /\ n + 0 = n
    BY <2>1
  <2>4. Sum(q, n + 1) = Sum(q, n) + x.vol
    BY <1>1, <2>1, <2>3
  <2>5. Sum(q, 0) = 0 /\ Sum(s, n) = Volume(s) /\ Volume(s) \in Nat /\ Volume(q) = Sum(q, n + 1)
    BY <1>1, <2>1 DEF n
  <2>6. Volume(q) = Volume(s) + x.vol
    BY <1>0, <2>2, <2>3, <2>4, <2>5
  <2> QED BY <2>6 DEF q
<1>5. ASSUME s # <<>> PROVE Volume(s) = Head(s).vol + Volume(Tail(s))
  <2> DEFINE q == Tail(s)
             n == Len(s) - 1
  <2>1. /\ q \in Seq(X) /\ Len(q) = n /\ \A i \in 1 .. n : q[i] = s[i + 1]
        /\ n \in 0 .. Len(q) /\ n + 1 = Len(s) /\ n \in Nat /\ Head(s) = s[1] /\ 1 \in 1 .. Len(s)
    BY <1>5
  <2> HIDE DEF q, n
  <2>2. Sum(s, n + 1) = Sum(s, 1) + Sum(q, n)
    BY <2>1, SameSum
  <2>3. Sum(s, 1) = Sum(s, 1 - 1) + s[1].vol /\ 1 - 1 = 0 /\ Sum(s, 0) = 0 /\ s[1] \in X
    BY <1>1, <2>1
  <2>4. s[1].vol \in Nat
    BY <2>3 DEF Metered
  <2>5. Volume(s) = Head(s).vol + Volume(q)
    BY <1>1, <2>1, <2>2, <2>3, <2>4
  <2> QED BY <2>5 DEF q
<1>6. ASSUME s # <<>>
      PROVE  Volume([s EXCEPT ![Len(s)] = x]) = Volume(s) - Last(s).vol + x.vol
  <2> DEFINE q == [s EXCEPT ![Len(s)] = x]
             n == Len(s) - 1
  <2>1. /\ q \in Seq(X) /\ Len(q) = n + 1 /\ q[n + 1] = x /\ \A i \in 1 .. n : s[i] = q[i + 0]
        /\ n \in 0 .. Len(s) /\ n \in Nat /\ n + 1 = Len(s) /\ n + 1 \in 1 .. Len(s)
        /\ Last(s) = s[n + 1] /\ s[n + 1] \in X
    BY <1>6 DEF Last
  <2> HIDE DEF q, n
  <2>2. Sum(q, n + 0) = Sum(q, 0) + Sum(s, n)
    BY <2>1, SameSum
  <2>3. (n + 1) - 1 = n /\ n + 0 = n
    BY <2>1
  <2>4. Sum(q, n + 1) = Sum(q, n) + x.vol /\ Sum(s, n + 1) = Sum(s, n) + s[n + 1].vol
    BY <1>1, <2>1, <2>3
  <2>5. Sum(q, 0) = 0 /\ Sum(s, n) \in Nat /\ s[n + 1].vol \in Nat
        /\ Volume(s) = Sum(s, n + 1) /\ Volume(q) = Sum(q, n + 1)
    BY <1>1, <2>1 DEF Metered
  <2>6. Volume(q) = Volume(s) - Last(s).vol + x.vol
    BY <1>0, <2>1, <2>2, <2>3, <2>4, <2>5
  <2> QED BY <2>6 DEF q
<1> QED BY <1>1, <1>2, <1>3, <1>4, <1>5, <1>6

\* A record more ...
LEMMA VolumeOfAppend ==
  ASSUME NEW X, Metered(X), NEW s \in Seq(X), NEW x \in X
  PROVE  Volume(Append(s, x)) = Volume(s) + x.vol
BY VolumeIs, ZenonT(40)

\* ... or another in the place of the last one.
LEMMA VolumeOfChange ==
  ASSUME NEW X, Metered(X), NEW s \in Seq(X), NEW x \in X
  PROVE  s # <<>> => Volume([s EXCEPT ![Len(s)] = x]) = Volume(s) - Last(s).vol + x.vol
BY VolumeIs, ZenonT(40)

-----------------------------------------------------------------------------
(* What the operators of the module give.                                    *)

BarType == [id : Nat, from : Int, to : Int, lo : Int, hi : Int, vol : Nat]
TradeType == [ts : Nat, price : Prices, vol : Nat]
BaseType == [min : Nat, vol : Nat, off : Nat]

\* The grid line below a price.
LEMMA FloorIs ==
  ASSUME NEW p \in Int
  PROVE  Floor(p) \in Int /\ Floor(p) <= p /\ p < Floor(p) + Box
<1> DEFINE q == p \div Box
<1>1. Box \in Int /\ Box > 0
  OBVIOUS
<1>2. q \in Int /\ q * Box <= p /\ p < q * Box + Box
  BY <1>1
<1> QED BY <1>2 DEF Floor

\* A reversal takes one box at least, and one of less than two is one of one.
LEMMA ReversalIs ==
  /\ Box * Reversal \in Nat /\ Box * Reversal >= Box
  /\ Reversal # 1 => Box * Reversal >= 2 * Box
  /\ Reversal = 1 => Box * Reversal = Box
<1>1. Box \in Int /\ Box > 0 /\ Reversal \in Int /\ Reversal > 0
  OBVIOUS
<1>2. Box * Reversal \in Int /\ Box * Reversal >= Box
  BY <1>1
<1>3. Reversal # 1 => Box * Reversal >= 2 * Box
  BY <1>1
<1> QED BY <1>1, <1>2, <1>3

\* A bar between two prices.
LEMMA SpanIs ==
  ASSUME NEW id \in Nat, NEW from \in Int, NEW to \in Int, NEW vol \in Nat
  PROVE  /\ Span(id, from, to, vol) \in BarType
         /\ Span(id, from, to, vol).id = id /\ Span(id, from, to, vol).vol = vol
         /\ Span(id, from, to, vol).from = from /\ Span(id, from, to, vol).to = to
         /\ Span(id, from, to, vol).lo = Least(from, to)
         /\ Span(id, from, to, vol).hi = Largest(from, to)
BY DEF Span, BarType, Least, Largest

\* An open time is later than the one before, as long as there is room.
LEMMA NewIdIs ==
  ASSUME lastId \in 0 .. MaxId, NEW ts \in Nat
  PROVE  /\ NewId(ts) \in 0 .. MaxId /\ NewId(ts) \in Nat
         /\ NewId(ts) >= lastId
         /\ NewId(ts) < MaxId => NewId(ts) > lastId
BY DEF NewId, Least, Largest

\* One more bar in a ring.
LEMMA PushIs ==
  ASSUME NEW r \in Seq(BarType), Len(r) <= Capacity, NEW b \in BarType
  PROVE  Push(r, b) \in Seq(BarType) /\ Len(Push(r, b)) <= Capacity
<1>1. CASE Len(r) = Capacity
  <2>1. Tail(r) \in Seq(BarType) /\ Len(Tail(r)) = Len(r) - 1
    BY <1>1
  <2> QED BY <1>1, <2>1 DEF Push
<1>2. CASE Len(r) # Capacity
  BY <1>2 DEF Push
<1> QED BY <1>1, <1>2

\* One bar sent.
LEMMA EmitIs ==
  ASSUME NEW b \in BarType, Emit(b), ring \in Seq(BarType), Len(ring) <= Capacity,
         chart \in Seq(BarType)
  PROVE  /\ ring' \in Seq(BarType) /\ Len(ring') <= Capacity /\ chart' \in Seq(BarType)
         /\ \/ /\ chart # <<>> /\ Last(chart).id = b.id
               /\ chart' = [chart EXCEPT ![Len(chart)] = b]
            \/ /\ ~(chart # <<>> /\ Last(chart).id = b.id)
               /\ chart' = Append(chart, b)
<1>1. ring' \in Seq(BarType) /\ Len(ring') <= Capacity
  <2>1. CASE seeded
    BY <2>1, PushIs DEF Emit
  <2>2. CASE ~seeded
    <3> DEFINE same == {i \in DOMAIN ring : ring[i].id = b.id}
    <3>1. CASE same = {}
      BY <2>2, <3>1, PushIs DEF Emit, Upsert
    <3>2. CASE same # {}
      <4>1. ring' = [ring EXCEPT ![Max(same)] = b]
        BY <2>2, <3>2 DEF Emit, Upsert
      <4>2. same \in SUBSET (0 .. Len(ring)) /\ Len(ring) \in Nat
        OBVIOUS
      <4> HIDE DEF same
      <4>3. Max(same) \in same
        BY <3>2, <4>2, LargestIn
      <4>4. Max(same) \in DOMAIN ring
        BY <4>3 DEF same
      <4> QED BY <4>1, <4>4
    <3> QED BY <3>1, <3>2
  <2> QED BY <2>1, <2>2
<1>2. CASE chart # <<>> /\ Last(chart).id = b.id
  <2>1. chart' = [chart EXCEPT ![Len(chart)] = b]
    BY <1>2 DEF Emit
  <2> QED BY <1>1, <1>2, <2>1
<1>3. CASE ~(chart # <<>> /\ Last(chart).id = b.id)
  <2>1. chart' = Append(chart, b)
    BY <1>3 DEF Emit
  <2> QED BY <1>1, <1>3, <2>1
<1> QED BY <1>2, <1>3

-----------------------------------------------------------------------------
(* The tape.                                                                 *)

TapeType == [min : Nat \ {0}, price : Prices]

\* Minutes come in order, from the first and each with a trade.
Steady ==
  /\ \A i \in DOMAIN tape : \A j \in DOMAIN tape : i <= j => tape[i].min <= tape[j].min
  /\ tape # <<>> => tape[1].min = 1
  /\ \A i \in DOMAIN tape : i > 1 => tape[i].min <= tape[i - 1].min + 1

\* What a record of the tape is.
LEMMA TapeIs ==
  ASSUME tape \in Seq(TapeType), NEW i \in DOMAIN tape
  PROVE  /\ tape[i] \in TapeType /\ tape[i].min \in Nat /\ tape[i].min >= 1
         /\ tape[i].price \in Prices /\ tape[i].price \in Nat /\ tape[i].price >= 1
         /\ i \in Nat /\ i >= 1 /\ i <= Len(tape) /\ Len(tape) \in Nat
<1>1. tape[i] \in TapeType
  OBVIOUS
<1>2. i \in 1 .. Len(tape) /\ Len(tape) \in Nat
  OBVIOUS
<1>3. tape[i].min \in Nat \ {0} /\ tape[i].price \in Prices
  BY <1>1 DEF TapeType
<1>4. tape[i].price \in Nat \ {0}
  BY <1>3
<1>5. \A x \in Nat \ {0} : x \in Nat /\ x >= 1
  OBVIOUS
<1>6. i \in Nat /\ i >= 1 /\ i <= Len(tape)
  BY <1>2
<1> QED BY <1>1, <1>2, <1>3, <1>4, <1>5, <1>6, Zenon

\* The trades of a minute are finitely many.
LEMMA MinuteIs ==
  ASSUME tape \in Seq(TapeType), NEW n \in 0 .. Len(tape), NEW m
  PROVE  /\ Minute(m, n) \in SUBSET (1 .. n) /\ IsFiniteSet(Minute(m, n))
         /\ Cardinality(Minute(m, n)) \in Nat
         /\ Minute(m, n) # {} => Cardinality(Minute(m, n)) > 0
<1>1. Minute(m, n) \in SUBSET (1 .. n) /\ 1 \in Int /\ n \in Int
  BY DEF Minute
<1>2. IsFiniteSet(1 .. n)
  BY <1>1, FS_Interval
<1>3. IsFiniteSet(Minute(m, n))
  BY <1>1, <1>2, FS_Subset
<1>4. Cardinality(Minute(m, n)) \in Nat
  BY <1>3, FS_CardinalityType
<1>5. Minute(m, n) # {} => Cardinality(Minute(m, n)) # 0
  BY <1>3, FS_EmptySet
<1> QED BY <1>1, <1>3, <1>4, <1>5

\* Every minute up to that of trade n has a trade.
LEMMA EveryMinute ==
  ASSUME tape \in Seq(TapeType), Steady, NEW n \in DOMAIN tape, NEW m \in 1 .. tape[n].min
  PROVE  Minute(m, n) # {}
<1> DEFINE T == {i \in 1 .. n : tape[i].min >= m}
<1>0. n \in Nat /\ m \in Nat /\ \A i \in 1 .. n : i \in DOMAIN tape
  BY TapeIs
<1>1. T \in SUBSET Nat /\ n \in T
  BY <1>0, TapeIs
<1> HIDE DEF T
<1>2. PICK i \in T : \A j \in T : i <= j
  BY <1>1, LeastNumber
<1>3. i \in 1 .. n /\ tape[i].min >= m /\ i \in DOMAIN tape /\ tape[i].min \in Nat
  BY <1>0, <1>2, TapeIs DEF T
<1>4. tape[i].min <= m
  <2>1. CASE i = 1
    <3>1. tape # <<>>
      BY <1>3, <2>1
    <3> QED BY <1>0, <2>1, <3>1 DEF Steady
  <2>2. CASE i # 1
    <3>1. i > 1 /\ i - 1 \in 1 .. n /\ ~(i <= i - 1)
      BY <1>3, <2>2
    <3>2. ~(tape[i - 1].min >= m)
      BY <1>2, <3>1 DEF T
    <3>3. tape[i].min <= tape[i - 1].min + 1
      BY <1>3, <3>1 DEF Steady
    <3>4. tape[i - 1].min \in Nat
      BY <1>0, <3>1, TapeIs
    <3> QED BY <1>0, <1>3, <3>2, <3>3, <3>4
  <2> QED BY <2>1, <2>2
<1>5. i \in Minute(m, n)
  BY <1>0, <1>3, <1>4 DEF Minute
<1> QED BY <1>5

\* What REST's kline of a minute says.
LEMMA SnapshotIs ==
  ASSUME tape \in Seq(TapeType), NEW n \in DOMAIN tape
  PROVE  /\ Snapshot(n).min = tape[n].min /\ Snapshot(n).min \in Nat /\ Snapshot(n).min >= 1
         /\ Snapshot(n).price = tape[n].price /\ Snapshot(n).price \in Prices
         /\ Snapshot(n).vol = Legs * Cardinality(Minute(tape[n].min, n))
         /\ Snapshot(n).vol \in Nat /\ Snapshot(n).vol >= 1
<1>1. n \in 0 .. Len(tape) /\ n \in Minute(tape[n].min, n)
  BY TapeIs DEF Minute
<1>2. Cardinality(Minute(tape[n].min, n)) \in Nat /\ Cardinality(Minute(tape[n].min, n)) >= 1
  <2>1. Cardinality(Minute(tape[n].min, n)) \in Nat /\ Cardinality(Minute(tape[n].min, n)) > 0
    BY <1>1, MinuteIs
  <2> QED BY <2>1
<1> HIDE DEF Minute
<1> QED BY <1>2, TapeIs DEF Snapshot, Legs

\* One of some trades has the highest price.
LEMMA HighestTrade ==
  ASSUME tape \in Seq(TapeType), NEW n \in 0 .. Len(tape), NEW S \in SUBSET (1 .. n), S # {}
  PROVE  \E i \in S : \A j \in S : tape[j].price <= tape[i].price
<1> DEFINE Has(Q) == \E i \in Q : \A j \in Q : tape[j].price <= tape[i].price
           Bad == {k \in 0 .. n : \E Q \in SUBSET (1 .. k) : Q # {} /\ ~Has(Q)}
<1>1. SUFFICES ASSUME Bad # {} PROVE FALSE
  <2>1. n \in 0 .. n
    OBVIOUS
  <2> QED BY <2>1
<1>2. PICK k \in Bad : \A m \in Bad : k <= m
  <2>1. Bad \in SUBSET Nat
    OBVIOUS
  <2> HIDE DEF Bad
  <2> QED BY <1>1, <2>1, LeastNumber
<1>3. PICK Q \in SUBSET (1 .. k) : Q # {} /\ ~Has(Q)
  OBVIOUS
<1>4. k \in Nat /\ k >= 1 /\ k - 1 \in 0 .. n /\ ~(k <= k - 1)
  <2>1. k \in 0 .. n /\ n \in Nat
    OBVIOUS
  <2>2. k # 0
    <3>1. k = 0 => 1 .. k = {}
      OBVIOUS
    <3>2. 1 .. k # {}
      BY <1>3, Zenon
    <3> QED BY <3>1, <3>2
  <2> HIDE DEF Bad
  <2> QED BY <2>1, <2>2
<1>5. \A j \in 1 .. k : j \in DOMAIN tape /\ tape[j].price \in Nat
  BY <1>4, TapeIs
<1>6. Q \ {k} \in SUBSET (1 .. k - 1) /\ \A j \in Q \ {k} : j \in 1 .. k
  <2>1. k \in Int /\ Q \in SUBSET (1 .. k)
    BY <1>4
  <2> HIDE DEF Bad, Has
  <2>2. ASSUME NEW j \in Q \ {k} PROVE j \in 1 .. k - 1 /\ j \in 1 .. k
    <3>1. j \in 1 .. k /\ j # k
      BY <2>1
    <3> QED BY <2>1, <3>1
  <2> QED BY <2>2
<1>7. Q \ {k} # {} => Has(Q \ {k})
  <2> HIDE DEF Has
  <2>1. k - 1 \notin Bad
    <3> HIDE DEF Bad
    <3> QED BY <1>2, <1>4, Zenon
  <2>2. \A P \in SUBSET (1 .. k - 1) : P # {} => Has(P)
    BY <1>4, <2>1, Zenon
  <2> QED BY <1>6, <2>2, Zenon
<1>8. CASE Q \ {k} = {}
  <2>1. Q = {k} /\ k \in 1 .. k
    BY <1>3, <1>4, <1>8
  <2>2. tape[k].price <= tape[k].price
    BY <1>5, <2>1
  <2> QED BY <1>3, <2>1, <2>2
<1>9. CASE Q \ {k} # {}
  <2>1. PICK i \in Q \ {k} : \A j \in Q \ {k} : tape[j].price <= tape[i].price
    BY <1>7, <1>9
  <2>2. tape[i].price \in Nat
    BY <1>5, <1>6
  <2>3. CASE k \in Q /\ ~(tape[k].price <= tape[i].price)
    <3>1. k \in 1 .. k /\ tape[k].price \in Nat
      BY <1>4, <1>5
    <3>2. \A j \in Q : tape[j].price <= tape[k].price
      <4> SUFFICES ASSUME NEW j \in Q PROVE tape[j].price <= tape[k].price
        OBVIOUS
      <4>1. tape[j].price \in Nat /\ (j = k \/ tape[j].price <= tape[i].price)
        BY <1>5, <2>1
      <4> QED BY <2>2, <2>3, <3>1, <4>1
    <3> QED BY <1>3, <2>3, <3>2
  <2>4. CASE ~(k \in Q /\ ~(tape[k].price <= tape[i].price))
    BY <1>3, <2>1, <2>4
  <2> QED BY <2>3, <2>4
<1> QED BY <1>8, <1>9

\* The prices of the synthetic trades are prices of the tape.
LEMMA SyntheticIs ==
  ASSUME tape \in Seq(TapeType), NEW n \in 0 .. Len(tape), NEW m \in Nat, Minute(m, n) # {},
         NEW i \in 1 .. Legs
  PROVE  /\ SyntheticTrades(m, n)[i] \in TradeType
         /\ \E k \in 1 .. n : SyntheticTrades(m, n)[i].price = tape[k].price
<1> DEFINE trades == Minute(m, n)
           prices == {tape[k].price : k \in trades}
           open == tape[Min(trades)].price
           close == tape[Max(trades)].price
           path == IF close >= open THEN <<open, Min(prices), Max(prices), close>>
                   ELSE <<open, Max(prices), Min(prices), close>>
           x == SyntheticTrades(m, n)[i]
<1>1. trades \in SUBSET (1 .. n) /\ Cardinality(trades) \in Nat /\ n \in Nat
  BY MinuteIs
<1>2. \A k \in 1 .. n : k \in DOMAIN tape
  OBVIOUS
<1>3. SyntheticTrades(m, n) = [l \in 1 .. Legs |->
         [ts |-> m * Interval + l - 1, price |-> path[l], vol |-> Cardinality(trades)]]
  BY DEF SyntheticTrades
<1>4. x = [ts |-> m * Interval + i - 1, price |-> path[i], vol |-> Cardinality(trades)]
  BY <1>3, Zenon
<1> HIDE DEF trades, x
<1>5. Min(trades) \in trades /\ Max(trades) \in trades
  <2>1. trades \in SUBSET Nat /\ trades \in SUBSET (0 .. n) /\ trades # {}
    BY <1>1 DEF trades
  <2> QED BY <1>1, <2>1, LeastIn, LargestIn
<1>6. Min(prices) \in prices /\ Max(prices) \in prices
  <2>1. prices # {} /\ prices \in SUBSET Nat
    BY <1>1, <1>2, <1>5, TapeIs
  <2>2. PICK k \in trades : \A j \in trades : tape[j].price <= tape[k].price
    <3>1. trades \in SUBSET (1 .. n) /\ trades # {}
      BY <1>1 DEF trades
    <3> QED BY <3>1, HighestTrade
  <2>3. \E y \in prices : \A z \in prices : y >= z
    <3>1. \A j \in trades : tape[j].price \in Nat
      BY <1>1, <1>2, TapeIs
    <3>2. \A z \in prices : tape[k].price >= z
      BY <2>2, <3>1
    <3> QED BY <2>2, <3>2
  <2>4. Min(prices) \in prices
    <3> HIDE DEF prices
    <3> QED BY <2>1, LeastIn
  <2>5. Max(prices) \in prices
    <3> HIDE DEF prices
    <3> QED BY <2>3 DEF Max
  <2> QED BY <2>4, <2>5
<1> DEFINE Seen(p) == \E k \in 1 .. n : p = tape[k].price
<1>7. Seen(open) /\ Seen(close) /\ Seen(Min(prices)) /\ Seen(Max(prices))
  BY <1>1, <1>5, <1>6
<1> HIDE DEF prices, open, close
<1>8. \A l \in 1 .. 4 : Seen(path[l])
  <2> HIDE DEF Seen
  <2>1. Seen(path[1]) /\ Seen(path[2]) /\ Seen(path[3]) /\ Seen(path[4])
    BY <1>7
  <2> QED BY <2>1
<1> HIDE DEF path
<1>9. Seen(x.price)
  BY <1>4, <1>8 DEF Legs
<1>10. x \in TradeType
  <2>1. x.price \in Prices
    BY <1>2, <1>9, TapeIs
  <2>2. m * Interval + i - 1 \in Nat
    BY DEF Interval, Legs
  <2> QED BY <1>1, <1>4, <2>1, <2>2 DEF TradeType
<1> QED BY <1>9, <1>10 DEF x

-----------------------------------------------------------------------------
(* Shape: the types, what nothing has been built from yet, and the loop.     *)

Typed ==
  /\ kind \in Kinds
  /\ tape \in Seq(TapeType) /\ Len(tape) <= MaxTape
  /\ pc \in {"idle", "fetch", "run", "loop"} /\ seeded \in BOOLEAN
  /\ pos \in 0 .. Len(tape) + 1 /\ pending \in Seq(TradeType) /\ base \in BaseType
  /\ cur \in BarType /\ out \in BarType /\ lastId \in 0 .. MaxId
  /\ anchor \in Int /\ dir \in {-1, 0, 1} /\ acc \in Nat
  /\ lines \in Seq(BarType) /\ Len(lines) <= LinesBack
  /\ ring \in Seq(BarType) /\ Len(ring) <= Capacity /\ chart \in Seq(BarType)
  /\ hi \in 0 .. Len(tape) /\ owed \in Nat /\ folded \in Nat /\ late \in BOOLEAN

\* Nothing is folded before the spawn.
Fresh ==
  /\ pc = "idle" <=> pos = 0
  /\ pc \in {"idle", "fetch"} =>
       /\ pending = <<>> /\ base = NoBase /\ cur = NoBar /\ out = NoBar /\ lastId = 0
       /\ anchor = Unset /\ dir = 0 /\ acc = 0 /\ lines = <<>> /\ ring = <<>> /\ chart = <<>>
       /\ hi = 0 /\ owed = 0 /\ folded = 0 /\ late = FALSE

\* The renko loop has a trade in hand; an open time is at most the last there is.
Looping == pc = "loop" => kind = "renko" /\ pending # <<>>
Columns == kind # "tlb" => cur.id <= MaxId

\* The adapter counts the ticks of a minute, at most one an event.
Offsets == base.off = 0 \/ base.off < pos

Shape == Typed /\ Steady /\ Fresh /\ Looping /\ Columns /\ Offsets

\* Nothing is built yet.
LEMMA ShapeInit == Init => Shape
<1> SUFFICES ASSUME Init PROVE Shape
  OBVIOUS
<1>1. NoBar \in BarType /\ NoBase \in BaseType /\ Unset \in Int /\ NoBar.id = 0 /\ NoBase.off = 0
  BY DEF NoBar, NoBase, BarType, BaseType, Unset
<1>2. Len(<<>>) = 0 /\ DOMAIN <<>> = {} /\ \A X : <<>> \in Seq(X)
  OBVIOUS
<1>3. seeded \in BOOLEAN /\ late \in BOOLEAN
  BY DEF Init
<1>4. /\ tape = <<>> /\ pc = "idle" /\ pos = 0 /\ pending = <<>> /\ base = NoBase /\ cur = NoBar
      /\ lastId = 0 /\ anchor = Unset /\ dir = 0 /\ acc = 0 /\ lines = <<>> /\ out = NoBar
      /\ ring = <<>> /\ chart = <<>> /\ hi = 0 /\ owed = 0 /\ folded = 0 /\ kind \in Kinds
  BY DEF Init
<1>5. Typed
  <2>1. pos \in 0 .. Len(tape) + 1 /\ hi \in 0 .. Len(tape) /\ lastId \in 0 .. MaxId
    BY <1>2, <1>4
  <2>2. Len(tape) <= MaxTape /\ Len(lines) <= LinesBack /\ Len(ring) <= Capacity
    BY <1>2, <1>4
  <2> HIDE DEF BarType, BaseType
  <2> QED BY <1>1, <1>2, <1>3, <1>4, <2>1, <2>2, Zenon DEF Typed
<1>6. Steady /\ Looping /\ Columns /\ Offsets
  BY <1>1, <1>2, <1>4 DEF Steady, Looping, Columns, Offsets
<1>7. Fresh
  <2>1. late = FALSE
    BY DEF Init
  <2> QED BY <1>4, <2>1 DEF Fresh
<1> QED BY <1>5, <1>6, <1>7 DEF Shape

-----------------------------------------------------------------------------
(* The market.                                                               *)

\* A trade leaves the tape up to it as it was.
LEMMA TradeIs ==
  ASSUME Shape, Trade
  PROVE  /\ tape' \in Seq(TapeType) /\ Len(tape') = Len(tape) + 1 /\ Len(tape) \in Nat
         /\ Len(tape') <= MaxTape
         /\ \A i \in DOMAIN tape : i \in DOMAIN tape' /\ tape'[i] = tape[i]
         /\ Len(tape') \in DOMAIN tape' /\ tape'[Len(tape')].min \in Nat
         /\ IF tape = <<>> THEN tape'[Len(tape')].min = 1
            ELSE tape'[Len(tape')].min \in {tape[Len(tape)].min, tape[Len(tape)].min + 1}
         /\ \A i \in DOMAIN tape' : i \in DOMAIN tape \/ i = Len(tape')
         /\ \A n \in 0 .. Len(tape) : \A m : Minute(m, n)' = Minute(m, n)
<1>1. tape \in Seq(TapeType) /\ Len(tape) \in Nat /\ Len(tape) < MaxTape
  BY DEF Shape, Typed, Trade
<1>2. PICK p \in Prices, m \in IF tape = <<>> THEN {1} ELSE {Last(tape).min, Last(tape).min + 1} :
        tape' = Append(tape, [min |-> m, price |-> p])
  BY DEF Trade
<1> DEFINE x == [min |-> m, price |-> p]
<1>3. x \in TapeType /\ x.min = m
      /\ IF tape = <<>> THEN m = 1 ELSE m \in {tape[Len(tape)].min, tape[Len(tape)].min + 1}
  <2>1. CASE tape = <<>>
    BY <1>2, <2>1 DEF TapeType
  <2>2. CASE tape # <<>>
    <3>1. Len(tape) \in DOMAIN tape /\ Last(tape) = tape[Len(tape)]
      BY <1>1, <2>2 DEF Last
    <3>2. tape[Len(tape)].min \in Nat /\ tape[Len(tape)].min >= 1
      BY <1>1, <3>1, TapeIs
    <3>3. m \in {tape[Len(tape)].min, tape[Len(tape)].min + 1}
      BY <1>2, <2>2, <3>1
    <3>4. m \in Nat \ {0}
      BY <3>2, <3>3
    <3> QED BY <2>2, <3>3, <3>4 DEF TapeType
  <2> QED BY <2>1, <2>2
<1> HIDE DEF x
<1>4. tape' = Append(tape, x)
  BY <1>2 DEF x
<1>5. /\ tape' \in Seq(TapeType) /\ Len(tape') = Len(tape) + 1 /\ tape'[Len(tape) + 1] = x
      /\ \A i \in DOMAIN tape : i \in DOMAIN tape' /\ tape'[i] = tape[i]
      /\ \A i \in DOMAIN tape' : i \in DOMAIN tape \/ i = Len(tape')
      /\ Len(tape') \in DOMAIN tape'
  BY <1>1, <1>3, <1>4
<1>6. \A n \in 0 .. Len(tape) : \A k : Minute(k, n)' = Minute(k, n)
  <2> SUFFICES ASSUME NEW n \in 0 .. Len(tape), NEW k PROVE Minute(k, n)' = Minute(k, n)
    OBVIOUS
  <2>1. \A i \in 1 .. n : i \in DOMAIN tape
    BY <1>1
  <2>2. \A i \in 1 .. n : tape'[i] = tape[i]
    BY <1>5, <2>1
  <2> QED BY <2>2 DEF Minute
<1>7. x.min \in Nat
  BY <1>3 DEF TapeType
<1> QED BY <1>1, <1>3, <1>5, <1>6, <1>7

\* A trade lengthens the tape; the chart does not see it yet.
LEMMA TradeShape == Shape /\ Trade => Shape'
<1> SUFFICES ASSUME Shape, Trade PROVE Shape'
  OBVIOUS
<1> DEFINE L == Len(tape)
           N == Len(tape')
<1>1. /\ tape' \in Seq(TapeType) /\ N = L + 1 /\ L \in Nat /\ N <= MaxTape
      /\ \A i \in DOMAIN tape : i \in DOMAIN tape' /\ tape'[i] = tape[i]
      /\ N \in DOMAIN tape' /\ tape'[N].min \in Nat
      /\ IF tape = <<>> THEN tape'[N].min = 1
         ELSE tape'[N].min \in {tape[L].min, tape[L].min + 1}
      /\ \A i \in DOMAIN tape' : i \in DOMAIN tape \/ i = N
  BY TradeIs
<1>2. /\ pos' = IF pc = "idle" THEN pos ELSE Largest(pos, N + 1 - FeedCap)
      /\ UNCHANGED <<kind, pc, seeded, pending, base, cur, lastId, anchor, dir, acc, lines, out,
                     ring, chart, hi, owed, folded, late>>
  BY DEF Trade, builder, output, history
<1>3. pos \in 0 .. L + 1 /\ pos \in Nat /\ hi \in 0 .. L /\ tape \in Seq(TapeType)
  BY DEF Shape, Typed
<1>a. Typed /\ Fresh
  BY DEF Shape
<1>4. pos' \in 0 .. N + 1 /\ pos' >= pos /\ hi' \in 0 .. N /\ pos' \in Nat /\ (pc = "idle" => pos' = pos)
  <2> HIDE DEF L, N
  <2>1. FeedCap \in Nat /\ FeedCap >= 1
    OBVIOUS
  <2> QED BY <1>1, <1>2, <1>3, <2>1 DEF Largest
<1>5. Typed'
  <2>1. UNCHANGED <<seeded, late>> /\ seeded \in BOOLEAN /\ late \in BOOLEAN
    BY <1>2, <1>a, Zenon DEF Typed
  <2> QED BY <1>1, <1>2, <1>4, <1>a, <2>1, Zenon DEF Typed
<1>6. Steady'
  <2>0. Steady
    BY DEF Shape
  <2>1. \A i \in DOMAIN tape : tape[i].min \in Nat /\ i \in Nat /\ i >= 1 /\ i <= L
    BY <1>3, TapeIs
  <2>2. tape # <<>> => L \in DOMAIN tape
    BY <1>1, <1>3
  <2>3. tape = <<>> => L = 0 /\ DOMAIN tape = {}
    OBVIOUS
  <2> HIDE DEF L, N
  <2>4. \A i \in DOMAIN tape' : \A j \in DOMAIN tape' : i <= j => tape'[i].min <= tape'[j].min
    <3> SUFFICES ASSUME NEW i \in DOMAIN tape', NEW j \in DOMAIN tape', i <= j
                 PROVE  tape'[i].min <= tape'[j].min
      OBVIOUS
    <3>1. CASE i \in DOMAIN tape /\ j \in DOMAIN tape
      BY <1>1, <2>0, <3>1 DEF Steady
    <3>2. CASE i \in DOMAIN tape /\ j = N
      <4>1. tape # <<>> /\ L \in DOMAIN tape
        BY <2>2, <2>3, <3>2
      <4>2. tape[i].min <= tape[L].min
        BY <2>0, <2>1, <3>2, <4>1 DEF Steady
      <4> QED BY <1>1, <2>1, <3>2, <4>1, <4>2
    <3>3. CASE i = N /\ j \in DOMAIN tape
      BY <1>1, <2>1, <3>3
    <3>4. CASE i = N /\ j = N
      BY <1>1, <3>4
    <3> QED BY <1>1, <3>1, <3>2, <3>3, <3>4
  <2>5. tape'[1].min = 1
    <3>1. CASE tape = <<>>
      BY <1>1, <2>3, <3>1
    <3>2. CASE tape # <<>>
      <4>1. 1 \in DOMAIN tape
        BY <1>3, <3>2
      <4> QED BY <1>1, <2>0, <3>2, <4>1 DEF Steady
    <3> QED BY <3>1, <3>2
  <2>6. \A i \in DOMAIN tape' : i > 1 => tape'[i].min <= tape'[i - 1].min + 1
    <3> SUFFICES ASSUME NEW i \in DOMAIN tape', i > 1
                 PROVE  tape'[i].min <= tape'[i - 1].min + 1
      OBVIOUS
    <3>1. CASE i \in DOMAIN tape
      <4>1. i - 1 \in DOMAIN tape
        BY <1>3, <2>1, <3>1
      <4> QED BY <1>1, <2>0, <3>1, <4>1 DEF Steady
    <3>2. CASE i = N
      <4>1. tape # <<>> /\ i - 1 = L
        BY <1>1, <2>3, <3>2
      <4>2. tape'[i - 1] = tape[L]
        BY <1>1, <2>2, <4>1
      <4>3. tape[L].min \in Nat
        BY <2>1, <2>2, <4>1
      <4> QED BY <1>1, <3>2, <4>1, <4>2, <4>3
    <3> QED BY <1>1, <3>1, <3>2
  <2> QED BY <2>4, <2>5, <2>6 DEF Steady
<1>7. Fresh'
  <2>1. pc = "idle" <=> pos' = 0
    BY <1>3, <1>4, <1>a DEF Fresh
  <2> HIDE DEF N, L
  <2> QED BY <1>2, <1>a, <2>1 DEF Fresh
<1>8. Looping' /\ Columns' /\ Offsets'
  <2>1. base.off \in Nat
    BY <1>a DEF Typed, BaseType
  <2> QED BY <1>2, <1>3, <1>4, <2>1 DEF Shape, Looping, Columns, Offsets
<1> QED BY <1>5, <1>6, <1>7, <1>8 DEF Shape

\* The forwarder joins the feed at its newest event.
LEMMA SubscribeShape == Shape /\ Subscribe => Shape'
<1> SUFFICES ASSUME Shape, Subscribe PROVE Shape'
  OBVIOUS
<1>1. /\ pc = "idle" /\ pc' = "fetch" /\ pos' \in Largest(Len(tape) + 1 - FeedCap, 1) .. Len(tape) + 1
      /\ UNCHANGED <<kind, tape, seeded, pending, base, cur, lastId, anchor, dir, acc, lines, out,
                     ring, chart, hi, owed, folded, late>>
  BY DEF Subscribe, builder, output, history
<1>2. Typed /\ Fresh /\ Len(tape) \in Nat
  BY DEF Shape, Typed
<1>3. pos' \in 0 .. Len(tape) + 1 /\ pos' # 0
  BY <1>1, <1>2 DEF Largest
<1>4. Typed'
  <2>1. UNCHANGED <<seeded, late>> /\ seeded \in BOOLEAN /\ late \in BOOLEAN
    BY <1>1, <1>2, Zenon DEF Typed
  <2> QED BY <1>1, <1>2, <1>3, <2>1, Zenon DEF Typed
<1>5. Fresh'
  BY <1>1, <1>2, <1>3 DEF Fresh
<1>6. Steady' /\ Looping' /\ Columns'
  BY <1>1 DEF Shape, Steady, Looping, Columns
<1>7. Offsets'
  BY <1>1, <1>2 DEF Fresh, Offsets, NoBase
<1> QED BY <1>4, <1>5, <1>6, <1>7 DEF Shape

-----------------------------------------------------------------------------
(* The seed and the live adapter.                                            *)

\* The synthetic trades of the seed.
LEMMA SeedIs ==
  ASSUME tape \in Seq(TapeType), Steady, NEW n \in DOMAIN tape
  PROVE  /\ Seed(n) \in Seq(TradeType)
         /\ \A i \in DOMAIN Seed(n) : \E k \in DOMAIN tape : Seed(n)[i].price = tape[k].price
<1> DEFINE M == tape[n].min - 1
           x(i) == SyntheticTrades((i - 1) \div Legs + 1, n)[1 + ((i - 1) % Legs)]
<1>1. M \in Nat /\ n \in 0 .. Len(tape) /\ M + 1 = tape[n].min /\ \A k \in 1 .. n : k \in DOMAIN tape
  BY TapeIs
<1>2. Seed(n) = [i \in 1 .. Legs * M |-> x(i)]
  BY DEF Seed
<1> HIDE DEF M
<1>3. ASSUME NEW i \in 1 .. Legs * M
      PROVE  x(i) \in TradeType /\ \E k \in DOMAIN tape : x(i).price = tape[k].price
  <2> DEFINE m == (i - 1) \div Legs + 1
             leg == 1 + ((i - 1) % Legs)
  <2>1. m \in 1 .. M /\ leg \in 1 .. Legs /\ m \in Nat
    <3>1. i \in Nat /\ i >= 1 /\ i <= 4 * M /\ Legs = 4
      BY <1>1 DEF Legs
    <3>2. (i - 1) \div 4 >= 0 /\ (i - 1) \div 4 < M /\ (i - 1) % 4 \in 0 .. 3
          /\ (i - 1) \div 4 \in Int
      BY <1>1, <3>1
    <3> QED BY <1>1, <3>1, <3>2
  <2> HIDE DEF m, leg
  <2>2. m \in 1 .. tape[n].min
    BY <1>1, <2>1
  <2>3. Minute(m, n) # {}
    BY <2>2, EveryMinute
  <2>4. /\ SyntheticTrades(m, n)[leg] \in TradeType
        /\ \E k \in 1 .. n : SyntheticTrades(m, n)[leg].price = tape[k].price
    BY <1>1, <2>1, <2>3, SyntheticIs
  <2>5. x(i) = SyntheticTrades(m, n)[leg]
    BY DEF m, leg
  <2> HIDE DEF x
  <2> QED BY <1>1, <2>4, <2>5
<1> HIDE DEF x
<1>4. Legs * M \in Nat
  BY <1>1 DEF Legs
<1> QED BY <1>2, <1>3, <1>4

\* A forwarder that stays on its tape and goes on.
LEMMA GoOn ==
  ASSUME Shape, pc # "idle", pc' \in {"run", "loop"}, pos' \in pos .. Len(tape) + 1,
         UNCHANGED <<kind, tape>>, seeded' \in BOOLEAN, late' \in BOOLEAN,
         pending' \in Seq(TradeType), base' \in BaseType, base'.off = 0 \/ base'.off < pos',
         cur' \in BarType, kind # "tlb" => cur'.id <= MaxId, out' \in BarType,
         lastId' \in 0 .. MaxId, anchor' \in Int, dir' \in {-1, 0, 1}, acc' \in Nat,
         lines' \in Seq(BarType), Len(lines') <= LinesBack,
         ring' \in Seq(BarType), Len(ring') <= Capacity, chart' \in Seq(BarType),
         hi' \in 0 .. Len(tape), owed' \in Nat, folded' \in Nat,
         pc' = "loop" => kind = "renko" /\ pending' # <<>>
  PROVE  Shape'
<1>1. Typed /\ Fresh /\ pos \in Nat /\ Len(tape) \in Nat
  BY DEF Shape, Typed
<1>2. pos' \in 0 .. Len(tape) + 1 /\ pos' # 0
  <2>1. pos # 0
    BY <1>1, Zenon DEF Fresh
  <2> QED BY <1>1, <2>1, SMTT(30)
<1>3. Typed'
  <2>1. pc' \in {"idle", "fetch", "run", "loop"}
    OBVIOUS
  <2> QED BY <1>1, <1>2, <2>1, ZenonT(40) DEF Typed
<1>4. Fresh'
  BY <1>2 DEF Fresh
<1>5. Steady' /\ Looping' /\ Columns' /\ Offsets'
  BY DEF Shape, Steady, Looping, Columns, Offsets
<1> QED BY <1>3, <1>4, <1>5 DEF Shape

\* The trades of a seed have a volume.
LEMMA TradesMetered == Metered(TradeType) /\ Metered(BarType)
BY DEF Metered, TradeType, BarType

\* The seed is the trades of the minutes that have closed.
LEMMA FetchShape == Shape /\ Fetch => Shape'
<1> SUFFICES ASSUME Shape, Fetch PROVE Shape'
  OBVIOUS
<1> DEFINE n == Len(tape)
<1>1. /\ pc = "fetch" /\ tape # <<>> /\ pending' = Seed(n) /\ pc' = "run"
      /\ base' = [min |-> tape[n].min, vol |-> Snapshot(n).vol, off |-> 0] /\ hi' = n
      /\ owed' = Volume(pending') /\ folded' = owed'
      /\ UNCHANGED <<kind, tape, seeded, pos, cur, lastId, anchor, dir, acc, lines, out, ring, chart,
                     late>>
  BY DEF Fetch, builder, output
<1>2. Typed /\ Columns
  BY DEF Shape
<1>3. n \in DOMAIN tape /\ n \in 0 .. n /\ tape \in Seq(TapeType) /\ pos \in pos .. n + 1
  BY <1>1, <1>2 DEF Typed
<1>4. pending' \in Seq(TradeType)
  BY <1>1, <1>3, SeedIs DEF Shape
<1>5. owed' \in Nat
  <2>1. \E x \in TradeType : TRUE
    <3>1. tape[n].price \in Prices
      BY <1>3, TapeIs
    <3>2. [ts |-> 0, price |-> tape[n].price, vol |-> 0] \in TradeType
      BY <3>1 DEF TradeType
    <3> QED BY <3>2
  <2>2. Volume(pending') \in Nat
    BY <1>4, <2>1, VolumeIs, TradesMetered
  <2> QED BY <1>1, <2>2
<1>6. base' \in BaseType /\ base'.off = 0
  <2>1. tape[n].min \in Nat /\ Snapshot(n).vol \in Nat
    BY <1>3, TapeIs, SnapshotIs
  <2> QED BY <1>1, <2>1 DEF BaseType
<1>7. seeded' \in BOOLEAN /\ late' \in BOOLEAN
  BY <1>1, <1>2, Zenon DEF Typed
<1>8. /\ cur \in BarType /\ out \in BarType /\ lastId \in 0 .. MaxId /\ anchor \in Int
      /\ dir \in {-1, 0, 1} /\ acc \in Nat /\ lines \in Seq(BarType) /\ Len(lines) <= LinesBack
      /\ ring \in Seq(BarType) /\ Len(ring) <= Capacity /\ chart \in Seq(BarType)
      /\ kind # "tlb" => cur.id <= MaxId
  BY <1>2 DEF Typed, Columns
<1> HIDE DEF n
<1> QED BY <1>1, <1>3, <1>4, <1>5, <1>6, <1>7, <1>8, GoOn DEF n

\* A seed that fails, and the end of one that did not.
LEMMA NoFetchShape == Shape /\ (NoFetch \/ SeedDone) => Shape'
<1> SUFFICES ASSUME Shape, NoFetch \/ SeedDone PROVE Shape'
  OBVIOUS
<1>1. /\ pc # "idle" /\ pc' = "run" /\ seeded' \in BOOLEAN
      /\ UNCHANGED <<kind, tape, pos, pending, base, cur, lastId, anchor, dir, acc, lines, out,
                     ring, chart, hi, owed, folded, late>>
  <2>1. CASE NoFetch
    <3>1. seeded' \in BOOLEAN
      BY <2>1, Zenon DEF Shape, Typed, NoFetch
    <3> QED BY <2>1, <3>1 DEF NoFetch, builder, output, history
  <2>2. CASE SeedDone
    BY <2>2 DEF SeedDone, builder, output, history
  <2> QED BY <2>1, <2>2
<1>2. Typed /\ Columns /\ Offsets
  BY DEF Shape
<1>3. late' \in BOOLEAN
  BY <1>1, <1>2, Zenon DEF Typed
<1>4. /\ pos \in pos .. Len(tape) + 1 /\ pending \in Seq(TradeType) /\ base \in BaseType
      /\ base.off = 0 \/ base.off < pos
      /\ cur \in BarType /\ out \in BarType /\ lastId \in 0 .. MaxId /\ anchor \in Int
      /\ dir \in {-1, 0, 1} /\ acc \in Nat /\ lines \in Seq(BarType) /\ Len(lines) <= LinesBack
      /\ ring \in Seq(BarType) /\ Len(ring) <= Capacity /\ chart \in Seq(BarType)
      /\ kind # "tlb" => cur.id <= MaxId
      /\ hi \in 0 .. Len(tape) /\ owed \in Nat /\ folded \in Nat
  BY <1>2 DEF Typed, Columns, Offsets
<1> QED BY <1>1, <1>3, <1>4, GoOn

\* What a kline event gives the adapter: a baseline and at most one trade.
LEMMA DeltaIs ==
  ASSUME NEW s, s.min \in Nat, s.min >= 1, s.vol \in Nat, s.price \in Prices, base \in BaseType
  PROVE  /\ Delta(s).base \in BaseType
         /\ Delta(s).base.off = 0 \/ Delta(s).base.off <= base.off + 1
         /\ Delta(s).ticks \in Seq(TradeType)
         /\ Delta(s).ticks = <<>> \/ \E t \in TradeType : /\ Delta(s).ticks = <<t>> /\ t.price = s.price
<1> DEFINE rolled == s.min > base.min
           off == IF rolled THEN 0 ELSE base.off
           gain == IF rolled THEN s.vol ELSE Largest(s.vol - base.vol, 0)
           stays == [min |-> s.min, vol |-> s.vol, off |-> off]
           t == [ts |-> s.min * Interval + Least(off, Interval - 1), price |-> s.price, vol |-> gain]
<1>0. base.min \in Nat /\ base.vol \in Nat /\ base.off \in Nat
  BY DEF BaseType
<1>1. off \in Nat /\ gain \in Nat /\ off <= base.off
  BY <1>0 DEF Largest
<1>2. stays \in BaseType /\ stays.off = off
  BY <1>1 DEF BaseType
<1>3. t \in TradeType /\ t.price = s.price
  <2>1. s.min * Interval + Least(off, Interval - 1) \in Nat
    BY <1>1 DEF Least, Interval
  <2> QED BY <1>1, <2>1 DEF TradeType
<1>4. [stays EXCEPT !.off = off + 1] \in BaseType /\ [stays EXCEPT !.off = off + 1].off = off + 1
  BY <1>1, <1>2 DEF BaseType
<1>5. Delta(s) = IF base = NoBase \/ (s.min = base.min /\ gain = 0)
                 THEN [base |-> stays, ticks |-> <<>>]
                 ELSE IF s.min < base.min THEN [base |-> base, ticks |-> <<>>]
                 ELSE [base |-> [stays EXCEPT !.off = off + 1], ticks |-> <<t>>]
  BY DEF Delta
<1> HIDE DEF rolled, off, gain, stays, t
<1>6. CASE base = NoBase \/ (s.min = base.min /\ gain = 0)
  <2>1. Delta(s) = [base |-> stays, ticks |-> <<>>]
    BY <1>5, <1>6
  <2> QED BY <1>0, <1>1, <1>2, <2>1
<1>7. CASE ~(base = NoBase \/ (s.min = base.min /\ gain = 0)) /\ s.min < base.min
  <2>1. Delta(s) = [base |-> base, ticks |-> <<>>]
    BY <1>5, <1>7
  <2> QED BY <1>0, <2>1
<1>8. CASE ~(base = NoBase \/ (s.min = base.min /\ gain = 0)) /\ ~(s.min < base.min)
  <2>1. Delta(s) = [base |-> [stays EXCEPT !.off = off + 1], ticks |-> <<t>>]
    BY <1>5, <1>8
  <2>2. Delta(s).ticks = <<t>> /\ <<t>> \in Seq(TradeType)
    BY <1>3, <2>1
  <2>3. Delta(s).base = [stays EXCEPT !.off = off + 1]
    BY <2>1
  <2> QED BY <1>0, <1>1, <1>3, <1>4, <2>2, <2>3
<1> QED BY <1>6, <1>7, <1>8

\* An event of the feed is one synthetic trade, none, or a gap in the feed.
LEMMA ReceiveShape == Shape /\ Receive => Shape'
<1> SUFFICES ASSUME Shape, Receive PROVE Shape'
  OBVIOUS
<1> DEFINE s == Snapshot(pos)
<1>1. /\ pc = "run" /\ pos <= Len(tape) /\ base' = Delta(s).base /\ pending' = Delta(s).ticks
      /\ pos' = pos + 1 /\ hi' = Largest(hi, pos) /\ folded' = folded + Volume(pending')
      /\ owed' = IF base = NoBase THEN owed ELSE owed + Legs * Cardinality(Unheard(hi, pos))
      /\ UNCHANGED <<kind, tape, pc, seeded, cur, lastId, anchor, dir, acc, lines, out, ring, chart>>
  BY DEF Receive, builder, output
<1>2. Typed /\ Columns /\ Offsets /\ Fresh
  BY DEF Shape
<1>3. pos \in DOMAIN tape /\ tape \in Seq(TapeType) /\ pos \in Nat /\ Len(tape) \in Nat
  BY <1>1, <1>2 DEF Typed, Fresh
<1>4. s.min \in Nat /\ s.min >= 1 /\ s.vol \in Nat /\ s.price \in Prices
  BY <1>3, SnapshotIs
<1>5. base \in BaseType
  BY <1>2 DEF Typed
<1> HIDE DEF s
<1>6. /\ base' \in BaseType /\ (base'.off = 0 \/ base'.off <= base.off + 1)
      /\ pending' \in Seq(TradeType)
  BY <1>1, <1>4, <1>5, DeltaIs
<1>7. base'.off = 0 \/ base'.off < pos'
  <2>1. base.off \in Nat /\ base'.off \in Nat
    BY <1>5, <1>6 DEF BaseType
  <2> QED BY <1>1, <1>2, <1>3, <1>6, <2>1 DEF Offsets, Fresh
<1>8. folded' \in Nat
  <2>1. \E x \in TradeType : TRUE
    <3>1. [ts |-> 0, price |-> s.price, vol |-> 0] \in TradeType
      BY <1>4 DEF TradeType
    <3> QED BY <3>1
  <2>2. Volume(pending') \in Nat
    BY <1>6, <2>1, VolumeIs, TradesMetered
  <2> QED BY <1>1, <1>2, <2>2 DEF Typed
<1>9. owed' \in Nat
  <2>1. Unheard(hi, pos) \in SUBSET (hi + 1 .. pos) /\ hi + 1 \in Int /\ pos \in Int
    BY <1>2, <1>3 DEF Unheard, Typed
  <2>2. IsFiniteSet(Unheard(hi, pos))
    BY <2>1, FS_Interval, FS_Subset
  <2>3. Cardinality(Unheard(hi, pos)) \in Nat
    BY <2>2, FS_CardinalityType
  <2> QED BY <1>1, <1>2, <2>3, SMTT(30) DEF Typed, Legs
<1>10. hi' \in 0 .. Len(tape) /\ pos' \in pos .. Len(tape) + 1
  BY <1>1, <1>2, <1>3 DEF Typed, Largest
<1>11. seeded' \in BOOLEAN /\ late' \in BOOLEAN
  <2>1. seeded' \in BOOLEAN
    BY <1>1, <1>2, Zenon DEF Typed
  <2>2. late' = (late \/ (pos < hi /\ tape[pos].min = base.min))
    BY DEF Receive
  <2>3. late' \in BOOLEAN
    BY <2>2, Zenon
  <2> QED BY <2>1, <2>3
<1>12. /\ cur \in BarType /\ out \in BarType /\ lastId \in 0 .. MaxId /\ anchor \in Int
       /\ dir \in {-1, 0, 1} /\ acc \in Nat /\ lines \in Seq(BarType) /\ Len(lines) <= LinesBack
       /\ ring \in Seq(BarType) /\ Len(ring) <= Capacity /\ chart \in Seq(BarType)
       /\ kind # "tlb" => cur.id <= MaxId
  BY <1>2 DEF Typed, Columns
<1> QED BY <1>1, <1>6, <1>7, <1>8, <1>9, <1>10, <1>11, <1>12, GoOn

-----------------------------------------------------------------------------
(* The folds.                                                                *)

\* The trade in hand and the ones after it.
LEMMA HandIs ==
  ASSUME Shape, pending # <<>>
  PROVE  LET t == Head(pending)
         IN  /\ t \in TradeType /\ t.ts \in Nat /\ t.vol \in Nat
             /\ t.price \in Prices /\ t.price \in Nat /\ t.price >= 1
             /\ pending[1] = t /\ 1 \in DOMAIN pending
             /\ Tail(pending) \in Seq(TradeType)
             /\ \A i \in DOMAIN Tail(pending) : i + 1 \in DOMAIN pending /\ Tail(pending)[i] = pending[i + 1]
             /\ Volume(pending) = t.vol + Volume(Tail(pending))
             /\ Volume(Tail(pending)) \in Nat /\ Volume(pending) \in Nat
<1> DEFINE t == Head(pending)
<1>1. pending \in Seq(TradeType)
  BY DEF Shape, Typed
<1>2. t \in TradeType /\ pending[1] = t /\ 1 \in DOMAIN pending /\ Tail(pending) \in Seq(TradeType)
      /\ \A i \in DOMAIN Tail(pending) : i + 1 \in DOMAIN pending /\ Tail(pending)[i] = pending[i + 1]
  BY <1>1
<1>3. t.ts \in Nat /\ t.vol \in Nat /\ t.price \in Prices
  BY <1>2 DEF TradeType
<1>4. t.price \in Nat \ {0}
  BY <1>3
<1>5. t.price \in Nat /\ t.price >= 1
  BY <1>4
<1>6. Volume(pending) = t.vol + Volume(Tail(pending)) /\ Volume(pending) \in Nat
  BY <1>1, <1>2, VolumeIs, TradesMetered
<1>7. Volume(Tail(pending)) \in Nat
  BY <1>2, VolumeIs, TradesMetered
<1> QED BY <1>2, <1>3, <1>5, <1>6, <1>7

\* The parts of a bar.
LEMMA BarIs ==
  ASSUME NEW b \in BarType
  PROVE  b.id \in Nat /\ b.from \in Int /\ b.to \in Int /\ b.lo \in Int /\ b.hi \in Int /\ b.vol \in Nat
BY DEF BarType

\* A range, volume or dollar bar begins with the trade or goes on with it.
LEMMA NextBarIs ==
  ASSUME Shape, kind # "tlb", NEW t \in TradeType, t.ts \in Nat, t.vol \in Nat, t.price \in Nat
  PROVE  LET b == NextBar(t)
         IN  /\ b \in BarType /\ b.id \in 0 .. MaxId
             /\ \/ /\ b.id = NewId(t.ts) /\ b.from = t.price /\ b.to = t.price /\ b.lo = t.price
                   /\ b.hi = t.price /\ b.vol = t.vol
                   /\ cur = NoBar \/ kind = "range"
                \/ /\ cur # NoBar /\ b.id = cur.id /\ b.from = cur.from /\ b.to = t.price
                   /\ b.lo = Least(cur.lo, t.price) /\ b.hi = Largest(cur.hi, t.price)
                   /\ b.vol = cur.vol + t.vol
<1>1. cur \in BarType /\ cur.id <= MaxId /\ lastId \in 0 .. MaxId
  BY DEF Shape, Typed, Columns
<1>2. cur.id \in Nat /\ cur.from \in Int /\ cur.to \in Int /\ cur.lo \in Int /\ cur.hi \in Int /\ cur.vol \in Nat
  BY <1>1, BarIs
<1>3. NewId(t.ts) \in 0 .. MaxId /\ NewId(t.ts) \in Nat
  BY <1>1, NewIdIs
<1>4. CASE cur = NoBar \/ (kind = "range" /\ Dist(t.price, cur.from) >= Box)
  <2>1. NextBar(t) = Span(NewId(t.ts), t.price, t.price, t.vol)
    BY <1>4 DEF NextBar
  <2>2. t.price \in Int
    OBVIOUS
  <2>3. Least(t.price, t.price) = t.price /\ Largest(t.price, t.price) = t.price
    BY DEF Least, Largest
  <2> QED BY <1>3, <1>4, <2>1, <2>2, <2>3 DEF Span, BarType
<1>5. CASE ~(cur = NoBar \/ (kind = "range" /\ Dist(t.price, cur.from) >= Box))
  <2>1. NextBar(t) = [cur EXCEPT !.to = t.price, !.lo = Least(@, t.price), !.hi = Largest(@, t.price),
                                 !.vol = @ + t.vol]
    BY <1>5 DEF NextBar
  <2>2. Least(cur.lo, t.price) \in Int /\ Largest(cur.hi, t.price) \in Int /\ cur.vol + t.vol \in Nat
    BY <1>2 DEF Least, Largest
  <2>3. NextBar(t) = [id |-> cur.id, from |-> cur.from, to |-> t.price, lo |-> Least(cur.lo, t.price),
                      hi |-> Largest(cur.hi, t.price), vol |-> cur.vol + t.vol]
    BY <1>1, <2>1 DEF BarType
  <2>4. NextBar(t) \in BarType
    BY <1>2, <2>2, <2>3 DEF BarType
  <2> QED BY <1>1, <1>2, <1>5, <2>3, <2>4
<1> QED BY <1>4, <1>5

\* What the fold of a trade leaves alone.
LEMMA FoldIs ==
  ASSUME Shape, Fold
  PROVE  /\ pc = "run" /\ pc' = "run" /\ pending # <<>> /\ pending' = Tail(pending)
         /\ UNCHANGED <<kind, tape, seeded, pos, base, out, hi, owed, folded, late>>
         /\ \/ FoldBar(Head(pending)) \/ FoldColumn(Head(pending)) \/ FoldSegment(Head(pending))
            \/ FoldLine(Head(pending))
BY DEF Fold, history

\* A fold keeps the shape if what it makes has the right type.
LEMMA FoldGoesOn ==
  ASSUME Shape, Fold,
         cur' \in BarType, kind # "tlb" => cur'.id <= MaxId, lastId' \in 0 .. MaxId, anchor' \in Int,
         dir' \in {-1, 0, 1}, acc' \in Nat, lines' \in Seq(BarType), Len(lines') <= LinesBack,
         ring' \in Seq(BarType), Len(ring') <= Capacity, chart' \in Seq(BarType)
  PROVE  Shape'
<1>1. /\ pc = "run" /\ pc' = "run" /\ pending # <<>> /\ pending' = Tail(pending)
      /\ UNCHANGED <<kind, tape, seeded, pos, base, out, hi, owed, folded, late>>
  BY FoldIs
<1>2. Typed /\ Offsets
  BY DEF Shape
<1>3. pending' \in Seq(TradeType)
  BY <1>1, HandIs
<1>4. seeded' \in BOOLEAN /\ late' \in BOOLEAN
  BY <1>1, <1>2, Zenon DEF Typed
<1>5. /\ pos' \in pos .. Len(tape) + 1 /\ base \in BaseType /\ out \in BarType
      /\ base.off = 0 \/ base.off < pos
      /\ hi \in 0 .. Len(tape) /\ owed \in Nat /\ folded \in Nat
  BY <1>1, <1>2 DEF Typed, Offsets
<1> QED BY <1>1, <1>3, <1>4, <1>5, GoOn

\* The bars of range, volume and dollar charts.
LEMMA FoldBarShape ==
  ASSUME Shape, Fold, FoldBar(Head(pending))
  PROVE  Shape'
<1> DEFINE t == Head(pending)
           b == NextBar(t)
<1>0. Typed /\ pending # <<>>
  BY FoldIs DEF Shape
<1>1. t \in TradeType /\ t.ts \in Nat /\ t.vol \in Nat /\ t.price \in Nat
  BY <1>0, HandIs
<1> HIDE DEF t
<1>2. kind \in {"range", "volume", "dollar"} /\ Emit(b) /\ lastId' = Largest(lastId, b.id)
      /\ UNCHANGED <<anchor, dir, lines>> /\ kind # "tlb"
  BY DEF FoldBar, t
<1>3. b \in BarType /\ b.id \in 0 .. MaxId
  BY <1>1, <1>2, NextBarIs
<1>4. cur' \in {NoBar, b} /\ acc' \in Nat
  <2> DEFINE worth == acc + (IF kind = "dollar" THEN t.price * t.vol ELSE t.vol)
             full == kind # "range" /\ worth >= Threshold
  <2>1. cur' = IF full THEN NoBar ELSE b
    BY DEF FoldBar, t
  <2>2. acc' = IF full \/ kind = "range" THEN 0 ELSE worth
    BY DEF FoldBar, t
  <2>3. worth \in Nat
    <3>1. t.price * t.vol \in Nat
      BY <1>1
    <3>2. acc \in Nat
      BY <1>0 DEF Typed
    <3>3. (IF kind = "dollar" THEN t.price * t.vol ELSE t.vol) \in Nat
      BY <1>1, <3>1
    <3> QED BY <3>2, <3>3
  <2> HIDE DEF worth, full, b
  <2> QED BY <2>1, <2>2, <2>3
<1> HIDE DEF b
<1>5. cur' \in BarType /\ cur'.id <= MaxId
  <2>1. NoBar \in BarType /\ NoBar.id <= MaxId
    BY DEF NoBar, BarType
  <2> QED BY <1>3, <1>4, <2>1
<1>6. ring' \in Seq(BarType) /\ Len(ring') <= Capacity /\ chart' \in Seq(BarType)
  BY <1>0, <1>2, <1>3, EmitIs DEF Typed
<1>7. lastId' \in 0 .. MaxId
  BY <1>0, <1>2, <1>3 DEF Typed, Largest
<1> QED BY <1>0, <1>2, <1>4, <1>5, <1>6, <1>7, FoldGoesOn DEF Typed

\* The four things a trade does to a point and figure chart: it begins the first column,
\* it lengthens the column, it turns, or it only adds its volume.
LEMMA FoldColumnIs ==
  ASSUME Shape, Fold, FoldColumn(Head(pending))
  PROVE  LET t == Head(pending)
         IN  /\ kind = "pnf" /\ Emit(cur') /\ lastId' = cur'.id /\ UNCHANGED <<anchor, acc, lines>>
             /\ cur' \in BarType /\ cur'.id <= MaxId /\ dir' \in {-1, 0, 1}
             /\ \/ /\ cur = NoBar
                   /\ cur'.from = Floor(t.price) /\ cur'.to = Floor(t.price) + Box
                \/ /\ cur # NoBar /\ dir * (t.price - cur.to) >= Box
                   /\ cur'.from = cur.from /\ cur'.to = cur.to + dir * Floor(dir * (t.price - cur.to))
                \/ /\ cur # NoBar /\ -(dir * (t.price - cur.to)) >= Box
                   /\ cur'.from = cur.to - dir * Box
                   /\ cur'.to = cur.to - dir * Box - dir * (Floor(-(dir * (t.price - cur.to)) - Box) + Box)
                \/ /\ cur # NoBar /\ cur'.from = cur.from /\ cur'.to = cur.to
                   /\ cur'.lo = cur.lo /\ cur'.hi = cur.hi
             /\ \/ cur'.lo = Least(cur'.from, cur'.to) /\ cur'.hi = Largest(cur'.from, cur'.to)
                \/ cur'.lo = cur.lo /\ cur'.hi = cur.hi /\ cur'.from = cur.from /\ cur'.to = cur.to
                   /\ cur # NoBar
<1> DEFINE t == Head(pending)
           ahead == dir * (t.price - cur.to)
           grown == [cur EXCEPT !.vol = @ + t.vol]
           turn == cur.to - dir * Box
           column ==
             IF cur = NoBar THEN Span(NewId(t.ts), Floor(t.price), Floor(t.price) + Box, t.vol)
             ELSE IF ahead >= Box
             THEN Span(cur.id, cur.from, cur.to + dir * Floor(ahead), grown.vol)
             ELSE IF -ahead >= Box * Reversal
             THEN Span(NewId(t.ts), turn, turn - dir * (Floor(-ahead - Box) + Box), 0)
             ELSE grown
<1>0. Typed /\ pending # <<>> /\ Columns
  BY FoldIs DEF Shape
<1>1. t \in TradeType /\ t.ts \in Nat /\ t.vol \in Nat /\ t.price \in Nat
  BY <1>0, HandIs
<1>2. /\ kind = "pnf" /\ cur' = column /\ Emit(column) /\ lastId' = cur'.id
      /\ dir' = IF cur = NoBar THEN 1 ELSE IF column.id = cur.id THEN dir ELSE -dir
      /\ UNCHANGED <<anchor, acc, lines>>
  BY DEF FoldColumn
<1>3. cur \in BarType /\ dir \in {-1, 0, 1} /\ cur.id <= MaxId /\ lastId \in 0 .. MaxId
  BY <1>0, <1>2 DEF Typed, Columns
<1>4. cur.id \in Nat /\ cur.from \in Int /\ cur.to \in Int /\ cur.lo \in Int /\ cur.hi \in Int /\ cur.vol \in Nat
  BY <1>3, BarIs
<1> HIDE DEF t
<1>5. NewId(t.ts) \in 0 .. MaxId /\ NewId(t.ts) \in Nat
  BY <1>1, <1>3, NewIdIs
<1>6. ahead \in Int /\ turn \in Int /\ \A x \in Int : dir * x \in Int
  <2>1. t.price - cur.to \in Int /\ Box \in Int
    BY <1>1, <1>4
  <2>2. \A x \in Int : dir * x \in Int
    BY <1>3
  <2>3. ahead \in Int /\ dir * Box \in Int
    BY <2>1, <2>2
  <2> QED BY <1>4, <2>2, <2>3
<1>7. grown \in BarType /\ grown.id = cur.id /\ grown.from = cur.from /\ grown.to = cur.to
      /\ grown.lo = cur.lo /\ grown.hi = cur.hi /\ grown.vol \in Nat
  <2>1. cur.vol + t.vol \in Nat
    BY <1>1, <1>4
  <2> QED BY <1>3, <1>4, <2>1 DEF BarType
<1> HIDE DEF ahead, turn, grown
<1>8. dir' \in {-1, 0, 1}
  <2> HIDE DEF column
  <2> QED BY <1>2, <1>3
<1>9. CASE cur = NoBar
  <2>1. column = Span(NewId(t.ts), Floor(t.price), Floor(t.price) + Box, t.vol)
    BY <1>9
  <2>2. Floor(t.price) \in Int /\ Floor(t.price) + Box \in Int
    BY <1>1, FloorIs
  <2> HIDE DEF column
  <2>3. /\ column \in BarType /\ column.id = NewId(t.ts)
        /\ column.from = Floor(t.price) /\ column.to = Floor(t.price) + Box
        /\ column.lo = Least(column.from, column.to) /\ column.hi = Largest(column.from, column.to)
    <3>1. NewId(t.ts) \in Nat /\ Floor(t.price) \in Int /\ Floor(t.price) + Box \in Int /\ t.vol \in Nat
      BY <1>1, <1>5, <2>2
    <3>2. Least(Floor(t.price), Floor(t.price) + Box) \in Int /\ Largest(Floor(t.price), Floor(t.price) + Box) \in Int
      BY <3>1 DEF Least, Largest
    <3> QED BY <2>1, <3>1, <3>2 DEF Span, BarType
  <2> QED BY <1>2, <1>5, <1>8, <1>9, <2>3 DEF t
<1>10. CASE cur # NoBar /\ ahead >= Box
  <2> DEFINE end == cur.to + dir * Floor(ahead)
  <2>1. column = Span(cur.id, cur.from, end, grown.vol)
    BY <1>10
  <2>2. end \in Int
    BY <1>4, <1>6, FloorIs
  <2> HIDE DEF column, end
  <2>3. /\ column \in BarType /\ column.id = cur.id /\ column.from = cur.from /\ column.to = end
        /\ column.lo = Least(column.from, column.to) /\ column.hi = Largest(column.from, column.to)
    <3>1. cur.id \in Nat /\ cur.from \in Int /\ end \in Int /\ grown.vol \in Nat
      BY <1>4, <1>7, <2>2
    <3>2. Least(cur.from, end) \in Int /\ Largest(cur.from, end) \in Int
      BY <3>1 DEF Least, Largest
    <3> QED BY <2>1, <3>1, <3>2 DEF Span, BarType
  <2> QED BY <1>2, <1>3, <1>8, <1>10, <2>3 DEF t, ahead, end
<1>11. CASE cur # NoBar /\ ~(ahead >= Box) /\ -ahead >= Box * Reversal
  <2> DEFINE end == turn - dir * (Floor(-ahead - Box) + Box)
  <2>1. column = Span(NewId(t.ts), turn, end, 0)
    BY <1>11
  <2>2. end \in Int
    <3>1. Floor(-ahead - Box) + Box \in Int
      BY <1>6, FloorIs
    <3>2. dir * (Floor(-ahead - Box) + Box) \in Int
      BY <1>6, <3>1
    <3> QED BY <1>6, <3>2
  <2>3. -ahead >= Box
    BY <1>6, <1>11, ReversalIs
  <2> HIDE DEF column, end
  <2>4. /\ column \in BarType /\ column.id = NewId(t.ts) /\ column.from = turn /\ column.to = end
        /\ column.lo = Least(column.from, column.to) /\ column.hi = Largest(column.from, column.to)
    <3>1. NewId(t.ts) \in Nat /\ turn \in Int /\ end \in Int /\ 0 \in Nat
      BY <1>5, <1>6, <2>2
    <3>2. Least(turn, end) \in Int /\ Largest(turn, end) \in Int
      BY <3>1 DEF Least, Largest
    <3> QED BY <2>1, <3>1, <3>2 DEF Span, BarType
  <2> QED BY <1>2, <1>5, <1>8, <1>11, <2>3, <2>4 DEF t, ahead, end, turn
<1>12. CASE cur # NoBar /\ ~(ahead >= Box) /\ ~(-ahead >= Box * Reversal)
  <2>1. column = grown
    BY <1>12
  <2> HIDE DEF column
  <2> QED BY <1>2, <1>3, <1>7, <1>8, <1>12, <2>1
<1> HIDE DEF column
<1> QED BY <1>9, <1>10, <1>11, <1>12

\* The columns of a point and figure chart.
LEMMA FoldColumnShape ==
  ASSUME Shape, Fold, FoldColumn(Head(pending))
  PROVE  Shape'
<1>0. Typed
  BY DEF Shape
<1>1. /\ Emit(cur') /\ lastId' = cur'.id /\ UNCHANGED <<anchor, acc, lines>>
      /\ cur' \in BarType /\ cur'.id <= MaxId /\ dir' \in {-1, 0, 1}
  BY FoldColumnIs
<1>2. cur'.id \in Nat
  BY <1>1, BarIs
<1>3. ring' \in Seq(BarType) /\ Len(ring') <= Capacity /\ chart' \in Seq(BarType)
  BY <1>0, <1>1, EmitIs DEF Typed
<1>4. lastId' \in 0 .. MaxId
  BY <1>1, <1>2
<1> QED BY <1>0, <1>1, <1>3, <1>4, FoldGoesOn DEF Typed

\* A kagi chart: a trade moves the anchor or leaves it, and may end a segment.
LEMMA FoldSegmentIs ==
  ASSUME Shape, Fold, FoldSegment(Head(pending))
  PROVE  LET t == Head(pending)
         IN  /\ kind = "kagi" /\ UNCHANGED <<cur, acc, lines>> /\ dir' \in {-1, 0, 1}
             /\ anchor' = t.price \/ (anchor # Unset /\ anchor' = anchor)
             /\ dir' # 0 => dir # 0 \/ anchor # Unset
             /\ \/ UNCHANGED <<ring, chart, lastId>>
                \/ /\ anchor # Unset \/ dir # 0
                   /\ lastId' = NewId(t.ts)
                   /\ \E b \in BarType :
                        /\ Emit(b) /\ b.id = NewId(t.ts)
                        /\ b.from \in {anchor, t.price} /\ b.to \in {anchor, t.price}
                        /\ b.lo = Least(b.from, b.to) /\ b.hi = Largest(b.from, b.to)
<1> DEFINE t == Head(pending)
           ahead == dir * (t.price - anchor)
           swing == anchor # Unset /\ dir = 0 /\ Dist(t.price, anchor) >= Box
           turn == dir # 0 /\ -ahead >= Box
           b == IF swing THEN Span(NewId(t.ts), anchor, t.price, 0)
                ELSE Span(NewId(t.ts), t.price, anchor, 0)
<1>0. Typed /\ pending # <<>>
  BY FoldIs DEF Shape
<1>1. t \in TradeType /\ t.ts \in Nat /\ t.vol \in Nat /\ t.price \in Nat /\ t.price >= 1
  BY <1>0, HandIs
<1>2. anchor \in Int /\ dir \in {-1, 0, 1} /\ lastId \in 0 .. MaxId
  BY <1>0 DEF Typed
<1>3. /\ kind = "kagi"
      /\ anchor' = IF swing \/ turn \/ ahead > 0 \/ anchor = Unset THEN t.price
                   ELSE IF dir = 0 THEN Largest(anchor, t.price) ELSE anchor
      /\ dir' = IF swing THEN (IF t.price > anchor THEN 1 ELSE -1) ELSE IF turn THEN -dir ELSE dir
      /\ Emits(b, swing \/ turn)
      /\ lastId' = IF swing \/ turn THEN NewId(t.ts) ELSE lastId
      /\ UNCHANGED <<cur, acc, lines>>
  BY DEF FoldSegment
<1> HIDE DEF t
<1>4. NewId(t.ts) \in Nat
  BY <1>1, <1>2, NewIdIs
<1> HIDE DEF ahead
<1>5. dir' \in {-1, 0, 1} /\ (dir' # 0 => dir # 0 \/ anchor # Unset)
  <2>1. swing => anchor # Unset
    OBVIOUS
  <2>2. turn => dir # 0
    OBVIOUS
  <2> HIDE DEF swing, turn
  <2> QED BY <1>2, <1>3, <2>1, <2>2
<1>6. anchor' = t.price \/ (anchor # Unset /\ anchor' = anchor)
  <2> HIDE DEF swing, turn
  <2> QED BY <1>1, <1>2, <1>3 DEF Largest
<1>7. CASE ~(swing \/ turn)
  <2>1. UNCHANGED <<ring, chart, lastId>>
    <3> HIDE DEF swing, turn
    <3> QED BY <1>3, <1>7 DEF Emits, output
  <2> QED BY <1>3, <1>5, <1>6, <2>1 DEF t
<1>8. CASE swing \/ turn
  <2>1. anchor # Unset \/ dir # 0
    BY <1>8
  <2>2. /\ b \in BarType /\ b.id = NewId(t.ts)
        /\ b.from \in {anchor, t.price} /\ b.to \in {anchor, t.price}
        /\ b.lo = Least(b.from, b.to) /\ b.hi = Largest(b.from, b.to)
    <3>1. \A x \in {anchor, t.price} : \A y \in {anchor, t.price} :
            Least(x, y) \in Int /\ Largest(x, y) \in Int /\ x \in Int
      BY <1>1, <1>2 DEF Least, Largest
    <3>2. CASE swing
      <4>1. b = Span(NewId(t.ts), anchor, t.price, 0)
        BY <3>2
      <4> HIDE DEF b
      <4> QED BY <1>4, <3>1, <4>1 DEF Span, BarType
    <3>3. CASE ~swing
      <4>1. b = Span(NewId(t.ts), t.price, anchor, 0)
        BY <3>3
      <4> HIDE DEF b
      <4> QED BY <1>4, <3>1, <4>1 DEF Span, BarType
    <3> QED BY <3>2, <3>3
  <2> HIDE DEF swing, turn, b
  <2>3. Emit(b) /\ lastId' = NewId(t.ts)
    BY <1>3, <1>8 DEF Emits
  <2> QED BY <1>3, <1>5, <1>6, <2>1, <2>2, <2>3 DEF t
<1> QED BY <1>7, <1>8

\* The segments of a kagi chart.
LEMMA FoldSegmentShape ==
  ASSUME Shape, Fold, FoldSegment(Head(pending))
  PROVE  Shape'
<1> DEFINE t == Head(pending)
<1>0. Typed /\ pending # <<>> /\ Columns
  BY FoldIs DEF Shape
<1>1. t.ts \in Nat /\ t.price \in Nat
  BY <1>0, HandIs
<1>2. /\ kind = "kagi" /\ UNCHANGED <<cur, acc, lines>> /\ dir' \in {-1, 0, 1}
      /\ anchor' = t.price \/ anchor' = anchor
      /\ \/ UNCHANGED <<ring, chart, lastId>>
         \/ lastId' = NewId(t.ts) /\ \E b \in BarType : Emit(b)
  BY FoldSegmentIs
<1> HIDE DEF t
<1>3. /\ ring \in Seq(BarType) /\ Len(ring) <= Capacity /\ chart \in Seq(BarType) /\ lastId \in 0 .. MaxId
      /\ anchor \in Int /\ cur \in BarType /\ acc \in Nat /\ lines \in Seq(BarType)
      /\ Len(lines) <= LinesBack
  BY <1>0 DEF Typed
<1>4. /\ ring' \in Seq(BarType) /\ Len(ring') <= Capacity /\ chart' \in Seq(BarType)
      /\ lastId' \in 0 .. MaxId
  <2>1. NewId(t.ts) \in 0 .. MaxId
    BY <1>1, <1>3, NewIdIs
  <2>2. CASE UNCHANGED <<ring, chart, lastId>>
    BY <1>3, <2>2
  <2>3. CASE lastId' = NewId(t.ts) /\ \E b \in BarType : Emit(b)
    <3>1. PICK b \in BarType : Emit(b)
      BY <2>3
    <3>2. ring' \in Seq(BarType) /\ Len(ring') <= Capacity /\ chart' \in Seq(BarType)
      BY <1>3, <3>1, EmitIs
    <3> QED BY <2>1, <2>3, <3>2
  <2> QED BY <1>2, <2>2, <2>3
<1>5. anchor' \in Int
  BY <1>1, <1>2, <1>3
<1>6. cur.id <= MaxId
  BY <1>0, <1>2 DEF Columns
<1> QED BY <1>2, <1>3, <1>4, <1>5, <1>6, FoldGoesOn

\* The line that the trade would end.
TheLine == Span(NewId(cur.id), cur.from, Head(pending).price, acc + Head(pending).vol)

\* Three line break: a trade beyond the lines kept ends the line that forms, any other is
\* only added to it.
LEMMA FoldLineIs ==
  ASSUME Shape, Fold, FoldLine(Head(pending))
  PROVE  LET t == Head(pending)
         IN  /\ kind = "tlb" /\ UNCHANGED <<anchor, dir>>
             /\ TheLine \in BarType /\ TheLine.id = NewId(cur.id) /\ TheLine.id \in 0 .. MaxId
             /\ TheLine.from = cur.from /\ TheLine.to = t.price /\ TheLine.vol = acc + t.vol
             /\ TheLine.lo = Least(cur.from, t.price) /\ TheLine.hi = Largest(cur.from, t.price)
             /\ \/ /\ cur # NoBar /\ Emit(TheLine) /\ lastId' = TheLine.id /\ acc' = 0
                   /\ lines' = LastLines(Append(lines, TheLine))
                   /\ cur' = [NoBar EXCEPT !.id = t.ts, !.from = t.price]
                   /\ lines # <<>> => \/ \A i \in DOMAIN lines : t.price > lines[i].hi
                                      \/ \A i \in DOMAIN lines : t.price < lines[i].lo
                \/ /\ UNCHANGED <<ring, chart, lastId, lines>> /\ acc' = acc + t.vol
                   /\ cur' = IF cur = NoBar THEN [NoBar EXCEPT !.id = t.ts, !.from = t.price] ELSE cur
<1> DEFINE t == Head(pending)
           breaks == /\ cur # NoBar
                     /\ IF lines = <<>> THEN t.price # cur.from
                        ELSE \/ \A i \in DOMAIN lines : t.price > lines[i].hi
                             \/ \A i \in DOMAIN lines : t.price < lines[i].lo
           line == Span(NewId(cur.id), cur.from, t.price, acc + t.vol)
<1>0. Typed /\ pending # <<>>
  BY FoldIs DEF Shape
<1>1. t \in TradeType /\ t.ts \in Nat /\ t.vol \in Nat /\ t.price \in Nat
  BY <1>0, HandIs
<1>2. cur \in BarType /\ acc \in Nat /\ lastId \in 0 .. MaxId
  BY <1>0 DEF Typed
<1>3. cur.id \in Nat /\ cur.from \in Int
  BY <1>2, BarIs
<1>4. /\ kind = "tlb" /\ UNCHANGED <<anchor, dir>>
      /\ cur' = IF breaks \/ cur = NoBar THEN [NoBar EXCEPT !.id = t.ts, !.from = t.price] ELSE cur
      /\ acc' = IF breaks THEN 0 ELSE acc + t.vol
      /\ lines' = IF breaks THEN LastLines(Append(lines, line)) ELSE lines
      /\ lastId' = IF breaks THEN line.id ELSE lastId
      /\ Emits(line, breaks)
  BY DEF FoldLine
<1>5. line = TheLine
  BY DEF TheLine
<1>6. breaks => /\ cur # NoBar
                /\ lines # <<>> => \/ \A i \in DOMAIN lines : t.price > lines[i].hi
                                   \/ \A i \in DOMAIN lines : t.price < lines[i].lo
  OBVIOUS
<1> HIDE DEF t, breaks, line
<1>7. NewId(cur.id) \in 0 .. MaxId /\ NewId(cur.id) \in Nat
  BY <1>2, <1>3, NewIdIs
<1>8. /\ line \in BarType /\ line.id = NewId(cur.id) /\ line.from = cur.from /\ line.to = t.price
      /\ line.vol = acc + t.vol
      /\ line.lo = Least(cur.from, t.price) /\ line.hi = Largest(cur.from, t.price)
  <2>1. Least(cur.from, t.price) \in Int /\ Largest(cur.from, t.price) \in Int
    BY <1>1, <1>3 DEF Least, Largest
  <2>2. acc + t.vol \in Nat
    BY <1>1, <1>2
  <2> QED BY <1>1, <1>3, <1>7, <2>1, <2>2 DEF line, Span, BarType
<1>9. CASE breaks
  <2>1. /\ cur # NoBar /\ Emit(line) /\ lastId' = line.id /\ acc' = 0
        /\ lines' = LastLines(Append(lines, line))
        /\ cur' = [NoBar EXCEPT !.id = t.ts, !.from = t.price]
    BY <1>4, <1>6, <1>9 DEF Emits
  <2> QED BY <1>4, <1>5, <1>6, <1>7, <1>8, <1>9, <2>1 DEF t
<1>10. CASE ~breaks
  <2>1. /\ UNCHANGED <<ring, chart, lastId, lines>> /\ acc' = acc + t.vol
        /\ cur' = IF cur = NoBar THEN [NoBar EXCEPT !.id = t.ts, !.from = t.price] ELSE cur
    BY <1>4, <1>10 DEF Emits, output
  <2> QED BY <1>4, <1>5, <1>7, <1>8, <2>1 DEF t
<1> QED BY <1>9, <1>10

\* The lines kept are the last ones, with the new one at the end.
LEMMA LastLinesIs ==
  ASSUME lines \in Seq(BarType), Len(lines) <= LinesBack, NEW b \in BarType
  PROVE  LET q == LastLines(Append(lines, b))
             k == IF Len(lines) = LinesBack THEN 1 ELSE 0
         IN  /\ q \in Seq(BarType) /\ Len(q) <= LinesBack /\ Len(q) = Len(lines) - k + 1
             /\ q[Len(q)] = b
             /\ \A i \in 1 .. Len(q) - 1 : q[i] = lines[i + k]
<1> DEFINE s == Append(lines, b)
<1>1. /\ s \in Seq(BarType) /\ Len(s) = Len(lines) + 1 /\ s[Len(lines) + 1] = b
      /\ \A i \in 1 .. Len(lines) : s[i] = lines[i]
      /\ Len(lines) \in Nat
  OBVIOUS
<1> HIDE DEF s
<1>2. CASE Len(lines) = LinesBack
  <2>1. LastLines(s) = Tail(s)
    BY <1>1, <1>2 DEF LastLines
  <2>2. /\ Tail(s) \in Seq(BarType) /\ Len(Tail(s)) = Len(lines)
        /\ \A i \in 1 .. Len(lines) : Tail(s)[i] = s[i + 1]
    BY <1>1
  <2> QED BY <1>1, <1>2, <2>1, <2>2 DEF s
<1>3. CASE Len(lines) # LinesBack
  <2>1. LastLines(s) = s
    BY <1>1, <1>3 DEF LastLines
  <2> QED BY <1>1, <1>3, <2>1 DEF s
<1> QED BY <1>2, <1>3

\* The lines of a three line break chart.
LEMMA FoldLineShape ==
  ASSUME Shape, Fold, FoldLine(Head(pending))
  PROVE  Shape'
<1> DEFINE t == Head(pending)
           new == [NoBar EXCEPT !.id = t.ts, !.from = t.price]
<1>0. Typed /\ pending # <<>>
  BY FoldIs DEF Shape
<1>1. t.ts \in Nat /\ t.price \in Nat /\ t.vol \in Nat
  BY <1>0, HandIs
<1>2. /\ kind = "tlb" /\ UNCHANGED <<anchor, dir>> /\ TheLine \in BarType /\ TheLine.id \in 0 .. MaxId
      /\ \/ /\ Emit(TheLine) /\ lastId' = TheLine.id /\ acc' = 0 /\ cur' = new
            /\ lines' = LastLines(Append(lines, TheLine))
         \/ /\ UNCHANGED <<ring, chart, lastId, lines>> /\ acc' = acc + t.vol
            /\ cur' = IF cur = NoBar THEN new ELSE cur
  BY FoldLineIs
<1>3. new \in BarType
  <2>1. NoBar \in BarType
    BY DEF NoBar, BarType
  <2> HIDE DEF t
  <2>2. t.ts \in Nat /\ t.price \in Int
    BY <1>1
  <2> QED BY <2>1, <2>2 DEF BarType
<1> HIDE DEF t, new
<1>4. /\ ring \in Seq(BarType) /\ Len(ring) <= Capacity /\ chart \in Seq(BarType) /\ lastId \in 0 .. MaxId
      /\ anchor \in Int /\ cur \in BarType /\ acc \in Nat /\ lines \in Seq(BarType)
      /\ Len(lines) <= LinesBack /\ dir \in {-1, 0, 1}
  BY <1>0 DEF Typed
<1>5. CASE /\ Emit(TheLine) /\ lastId' = TheLine.id /\ acc' = 0 /\ cur' = new
           /\ lines' = LastLines(Append(lines, TheLine))
  <2>1. ring' \in Seq(BarType) /\ Len(ring') <= Capacity /\ chart' \in Seq(BarType)
    BY <1>2, <1>4, <1>5, EmitIs
  <2>2. lines' \in Seq(BarType) /\ Len(lines') <= LinesBack
    BY <1>2, <1>4, <1>5, LastLinesIs
  <2>3. acc' \in Nat /\ lastId' \in 0 .. MaxId /\ cur' \in BarType
    BY <1>2, <1>3, <1>5
  <2> QED BY <1>2, <1>4, <2>1, <2>2, <2>3, FoldGoesOn
<1>6. CASE /\ UNCHANGED <<ring, chart, lastId, lines>> /\ acc' = acc + t.vol
           /\ cur' = IF cur = NoBar THEN new ELSE cur
  <2>1. acc' \in Nat /\ cur' \in BarType
    BY <1>1, <1>3, <1>4, <1>6
  <2> QED BY <1>2, <1>4, <1>6, <2>1, FoldGoesOn
<1> QED BY <1>2, <1>5, <1>6

\* The fold of a trade, whatever the kind.
LEMMA FoldShape == Shape /\ Fold => Shape'
BY FoldIs, FoldBarShape, FoldColumnShape, FoldSegmentShape, FoldLineShape

-----------------------------------------------------------------------------
(* Renko: one brick after the other.                                         *)

\* The loop takes the trade in hand; the first one sets the grid.
LEMMA EnterIs ==
  ASSUME Shape, RenkoEnter
  PROVE  LET t == Head(pending)
         IN  /\ pc = "run" /\ pending # <<>> /\ kind = "renko" /\ pc' = "loop"
             /\ anchor' = IF anchor = Unset THEN Floor(t.price) ELSE anchor
             /\ anchor' \in Int /\ acc' = acc + t.vol /\ acc' \in Nat /\ out' = NoBar
             /\ UNCHANGED <<kind, tape, seeded, pos, pending, base, cur, lastId, dir, lines, ring, chart,
                            hi, owed, folded, late>>
<1> DEFINE t == Head(pending)
<1>1. /\ pc = "run" /\ pending # <<>> /\ kind = "renko" /\ pc' = "loop"
      /\ anchor' = IF anchor = Unset THEN Floor(t.price) ELSE anchor
      /\ acc' = acc + t.vol /\ out' = NoBar
      /\ UNCHANGED <<kind, tape, seeded, pos, pending, base, cur, lastId, dir, lines, ring, chart,
                     hi, owed, folded, late>>
  BY DEF RenkoEnter, output, history
<1>2. t.vol \in Nat /\ t.price \in Int
  BY <1>1, HandIs
<1>3. anchor \in Int /\ acc \in Nat
  BY DEF Shape, Typed
<1> HIDE DEF t
<1>4. Floor(t.price) \in Int
  BY <1>2, FloorIs
<1>5. anchor' \in Int /\ acc' \in Nat
  BY <1>1, <1>2, <1>3, <1>4
<1> QED BY <1>1, <1>5 DEF t

\* The way of a brick: the price has reached its end, and a turn needs Reversal boxes.
LEMMA BrickWayIs ==
  ASSUME Shape, NEW p \in Int
  PROVE  /\ BrickWay(p) \in {-1, 0, 1}
         /\ BrickWay(p) = 1 => p >= anchor + Box /\ (dir = -1 => p - anchor >= Box * Reversal)
         /\ BrickWay(p) = -1 => p <= anchor - Box /\ (dir = 1 => anchor - p >= Box * Reversal)
         /\ BrickWay(p) = 0 =>
              \/ p < anchor + Box /\ p > anchor - Box
              \/ p >= anchor + Box /\ dir = -1 /\ p - anchor < Box * Reversal
              \/ p <= anchor - Box /\ dir = 1 /\ anchor - p < Box * Reversal
<1>1. anchor \in Int /\ dir \in {-1, 0, 1}
  BY DEF Shape, Typed
<1>2. Box \in Int /\ Box >= 1 /\ Box * Reversal \in Int
  BY ReversalIs
<1> DEFINE R == Box * Reversal
           way == IF p >= anchor + Box THEN 1 ELSE IF p <= anchor - Box THEN -1 ELSE 0
<1>3. BrickWay(p) = IF way # 0 /\ dir = -way /\ way * (p - anchor) < R THEN 0 ELSE way
  BY DEF BrickWay
<1>4. R \in Int
  BY <1>2
<1> HIDE DEF R
<1>5. CASE p >= anchor + Box
  <2>1. way = 1
    BY <1>5
  <2> HIDE DEF way
  <2> QED BY <1>1, <1>2, <1>3, <1>4, <1>5, <2>1 DEF R
<1>6. CASE p <= anchor - Box
  <2>1. way = -1
    BY <1>1, <1>2, <1>6
  <2> HIDE DEF way
  <2>2. way * (p - anchor) = anchor - p
    BY <1>1, <2>1
  <2> QED BY <1>1, <1>2, <1>3, <1>4, <1>6, <2>1, <2>2 DEF R
<1>7. CASE p < anchor + Box /\ p > anchor - Box
  <2>1. way = 0
    BY <1>1, <1>2, <1>7
  <2> HIDE DEF way
  <2> QED BY <1>1, <1>2, <1>3, <1>4, <1>7, <2>1 DEF R
<1> QED BY <1>1, <1>2, <1>5, <1>6, <1>7

\* One brick, from its foot one box on.
LEMMA BrickIs ==
  ASSUME Shape, RenkoBrick
  PROVE  LET t == Head(pending)
             way == BrickWay(t.price)
             foot == anchor + (IF dir = -way THEN way * Box ELSE 0)
         IN  /\ pc = "loop" /\ kind = "renko" /\ pending # <<>> /\ t.price \in Int /\ t.ts \in Nat
             /\ way \in {-1, 1} /\ foot \in Int /\ dir' = way
             /\ out' \in BarType /\ out'.id = NewId(t.ts) /\ out'.from = foot /\ out'.to = anchor'
             /\ out'.vol = acc /\ anchor' = foot + way * Box /\ anchor' \in Int
             /\ out'.lo = Least(foot, anchor') /\ out'.hi = Largest(foot, anchor')
             /\ acc' = 0 /\ lastId' = NewId(t.ts) /\ lastId' \in 0 .. MaxId
             /\ UNCHANGED <<kind, tape, pc, seeded, pos, pending, base, cur, lines, ring, chart,
                            hi, owed, folded, late>>
<1> DEFINE t == Head(pending)
           way == BrickWay(t.price)
           foot == anchor + (IF dir = -way THEN way * Box ELSE 0)
<1>1. /\ pc = "loop" /\ way # 0
      /\ out' = Span(NewId(t.ts), foot, foot + way * Box, acc)
      /\ anchor' = foot + way * Box /\ dir' = way
      /\ acc' = 0 /\ lastId' = out'.id
      /\ UNCHANGED <<kind, tape, pc, seeded, pos, pending, base, cur, lines, ring, chart,
                     hi, owed, folded, late>>
  BY DEF RenkoBrick, output, history
<1>2. kind = "renko" /\ pending # <<>> /\ Typed
  BY <1>1 DEF Shape, Looping
<1>3. t.price \in Int /\ t.ts \in Nat
  BY <1>2, HandIs
<1> HIDE DEF t
<1>4. way \in {-1, 1}
  BY <1>1, <1>3, BrickWayIs
<1>5. NewId(t.ts) \in 0 .. MaxId /\ anchor \in Int /\ acc \in Nat
  BY <1>2, <1>3, NewIdIs DEF Typed
<1> HIDE DEF way
<1>6. way * Box \in Int
  BY <1>4
<1>7. foot \in Int
  BY <1>5, <1>6
<1> HIDE DEF foot
<1>8. anchor' \in Int
  BY <1>1, <1>6, <1>7
<1>9. /\ out' \in BarType /\ out'.id = NewId(t.ts) /\ out'.from = foot /\ out'.to = anchor'
      /\ out'.vol = acc /\ out'.lo = Least(foot, anchor') /\ out'.hi = Largest(foot, anchor')
  <2>1. out' = Span(NewId(t.ts), foot, anchor', acc)
    BY <1>1
  <2>2. Least(foot, anchor') \in Int /\ Largest(foot, anchor') \in Int
    BY <1>7, <1>8 DEF Least, Largest
  <2>3. NewId(t.ts) \in Nat
    BY <1>5
  <2> QED BY <1>5, <1>7, <1>8, <2>1, <2>2, <2>3 DEF Span, BarType
<1> QED BY <1>1, <1>2, <1>3, <1>4, <1>5, <1>7, <1>8, <1>9 DEF t, way, foot

\* The loop ends: the last brick is sent, if there was one.
LEMMA LeaveIs ==
  ASSUME Shape, RenkoLeave
  PROVE  /\ pc = "loop" /\ kind = "renko" /\ pending # <<>> /\ BrickWay(Head(pending).price) = 0
         /\ Head(pending).price \in Int
         /\ pc' = "run" /\ pending' = Tail(pending) /\ pending' \in Seq(TradeType)
         /\ \/ out # NoBar /\ Emit(out)
            \/ out = NoBar /\ UNCHANGED <<ring, chart>>
         /\ ring' \in Seq(BarType) /\ Len(ring') <= Capacity /\ chart' \in Seq(BarType)
         /\ UNCHANGED <<kind, tape, seeded, pos, base, cur, lastId, anchor, dir, acc, lines, out,
                        hi, owed, folded, late>>
<1>1. /\ pc = "loop" /\ BrickWay(Head(pending).price) = 0 /\ pc' = "run" /\ pending' = Tail(pending)
      /\ Emits(out, out # NoBar)
      /\ UNCHANGED <<kind, tape, seeded, pos, base, cur, lastId, anchor, dir, acc, lines, out,
                     hi, owed, folded, late>>
  BY DEF RenkoLeave, builder, history
<1>2. kind = "renko" /\ pending # <<>> /\ Typed
  BY <1>1 DEF Shape, Looping
<1>3. pending' \in Seq(TradeType) /\ Head(pending).price \in Int
  BY <1>1, <1>2, HandIs
<1>4. ring \in Seq(BarType) /\ Len(ring) <= Capacity /\ chart \in Seq(BarType) /\ out \in BarType
  BY <1>2 DEF Typed
<1>5. CASE out # NoBar
  <2>1. Emit(out)
    BY <1>1, <1>5 DEF Emits
  <2>2. ring' \in Seq(BarType) /\ Len(ring') <= Capacity /\ chart' \in Seq(BarType)
    BY <1>4, <2>1, EmitIs
  <2> QED BY <1>1, <1>2, <1>3, <1>5, <2>1, <2>2
<1>6. CASE out = NoBar
  <2>1. UNCHANGED <<ring, chart>>
    BY <1>1, <1>6 DEF Emits, output
  <2> QED BY <1>1, <1>2, <1>3, <1>4, <1>6, <2>1
<1> QED BY <1>5, <1>6

\* The steps of the renko loop keep the shape.
LEMMA RenkoShape == Shape /\ (RenkoEnter \/ RenkoBrick \/ RenkoLeave) => Shape'
<1> SUFFICES ASSUME Shape, RenkoEnter \/ RenkoBrick \/ RenkoLeave PROVE Shape'
  OBVIOUS
<1>1. Typed /\ Columns /\ Offsets
  BY DEF Shape
<1>2. NoBar \in BarType
  BY DEF NoBar, BarType
<1>3. /\ pos \in pos .. Len(tape) + 1 /\ pending \in Seq(TradeType) /\ base \in BaseType
      /\ base.off = 0 \/ base.off < pos
      /\ cur \in BarType /\ out \in BarType /\ lastId \in 0 .. MaxId /\ anchor \in Int
      /\ dir \in {-1, 0, 1} /\ acc \in Nat /\ lines \in Seq(BarType) /\ Len(lines) <= LinesBack
      /\ ring \in Seq(BarType) /\ Len(ring) <= Capacity /\ chart \in Seq(BarType)
      /\ kind # "tlb" => cur.id <= MaxId
      /\ hi \in 0 .. Len(tape) /\ owed \in Nat /\ folded \in Nat
  BY <1>1 DEF Typed, Columns, Offsets
<1>4. ASSUME UNCHANGED <<seeded, late>> PROVE seeded' \in BOOLEAN /\ late' \in BOOLEAN
  BY <1>1, <1>4, Zenon DEF Typed
<1>5. CASE RenkoEnter
  <2>1. /\ pc = "run" /\ pending # <<>> /\ kind = "renko" /\ pc' = "loop"
        /\ anchor' \in Int /\ acc' \in Nat /\ out' = NoBar
        /\ UNCHANGED <<kind, tape, seeded, pos, pending, base, cur, lastId, dir, lines, ring, chart,
                       hi, owed, folded, late>>
    BY <1>5, EnterIs
  <2>2. seeded' \in BOOLEAN /\ late' \in BOOLEAN
    BY <1>4, <2>1
  <2> QED BY <1>2, <1>3, <2>1, <2>2, GoOn
<1>6. CASE RenkoBrick
  <2>1. /\ pc = "loop" /\ kind = "renko" /\ pending # <<>> /\ out' \in BarType
        /\ anchor' \in Int /\ acc' = 0 /\ lastId' \in 0 .. MaxId /\ dir' \in {-1, 0, 1}
        /\ UNCHANGED <<kind, tape, pc, seeded, pos, pending, base, cur, lines, ring, chart,
                       hi, owed, folded, late>>
    BY <1>6, BrickIs
  <2>2. seeded' \in BOOLEAN /\ late' \in BOOLEAN
    BY <1>4, <2>1
  <2>3. acc' \in Nat /\ pc' \in {"run", "loop"} /\ (pc' = "loop" => kind = "renko" /\ pending' # <<>>)
    BY <2>1
  <2> QED BY <1>2, <1>3, <2>1, <2>2, <2>3, GoOn
<1>7. CASE RenkoLeave
  <2>1. /\ pc = "loop" /\ pc' = "run" /\ pending' \in Seq(TradeType)
        /\ ring' \in Seq(BarType) /\ Len(ring') <= Capacity /\ chart' \in Seq(BarType)
        /\ UNCHANGED <<kind, tape, seeded, pos, base, cur, lastId, anchor, dir, acc, lines, out,
                       hi, owed, folded, late>>
    BY <1>7, LeaveIs
  <2>2. seeded' \in BOOLEAN /\ late' \in BOOLEAN
    BY <1>4, <2>1
  <2> QED BY <1>3, <2>1, <2>2, GoOn
<1> QED BY <1>5, <1>6, <1>7

\* A step that leaves every variable alone.
LEMMA StutterShape == Shape /\ UNCHANGED vars => Shape'
<1> SUFFICES ASSUME Shape, UNCHANGED vars PROVE Shape'
  OBVIOUS
<1>1. UNCHANGED <<kind, tape, pc, seeded, pos, pending, base, cur, lastId, anchor, dir, acc, lines, out,
                  ring, chart, hi, owed, folded, late>>
  BY DEF vars, builder, output, history
<1>2. Typed' /\ Steady' /\ Fresh' /\ Looping' /\ Columns' /\ Offsets'
  <2>1. Typed'
    BY <1>1, Zenon DEF Shape, Typed
  <2>2. Fresh'
    BY <1>1, Zenon DEF Shape, Fresh
  <2> QED BY <1>1, <2>1, <2>2 DEF Shape, Steady, Looping, Columns, Offsets
<1> QED BY <1>2 DEF Shape

\* Every step keeps the shape.
LEMMA ShapeStep == Shape /\ [Next]_vars => Shape'
BY TradeShape, SubscribeShape, FetchShape, NoFetchShape, ReceiveShape, FoldShape, RenkoShape, StutterShape,
   Zenon DEF Next, Forwarder

\* The shape is that of every state.
THEOREM ShapeHolds == Spec => []Shape
<1>1. Init => Shape
  BY ShapeInit
<1>2. Shape /\ [Next]_vars => Shape'
  BY ShapeStep
<1> QED BY <1>1, <1>2, PTL DEF Spec

\* The fields of every state have their types.
THEOREM DerivedTypeCorrect == Spec => []TypeOK
<1>1. Shape => TypeOK
  <2> SUFFICES ASSUME Shape PROVE TypeOK
    OBVIOUS
  <2>1. Typed /\ Offsets
    BY DEF Shape
  <2>2. tape \in Seq([min : Nat \ {0}, price : Prices]) /\ Len(tape) \in Nat
    BY <2>1 DEF Typed, TapeType
  <2>3. \A i \in DOMAIN pending : pending[i].ts \in Nat /\ pending[i].price \in Prices
    <3>1. \A i \in DOMAIN pending : pending[i] \in TradeType
      BY <2>1 DEF Typed
    <3> QED BY <3>1 DEF TradeType
  <2>4. base.off \in 0 .. MaxTape
    <3>1. base.off \in Nat
      BY <2>1 DEF Typed, BaseType
    <3> QED BY <2>1, <2>2, <3>1 DEF Typed, Offsets
  <2> QED BY <2>1, <2>2, <2>3, <2>4, Zenon DEF Typed, TypeOK
<1> QED BY <1>1, ShapeHolds, PTL

-----------------------------------------------------------------------------
(* Open times: what is sent is newer than the chart, or replaces its end.    *)

\* The open time of the newest bar of the chart is not above last_emitted_open_time.
Newest == kind # "pnf" /\ chart # <<>> => Last(chart).id <= lastId

\* The bar that is open is the newest of the chart.
OpenIsLast ==
  kind \in {"range", "volume", "dollar"} /\ cur # NoBar => chart # <<>> /\ Last(chart) = cur

\* The brick that the loop will send is newer than the chart.
BrickIsNewer ==
  pc = "loop" /\ out # NoBar => out.id = lastId /\ (chart # <<>> => Last(chart).id < lastId)

Told == Newest /\ OpenIsLast /\ BrickIsNewer

\* The newest bar of a chart.
LEMMA LastIs ==
  ASSUME NEW s \in Seq(BarType), s # <<>>
  PROVE  /\ Last(s) \in BarType /\ Last(s) = s[Len(s)] /\ Len(s) \in DOMAIN s /\ Last(s).id \in Nat
         /\ Len(s) \in Nat /\ Len(s) >= 1
<1>1. Len(s) \in DOMAIN s /\ s[Len(s)] \in BarType /\ Last(s) = s[Len(s)] /\ Len(s) \in Nat /\ Len(s) >= 1
  BY DEF Last
<1> QED BY <1>1, BarIs

\* A bar that is sent is the newest of the chart; a newer one comes on top.
LEMMA EmitEnds ==
  ASSUME NEW b \in BarType, Emit(b), chart \in Seq(BarType)
  PROVE  /\ chart' \in Seq(BarType) /\ chart' # <<>> /\ Last(chart') = b
         /\ (chart # <<>> => Last(chart).id < b.id) => chart' = Append(chart, b)
         /\ chart # <<>> /\ Last(chart).id = b.id => chart' = [chart EXCEPT ![Len(chart)] = b]
<1>1. b.id \in Int
  BY BarIs
<1>2. CASE chart # <<>> /\ Last(chart).id = b.id
  <2>1. chart' = [chart EXCEPT ![Len(chart)] = b]
    BY <1>2 DEF Emit
  <2>2. chart' \in Seq(BarType) /\ Len(chart') = Len(chart) /\ chart'[Len(chart)] = b /\ Len(chart) # 0
    BY <1>2, <2>1, LastIs
  <2>3. chart' # <<>> /\ Last(chart') = b
    BY <2>2 DEF Last
  <2>4. ~(chart # <<>> => Last(chart).id < b.id)
    BY <1>1, <1>2
  <2> QED BY <2>1, <2>2, <2>3, <2>4
<1>3. CASE ~(chart # <<>> /\ Last(chart).id = b.id)
  <2>1. chart' = Append(chart, b)
    BY <1>3 DEF Emit
  <2>2. chart' \in Seq(BarType) /\ chart' # <<>> /\ chart'[Len(chart')] = b
    BY <2>1
  <2> QED BY <1>3, <2>1, <2>2 DEF Last
<1> QED BY <1>2, <1>3

\* A trade folded into a range, volume or dollar bar.
LEMMA FoldBarIs ==
  ASSUME Shape, Fold, FoldBar(Head(pending))
  PROVE  LET t == Head(pending)
             b == NextBar(t)
         IN  /\ kind \in {"range", "volume", "dollar"} /\ Emit(b) /\ lastId' = Largest(lastId, b.id)
             /\ cur' \in {NoBar, b} /\ b \in BarType /\ b.id \in 0 .. MaxId
             /\ \/ /\ b.id = NewId(t.ts) /\ b.from = t.price /\ b.to = t.price /\ b.lo = t.price
                   /\ b.hi = t.price /\ b.vol = t.vol
                \/ /\ cur # NoBar /\ b.id = cur.id /\ b.from = cur.from /\ b.to = t.price
                   /\ b.lo = Least(cur.lo, t.price) /\ b.hi = Largest(cur.hi, t.price)
                   /\ b.vol = cur.vol + t.vol
<1> DEFINE t == Head(pending)
           b == NextBar(t)
<1>0. Typed /\ pending # <<>>
  BY FoldIs DEF Shape
<1>1. t \in TradeType /\ t.ts \in Nat /\ t.vol \in Nat /\ t.price \in Nat
  BY <1>0, HandIs
<1>2. kind \in {"range", "volume", "dollar"} /\ Emit(b) /\ lastId' = Largest(lastId, b.id) /\ kind # "tlb"
  BY DEF FoldBar
<1> HIDE DEF t
<1>3. /\ b \in BarType /\ b.id \in 0 .. MaxId
      /\ \/ /\ b.id = NewId(t.ts) /\ b.from = t.price /\ b.to = t.price /\ b.lo = t.price
            /\ b.hi = t.price /\ b.vol = t.vol
         \/ /\ cur # NoBar /\ b.id = cur.id /\ b.from = cur.from /\ b.to = t.price
            /\ b.lo = Least(cur.lo, t.price) /\ b.hi = Largest(cur.hi, t.price)
            /\ b.vol = cur.vol + t.vol
  BY <1>1, <1>2, NextBarIs
<1>4. cur' \in {NoBar, b}
  <2> DEFINE full == kind # "range" /\ acc + (IF kind = "dollar" THEN t.price * t.vol ELSE t.vol) >= Threshold
  <2>1. cur' = IF full THEN NoBar ELSE b
    BY DEF FoldBar, t
  <2> HIDE DEF full, b
  <2> QED BY <2>1
<1> QED BY <1>2, <1>3, <1>4 DEF t

\* A forwarder keeps its kind.
LEMMA KindStays == [Next]_vars => kind' = kind
<1>1. Trade \/ Subscribe \/ Fetch \/ NoFetch \/ SeedDone \/ Receive => kind' = kind
  BY DEF Trade, Subscribe, Fetch, NoFetch, SeedDone, Receive
<1>2. Fold \/ RenkoEnter \/ RenkoBrick \/ RenkoLeave => kind' = kind
  BY DEF Fold, RenkoEnter, RenkoBrick, RenkoLeave
<1>3. UNCHANGED vars => kind' = kind
  BY DEF vars
<1> QED BY <1>1, <1>2, <1>3 DEF Next, Forwarder

\* Open times do not go back.
LEMMA IdsGrow ==
  ASSUME Shape, [Next]_vars, kind # "pnf"
  PROVE  lastId' >= lastId /\ lastId \in Int /\ lastId' \in Int
<1>1. lastId \in 0 .. MaxId
  BY DEF Shape, Typed
<1>2. ASSUME pending # <<>> PROVE Head(pending).ts \in Nat /\ NewId(Head(pending).ts) >= lastId
                                  /\ NewId(Head(pending).ts) \in Int
  <2>1. Head(pending).ts \in Nat
    BY <1>2, HandIs
  <2> QED BY <1>1, <2>1, NewIdIs
<1>3. CASE Fold
  <2>1. pending # <<>>
    BY <1>3, FoldIs
  <2>2. CASE FoldBar(Head(pending))
    <3>1. lastId' = Largest(lastId, NextBar(Head(pending)).id) /\ NextBar(Head(pending)).id \in 0 .. MaxId
      BY <1>3, <2>2, FoldBarIs
    <3> QED BY <1>1, <3>1 DEF Largest
  <2>3. CASE FoldColumn(Head(pending))
    BY <1>3, <2>3, FoldColumnIs
  <2>4. CASE FoldSegment(Head(pending))
    <3>1. lastId' = lastId \/ lastId' = NewId(Head(pending).ts)
      BY <1>3, <2>4, FoldSegmentIs
    <3> QED BY <1>1, <1>2, <2>1, <3>1
  <2>5. CASE FoldLine(Head(pending))
    <3>1. lastId' = lastId \/ lastId' = NewId(cur.id)
      BY <1>3, <2>5, FoldLineIs
    <3>2. cur.id \in Nat
      BY BarIs DEF Shape, Typed
    <3>3. NewId(cur.id) >= lastId /\ NewId(cur.id) \in Int
      BY <1>1, <3>2, NewIdIs
    <3> QED BY <1>1, <3>1, <3>3
  <2> QED BY <1>3, <2>2, <2>3, <2>4, <2>5, FoldIs
<1>4. CASE RenkoBrick
  BY <1>1, <1>2, <1>4, BrickIs
<1>5. CASE ~Fold /\ ~RenkoBrick
  <2>1. lastId' = lastId
    BY <1>5 DEF Next, Forwarder, Trade, Subscribe, Fetch, NoFetch, SeedDone, Receive, RenkoEnter, RenkoLeave,
                builder, vars
  <2> QED BY <1>1, <2>1
<1> QED BY <1>3, <1>4, <1>5

\* A step that tells nobody and opens nothing keeps what was told.
LEMMA QuietTold ==
  ASSUME Told, UNCHANGED <<kind, chart, lastId, cur, out>>, pc' = "loop" => pc = "loop"
  PROVE  Told'
BY DEF Told, Newest, OpenIsLast, BrickIsNewer

\* A range, volume or dollar bar is told as it grows, and a new one comes on top.
LEMMA FoldBarTold ==
  ASSUME Shape, Told, Fold, FoldBar(Head(pending)), lastId' < MaxId
  PROVE  /\ Told'
         /\ LET t == Head(pending)
                b == NextBar(t)
            IN  \/ chart' = Append(chart, b) /\ b.vol = t.vol
                \/ /\ chart # <<>> /\ Last(chart) = cur /\ b.vol = cur.vol + t.vol
                   /\ chart' = [chart EXCEPT ![Len(chart)] = b]
<1> DEFINE t == Head(pending)
           b == NextBar(t)
<1>0. /\ pending # <<>> /\ pc' = "run" /\ kind' = kind /\ chart \in Seq(BarType) /\ cur \in BarType
      /\ lastId \in 0 .. MaxId
  BY FoldIs DEF Shape, Typed
<1>1. t.ts \in Nat
  BY <1>0, HandIs
<1>2. /\ kind \in {"range", "volume", "dollar"} /\ Emit(b) /\ lastId' = Largest(lastId, b.id)
      /\ cur' \in {NoBar, b} /\ b \in BarType /\ b.id \in 0 .. MaxId
      /\ \/ b.id = NewId(t.ts) /\ b.vol = t.vol
         \/ cur # NoBar /\ b.id = cur.id /\ b.vol = cur.vol + t.vol
  BY FoldBarIs
<1> HIDE DEF t, b
<1>3. chart' \in Seq(BarType) /\ chart' # <<>> /\ Last(chart') = b
  BY <1>0, <1>2, EmitEnds
<1>4. lastId' >= b.id
  BY <1>0, <1>2 DEF Largest
<1>5. Told'
  BY <1>0, <1>2, <1>3, <1>4 DEF Told, Newest, OpenIsLast, BrickIsNewer
<1>6. CASE b.id = NewId(t.ts) /\ b.vol = t.vol
  <2>1. b.id > lastId
    <3>1. NewId(t.ts) < MaxId
      BY <1>0, <1>2, <1>4, <1>6 DEF Largest
    <3>2. NewId(t.ts) > lastId
      BY <1>0, <1>1, <3>1, NewIdIs
    <3> QED BY <1>6, <3>2
  <2>2. chart # <<>> => Last(chart).id < b.id
    <3>1. ASSUME chart # <<>> PROVE Last(chart).id <= lastId /\ Last(chart).id \in Int
      BY <1>0, <1>2, <3>1, LastIs DEF Told, Newest
    <3> QED BY <1>0, <1>2, <2>1, <3>1
  <2>3. chart' = Append(chart, b)
    BY <1>0, <1>2, <2>2, EmitEnds
  <2> QED BY <1>5, <1>6, <2>3 DEF t, b
<1>7. CASE cur # NoBar /\ b.id = cur.id /\ b.vol = cur.vol + t.vol
  <2>1. chart # <<>> /\ Last(chart) = cur
    BY <1>2, <1>7 DEF Told, OpenIsLast
  <2>2. chart' = [chart EXCEPT ![Len(chart)] = b]
    BY <1>0, <1>2, <1>7, <2>1, EmitEnds
  <2> QED BY <1>5, <1>7, <2>1, <2>2 DEF t, b
<1> QED BY <1>2, <1>6, <1>7

\* A line of a three-line-break chart comes on top of it.
LEMMA FoldLineTold ==
  ASSUME Shape, Told, Fold, FoldLine(Head(pending)), lastId' < MaxId
  PROVE  Told' /\ (chart' = chart \/ chart' = Append(chart, TheLine))
<1>0. /\ pc' = "run" /\ kind' = kind /\ chart \in Seq(BarType) /\ cur \in BarType
      /\ lastId \in 0 .. MaxId
  BY FoldIs DEF Shape, Typed
<1>1. /\ kind = "tlb" /\ TheLine \in BarType /\ TheLine.id = NewId(cur.id) /\ TheLine.id \in 0 .. MaxId
      /\ \/ Emit(TheLine) /\ lastId' = TheLine.id
         \/ UNCHANGED <<chart, lastId>>
  BY FoldLineIs
<1>2. CASE UNCHANGED <<chart, lastId>>
  <2>1. Told'
    BY <1>0, <1>1, <1>2 DEF Told, Newest, OpenIsLast, BrickIsNewer
  <2> QED BY <1>2, <2>1
<1>3. CASE Emit(TheLine) /\ lastId' = TheLine.id
  <2>1. chart' \in Seq(BarType) /\ chart' # <<>> /\ Last(chart') = TheLine
    BY <1>0, <1>1, <1>3, EmitEnds
  <2>2. TheLine.id > lastId
    <3>1. cur.id \in Nat
      BY <1>0, BarIs
    <3> QED BY <1>0, <1>1, <1>3, <3>1, NewIdIs
  <2>3. chart # <<>> => Last(chart).id < TheLine.id
    <3>1. ASSUME chart # <<>> PROVE Last(chart).id <= lastId /\ Last(chart).id \in Int
      BY <1>0, <1>1, <3>1, LastIs DEF Told, Newest
    <3> QED BY <1>0, <1>1, <2>2, <3>1
  <2>4. chart' = Append(chart, TheLine)
    BY <1>0, <1>1, <1>3, <2>3, EmitEnds
  <2>5. Told'
    BY <1>0, <1>1, <1>3, <2>1 DEF Told, Newest, OpenIsLast, BrickIsNewer
  <2> QED BY <2>4, <2>5
<1> QED BY <1>1, <1>2, <1>3

\* A segment of a kagi chart ends it too.
LEMMA FoldSegmentTold ==
  ASSUME Shape, Told, Fold, FoldSegment(Head(pending))
  PROVE  Told'
<1>0. pc' = "run" /\ kind' = kind /\ chart \in Seq(BarType) /\ lastId \in 0 .. MaxId /\ pending # <<>>
  BY FoldIs DEF Shape, Typed
<1>1. /\ kind = "kagi"
      /\ \/ UNCHANGED <<chart, lastId>>
         \/ /\ lastId' = NewId(Head(pending).ts)
            /\ \E b \in BarType : Emit(b) /\ b.id = NewId(Head(pending).ts)
  BY FoldSegmentIs
<1>2. CASE UNCHANGED <<chart, lastId>>
  BY <1>0, <1>1, <1>2 DEF Told, Newest, OpenIsLast, BrickIsNewer
<1>3. CASE /\ lastId' = NewId(Head(pending).ts)
           /\ \E b \in BarType : Emit(b) /\ b.id = NewId(Head(pending).ts)
  <2>1. PICK b \in BarType : Emit(b) /\ b.id = lastId'
    BY <1>3
  <2>2. chart' # <<>> /\ Last(chart') = b
    BY <1>0, <2>1, EmitEnds
  <2>3. b.id \in Int /\ Last(chart').id <= lastId'
    BY <2>1, <2>2, BarIs
  <2> QED BY <1>0, <1>1, <2>3 DEF Told, Newest, OpenIsLast, BrickIsNewer
<1> QED BY <1>1, <1>2, <1>3

\* The loop over the bricks: the last one made is newer than the chart.
LEMMA BrickTold ==
  ASSUME Shape, Told, RenkoBrick, lastId' < MaxId
  PROVE  Told' /\ lastId' > lastId
<1>0. chart \in Seq(BarType) /\ lastId \in 0 .. MaxId
  BY DEF Shape, Typed
<1>1. /\ kind = "renko" /\ Head(pending).ts \in Nat /\ out'.id = NewId(Head(pending).ts)
      /\ lastId' = NewId(Head(pending).ts) /\ lastId' \in 0 .. MaxId /\ UNCHANGED <<kind, chart, cur>>
  BY BrickIs
<1>2. lastId' > lastId
  BY <1>0, <1>1, NewIdIs
<1>3. ASSUME chart # <<>> PROVE Last(chart).id < lastId' /\ Last(chart).id <= lastId'
  <2>1. Last(chart).id <= lastId /\ Last(chart).id \in Int
    BY <1>0, <1>1, <1>3, LastIs DEF Told, Newest
  <2> QED BY <1>0, <1>1, <1>2, <2>1
<1>4. Newest' /\ OpenIsLast' /\ BrickIsNewer'
  BY <1>1, <1>3 DEF Newest, OpenIsLast, BrickIsNewer
<1> QED BY <1>2, <1>4 DEF Told

\* The brick that is sent comes on top of the chart.
LEMMA LeaveTold ==
  ASSUME Shape, Told, RenkoLeave
  PROVE  /\ Told'
         /\ \/ out = NoBar /\ chart' = chart
            \/ out # NoBar /\ chart' = Append(chart, out)
<1>0. chart \in Seq(BarType) /\ lastId \in 0 .. MaxId /\ out \in BarType
  BY DEF Shape, Typed
<1>1. /\ pc = "loop" /\ kind = "renko" /\ pc' = "run" /\ UNCHANGED <<kind, lastId, cur, out>>
      /\ \/ out # NoBar /\ Emit(out)
         \/ out = NoBar /\ chart' = chart
  BY LeaveIs
<1>2. CASE out = NoBar /\ chart' = chart
  <2>1. Told'
    BY <1>1, <1>2 DEF Told, Newest, OpenIsLast, BrickIsNewer
  <2> QED BY <1>2, <2>1
<1>3. CASE out # NoBar /\ Emit(out)
  <2>1. out.id = lastId /\ (chart # <<>> => Last(chart).id < out.id)
    BY <1>1, <1>3 DEF Told, BrickIsNewer
  <2>2. chart' = Append(chart, out) /\ chart' # <<>> /\ Last(chart') = out
    BY <1>0, <1>3, <2>1, EmitEnds
  <2>3. Told'
    BY <1>0, <1>1, <2>1, <2>2 DEF Told, Newest, OpenIsLast, BrickIsNewer
  <2> QED BY <1>3, <2>2, <2>3
<1> QED BY <1>1, <1>2, <1>3

\* What was told stays in order as long as open times do not saturate.
LEMMA ToldStep ==
  ASSUME Shape, Told, [Next]_vars, kind # "pnf", lastId' < MaxId
  PROVE  Told'
<1>1. CASE Fold
  <2>1. CASE FoldColumn(Head(pending))
    BY <1>1, <2>1, FoldColumnIs
  <2> QED BY <1>1, <2>1, FoldIs, FoldBarTold, FoldSegmentTold, FoldLineTold
<1>2. CASE RenkoEnter
  <2>1. out' = NoBar /\ UNCHANGED <<kind, chart, lastId, cur>>
    BY <1>2, EnterIs
  <2> QED BY <2>1 DEF Told, Newest, OpenIsLast, BrickIsNewer
<1>3. CASE RenkoBrick \/ RenkoLeave
  BY <1>3, BrickTold, LeaveTold
<1>4. CASE ~(Fold \/ RenkoEnter \/ RenkoBrick \/ RenkoLeave)
  <2>1. UNCHANGED <<kind, chart, lastId, cur, out>> /\ (pc' = "loop" => pc = "loop")
    BY <1>4 DEF Next, Forwarder, Trade, Subscribe, Fetch, NoFetch, SeedDone, Receive, builder, output, vars
  <2> QED BY <2>1, QuietTold
<1> QED BY <1>1, <1>2, <1>3, <1>4

-----------------------------------------------------------------------------
(* The volume of a chart.                                                    *)

\* No records have no volume.
LEMMA NoVolume == Volume(<<>>) = 0
<1>1. NoBar \in BarType /\ <<>> \in Seq(BarType)
  BY DEF NoBar, BarType
<1> QED BY <1>1, VolumeIs, TradesMetered

\* A bar more, or another in the place of the last, and what the chart shows.
LEMMA ChartGrows ==
  ASSUME chart \in Seq(BarType), NEW b \in BarType
  PROVE  /\ Volume(chart) \in Nat
         /\ Volume(Append(chart, b)) = Volume(chart) + b.vol
         /\ chart # <<>> => Volume([chart EXCEPT ![Len(chart)] = b]) = Volume(chart) - Last(chart).vol + b.vol
<1>1. Metered(BarType)
  BY TradesMetered
<1>2. Volume(chart) \in Nat
  BY <1>1, VolumeIs, Zenon
<1>3. Volume(Append(chart, b)) = Volume(chart) + b.vol
  BY <1>1, VolumeOfAppend, Zenon
<1>4. chart # <<>> =>
        Volume([chart EXCEPT ![Len(chart)] = b]) = Volume(chart) - Last(chart).vol + b.vol
  BY <1>1, VolumeOfChange, Zenon
<1> QED BY <1>2, <1>3, <1>4, Zenon

\* The fold of a trade moves its volume from what is pending to the chart.
LEMMA FoldVolume ==
  ASSUME Shape, Told, ChartVolume, Fold, lastId' < MaxId
  PROVE  ChartVolume'
<1> DEFINE t == Head(pending)
<1>1. pending # <<>> /\ pending' = Tail(pending) /\ kind' = kind /\ folded' = folded
  BY FoldIs
<1>2. /\ Volume(pending) = t.vol + Volume(pending') /\ t.vol \in Nat
      /\ Volume(pending) \in Nat /\ Volume(pending') \in Nat
  BY <1>1, HandIs
<1>3. chart \in Seq(BarType) /\ cur \in BarType /\ acc \in Nat /\ folded \in Nat
  BY DEF Shape, Typed
<1>4. CASE FoldBar(t)
  <2> DEFINE b == NextBar(t)
  <2>1. /\ kind \in {"range", "volume", "dollar"} /\ b \in BarType
        /\ \/ chart' = Append(chart, b) /\ b.vol = t.vol
           \/ /\ chart # <<>> /\ Last(chart) = cur /\ b.vol = cur.vol + t.vol
              /\ chart' = [chart EXCEPT ![Len(chart)] = b]
    BY <1>4, FoldBarTold, FoldBarIs
  <2> HIDE DEF b, t
  <2>2. Volume(chart) \in Nat /\ cur.vol \in Nat /\ b.vol \in Nat
    BY <1>3, <2>1, BarIs, ChartGrows
  <2>3. Volume(chart') = Volume(chart) + t.vol
    <3>1. CASE chart' = Append(chart, b) /\ b.vol = t.vol
      BY <1>3, <2>1, <3>1, ChartGrows
    <3>2. CASE /\ chart # <<>> /\ Last(chart) = cur /\ b.vol = cur.vol + t.vol
               /\ chart' = [chart EXCEPT ![Len(chart)] = b]
      <4>1. Volume(chart') = Volume(chart) - cur.vol + b.vol
        BY <1>3, <2>1, <3>2, ChartGrows
      <4> QED BY <1>2, <2>2, <3>2, <4>1
    <3> QED BY <2>1, <3>1, <3>2
  <2>4. kind # "tlb"
    BY <2>1
  <2>5. Volume(chart) + Volume(pending) = folded
    BY <2>1, <2>2, <2>4, <1>2 DEF ChartVolume
  <2>6. Volume(chart') + Volume(pending') = folded
    BY <1>2, <2>2, <2>3, <2>5
  <2>7. Volume(chart') + 0 + Volume(pending') = folded
    BY <1>2, <2>2, <2>3, <2>6
  <2> QED BY <1>1, <2>4, <2>7 DEF ChartVolume
<1>5. CASE FoldLine(t)
  <2>1. /\ kind = "tlb" /\ TheLine \in BarType /\ TheLine.vol = acc + t.vol
        /\ \/ chart' = chart /\ lastId' = lastId /\ acc' = acc + t.vol
           \/ Emit(TheLine) /\ lastId' = TheLine.id /\ acc' = 0 /\ cur # NoBar
    BY <1>5, FoldLineIs
  <2>2. chart' = chart \/ chart' = Append(chart, TheLine)
    BY <1>5, FoldLineTold
  <2>3. \/ chart' = chart /\ acc' = acc + t.vol
        \/ chart' = Append(chart, TheLine) /\ acc' = 0
    <3>1. CASE Emit(TheLine) /\ lastId' = TheLine.id /\ acc' = 0
      <4>1. Last(chart') = TheLine /\ chart' # <<>>
        BY <1>3, <2>1, <3>1, EmitEnds
      <4>2. chart # chart'
        <5> SUFFICES ASSUME chart = chart' PROVE FALSE
          OBVIOUS
        <5>1. TheLine.id <= lastId
          BY <1>5, <2>1, <4>1 DEF Told, Newest
        <5>2. TheLine.id = NewId(cur.id) /\ TheLine.id \in 0 .. MaxId /\ cur.id \in Nat
          BY <1>3, <1>5, FoldLineIs, BarIs
        <5>3. lastId \in 0 .. MaxId
          BY DEF Shape, Typed
        <5>4. NewId(cur.id) > lastId
          BY <3>1, <5>2, <5>3, NewIdIs
        <5> QED BY <5>1, <5>2, <5>3, <5>4
      <4> QED BY <2>2, <3>1, <4>2
    <3> QED BY <2>1, <3>1
  <2> HIDE DEF t
  <2>4. Volume(chart) \in Nat /\ Volume(Append(chart, TheLine)) = Volume(chart) + acc + t.vol
    <3>1. Volume(chart) \in Nat /\ Volume(Append(chart, TheLine)) = Volume(chart) + TheLine.vol
      BY <1>3, <2>1, ChartGrows
    <3> QED BY <1>2, <1>3, <2>1, <3>1
  <2>5. Volume(chart) + acc + Volume(pending) = folded
    BY <2>1 DEF ChartVolume
  <2>6. Volume(chart') + acc' + Volume(pending') = folded
    <3>1. CASE chart' = chart /\ acc' = acc + t.vol
      BY <1>2, <1>3, <2>4, <2>5, <3>1, SMTT(30)
    <3>2. CASE chart' = Append(chart, TheLine) /\ acc' = 0
      BY <1>2, <1>3, <2>4, <2>5, <3>2
    <3> QED BY <2>3, <3>1, <3>2
  <2> QED BY <1>1, <2>1, <2>6 DEF ChartVolume
<1>6. CASE FoldColumn(t) \/ FoldSegment(t)
  <2>1. kind \in {"pnf", "kagi"}
    BY <1>6, FoldColumnIs, FoldSegmentIs
  <2> QED BY <1>1, <2>1 DEF ChartVolume
<1> QED BY <1>4, <1>5, <1>6, FoldIs

\* Every other step adds to what is pending what it adds to what was folded.
LEMMA VolumeStep ==
  ASSUME Shape, Told, ChartVolume, [Next]_vars, lastId' < MaxId
  PROVE  ChartVolume'
<1>0. Typed /\ Fresh
  BY DEF Shape
<1>1. CASE Fold
  BY <1>1, FoldVolume
<1>2. CASE RenkoEnter \/ RenkoBrick \/ RenkoLeave
  <2>1. kind = "renko" /\ kind' = kind
    BY <1>2, EnterIs, BrickIs, LeaveIs
  <2> QED BY <2>1 DEF ChartVolume
<1>3. CASE Fetch
  <2>1. /\ pc = "fetch" /\ UNCHANGED <<kind, chart, acc>>
        /\ owed' = Volume(pending') /\ folded' = owed'
    BY <1>3 DEF Fetch, builder, output
  <2>2. chart' = <<>> /\ acc' = 0
    BY <1>0, <2>1 DEF Fresh
  <2>3. folded' \in Nat /\ folded' = Volume(pending')
    BY <1>3, <2>1, FetchShape DEF Shape, Typed
  <2>4. Volume(chart') = 0
    BY <2>2, NoVolume
  <2> QED BY <2>2, <2>3, <2>4 DEF ChartVolume
<1>4. CASE Receive
  <2>1. pending = <<>> /\ UNCHANGED <<kind, chart, acc>> /\ folded' = folded + Volume(pending')
    BY <1>4 DEF Receive, builder, output
  <2>2. Volume(pending) = 0
    BY <2>1, NoVolume
  <2>3. Volume(chart) \in Nat
    <3>1. NoBar \in BarType
      BY DEF NoBar, BarType
    <3> QED BY <1>0, <3>1, ChartGrows DEF Typed
  <2>4. pending' \in Seq(TradeType) /\ folded' \in Nat
    BY <1>4, ReceiveShape DEF Shape, Typed
  <2>5. Volume(pending') \in Nat
    <3>1. CASE pending' = <<>>
      BY <3>1, NoVolume
    <3>2. CASE pending' # <<>>
      <4>1. Head(pending') \in TradeType
        BY <2>4, <3>2
      <4> QED BY <2>4, <4>1, VolumeIs, TradesMetered
    <3> QED BY <3>1, <3>2
  <2>6. folded \in Nat /\ acc \in Nat
    BY <1>0 DEF Typed
  <2> QED BY <2>1, <2>2, <2>3, <2>5, <2>6 DEF ChartVolume
<1>5. CASE Trade \/ Subscribe \/ NoFetch \/ SeedDone \/ UNCHANGED vars
  <2>1. UNCHANGED <<kind, chart, acc, pending, folded>>
    BY <1>5 DEF Trade, Subscribe, NoFetch, SeedDone, builder, output, history, vars
  <2> QED BY <2>1 DEF ChartVolume
<1> QED BY <1>1, <1>2, <1>3, <1>4, <1>5 DEF Next, Forwarder

\* Told and ChartVolume, as long as open times do not saturate.
Sold == kind # "pnf" /\ lastId < MaxId => Told /\ ChartVolume

\* It holds in every state.
LEMMA SoldHolds == Spec => []Sold
<1>1. Init => Sold
  <2> SUFFICES ASSUME Init PROVE Told /\ ChartVolume
    BY DEF Sold
  <2>1. /\ chart = <<>> /\ cur = NoBar /\ pc = "idle" /\ acc = 0 /\ pending = <<>> /\ folded = 0
    BY DEF Init
  <2> QED BY <2>1, NoVolume DEF Told, Newest, OpenIsLast, BrickIsNewer, ChartVolume
<1>2. Shape /\ Sold /\ [Next]_vars => Sold'
  <2> SUFFICES ASSUME Shape, Sold, [Next]_vars, kind' # "pnf", lastId' < MaxId PROVE Told' /\ ChartVolume'
    BY DEF Sold
  <2>1. kind' = kind
    BY KindStays
  <2>2. lastId < MaxId /\ kind # "pnf"
    BY <2>1, IdsGrow
  <2> QED BY <2>2, ToldStep, VolumeStep DEF Sold
<1> QED BY <1>1, <1>2, ShapeHolds, PTL DEF Spec

\* No bar is closed unseen: the volume that was folded is the volume of the chart, as long as
\* open times are below the bound at which the model lets them saturate (ChartVolume).
THEOREM VolumeHolds == Spec => [](lastId < MaxId => ChartVolume)
<1>1. Sold => (lastId < MaxId => ChartVolume)
  BY DEF Sold, ChartVolume
<1> QED BY <1>1, SoldHolds, PTL

-----------------------------------------------------------------------------
(* The seam between the seed and the feed.                                   *)

\* The baseline is the kline of the last position heard of.
Baseline ==
  IF base = NoBase THEN hi = 0
  ELSE /\ hi \in DOMAIN tape /\ base.min = tape[hi].min
       /\ base.vol = Legs * Cardinality(Minute(tape[hi].min, hi))

Seam == ~late => folded = owed /\ Baseline

\* The trades of a minute are those heard of and those that are not.
LEMMA HeardIs ==
  ASSUME tape \in Seq(TapeType), Steady, NEW h \in DOMAIN tape, NEW n \in DOMAIN tape
  PROVE  /\ Cardinality(Unheard(h, n)) \in Nat
         /\ n <= h => Cardinality(Unheard(h, n)) = 0
         /\ h < n => tape[h].min <= tape[n].min
         /\ n < h => tape[n].min <= tape[h].min
         /\ h < n /\ tape[h].min < tape[n].min => Unheard(h, n) = Minute(tape[n].min, n)
         /\ h < n /\ tape[h].min = tape[n].min =>
              /\ Cardinality(Minute(tape[n].min, n)) =
                   Cardinality(Minute(tape[h].min, h)) + Cardinality(Unheard(h, n))
              /\ Cardinality(Unheard(h, n)) > 0
<1>1. h \in Nat /\ n \in Nat /\ h >= 1 /\ n >= 1 /\ tape[h].min \in Nat /\ tape[n].min \in Nat
      /\ \A i \in 1 .. n : i \in DOMAIN tape
  BY TapeIs
<1>2. Unheard(h, n) \in SUBSET (h + 1 .. n) /\ IsFiniteSet(h + 1 .. n)
  <2>1. h + 1 \in Int /\ n \in Int
    BY <1>1
  <2>2. IsFiniteSet(h + 1 .. n)
    BY <2>1, FS_Interval
  <2> QED BY <2>2 DEF Unheard
<1>3. IsFiniteSet(Unheard(h, n)) /\ Cardinality(Unheard(h, n)) \in Nat
  BY <1>2, FS_Subset, FS_CardinalityType
<1>4. ASSUME n <= h PROVE Cardinality(Unheard(h, n)) = 0
  <2>1. Unheard(h, n) = {}
    BY <1>1, <1>2, <1>4
  <2> QED BY <2>1, FS_EmptySet
<1>5. /\ h < n => tape[h].min <= tape[n].min
      /\ n < h => tape[n].min <= tape[h].min
  BY <1>1 DEF Steady
<1>6. ASSUME h < n, tape[h].min < tape[n].min PROVE Unheard(h, n) = Minute(tape[n].min, n)
  <2>1. ASSUME NEW j \in 1 .. n, tape[j].min = tape[n].min PROVE j \in h + 1 .. n
    <3>1. j \in DOMAIN tape /\ j \in Nat
      BY <1>1, <2>1
    <3>2. ~(j <= h)
      BY <1>1, <1>6, <2>1, <3>1 DEF Steady
    <3> QED BY <1>1, <2>1, <3>1, <3>2
  <2>2. \A j \in h + 1 .. n : j \in 1 .. n
    BY <1>1
  <2> QED BY <2>1, <2>2 DEF Unheard, Minute
<1>7. ASSUME h < n, tape[h].min = tape[n].min
      PROVE  /\ Cardinality(Minute(tape[n].min, n)) =
                  Cardinality(Minute(tape[h].min, h)) + Cardinality(Unheard(h, n))
             /\ Cardinality(Unheard(h, n)) > 0
  <2> DEFINE A == Minute(tape[h].min, h)
             B == Unheard(h, n)
             C == Minute(tape[n].min, n)
  <2>1. C = A \cup B
    <3>1. \A j : j \in 1 .. n <=> j \in 1 .. h \/ j \in h + 1 .. n
      BY <1>1, <1>7
    <3> QED BY <1>7, <3>1 DEF Minute, Unheard
  <2>2. A \cap B = {}
    <3>1. \A j : ~(j \in 1 .. h /\ j \in h + 1 .. n)
      BY <1>1
    <3> QED BY <3>1 DEF Minute, Unheard
  <2>3. IsFiniteSet(A) /\ IsFiniteSet(B)
    <3>1. h \in 0 .. Len(tape)
      BY TapeIs
    <3> QED BY <1>3, <3>1, MinuteIs
  <2>4. n \in B
    BY <1>1, <1>7 DEF Unheard
  <2> HIDE DEF A, B, C
  <2>5. Cardinality(C) = Cardinality(A) + Cardinality(B) - Cardinality(A \cap B)
    BY <2>1, <2>3, FS_Union
  <2>6. Cardinality(A \cap B) = 0
    BY <2>2, FS_EmptySet
  <2>7. Cardinality(B) # 0 /\ Cardinality(B) \in Nat /\ Cardinality(A) \in Nat
    <3>1. B # {}
      BY <2>4
    <3> QED BY <2>3, <3>1, FS_EmptySet, FS_CardinalityType
  <2>8. Cardinality(C) = Cardinality(A) + Cardinality(B) /\ Cardinality(B) > 0
    BY <2>5, <2>6, <2>7
  <2> QED BY <2>8 DEF A, B, C
<1> QED BY <1>3, <1>4, <1>5, <1>6, <1>7

\* What the adapter makes of an event that is not late.
LEMMA DeltaVolume ==
  ASSUME Shape, Receive, Baseline, ~(pos < hi /\ tape[pos].min = base.min)
  PROVE  Baseline' /\ folded' - folded = owed' - owed
<1> DEFINE s == Snapshot(pos)
           d == Delta(s)
<1>1. /\ pos <= Len(tape) /\ base' = d.base /\ pending' = d.ticks
      /\ hi' = Largest(hi, pos) /\ folded' = folded + Volume(pending') /\ tape' = tape
      /\ owed' = IF base = NoBase THEN owed ELSE owed + Legs * Cardinality(Unheard(hi, pos))
      /\ pc = "run"
  BY DEF Receive
<1>2. /\ pos \in DOMAIN tape /\ tape \in Seq(TapeType) /\ pos \in Nat /\ Steady /\ base \in BaseType
      /\ hi \in Nat /\ folded \in Nat /\ owed \in Nat
  BY <1>1 DEF Shape, Typed, Fresh
<1>3. /\ s.min = tape[pos].min /\ s.min \in Nat /\ s.min >= 1 /\ s.price \in Prices
      /\ s.vol = Legs * Cardinality(Minute(tape[pos].min, pos)) /\ s.vol \in Nat /\ s.vol >= 1
  BY <1>2, SnapshotIs
<1>4. base.min \in Nat /\ base.vol \in Nat /\ base.off \in Nat
  BY <1>2 DEF BaseType
<1> DEFINE rolled == s.min > base.min
           off == IF rolled THEN 0 ELSE base.off
           gain == IF rolled THEN s.vol ELSE Largest(s.vol - base.vol, 0)
           stays == [min |-> s.min, vol |-> s.vol, off |-> off]
           t == [ts |-> s.min * Interval + Least(off, Interval - 1), price |-> s.price, vol |-> gain]
<1>5. d = IF base = NoBase \/ (s.min = base.min /\ gain = 0)
          THEN [base |-> stays, ticks |-> <<>>]
          ELSE IF s.min < base.min THEN [base |-> base, ticks |-> <<>>]
          ELSE [base |-> [stays EXCEPT !.off = off + 1], ticks |-> <<t>>]
  BY DEF Delta
<1>6. off \in Nat /\ gain \in Nat
  BY <1>3, <1>4 DEF Largest
<1>7. /\ stays.min = s.min /\ stays.vol = s.vol
      /\ [stays EXCEPT !.off = off + 1].min = s.min /\ [stays EXCEPT !.off = off + 1].vol = s.vol
  OBVIOUS
<1>8. Volume(<<t>>) = gain /\ Volume(<<>>) = 0
  <2>1. s.min * Interval + Least(off, Interval - 1) \in Nat
    BY <1>3, <1>6 DEF Least, Interval
  <2>2. t \in TradeType /\ t.vol = gain
    BY <1>3, <1>6, <2>1 DEF TradeType
  <2>3. <<t>> \in Seq(TradeType)
    BY <2>2
  <2> HIDE DEF t
  <2>4. Volume(<<t>>) = t.vol
    BY <2>2, <2>3, VolumeIs, TradesMetered
  <2> QED BY <2>2, <2>4, NoVolume
<1> HIDE DEF stays, t, s, d
<1>a. folded' = folded + Volume(pending') /\ folded \in Nat /\ owed \in Nat
  BY <1>1, <1>2
\* The step moves the baseline to pos.
<1>9. ASSUME base'.min = s.min, base'.vol = s.vol, hi' = pos PROVE Baseline'
  <2>1. base' # NoBase
    BY <1>3, <1>9 DEF NoBase
  <2>3. hi' \in DOMAIN tape' /\ tape'[hi'].min = s.min
    BY <1>1, <1>2, <1>3, <1>9
  <2>4. Minute(tape[hi].min, hi)' = Minute(tape[pos].min, pos)
    BY <1>1, <1>9 DEF Minute
  <2> QED BY <1>3, <1>9, <2>1, <2>3, <2>4 DEF Baseline
<1>10. CASE base = NoBase
  <2>1. d = [base |-> stays, ticks |-> <<>>]
    BY <1>5, <1>10
  <2>2. hi' = pos
    BY <1>1, <1>2, <1>10 DEF Baseline, Largest
  <2>3. base'.min = s.min /\ base'.vol = s.vol /\ pending' = <<>>
    BY <1>1, <1>7, <2>1
  <2> QED BY <1>1, <1>2, <1>8, <1>9, <1>10, <2>2, <2>3
<1>11. CASE base # NoBase
  <2>1. hi \in DOMAIN tape /\ base.min = tape[hi].min /\ base.vol = Legs * Cardinality(Minute(tape[hi].min, hi))
    BY <1>11 DEF Baseline
  <2> DEFINE u == Cardinality(Unheard(hi, pos))
             a == Cardinality(Minute(tape[hi].min, hi))
             c == Cardinality(Minute(tape[pos].min, pos))
  <2>2. /\ u \in Nat
        /\ pos <= hi => u = 0
        /\ hi < pos => tape[hi].min <= tape[pos].min
        /\ pos < hi => tape[pos].min <= tape[hi].min
        /\ hi < pos /\ tape[hi].min < tape[pos].min => u = c
        /\ hi < pos /\ tape[hi].min = tape[pos].min => c = a + u /\ u > 0
    BY <1>2, <2>1, HeardIs
  <2>3. owed' = owed + Legs * u
    BY <1>1, <1>11
  <2>4. a \in Nat /\ c \in Nat
    <3>1. hi \in 0 .. Len(tape) /\ pos \in 0 .. Len(tape)
      BY <1>2, <2>1
    <3> QED BY <1>2, <3>1, MinuteIs
  <2>5. tape[hi].min \in Nat /\ tape[pos].min \in Nat
    BY <1>2, <2>1, TapeIs
  <2>6. s.vol = 4 * c /\ base.vol = 4 * a /\ owed' = owed + 4 * u
    BY <1>3, <2>1, <2>3 DEF Legs
  <2> HIDE DEF u, a, c
  <2>7. CASE pos < hi
    <3>1. s.min < base.min
      BY <1>3, <2>1, <2>2, <2>5, <2>7
    <3>2. ~(s.min = base.min)
      BY <1>3, <1>4, <3>1
    <3>3. d = [base |-> base, ticks |-> <<>>]
      BY <1>5, <1>11, <3>1, <3>2
    <3>4. base' = base /\ pending' = <<>>
      BY <1>1, <3>3
    <3>5. hi' = hi
      BY <1>1, <1>2, <2>7 DEF Largest
    <3>6. Baseline'
      <4>1. Minute(tape[hi].min, hi)' = Minute(tape[hi].min, hi)
        BY <1>1, <3>5 DEF Minute
      <4> QED BY <1>1, <1>11, <2>1, <3>4, <3>5, <4>1 DEF Baseline
    <3>7. u = 0 /\ Volume(pending') = 0
      BY <1>2, <1>8, <2>1, <2>2, <2>7, <3>4
    <3>8. folded' - folded = owed' - owed
      BY <1>a, <2>6, <3>7
    <3> QED BY <3>6, <3>8
  <2>8. CASE pos = hi
    <3>1. s.min = base.min /\ gain = 0
      <4>1. a = c
        BY <2>8 DEF a, c
      <4> QED BY <1>3, <1>4, <2>1, <2>6, <2>8, <4>1 DEF Largest
    <3>2. d = [base |-> stays, ticks |-> <<>>]
      BY <1>5, <3>1
    <3>3. base'.min = s.min /\ base'.vol = s.vol /\ pending' = <<>>
      BY <1>1, <1>7, <3>2
    <3>4. hi' = pos
      BY <1>1, <1>2, <2>8 DEF Largest
    <3>5. u = 0 /\ Volume(pending') = 0
      BY <1>2, <1>8, <2>1, <2>2, <2>8, <3>3
    <3>6. folded' - folded = owed' - owed
      BY <1>a, <2>6, <3>5
    <3> QED BY <1>9, <3>3, <3>4, <3>6
  <2>9. CASE pos > hi
    <3>1. hi' = pos
      BY <1>1, <1>2, <2>9 DEF Largest
    <3>2. gain = 4 * u /\ u > 0 /\ ~(s.min < base.min)
      <4>1. CASE tape[hi].min < tape[pos].min
        <5>1. rolled
          BY <1>3, <2>1, <4>1
        <5>2. gain = 4 * u
          BY <1>2, <2>2, <2>6, <2>9, <4>1, <5>1
        <5> QED BY <1>3, <1>4, <2>2, <2>6, <5>1, <5>2
      <4>2. CASE tape[hi].min = tape[pos].min
        <5>1. ~rolled /\ c = a + u /\ u > 0
          BY <1>2, <1>3, <2>1, <2>2, <2>5, <2>9, <4>2
        <5>2. s.vol - base.vol = 4 * u
          BY <2>2, <2>4, <2>6, <5>1
        <5>3. gain = Largest(4 * u, 0)
          BY <5>1, <5>2
        <5>4. gain = 4 * u
          BY <2>2, <5>3 DEF Largest
        <5> QED BY <1>3, <2>1, <2>5, <4>2, <5>1, <5>4
      <4> QED BY <1>2, <2>2, <2>5, <2>9, <4>1, <4>2
    <3>3. gain # 0
      BY <2>2, <3>2
    <3>4. d = [base |-> [stays EXCEPT !.off = off + 1], ticks |-> <<t>>]
      BY <1>5, <1>11, <3>2, <3>3
    <3>5. base'.min = s.min /\ base'.vol = s.vol /\ pending' = <<t>>
      <4>1. base' = [stays EXCEPT !.off = off + 1] /\ pending' = <<t>>
        BY <1>1, <3>4
      <4> QED BY <1>7, <4>1
    <3>6. Volume(pending') = 4 * u
      BY <1>8, <3>2, <3>5
    <3>7. folded' - folded = owed' - owed
      BY <1>a, <2>2, <2>6, <3>6
    <3> QED BY <1>9, <3>1, <3>5, <3>7
  <2> QED BY <1>2, <2>7, <2>8, <2>9
<1> QED BY <1>10, <1>11

\* A trade changes nothing of what was heard.
LEMMA TradeBaseline == ASSUME Shape, Trade, Baseline PROVE Baseline'
<1>1. UNCHANGED <<base, hi>> /\ hi \in 0 .. Len(tape)
  BY DEF Shape, Typed, Trade, history
<1>2. /\ \A i \in DOMAIN tape : i \in DOMAIN tape' /\ tape'[i] = tape[i]
      /\ \A n \in 0 .. Len(tape) : \A m : Minute(m, n)' = Minute(m, n)
  BY TradeIs
<1>3. CASE base = NoBase
  BY <1>1, <1>3 DEF Baseline
<1>4. CASE base # NoBase
  <2>1. hi \in DOMAIN tape' /\ tape'[hi] = tape[hi]
    BY <1>2, <1>4 DEF Baseline
  <2>2. Minute(tape[hi].min, hi)' = Minute(tape[hi].min, hi)
    <3>1. \A m : Minute(m, hi)' = Minute(m, hi)
      BY <1>1, <1>2
    <3>2. {i \in 1 .. hi : tape'[i].min = tape[hi].min} = {i \in 1 .. hi : tape[i].min = tape[hi].min}
      BY <3>1 DEF Minute
    <3> QED BY <1>1, <2>1, <3>2 DEF Minute
  <2> QED BY <1>1, <1>4, <2>1, <2>2 DEF Baseline
<1> QED BY <1>3, <1>4

\* The seam holds from one step to the next.
LEMMA SeamStep == Shape /\ Seam /\ [Next]_vars => Seam'
<1> SUFFICES ASSUME Shape, Seam, [Next]_vars, ~late' PROVE folded' = owed' /\ Baseline'
  BY DEF Seam
<1>0. folded \in Nat /\ owed \in Nat
  BY DEF Shape, Typed
<1>1. CASE Receive
  <2>1. ~late /\ ~(pos < hi /\ tape[pos].min = base.min)
    BY <1>1 DEF Receive
  <2>2. Baseline' /\ folded' - folded = owed' - owed
    BY <1>1, <2>1, DeltaVolume DEF Seam
  <2>3. folded = owed
    BY <2>1 DEF Seam
  <2>4. folded' \in Nat /\ owed' \in Nat
    BY <1>1, ReceiveShape DEF Shape, Typed
  <2> QED BY <1>0, <2>2, <2>3, <2>4
<1>2. CASE Fetch
  <2>1. /\ tape # <<>> /\ hi' = Len(tape) /\ tape' = tape /\ folded' = owed'
        /\ base' = [min |-> tape[Len(tape)].min, vol |-> Snapshot(Len(tape)).vol, off |-> 0]
    BY <1>2 DEF Fetch
  <2>2. Len(tape) \in DOMAIN tape /\ tape \in Seq(TapeType)
    BY <2>1 DEF Shape, Typed
  <2>3. /\ tape[Len(tape)].min >= 1
        /\ Snapshot(Len(tape)).vol = Legs * Cardinality(Minute(tape[Len(tape)].min, Len(tape)))
    BY <2>2, SnapshotIs, TapeIs
  <2>4. base' # NoBase
    BY <2>1, <2>3 DEF NoBase
  <2>5. Minute(tape[hi].min, hi)' = Minute(tape[Len(tape)].min, Len(tape))
    BY <2>1 DEF Minute
  <2> QED BY <2>1, <2>2, <2>3, <2>4, <2>5 DEF Baseline
<1>3. CASE Trade
  <2>1. UNCHANGED <<folded, owed, late>>
    BY <1>3 DEF Trade, history
  <2> QED BY <1>3, <2>1, TradeBaseline DEF Seam
<1>4. CASE ~(Receive \/ Fetch \/ Trade)
  <2>1. UNCHANGED <<tape, base, hi, folded, owed, late>>
    BY <1>4, FoldIs, EnterIs, BrickIs, LeaveIs
    DEF Next, Forwarder, Subscribe, NoFetch, SeedDone, history, vars
  <2>2. Minute(tape[hi].min, hi)' = Minute(tape[hi].min, hi)
    BY <2>1 DEF Minute
  <2> QED BY <2>1, <2>2 DEF Seam, Baseline
<1> QED BY <1>1, <1>2, <1>3, <1>4

\* Seed, overlap and live ticks fold the volume that the klines showed, each trade once,
\* unless an event was late (ExactAfterSeam).
THEOREM SeamHolds == Spec => []ExactAfterSeam
<1>1. Init => Seam
  BY DEF Init, Seam, Baseline
<1>2. Shape /\ Seam /\ [Next]_vars => Seam'
  BY SeamStep
<1>3. Seam => ExactAfterSeam
  BY DEF Seam, ExactAfterSeam
<1> QED BY <1>1, <1>2, <1>3, ShapeHolds, PTL DEF Spec

-----------------------------------------------------------------------------
(* Prices: what a chart shows is near what was traded.                       *)

\* A trade at x - s or above, or below.
Low(x, s) == \E i \in DOMAIN tape : x >= tape[i].price - s
High(x, s) == \E i \in DOMAIN tape : x <= tape[i].price + s
Real(x, s) == Low(x, s) /\ High(x, s)
Fits(b, s) == Low(b.lo, s) /\ High(b.hi, s)

Slack == IF kind = "pnf" THEN Box ELSE IF kind = "renko" THEN Box - 1 ELSE 0

FromTape == \A i \in DOMAIN pending : \E k \in DOMAIN tape : pending[i].price = tape[k].price
ChartFits == \A i \in DOMAIN chart : Fits(chart[i], Slack)
BarFits == kind \in {"range", "volume", "dollar"} /\ cur # NoBar => Fits(cur, 0)
ColumnFits ==
  kind = "pnf" /\ cur # NoBar => Real(cur.from, Box) /\ Real(cur.to, Box) /\ Fits(cur, Box)
AnchorReal ==
  kind = "kagi" => (dir # 0 => anchor # Unset) /\ (anchor # Unset => Real(anchor, 0))
LineReal == kind = "tlb" /\ cur # NoBar => Real(cur.from, 0)

\* With a reversal count of one, a turn can go one box too far, and the loop turns for ever.
Stuck ==
  /\ pc = "loop" /\ Reversal = 1
  /\ \/ dir = 1 /\ anchor - Head(pending).price = Box
     \/ dir = -1 /\ Head(pending).price - anchor = Box

GridReal ==
  kind = "renko" =>
    \/ Stuck
    \/ /\ anchor # Unset => Real(anchor, Box - 1)
       /\ pc = "loop" => anchor # Unset
       /\ pc = "loop" /\ out # NoBar => Fits(out, Box - 1)

Traded ==
  /\ FromTape /\ ChartFits /\ BarFits /\ ColumnFits /\ AnchorReal /\ LineReal /\ GridReal

\* What is low enough stays so further up, and with more slack.
LEMMA Wider ==
  ASSUME tape \in Seq(TapeType), NEW x \in Int, NEW y \in Int, NEW r \in Int, NEW s \in Int, r <= s
  PROVE  /\ Low(x, r) /\ x <= y => Low(y, s)
         /\ High(x, r) /\ y <= x => High(y, s)
<1>1. \A i \in DOMAIN tape : tape[i].price \in Nat
  BY TapeIs
<1>2. ASSUME Low(x, r), x <= y PROVE Low(y, s)
  <2>1. PICK i \in DOMAIN tape : x >= tape[i].price - r
    BY <1>2 DEF Low
  <2>2. y >= tape[i].price - s
    BY <1>1, <1>2, <2>1
  <2> QED BY <2>2 DEF Low
<1>3. ASSUME High(x, r), y <= x PROVE High(y, s)
  <2>1. PICK i \in DOMAIN tape : x <= tape[i].price + r
    BY <1>3 DEF High
  <2>2. y <= tape[i].price + s
    BY <1>1, <1>3, <2>1
  <2> QED BY <2>2 DEF High
<1> QED BY <1>2, <1>3

\* A price from the tape, and what is within s of it.
LEMMA NearTrade ==
  ASSUME tape \in Seq(TapeType), NEW p \in Int, \E k \in DOMAIN tape : p = tape[k].price,
         NEW x \in Int, NEW s \in Int
  PROVE  /\ x >= p - s => Low(x, s)
         /\ x <= p + s => High(x, s)
BY DEF Low, High

\* A step that leaves the tape alone leaves this alone.
LEMMA SameTape ==
  ASSUME tape' = tape, NEW x, NEW s
  PROVE  /\ Low(x, s)' <=> Low(x, s)
         /\ High(x, s)' <=> High(x, s)
         /\ Real(x, s)' <=> Real(x, s)
         /\ Fits(x, s)' <=> Fits(x, s)
BY DEF Low, High, Real, Fits

\* The bars of the chart after one is sent.
LEMMA EmitFits ==
  ASSUME Shape, NEW b \in BarType, Emit(b), Fits(b, Slack), ChartFits, UNCHANGED <<tape, kind>>
  PROVE  ChartFits'
<1>1. chart \in Seq(BarType)
  BY DEF Shape, Typed
<1>2. \A i \in DOMAIN chart' : chart'[i] = b \/ (i \in DOMAIN chart /\ chart'[i] = chart[i])
  <2>1. CASE chart # <<>> /\ Last(chart).id = b.id
    <3>1. chart' = [chart EXCEPT ![Len(chart)] = b]
      BY <2>1 DEF Emit
    <3> QED BY <1>1, <3>1
  <2>2. CASE ~(chart # <<>> /\ Last(chart).id = b.id)
    <3>1. chart' = Append(chart, b)
      BY <2>2 DEF Emit
    <3> QED BY <1>1, <3>1
  <2> QED BY <2>1, <2>2
<1>3. Slack' = Slack
  BY DEF Slack
<1>4. ASSUME NEW i \in DOMAIN chart' PROVE Fits(chart'[i], Slack)
  BY <1>2 DEF ChartFits
<1> HIDE DEF Slack
<1>5. \A i \in DOMAIN chart' : Low(chart'[i].lo, Slack) /\ High(chart'[i].hi, Slack)
  BY <1>4 DEF Fits
<1> QED BY <1>3, <1>5 DEF ChartFits, Fits, Low, High

\* The price of the trade in hand was traded.
LEMMA HandReal ==
  ASSUME Shape, FromTape, pending # <<>>
  PROVE  /\ tape \in Seq(TapeType) /\ Head(pending).price \in Int /\ Head(pending).price >= 1
         /\ \E k \in DOMAIN tape : Head(pending).price = tape[k].price
         /\ Real(Head(pending).price, 0)
         /\ \A i \in DOMAIN Tail(pending) : \E k \in DOMAIN tape : Tail(pending)[i].price = tape[k].price
<1>1. tape \in Seq(TapeType)
  BY DEF Shape, Typed
<1>2. /\ Head(pending).price \in Int /\ Head(pending).price >= 1 /\ pending[1] = Head(pending)
      /\ 1 \in DOMAIN pending
      /\ \A i \in DOMAIN Tail(pending) : i + 1 \in DOMAIN pending /\ Tail(pending)[i] = pending[i + 1]
  BY HandIs
<1>3. \E k \in DOMAIN tape : Head(pending).price = tape[k].price
  BY <1>2 DEF FromTape
<1>4. Real(Head(pending).price, 0)
  BY <1>1, <1>2, <1>3, NearTrade DEF Real
<1>5. \A i \in DOMAIN Tail(pending) : \E k \in DOMAIN tape : Tail(pending)[i].price = tape[k].price
  BY <1>2 DEF FromTape
<1> QED BY <1>1, <1>2, <1>3, <1>4, <1>5

\* What every fold leaves of the trades.
LEMMA FoldTape ==
  ASSUME Shape, Fold, FromTape
  PROVE  FromTape' /\ tape' = tape /\ kind' = kind /\ pending # <<>>
<1>1. pending # <<>> /\ pending' = Tail(pending) /\ tape' = tape /\ kind' = kind
  BY FoldIs
<1>2. \A i \in DOMAIN Tail(pending) : \E k \in DOMAIN tape : Tail(pending)[i].price = tape[k].price
  BY <1>1, HandReal
<1> QED BY <1>1, <1>2 DEF FromTape

\* A range, volume or dollar bar reaches from the lowest to the highest of its trades.
LEMMA FoldBarReal ==
  ASSUME Shape, Traded, Fold, FoldBar(Head(pending))
  PROVE  Traded'
<1> DEFINE p == Head(pending).price
           b == NextBar(Head(pending))
<1>1. FromTape' /\ tape' = tape /\ kind' = kind /\ pending # <<>>
  BY FoldTape DEF Traded
<1>2. tape \in Seq(TapeType) /\ p \in Int /\ Real(p, 0)
  BY <1>1, HandReal DEF Traded
<1>3. /\ kind \in {"range", "volume", "dollar"} /\ Emit(b) /\ cur' \in {NoBar, b} /\ b \in BarType
      /\ \/ b.lo = p /\ b.hi = p
         \/ cur # NoBar /\ b.lo = Least(cur.lo, p) /\ b.hi = Largest(cur.hi, p)
  BY FoldBarIs
<1> HIDE DEF p, b
<1>4. Fits(b, 0)
  <2>1. CASE b.lo = p /\ b.hi = p
    BY <1>2, <2>1 DEF Fits, Real
  <2>2. CASE cur # NoBar /\ b.lo = Least(cur.lo, p) /\ b.hi = Largest(cur.hi, p)
    BY <1>2, <1>3, <2>2 DEF Traded, BarFits, Fits, Real, Least, Largest
  <2> QED BY <1>3, <2>1, <2>2
<1>5. Slack = 0
  BY <1>3 DEF Slack
<1>6. ChartFits'
  BY <1>1, <1>3, <1>4, <1>5, EmitFits DEF Traded
<1>7. BarFits'
  BY <1>1, <1>3, <1>4, SameTape DEF BarFits, Fits
<1>8. ColumnFits' /\ AnchorReal' /\ LineReal' /\ GridReal'
  BY <1>1, <1>3 DEF ColumnFits, AnchorReal, LineReal, GridReal
<1> QED BY <1>1, <1>6, <1>7, <1>8 DEF Traded

\* A kagi chart reaches from one trade to another.
LEMMA FoldSegmentReal ==
  ASSUME Shape, Traded, Fold, FoldSegment(Head(pending))
  PROVE  Traded'
<1> DEFINE p == Head(pending).price
<1>1. FromTape' /\ tape' = tape /\ kind' = kind /\ pending # <<>>
  BY FoldTape DEF Traded
<1>2. tape \in Seq(TapeType) /\ p \in Int /\ p >= 1 /\ Real(p, 0)
  BY <1>1, HandReal DEF Traded
<1>3. /\ kind = "kagi" /\ dir' \in {-1, 0, 1}
      /\ anchor' = p \/ (anchor # Unset /\ anchor' = anchor)
      /\ dir' # 0 => dir # 0 \/ anchor # Unset
      /\ \/ chart' = chart
         \/ /\ anchor # Unset \/ dir # 0
            /\ \E b \in BarType :
                 /\ Emit(b) /\ b.from \in {anchor, p} /\ b.to \in {anchor, p}
                 /\ b.lo = Least(b.from, b.to) /\ b.hi = Largest(b.from, b.to)
  BY FoldSegmentIs
<1> HIDE DEF p
<1>4. (dir # 0 => anchor # Unset) /\ (anchor # Unset => Real(anchor, 0))
  BY <1>3 DEF Traded, AnchorReal
<1>5. p # Unset /\ Unset' = Unset
  BY <1>2 DEF Unset
<1>6. AnchorReal'
  <2>1. anchor' # Unset /\ Real(anchor', 0)
    BY <1>2, <1>3, <1>4, <1>5
  <2> QED BY <1>1, <1>5, <2>1, SameTape DEF AnchorReal, Real, Low, High
<1>7. ChartFits'
  <2>1. CASE chart' = chart
    BY <1>1, <2>1 DEF Traded, ChartFits, Fits, Low, High, Slack
  <2>2. CASE /\ anchor # Unset \/ dir # 0
             /\ \E b \in BarType :
                  /\ Emit(b) /\ b.from \in {anchor, p} /\ b.to \in {anchor, p}
                  /\ b.lo = Least(b.from, b.to) /\ b.hi = Largest(b.from, b.to)
    <3>1. PICK b \in BarType : /\ Emit(b) /\ b.from \in {anchor, p} /\ b.to \in {anchor, p}
                               /\ b.lo = Least(b.from, b.to) /\ b.hi = Largest(b.from, b.to)
      BY <2>2
    <3>2. Real(anchor, 0)
      BY <1>4, <2>2
    <3>3. b.lo \in {anchor, p} /\ b.hi \in {anchor, p}
      BY <3>1 DEF Least, Largest
    <3>4. Fits(b, 0)
      BY <1>2, <3>2, <3>3 DEF Fits, Real
    <3>5. Slack = 0
      BY <1>3 DEF Slack
    <3> QED BY <1>1, <3>1, <3>4, <3>5, EmitFits DEF Traded
  <2> QED BY <1>3, <2>1, <2>2
<1>8. BarFits' /\ ColumnFits' /\ LineReal' /\ GridReal'
  BY <1>1, <1>3 DEF BarFits, ColumnFits, LineReal, GridReal
<1> QED BY <1>1, <1>6, <1>7, <1>8 DEF Traded

\* A three-line-break line reaches from one trade to another.
LEMMA FoldLineReal ==
  ASSUME Shape, Traded, Fold, FoldLine(Head(pending))
  PROVE  Traded'
<1> DEFINE t == Head(pending)
           p == t.price
           new == [NoBar EXCEPT !.id = t.ts, !.from = t.price]
<1>1. FromTape' /\ tape' = tape /\ kind' = kind /\ pending # <<>>
  BY FoldTape DEF Traded
<1>2. tape \in Seq(TapeType) /\ p \in Int /\ p >= 1 /\ Real(p, 0)
  BY <1>1, HandReal DEF Traded
<1>3. /\ kind = "tlb" /\ TheLine \in BarType
      /\ TheLine.lo = Least(cur.from, p) /\ TheLine.hi = Largest(cur.from, p)
      /\ \/ cur # NoBar /\ Emit(TheLine) /\ cur' = new
         \/ chart' = chart /\ cur' = IF cur = NoBar THEN new ELSE cur
  BY FoldLineIs
<1>4. new.from = p
  BY DEF NoBar
<1> HIDE DEF t, p, new
<1>5. cur # NoBar => Real(cur.from, 0)
  BY <1>3 DEF Traded, LineReal
<1>6. LineReal'
  <2>1. cur' # NoBar => Real(cur'.from, 0)
    BY <1>2, <1>3, <1>4, <1>5
  <2> QED BY <1>1, <2>1 DEF LineReal, Real, Low, High
<1>7. ChartFits'
  <2>1. CASE chart' = chart
    BY <1>1, <2>1 DEF Traded, ChartFits, Fits, Low, High, Slack
  <2>2. CASE cur # NoBar /\ Emit(TheLine)
    <3>1. TheLine.lo \in {cur.from, p} /\ TheLine.hi \in {cur.from, p}
      BY <1>3 DEF Least, Largest
    <3>2. Fits(TheLine, 0)
      BY <1>2, <1>5, <2>2, <3>1 DEF Fits, Real
    <3>3. Slack = 0
      BY <1>3 DEF Slack
    <3> QED BY <1>1, <1>3, <2>2, <3>2, <3>3, EmitFits DEF Traded
  <2> QED BY <1>3, <2>1, <2>2
<1>8. BarFits' /\ ColumnFits' /\ AnchorReal' /\ GridReal'
  BY <1>1, <1>3 DEF BarFits, ColumnFits, AnchorReal, GridReal
<1> QED BY <1>1, <1>6, <1>7, <1>8 DEF Traded

\* A point and figure column ends within a box of a trade.
LEMMA FoldColumnReal ==
  ASSUME Shape, Traded, Fold, FoldColumn(Head(pending))
  PROVE  Traded'
<1> DEFINE p == Head(pending).price
<1>1. FromTape' /\ tape' = tape /\ kind' = kind /\ pending # <<>>
  BY FoldTape DEF Traded
<1>2. tape \in Seq(TapeType) /\ p \in Int /\ Real(p, 0) /\ \E k \in DOMAIN tape : p = tape[k].price
  BY <1>1, HandReal DEF Traded
<1>3. /\ kind = "pnf" /\ Emit(cur') /\ cur' \in BarType
      /\ \/ /\ cur = NoBar
            /\ cur'.from = Floor(p) /\ cur'.to = Floor(p) + Box
         \/ /\ cur # NoBar /\ dir * (p - cur.to) >= Box
            /\ cur'.from = cur.from /\ cur'.to = cur.to + dir * Floor(dir * (p - cur.to))
         \/ /\ cur # NoBar /\ -(dir * (p - cur.to)) >= Box
            /\ cur'.from = cur.to - dir * Box
            /\ cur'.to = cur.to - dir * Box - dir * (Floor(-(dir * (p - cur.to)) - Box) + Box)
         \/ /\ cur # NoBar /\ cur'.from = cur.from /\ cur'.to = cur.to
            /\ cur'.lo = cur.lo /\ cur'.hi = cur.hi
      /\ \/ cur'.lo = Least(cur'.from, cur'.to) /\ cur'.hi = Largest(cur'.from, cur'.to)
         \/ cur'.lo = cur.lo /\ cur'.hi = cur.hi /\ cur'.from = cur.from /\ cur'.to = cur.to
            /\ cur # NoBar
  BY FoldColumnIs
<1>4. cur # NoBar => Real(cur.from, Box) /\ Real(cur.to, Box) /\ Fits(cur, Box)
  BY <1>3 DEF Traded, ColumnFits
<1>5. /\ cur.from \in Int /\ cur.to \in Int /\ dir \in {-1, 0, 1} /\ Box \in Int /\ Box >= 1
      /\ cur'.from \in Int /\ cur'.to \in Int
  BY <1>3, BarIs DEF Shape, Typed
<1> HIDE DEF p
<1>6. \A x \in Int : x >= p - Box => Low(x, Box)
  BY <1>2, <1>5, NearTrade
<1>7. \A x \in Int : x <= p + Box => High(x, Box)
  BY <1>2, <1>5, NearTrade
<1>8. \A x \in Int : Floor(x) \in Int /\ Floor(x) <= x /\ x < Floor(x) + Box
  BY FloorIs
<1>9. cur # NoBar => /\ \A x \in Int : x >= cur.to => Low(x, Box)
                     /\ \A x \in Int : x <= cur.to => High(x, Box)
  <2> SUFFICES ASSUME cur # NoBar, NEW x \in Int
               PROVE  (x >= cur.to => Low(x, Box)) /\ (x <= cur.to => High(x, Box))
    OBVIOUS
  <2>1. Low(cur.to, Box) /\ High(cur.to, Box) /\ cur.to \in Int
    BY <1>4, <1>5 DEF Real
  <2> DEFINE y == cur.to
             s == Box
  <2>2. tape \in Seq(TapeType) /\ y \in Int /\ s \in Int /\ s <= s /\ Low(y, s) /\ High(y, s)
    BY <1>2, <1>5, <2>1
  <2> HIDE DEF y, s
  <2>3. (y <= x => Low(x, s)) /\ (x <= y => High(x, s))
    BY <2>2, Wider
  <2>4. x >= cur.to => y <= x
    BY <1>5 DEF y
  <2> QED BY <2>3, <2>4 DEF y, s
<1>10. Real(cur'.from, Box) /\ Real(cur'.to, Box)
  <2>1. CASE cur = NoBar /\ cur'.from = Floor(p) /\ cur'.to = Floor(p) + Box
    <3>1. cur'.from >= p - Box /\ cur'.from <= p + Box /\ cur'.to >= p - Box /\ cur'.to <= p + Box
      <4>1. PICK f \in Int : f = Floor(p) /\ f <= p /\ p < f + Box
        BY <1>2, <1>8
      <4>2. cur'.from = f /\ cur'.to = f + Box /\ p \in Int
        BY <1>2, <2>1, <4>1
      <4> QED BY <1>5, <4>1, <4>2
    <3> QED BY <1>5, <1>6, <1>7, <3>1 DEF Real
  <2>2. CASE /\ cur # NoBar /\ dir * (p - cur.to) >= Box
             /\ cur'.from = cur.from /\ cur'.to = cur.to + dir * Floor(dir * (p - cur.to))
    <3>1. cur'.to >= p - Box /\ cur'.to <= p + Box
      <4>1. CASE dir = 1
        <5>1. p - cur.to \in Int /\ dir * (p - cur.to) = p - cur.to
          BY <1>2, <1>5, <4>1
        <5>2. PICK f \in Int : f = Floor(p - cur.to) /\ f <= p - cur.to /\ p - cur.to < f + Box
          BY <1>8, <5>1
        <5>3. cur'.to = cur.to + f
          BY <1>5, <2>2, <4>1, <5>1, <5>2
        <5>4. p \in Int
          BY <1>2
        <5> QED BY <1>5, <5>2, <5>3, <5>4
      <4>2. CASE dir = -1
        <5>1. cur.to - p \in Int /\ dir * (p - cur.to) = cur.to - p
          BY <1>2, <1>5, <4>2
        <5>2. PICK f \in Int : f = Floor(cur.to - p) /\ f <= cur.to - p /\ cur.to - p < f + Box
          BY <1>8, <5>1
        <5>3. cur'.to = cur.to - f
          BY <1>5, <2>2, <4>2, <5>1, <5>2
        <5>4. p \in Int
          BY <1>2
        <5> QED BY <1>5, <5>2, <5>3, <5>4
      <4>3. CASE dir = 0
        <5>1. dir * (p - cur.to) = 0
          BY <1>2, <1>5, <4>3
        <5> QED BY <1>5, <2>2, <5>1
      <4> QED BY <1>5, <4>1, <4>2, <4>3
    <3> QED BY <1>4, <1>5, <1>6, <1>7, <2>2, <3>1 DEF Real
  <2>3. CASE /\ cur # NoBar /\ -(dir * (p - cur.to)) >= Box
             /\ cur'.from = cur.to - dir * Box
             /\ cur'.to = cur.to - dir * Box - dir * (Floor(-(dir * (p - cur.to)) - Box) + Box)
    <3>1. CASE dir = 1
      <4> DEFINE x == cur.to - p - Box
      <4>1. x \in Int /\ -(dir * (p - cur.to)) - Box = x /\ x >= 0
        BY <1>2, <1>5, <2>3, <3>1
      <4>2. PICK f \in Int : f = Floor(x) /\ f <= x /\ x < f + Box
        BY <1>8, <4>1
      <4>3. cur'.from = cur.to - Box /\ cur'.to = cur.to - Box - (f + Box)
        BY <1>5, <2>3, <3>1, <4>1, <4>2
      <4>4. /\ cur'.from >= p - Box /\ cur'.from <= cur.to /\ cur'.to >= p - Box /\ cur'.to <= p + Box
        <5>1. p \in Int
          BY <1>2
        <5> QED BY <1>5, <4>1, <4>2, <4>3, <5>1
      <4> QED BY <1>5, <1>6, <1>7, <1>9, <2>3, <4>4 DEF Real
    <3>2. CASE dir = -1
      <4> DEFINE x == p - cur.to - Box
      <4>1. x \in Int /\ -(dir * (p - cur.to)) - Box = x /\ x >= 0
        BY <1>2, <1>5, <2>3, <3>2
      <4>2. PICK f \in Int : f = Floor(x) /\ f <= x /\ x < f + Box
        BY <1>8, <4>1
      <4>3. cur'.from = cur.to + Box /\ cur'.to = cur.to + Box + (f + Box)
        BY <1>5, <2>3, <3>2, <4>1, <4>2
      <4>4. /\ cur'.from <= p + Box /\ cur'.from >= cur.to /\ cur'.to >= p - Box /\ cur'.to <= p + Box
        <5>1. p \in Int
          BY <1>2
        <5> QED BY <1>5, <4>1, <4>2, <4>3, <5>1
      <4> QED BY <1>5, <1>6, <1>7, <1>9, <2>3, <4>4 DEF Real
    <3>3. CASE dir = 0
      <4>1. dir * (p - cur.to) = 0
        BY <1>2, <1>5, <3>3
      <4> QED BY <1>5, <2>3, <4>1
    <3> QED BY <1>5, <3>1, <3>2, <3>3
  <2>4. CASE cur # NoBar /\ cur'.from = cur.from /\ cur'.to = cur.to
    BY <1>4, <2>4
  <2> QED BY <1>3, <2>1, <2>2, <2>3, <2>4
<1>11. Fits(cur', Box)
  <2>1. CASE cur'.lo = Least(cur'.from, cur'.to) /\ cur'.hi = Largest(cur'.from, cur'.to)
    <3>1. cur'.lo \in {cur'.from, cur'.to} /\ cur'.hi \in {cur'.from, cur'.to}
      BY <2>1 DEF Least, Largest
    <3> QED BY <1>10, <3>1 DEF Fits, Real
  <2>2. CASE cur'.lo = cur.lo /\ cur'.hi = cur.hi /\ cur # NoBar
    BY <1>4, <2>2 DEF Fits
  <2> QED BY <1>3, <2>1, <2>2
<1>12. ChartFits'
  <2>1. Slack = Box
    BY <1>3 DEF Slack
  <2> QED BY <1>1, <1>3, <1>11, <2>1, EmitFits DEF Traded
<1>13. ColumnFits'
  BY <1>1, <1>10, <1>11 DEF ColumnFits, Real, Fits, Low, High
<1>14. BarFits' /\ AnchorReal' /\ LineReal' /\ GridReal'
  BY <1>1, <1>3 DEF BarFits, AnchorReal, LineReal, GridReal
<1> QED BY <1>1, <1>12, <1>13, <1>14 DEF Traded

\* What was near a trade stays near it when the tape grows.
LEMMA LongerTape ==
  ASSUME \A i \in DOMAIN tape : i \in DOMAIN tape' /\ tape'[i] = tape[i], NEW x, NEW s
  PROVE  /\ Low(x, s) => Low(x, s)'
         /\ High(x, s) => High(x, s)'
         /\ Real(x, s) => Real(x, s)'
         /\ Fits(x, s) => Fits(x, s)'
BY DEF Low, High, Real, Fits

\* A step outside the loop that builds nothing keeps what was built near the trades.
LEMMA QuietReal ==
  ASSUME Shape, Traded, UNCHANGED <<kind, chart, cur, anchor, dir, out>>, pc # "loop", pc' # "loop",
         \A i \in DOMAIN tape : i \in DOMAIN tape' /\ tape'[i] = tape[i], FromTape'
  PROVE  Traded'
<1>1. Slack' = Slack /\ Unset' = Unset
  BY DEF Slack, Unset
<1>2. ChartFits'
  <2> SUFFICES ASSUME NEW i \in DOMAIN chart PROVE Low(chart[i].lo, Slack)' /\ High(chart[i].hi, Slack)'
    BY DEF ChartFits, Fits
  <2> DEFINE l == chart[i].lo
             h == chart[i].hi
             s == Slack
  <2>1. Low(l, s) /\ High(h, s)
    BY DEF Traded, ChartFits, Fits
  <2>2. /\ \E k \in DOMAIN tape : k \in DOMAIN tape' /\ l >= tape'[k].price - s
        /\ \E k \in DOMAIN tape : k \in DOMAIN tape' /\ h <= tape'[k].price + s
    <3> HIDE DEF l, h, s
    <3> QED BY <2>1 DEF Low, High
  <2> QED BY <1>1, <2>2 DEF Low, High
<1>3. BarFits' /\ ColumnFits'
  <2>1. Fits(cur, 0) => Fits(cur, 0)'
    BY LongerTape
  <2>2. Fits(cur, Box) => Fits(cur, Box)'
    BY LongerTape
  <2>3. Real(cur.from, Box) => Real(cur.from, Box)'
    BY LongerTape DEF Real, Low, High
  <2>4. Real(cur.to, Box) => Real(cur.to, Box)'
    BY LongerTape DEF Real, Low, High
  <2> QED BY <2>1, <2>2, <2>3, <2>4 DEF Traded, BarFits, ColumnFits
<1>4. AnchorReal' /\ LineReal'
  <2>1. Real(anchor, 0) => Real(anchor, 0)'
    BY DEF Real, Low, High
  <2>2. Real(cur.from, 0) => Real(cur.from, 0)'
    BY DEF Real, Low, High
  <2> QED BY <1>1, <2>1, <2>2 DEF Traded, AnchorReal, LineReal
<1>5. GridReal'
  <2>1. Real(anchor, Box - 1) => Real(anchor, Box - 1)'
    BY DEF Real, Low, High
  <2> QED BY <1>1, <2>1 DEF Traded, GridReal, Stuck
<1> QED BY <1>2, <1>3, <1>4, <1>5 DEF Traded

\* A grid line near a trade is a grid line.
LEMMA GridLine ==
  ASSUME tape \in Seq(TapeType), NEW x \in Int, Low(x, Box - 1)
  PROVE  x # Unset
<1>1. PICK i \in DOMAIN tape : x >= tape[i].price - (Box - 1)
  BY DEF Low
<1>2. tape[i].price \in Nat /\ tape[i].price >= 1
  BY TapeIs
<1> QED BY <1>1, <1>2 DEF Unset

\* The first grid line is the one below the price.
LEMMA EnterReal == ASSUME Shape, Traded, RenkoEnter PROVE Traded'
<1> DEFINE p == Head(pending).price
<1>1. /\ pc = "run" /\ pending # <<>> /\ kind = "renko" /\ pc' = "loop" /\ out' = NoBar
      /\ anchor' = IF anchor = Unset THEN Floor(p) ELSE anchor
      /\ UNCHANGED <<kind, tape, pending, cur, dir, chart>>
  BY EnterIs
<1>2. tape \in Seq(TapeType) /\ p \in Int /\ \E k \in DOMAIN tape : p = tape[k].price
  BY <1>1, HandReal DEF Traded
<1>3. anchor \in Int /\ anchor' \in Int
  BY EnterIs DEF Shape, Typed
<1> HIDE DEF p
<1>4. Real(anchor', Box - 1)
  <2>1. CASE anchor = Unset
    <3>1. PICK f \in Int : f = Floor(p) /\ f <= p /\ p < f + Box
      BY <1>2, FloorIs
    <3>2. anchor' = f /\ Box \in Int
      BY <1>1, <2>1, <3>1
    <3>3. p \in Int
      BY <1>2
    <3>4. Box - 1 \in Int /\ f >= p - (Box - 1) /\ f <= p + (Box - 1)
      BY <3>1, <3>2, <3>3
    <3> QED BY <1>2, <3>1, <3>2, <3>4, NearTrade DEF Real
  <2>2. CASE anchor # Unset
    BY <1>1, <2>2 DEF Traded, GridReal, Stuck
  <2> QED BY <2>1, <2>2
<1>5. anchor' # Unset
  BY <1>2, <1>3, <1>4, GridLine DEF Real
<1>6. GridReal'
  <2>1. Unset' = Unset /\ Real(anchor, Box - 1)'
    BY <1>1, <1>4 DEF Unset, Real, Low, High
  <2> QED BY <1>1, <1>5, <2>1 DEF GridReal
<1>7. FromTape' /\ ChartFits'
  BY <1>1 DEF Traded, FromTape, ChartFits, Fits, Low, High, Slack
<1>8. BarFits' /\ ColumnFits' /\ AnchorReal' /\ LineReal'
  BY <1>1 DEF BarFits, ColumnFits, AnchorReal, LineReal
<1> QED BY <1>6, <1>7, <1>8 DEF Traded

\* A loop that turns for ever makes another brick.
LEMMA StuckTurns ==
  ASSUME Shape, Stuck
  PROVE  BrickWay(Head(pending).price) # 0
<1> DEFINE p == Head(pending).price
<1>1. pending # <<>> /\ anchor \in Int
  BY DEF Shape, Typed, Looping, Stuck
<1>2. p \in Int
  BY <1>1, HandIs
<1>3. \/ dir = 1 /\ anchor - p = Box
      \/ dir = -1 /\ p - anchor = Box
  BY DEF Stuck
<1>4. Box * Reversal = Box /\ Box \in Int /\ Box >= 1
  BY ReversalIs DEF Stuck
<1> HIDE DEF p
<1>5. BrickWay(p) = 0 =>
        \/ p < anchor + Box /\ p > anchor - Box
        \/ p >= anchor + Box /\ dir = -1 /\ p - anchor < Box * Reversal
        \/ p <= anchor - Box /\ dir = 1 /\ anchor - p < Box * Reversal
  BY <1>2, BrickWayIs
<1>6. BrickWay(p) # 0
  BY <1>1, <1>2, <1>3, <1>4, <1>5
<1> QED BY <1>6 DEF p

\* A brick ends near the price, unless it is stuck.
LEMMA BrickReal == ASSUME Shape, Traded, RenkoBrick PROVE Traded'
<1> DEFINE p == Head(pending).price
           way == BrickWay(p)
           foot == anchor + (IF dir = -way THEN way * Box ELSE 0)
<1>1. /\ pc = "loop" /\ pc' = "loop" /\ kind = "renko" /\ pending # <<>>
      /\ way \in {-1, 1} /\ foot \in Int /\ dir' = way
      /\ anchor' = foot + way * Box /\ anchor' \in Int /\ out' \in BarType
      /\ out'.lo = Least(foot, anchor') /\ out'.hi = Largest(foot, anchor')
      /\ UNCHANGED <<kind, tape, pending, cur, chart>>
  BY BrickIs
<1>2. tape \in Seq(TapeType) /\ p \in Int /\ \E k \in DOMAIN tape : p = tape[k].price
  BY <1>1, HandReal DEF Traded
<1>3. anchor \in Int /\ dir \in {-1, 0, 1} /\ Box \in Int /\ Box >= 1
  BY DEF Shape, Typed
<1>4. /\ way = 1 => p >= anchor + Box /\ (dir = -1 => p - anchor >= Box * Reversal)
      /\ way = -1 => p <= anchor - Box /\ (dir = 1 => anchor - p >= Box * Reversal)
  BY <1>2, BrickWayIs
<1>5. /\ Box * Reversal \in Int /\ Box * Reversal >= Box
      /\ Reversal # 1 => Box * Reversal >= 2 * Box
  BY ReversalIs
<1>6. \/ way = 1 /\ dir = -1 /\ foot = anchor + Box /\ anchor' = anchor + 2 * Box
      \/ way = 1 /\ dir # -1 /\ foot = anchor /\ anchor' = anchor + Box
      \/ way = -1 /\ dir = 1 /\ foot = anchor - Box /\ anchor' = anchor - 2 * Box
      \/ way = -1 /\ dir # 1 /\ foot = anchor /\ anchor' = anchor - Box
  <2> HIDE DEF way
  <2>1. CASE way = 1
    BY <1>1, <1>3, <2>1
  <2>2. CASE way = -1
    <3>1. way \in Int /\ -way = 0 - way
      BY <1>1
    <3>4. 0 - way = 1
      BY <2>2
    <3>5. -way = 1
      BY <3>1, <3>4
    <3>2. (-1) * Box = -Box
      BY <1>3
    <3>3. way * Box = -Box
      BY <2>2, <3>2
    <3> QED BY <1>1, <1>3, <2>2, <3>3, <3>5
  <2> QED BY <1>1, <2>1, <2>2
<1> DEFINE R == Box * Reversal
<1>7. Stuck' <=> /\ Reversal = 1
                 /\ \/ way = 1 /\ anchor' - p = Box
                    \/ way = -1 /\ p - anchor' = Box
  <2>1. Head(pending').price = p
    BY <1>1
  <2> HIDE DEF p, way
  <2> QED BY <1>1, <2>1 DEF Stuck
<1>8. Stuck => /\ Reversal = 1
               /\ \/ dir = 1 /\ anchor - p = Box
                  \/ dir = -1 /\ p - anchor = Box
  BY DEF Stuck
<1>9. Stuck \/ Real(anchor, Box - 1)
  BY <1>1 DEF Traded, GridReal
<1> HIDE DEF p, way, foot, R
<1>a. p \in Int /\ R \in Int /\ R >= Box /\ (Reversal # 1 => R >= 2 * Box)
  BY <1>2, <1>5 DEF R
<1>b. /\ way = 1 => p >= anchor + Box /\ (dir = -1 => p - anchor >= R)
      /\ way = -1 => p <= anchor - Box /\ (dir = 1 => anchor - p >= R)
  BY <1>4 DEF R
<1>10. Stuck' \/ (Real(foot, Box - 1) /\ Real(anchor', Box - 1))
  <2>1. CASE Stuck
    <3>1. \/ way = -1 /\ dir = 1 /\ anchor' = anchor - 2 * Box /\ anchor - p = Box
          \/ way = 1 /\ dir = -1 /\ anchor' = anchor + 2 * Box /\ p - anchor = Box
      BY <1>a, <1>b, <1>3, <1>6, <1>8, <2>1
    <3>2. \/ way = 1 /\ anchor' - p = Box
          \/ way = -1 /\ p - anchor' = Box
      BY <1>a, <1>1, <1>3, <3>1
    <3> QED BY <1>7, <1>8, <2>1, <3>2
  <2>2. CASE ~Stuck' /\ Real(anchor, Box - 1)
    <3>1. /\ \A x \in Int : x >= p - (Box - 1) => Low(x, Box - 1)
          /\ \A x \in Int : x <= p + (Box - 1) => High(x, Box - 1)
      <4>1. Box - 1 \in Int
        BY <1>3
      <4> QED BY <1>2, <4>1, NearTrade
    <3>2. /\ \A x \in Int : x >= anchor => Low(x, Box - 1)
          /\ \A x \in Int : x <= anchor => High(x, Box - 1)
      <4> SUFFICES ASSUME NEW x \in Int
                   PROVE  (x >= anchor => Low(x, Box - 1)) /\ (x <= anchor => High(x, Box - 1))
        OBVIOUS
      <4> DEFINE s == Box - 1
      <4>1. s \in Int /\ s <= s /\ Low(anchor, s) /\ High(anchor, s)
        BY <1>3, <2>2 DEF Real
      <4> HIDE DEF s
      <4>2. (anchor <= x => Low(x, s)) /\ (x <= anchor => High(x, s))
        BY <1>2, <1>3, <4>1, Wider
      <4> QED BY <1>3, <4>2 DEF s
    <3>3. /\ foot >= anchor \/ foot >= p - (Box - 1)
          /\ foot <= anchor \/ foot <= p + (Box - 1)
          /\ anchor' >= anchor \/ anchor' >= p - (Box - 1)
          /\ anchor' <= anchor \/ anchor' <= p + (Box - 1)
      <4>1. CASE way = 1 /\ dir = -1 /\ foot = anchor + Box /\ anchor' = anchor + 2 * Box
        <5>1. p - anchor >= R /\ ~(Reversal = 1 /\ anchor' - p = Box)
          BY <1>b, <1>7, <2>2, <4>1
        <5>2. p - anchor >= Box + 1
          BY <1>a, <1>3, <4>1, <5>1
        <5> QED BY <1>a, <1>3, <4>1, <5>2
      <4>2. CASE way = 1 /\ dir # -1 /\ foot = anchor /\ anchor' = anchor + Box
        BY <1>a, <1>b, <1>3, <4>2
      <4>3. CASE way = -1 /\ dir = 1 /\ foot = anchor - Box /\ anchor' = anchor - 2 * Box
        <5>1. anchor - p >= R /\ ~(Reversal = 1 /\ p - anchor' = Box)
          BY <1>b, <1>7, <2>2, <4>3
        <5>2. anchor - p >= Box + 1
          BY <1>a, <1>3, <4>3, <5>1
        <5> QED BY <1>a, <1>3, <4>3, <5>2
      <4>4. CASE way = -1 /\ dir # 1 /\ foot = anchor /\ anchor' = anchor - Box
        BY <1>a, <1>b, <1>3, <4>4
      <4> QED BY <1>6, <4>1, <4>2, <4>3, <4>4
    <3>4. foot \in Int /\ anchor' \in Int
      BY <1>1
    <3> QED BY <3>1, <3>2, <3>3, <3>4 DEF Real
  <2> QED BY <1>9, <2>1, <2>2
<1>11. GridReal'
  <2>1. CASE Stuck'
    BY <2>1 DEF GridReal
  <2>2. CASE Real(foot, Box - 1) /\ Real(anchor', Box - 1)
    <3>1. Low(out'.lo, Box - 1) /\ High(out'.hi, Box - 1)
      <4>1. out'.lo \in {foot, anchor'} /\ out'.hi \in {foot, anchor'}
        BY <1>1 DEF Least, Largest
      <4> QED BY <2>2, <4>1 DEF Real
    <3>2. anchor' # Unset
      BY <1>1, <1>2, <2>2, GridLine DEF Real
    <3>3. Real(anchor, Box - 1)' /\ Fits(out, Box - 1)' /\ Unset' = Unset
      BY <1>1, <2>2, <3>1 DEF Real, Fits, Low, High, Unset
    <3> QED BY <3>2, <3>3 DEF GridReal
  <2> QED BY <1>10, <2>1, <2>2
<1>12. FromTape' /\ ChartFits'
  BY <1>1 DEF Traded, FromTape, ChartFits, Fits, Low, High, Slack
<1>13. BarFits' /\ ColumnFits' /\ AnchorReal' /\ LineReal'
  BY <1>1 DEF BarFits, ColumnFits, AnchorReal, LineReal
<1> QED BY <1>11, <1>12, <1>13 DEF Traded

\* The last brick of the loop goes to the chart.
LEMMA LeaveReal == ASSUME Shape, Traded, RenkoLeave PROVE Traded'
<1>1. /\ pc = "loop" /\ kind = "renko" /\ pending # <<>> /\ BrickWay(Head(pending).price) = 0
      /\ pc' = "run" /\ pending' = Tail(pending)
      /\ \/ out # NoBar /\ Emit(out)
         \/ out = NoBar /\ chart' = chart
      /\ UNCHANGED <<kind, tape, cur, anchor, dir, out>>
  BY LeaveIs
<1>2. ~Stuck
  BY <1>1, StuckTurns
<1>3. (anchor # Unset => Real(anchor, Box - 1)) /\ (out # NoBar => Fits(out, Box - 1))
  BY <1>1, <1>2 DEF Traded, GridReal
<1>4. FromTape'
  BY <1>1, HandReal DEF Traded, FromTape
<1>5. ChartFits'
  <2>1. CASE out = NoBar /\ chart' = chart
    BY <1>1, <2>1 DEF Traded, ChartFits, Fits, Low, High, Slack
  <2>2. CASE out # NoBar /\ Emit(out)
    <3>1. Slack = Box - 1 /\ out \in BarType
      BY <1>1 DEF Slack, Shape, Typed
    <3> QED BY <1>1, <1>3, <2>2, <3>1, EmitFits DEF Traded
  <2> QED BY <1>1, <2>1, <2>2
<1>6. GridReal'
  <2>1. Unset' = Unset /\ (Real(anchor, Box - 1) => Real(anchor, Box - 1)')
    BY <1>1 DEF Unset, Real, Low, High
  <2> QED BY <1>1, <1>3, <2>1 DEF GridReal
<1>7. BarFits' /\ ColumnFits' /\ AnchorReal' /\ LineReal'
  BY <1>1 DEF BarFits, ColumnFits, AnchorReal, LineReal
<1> QED BY <1>4, <1>5, <1>6, <1>7 DEF Traded

\* Every step keeps what a chart shows near the trades.
LEMMA TradedStep == Shape /\ Traded /\ [Next]_vars => Traded'
<1> SUFFICES ASSUME Shape, Traded, [Next]_vars PROVE Traded'
  OBVIOUS
<1>1. CASE Fold
  BY <1>1, FoldIs, FoldBarReal, FoldColumnReal, FoldSegmentReal, FoldLineReal
<1>2. CASE RenkoEnter \/ RenkoBrick \/ RenkoLeave
  BY <1>2, EnterReal, BrickReal, LeaveReal
<1>3. CASE Trade
  <2>1. /\ pending = <<>> /\ UNCHANGED <<kind, pc, pending, chart, cur, anchor, dir, out>>
    BY <1>3 DEF Trade, builder, output
  <2>2. \A i \in DOMAIN tape : i \in DOMAIN tape' /\ tape'[i] = tape[i]
    BY <1>3, TradeIs
  <2>3. pc # "loop"
    BY <2>1 DEF Shape, Looping
  <2>4. FromTape'
    BY <2>1 DEF FromTape
  <2> QED BY <2>1, <2>2, <2>3, <2>4, QuietReal
<1>4. CASE Subscribe \/ NoFetch \/ SeedDone
  <2>1. /\ UNCHANGED <<kind, tape, pending, chart, cur, anchor, dir, out>> /\ pc # "loop" /\ pc' # "loop"
    BY <1>4 DEF Subscribe, NoFetch, SeedDone, builder, output
  <2>2. FromTape'
    BY <2>1 DEF Traded, FromTape
  <2> QED BY <2>1, <2>2, QuietReal
<1>5. CASE Fetch
  <2>1. /\ tape # <<>> /\ UNCHANGED <<kind, tape, chart, cur, anchor, dir, out>> /\ pc # "loop" /\ pc' # "loop"
        /\ pending' = Seed(Len(tape))
    BY <1>5 DEF Fetch, builder, output
  <2>2. Len(tape) \in DOMAIN tape /\ tape \in Seq(TapeType) /\ Steady
    BY <2>1 DEF Shape, Typed
  <2>3. \A i \in DOMAIN Seed(Len(tape)) : \E k \in DOMAIN tape : Seed(Len(tape))[i].price = tape[k].price
    BY <2>2, SeedIs
  <2>4. FromTape'
    BY <2>1, <2>3 DEF FromTape
  <2> QED BY <2>1, <2>4, QuietReal
<1>6. CASE Receive
  <2>1. /\ UNCHANGED <<kind, tape, pc, chart, cur, anchor, dir, out>> /\ pc = "run"
        /\ pos <= Len(tape) /\ pending' = Delta(Snapshot(pos)).ticks
    BY <1>6 DEF Receive, builder, output
  <2>2. pos \in DOMAIN tape /\ tape \in Seq(TapeType) /\ base \in BaseType
    BY <2>1 DEF Shape, Typed, Fresh
  <2> DEFINE s == Snapshot(pos)
  <2>3. s.min \in Nat /\ s.min >= 1 /\ s.vol \in Nat /\ s.price \in Prices /\ s.price = tape[pos].price
    BY <2>2, SnapshotIs
  <2> HIDE DEF s
  <2>4. Delta(s).ticks = <<>> \/ \E t \in TradeType : Delta(s).ticks = <<t>> /\ t.price = s.price
    BY <2>2, <2>3, DeltaIs
  <2>5. pending' = Delta(s).ticks
    BY <2>1 DEF s
  <2>6. \A i \in DOMAIN pending' : pending'[i].price = tape[pos].price
    BY <2>3, <2>4, <2>5
  <2>7. FromTape'
    BY <2>1, <2>2, <2>6 DEF FromTape
  <2> QED BY <2>1, <2>7, QuietReal
<1>7. CASE UNCHANGED vars
  <2>1. UNCHANGED <<kind, tape, pc, pending, chart, cur, anchor, dir, out>>
    BY <1>7 DEF vars, builder, output
  <2>2. FromTape' /\ ChartFits'
    BY <2>1 DEF Traded, FromTape, ChartFits, Fits, Low, High, Slack
  <2>3. BarFits' /\ ColumnFits'
    BY <2>1 DEF Traded, BarFits, ColumnFits, Fits, Real, Low, High
  <2>4. AnchorReal' /\ LineReal'
    BY <2>1 DEF Traded, AnchorReal, LineReal, Real, Low, High, Unset
  <2>5. GridReal'
    BY <2>1 DEF Traded, GridReal, Stuck, Real, Fits, Low, High, Unset
  <2> QED BY <2>2, <2>3, <2>4, <2>5 DEF Traded
<1> QED BY <1>1, <1>2, <1>3, <1>4, <1>5, <1>6, <1>7 DEF Next, Forwarder

\* What the invariant says of the lowest and the highest trade.
LEMMA TradedBounds == Shape /\ Traded => NothingInvented
<1> SUFFICES ASSUME Shape, Traded, NEW i \in DOMAIN chart
             PROVE  LET prices == {tape[j].price : j \in DOMAIN tape}
                    IN  chart[i].lo >= Min(prices) - Slack /\ chart[i].hi <= Max(prices) + Slack
  BY DEF NothingInvented, Slack
<1> DEFINE prices == {tape[j].price : j \in DOMAIN tape}
<1>1. tape \in Seq(TapeType) /\ chart \in Seq(BarType) /\ Slack \in Int
  BY DEF Shape, Typed, Slack
<1>2. Low(chart[i].lo, Slack) /\ High(chart[i].hi, Slack)
  BY DEF Traded, ChartFits, Fits
<1>3. chart[i].lo \in Int /\ chart[i].hi \in Int
  BY <1>1, BarIs
<1> HIDE DEF Slack
<1>4. PICK k \in DOMAIN tape : chart[i].lo >= tape[k].price - Slack
  BY <1>2 DEF Low
<1>5. PICK m \in DOMAIN tape : chart[i].hi <= tape[m].price + Slack
  BY <1>2 DEF High
<1>6. \A j \in DOMAIN tape : tape[j].price \in prices /\ tape[j].price \in Nat
  BY <1>1, TapeIs
<1>7. Min(prices) \in Nat /\ Min(prices) <= tape[k].price
  <2>1. prices \in SUBSET Nat /\ prices # {}
    BY <1>4, <1>6
  <2>2. tape[k].price \in prices
    BY <1>4, <1>6
  <2> HIDE DEF prices
  <2> QED BY <2>1, <2>2, LeastIn
<1>8. Max(prices) \in Nat /\ tape[m].price <= Max(prices)
  <2>1. \E x \in prices : \A y \in prices : x >= y
    <3>1. Len(tape) \in 0 .. Len(tape) /\ DOMAIN tape \in SUBSET (1 .. Len(tape)) /\ DOMAIN tape # {}
      BY <1>1, <1>5
    <3>2. PICK x \in DOMAIN tape : \A j \in DOMAIN tape : tape[j].price <= tape[x].price
      BY <1>1, <3>1, HighestTrade
    <3>3. \A j \in DOMAIN tape : tape[x].price >= tape[j].price
      BY <1>6, <3>2
    <3> QED BY <1>6, <3>3
  <2>2. Max(prices) \in prices /\ \A y \in prices : Max(prices) >= y
    <3> HIDE DEF prices
    <3> QED BY <2>1 DEF Max
  <2>3. prices \in SUBSET Nat /\ tape[m].price \in prices
    BY <1>5, <1>6
  <2> HIDE DEF prices
  <2> QED BY <2>2, <2>3
<1> HIDE DEF prices
<1>9. tape[k].price \in Int /\ tape[m].price \in Int
  BY <1>6
<1>10. chart[i].lo >= Min(prices) - Slack
  BY <1>1, <1>3, <1>4, <1>7, <1>9
<1>11. chart[i].hi <= Max(prices) + Slack
  BY <1>1, <1>3, <1>5, <1>8, <1>9
<1> QED BY <1>10, <1>11 DEF prices

\* No bar of a chart shows a price that the market did not reach, but for a box
\* (NothingInvented).
THEOREM PricesHold == Spec => []NothingInvented
<1>1. Init => Traded
  <2> SUFFICES ASSUME Init PROVE Traded
    OBVIOUS
  <2>1. /\ pc = "idle" /\ pending = <<>> /\ chart = <<>> /\ cur = NoBar /\ anchor = Unset /\ dir = 0
    BY DEF Init
  <2> QED BY <2>1 DEF Traded, FromTape, ChartFits, BarFits, ColumnFits, AnchorReal, LineReal, GridReal
<1>2. Shape /\ Traded /\ [Next]_vars => Traded'
  BY TradedStep
<1> QED BY <1>1, <1>2, TradedBounds, ShapeHolds, PTL DEF Spec

-----------------------------------------------------------------------------
(* The chain of lines and of bricks.                                         *)

Way(x) == IF x.to > x.from THEN 1 ELSE -1

\* A line or a brick follows the one before.
LineFollows(c, i) ==
  /\ c[i].from = c[i - 1].to
  /\ \/ \A j \in Largest(1, i - LinesBack) .. i - 1 : c[i].to > c[j].hi
     \/ \A j \in Largest(1, i - LinesBack) .. i - 1 : c[i].to < c[j].lo
BrickFollows(before, b) ==
  Way(b) * (b.from - before.to) >= (IF Way(b) = Way(before) THEN 0 ELSE Box)

Follows(c, i) ==
  /\ kind = "tlb" => LineFollows(c, i)
  /\ kind = "renko" => BrickFollows(c[i - 1], c[i])

\* The lines remembered are the last of the chart; the next one starts where they end.
LinesAreLast ==
  kind = "tlb" =>
    /\ Len(lines) = Least(LinesBack, Len(chart))
    /\ \A i \in DOMAIN lines : lines[i] = chart[i + (Len(chart) - Len(lines))]
    /\ cur = NoBar => chart = <<>>
    /\ chart # <<>> => cur.from = Last(chart).to

\* The grid goes on from the last brick, of the chart or of the loop.
GridGoesOn ==
  kind = "renko" =>
    /\ chart # <<>> /\ (pc # "loop" \/ out = NoBar) =>
         anchor # Unset /\ anchor = Last(chart).to /\ dir = Way(Last(chart))
    /\ pc = "loop" /\ out # NoBar =>
         /\ anchor = out.to /\ dir = Way(out)
         /\ \/ Stuck
            \/ /\ dir = 1 => anchor - Head(pending).price < Box
               /\ dir = -1 => Head(pending).price - anchor < Box
               /\ chart # <<>> => BrickFollows(Last(chart), out)

Linked == LinesAreLast /\ GridGoesOn /\ Chained

\* What Chained says of bar i of chart c of kind k.
Joined(k, c, i) ==
  LET b == c[i]
      before == c[i - 1]
      way(x) == IF x.to > x.from THEN 1 ELSE -1
  IN  /\ k = "tlb" =>
           /\ b.from = before.to
           /\ LET last == {c[j] : j \in Largest(1, i - LinesBack) .. i - 1}
              IN  (\A x \in last : b.to > x.hi) \/ (\A x \in last : b.to < x.lo)
      /\ k = "renko" =>
           way(b) * (b.from - before.to) >= (IF way(b) = way(before) THEN 0 ELSE Box)

\* The two ways to say that bar i follows those before it agree.
LEMMA JoinedIs == ASSUME NEW c, NEW i PROVE Joined(kind, c, i) <=> Follows(c, i)
<1>1. LineFollows(c, i) <=>
        /\ c[i].from = c[i - 1].to
        /\ LET last == {c[j] : j \in Largest(1, i - LinesBack) .. i - 1}
           IN  (\A x \in last : c[i].to > x.hi) \/ (\A x \in last : c[i].to < x.lo)
  BY DEF LineFollows
<1>2. BrickFollows(c[i - 1], c[i]) <=>
        LET way(x) == IF x.to > x.from THEN 1 ELSE -1
        IN  way(c[i]) * (c[i].from - c[i - 1].to) >=
              (IF way(c[i]) = way(c[i - 1]) THEN 0 ELSE Box)
  BY DEF BrickFollows, Way
<1> QED BY <1>1, <1>2, Zenon DEF Follows, Joined

\* The chain bar by bar, in one state and in the next.
LEMMA ChainedIs == Chained <=> \A i \in 2 .. Len(chart) : Follows(chart, i)
<1>1. Chained <=> \A i \in 2 .. Len(chart) : Joined(kind, chart, i)
  BY Zenon DEF Chained, Joined
<1> QED BY <1>1, JoinedIs, Zenon

\* The chart of the next state is chained when every bar of it follows those before it.
LEMMA ChainedNext ==
  ASSUME kind' = kind, NEW c, chart' = c, \A i \in 2 .. Len(c) : Follows(c, i)
  PROVE  Chained'
<1>1. \A i \in 2 .. Len(c) : Joined(kind, c, i)
  BY JoinedIs, Zenon
<1>2. \A i \in 2 .. Len(chart') : Joined(kind', chart', i)
  BY <1>1, Zenon
<1> QED BY <1>2, Zenon DEF Chained, Joined

\* A bar on top follows if it follows the last; the others follow as they did.
LEMMA AppendFollows ==
  ASSUME chart \in Seq(BarType), \A i \in 2 .. Len(chart) : Follows(chart, i), NEW b \in BarType,
         chart # <<>> => Follows(Append(chart, b), Len(chart) + 1)
  PROVE  \A i \in 2 .. Len(Append(chart, b)) : Follows(Append(chart, b), i)
<1> DEFINE c == Append(chart, b)
           n == Len(chart)
<1>1. n \in Nat /\ Len(c) = n + 1 /\ \A j \in 1 .. n : c[j] = chart[j]
  OBVIOUS
<1> HIDE DEF c
<1>2. ASSUME NEW i \in 2 .. n PROVE Follows(c, i)
  <2>1. i \in 1 .. n /\ i - 1 \in 1 .. n /\ i \in Int /\ LinesBack \in Int
    BY <1>1, <1>2
  <2>2. \A j \in Largest(1, i - LinesBack) .. i - 1 : j \in 1 .. n
    BY <1>1, <2>1 DEF Largest
  <2>3. Follows(chart, i) /\ c[i] = chart[i] /\ c[i - 1] = chart[i - 1]
    BY <1>1, <2>1
  <2>4. \A j \in Largest(1, i - LinesBack) .. i - 1 : c[j] = chart[j]
    BY <1>1, <2>2
  <2> QED BY <2>3, <2>4 DEF Follows, LineFollows
<1>3. ASSUME n + 1 \in 2 .. n + 1 PROVE Follows(c, n + 1)
  <2>1. chart # <<>>
    BY <1>1, <1>3
  <2> QED BY <2>1 DEF c
<1>4. \A i \in 2 .. Len(c) : i \in 2 .. n \/ i = n + 1
  BY <1>1
<1> QED BY <1>2, <1>3, <1>4 DEF c

\* A three-line-break line starts where the last one ended, and closes beyond those kept.
LEMMA FoldLineLinked ==
  ASSUME Shape, Told, Linked, Fold, FoldLine(Head(pending)), lastId' < MaxId
  PROVE  Linked'
<1> DEFINE t == Head(pending)
           p == t.price
           new == [NoBar EXCEPT !.id = t.ts, !.from = t.price]
           n == Len(chart)
           m == Len(lines)
<1>0. /\ chart \in Seq(BarType) /\ lines \in Seq(BarType) /\ m <= LinesBack /\ n \in Nat /\ m \in Nat
      /\ cur \in BarType /\ lastId \in 0 .. MaxId
  BY DEF Shape, Typed
<1>1. pending # <<>> /\ kind' = kind /\ pc = "run" /\ pc' = "run"
  BY FoldIs
<1>2. p \in Int /\ p >= 1 /\ t.ts \in Nat
  BY <1>1, HandIs
<1>3. /\ kind = "tlb" /\ TheLine \in BarType /\ TheLine.id = NewId(cur.id) /\ TheLine.id \in 0 .. MaxId
      /\ TheLine.from = cur.from /\ TheLine.to = p
      /\ \/ /\ cur # NoBar /\ Emit(TheLine) /\ lastId' = TheLine.id /\ cur' = new
            /\ lines' = LastLines(Append(lines, TheLine))
            /\ lines # <<>> => \/ \A i \in DOMAIN lines : p > lines[i].hi
                               \/ \A i \in DOMAIN lines : p < lines[i].lo
         \/ /\ UNCHANGED <<chart, lastId, lines>>
            /\ cur' = IF cur = NoBar THEN new ELSE cur
  BY FoldLineIs
<1>4. new.from = p /\ new # NoBar
  <2>1. new.from = p /\ NoBar.from = 0
    BY DEF NoBar
  <2> HIDE DEF new
  <2> QED BY <1>2, <2>1
<1>5. /\ m = Least(LinesBack, n)
      /\ \A i \in DOMAIN lines : lines[i] = chart[i + (n - m)]
      /\ cur = NoBar => chart = <<>>
      /\ chart # <<>> => cur.from = Last(chart).to
      /\ \A i \in 2 .. n : Follows(chart, i)
  BY <1>0, <1>3, ChainedIs DEF Linked, LinesAreLast
<1> HIDE DEF p, new, t
<1>6. CASE UNCHANGED <<chart, lastId, lines>> /\ cur' = IF cur = NoBar THEN new ELSE cur
  <2>1. LinesAreLast'
    BY <1>1, <1>3, <1>4, <1>5, <1>6 DEF LinesAreLast
  <2>2. GridGoesOn' /\ Chained'
    BY <1>1, <1>3, <1>6 DEF Linked, GridGoesOn, Chained
  <2> QED BY <2>1, <2>2 DEF Linked
<1>7. CASE /\ cur # NoBar /\ Emit(TheLine) /\ lastId' = TheLine.id /\ cur' = new
           /\ lines' = LastLines(Append(lines, TheLine))
           /\ lines # <<>> => \/ \A i \in DOMAIN lines : p > lines[i].hi
                              \/ \A i \in DOMAIN lines : p < lines[i].lo
  <2>1. chart # <<>> => Last(chart).id < TheLine.id
    <3>1. NewId(cur.id) > lastId
      <4>1. cur.id \in Nat /\ NewId(cur.id) < MaxId
        BY <1>0, <1>3, <1>7, BarIs
      <4> QED BY <1>0, <4>1, NewIdIs
    <3>2. ASSUME chart # <<>> PROVE Last(chart).id <= lastId /\ Last(chart).id \in Int
      BY <1>0, <1>3, <3>2, LastIs DEF Told, Newest
    <3> QED BY <1>0, <1>3, <3>1, <3>2
  <2> DEFINE c == Append(chart, TheLine)
             k == IF m = LinesBack THEN 1 ELSE 0
  <2>2. chart' = c /\ Last(c) = TheLine
    BY <1>0, <1>3, <1>7, <2>1, EmitEnds
  <2>3. /\ lines' \in Seq(BarType) /\ Len(lines') = m - k + 1 /\ lines'[Len(lines')] = TheLine
        /\ \A i \in 1 .. Len(lines') - 1 : lines'[i] = lines[i + k]
    BY <1>0, <1>3, <1>7, LastLinesIs
  <2>4. c \in Seq(BarType) /\ Len(c) = n + 1 /\ c[n + 1] = TheLine /\ \A j \in 1 .. n : c[j] = chart[j]
    BY <1>0, <1>3
  <2>5. LinesAreLast'
    <3> DEFINE l == Len(lines')
    <3>a. /\ l = m - k + 1 /\ k = (IF m = LinesBack THEN 1 ELSE 0) /\ m = Least(LinesBack, n)
          /\ LinesBack \in Nat /\ LinesBack >= 1 /\ m \in Nat /\ n \in Nat /\ DOMAIN lines' = 1 .. l
      BY <1>0, <1>5, <2>3
    <3> HIDE DEF c, k, l, m, n
    <3>1. l = Least(LinesBack, n + 1)
      BY <3>a DEF Least
    <3>2. ASSUME NEW i \in DOMAIN lines' PROVE lines'[i] = c[i + (n + 1 - l)]
      <4>1. i \in 1 .. l /\ k \in {0, 1} /\ m <= n /\ l \in Nat
        BY <3>a DEF Least
      <4>2. CASE i = l
        <5>1. i + (n + 1 - l) = n + 1
          BY <3>a, <4>1, <4>2
        <5> QED BY <2>3, <2>4, <4>2, <5>1 DEF l
      <4>3. CASE i # l
        <5>1. i \in 1 .. l - 1 /\ i + k \in 1 .. m
          BY <3>a, <4>1, <4>3, SMTT(30)
        <5>2. lines'[i] = lines[i + k] /\ i + k \in DOMAIN lines
          BY <1>0, <2>3, <5>1 DEF l, m
        <5>3. lines'[i] = chart[(i + k) + (n - m)]
          BY <1>5, <5>2
        <5>a. i \in Int /\ i + k <= m /\ i + k >= 1 /\ k \in Int
          BY <3>a, <4>1, <5>1
        <5>b. l = m - k + 1 /\ m <= n /\ m \in Int /\ n \in Int /\ l \in Int
          BY <3>a, <4>1
        <5>4. (i + k) + (n - m) = i + (n + 1 - l)
          BY <5>a, <5>b
        <5>5. (i + k) + (n - m) \in 1 .. n
          BY <5>a, <5>b
        <5> QED BY <2>4, <5>3, <5>4, <5>5
      <4> QED BY <4>2, <4>3
    <3>3. Last(chart') = TheLine /\ Len(chart') = n + 1
      BY <2>2, <2>4
    <3>4. /\ Len(lines') = Least(LinesBack, Len(chart'))
          /\ \A i \in DOMAIN lines' : lines'[i] = chart'[i + (Len(chart') - Len(lines'))]
      <4>1. Len(lines') = Least(LinesBack, Len(chart'))
        BY <3>1, <3>3 DEF l
      <4>2. \A i \in DOMAIN lines' : lines'[i] = chart'[i + (n + 1 - l)]
        BY <2>2, <3>2
      <4>3. Len(chart') - Len(lines') = n + 1 - l
        <5>1. (n + 1) - l = n + 1 - l
          BY <3>a
        <5>2. Len(lines') = l
          BY DEF l
        <5> QED BY <3>3, <5>1, <5>2
      <4>4. \A i : i + (Len(chart') - Len(lines')) = i + (n + 1 - l)
        BY <4>3
      <4> QED BY <4>1, <4>2, <4>4
    <3> QED BY <1>3, <1>4, <1>7, <3>3, <3>4 DEF LinesAreLast
  <2>6. Chained'
    <3>1. ASSUME chart # <<>> PROVE Follows(c, n + 1)
      <4>1. n >= 1 /\ n \in 1 .. n /\ Last(chart) = chart[n]
        BY <1>0, <3>1, LastIs
      <4>2. c[n + 1].from = c[n].to
        BY <1>3, <1>5, <2>4, <3>1, <4>1
      <4>3. m >= 1 /\ LinesBack >= 1 /\ LinesBack \in Int
        BY <1>0, <1>5, <4>1 DEF Least
      <4>4. lines # <<>>
        BY <4>3
      <4>5. ASSUME NEW j \in Largest(1, (n + 1) - LinesBack) .. (n + 1) - 1
            PROVE  j - (n - m) \in DOMAIN lines /\ c[j] = lines[j - (n - m)]
        <5>1. j \in Int /\ j >= 1 /\ j >= n + 1 - LinesBack /\ j <= n
          BY <1>0, <4>3, <4>5 DEF Largest
        <5>2. j - (n - m) \in 1 .. m
          BY <1>0, <1>5, <4>3, <5>1 DEF Least
        <5>3. j - (n - m) \in DOMAIN lines
          BY <1>0, <5>2
        <5>4. lines[j - (n - m)] = chart[(j - (n - m)) + (n - m)]
          BY <1>5, <5>3
        <5>5. (j - (n - m)) + (n - m) = j
          BY <1>0, <5>1
        <5> QED BY <2>4, <5>1, <5>3, <5>4, <5>5
      <4>6. c[n + 1].to = p
        BY <1>3, <2>4
      <4> HIDE DEF c, n, m
      <4>7. n \in Nat
        BY <1>0
      <4>8. LineFollows(c, n + 1)
        <5>1. (n + 1) - 1 = n
          BY <4>7
        <5>2. \/ \A i \in DOMAIN lines : p > lines[i].hi
              \/ \A i \in DOMAIN lines : p < lines[i].lo
          BY <1>7, <4>4
        <5>3. \/ \A j \in Largest(1, (n + 1) - LinesBack) .. (n + 1) - 1 : p > c[j].hi
              \/ \A j \in Largest(1, (n + 1) - LinesBack) .. (n + 1) - 1 : p < c[j].lo
          BY <4>5, <5>2
        <5> QED BY <4>2, <4>6, <5>1, <5>3 DEF LineFollows
      <4> QED BY <1>3, <4>8 DEF Follows
    <3>2. \A i \in 2 .. Len(c) : Follows(c, i)
      BY <1>0, <1>3, <1>5, <3>1, AppendFollows
    <3> HIDE DEF c
    <3> QED BY <1>1, <2>2, <3>2, ChainedNext
  <2>7. GridGoesOn'
    BY <1>1, <1>3 DEF GridGoesOn
  <2> QED BY <2>5, <2>6, <2>7 DEF Linked
<1> QED BY <1>3, <1>6, <1>7

\* A turn of the loop: away from the anchor, and by how much a brick moves it.
LEMMA BrickMoves ==
  ASSUME Shape, RenkoBrick
  PROVE  LET p == Head(pending).price
         IN  /\ anchor \in Int /\ p \in Int /\ Box \in Int /\ Box >= 1 /\ kind = "renko" /\ pc = "loop"
             /\ pc' = "loop" /\ Head(pending').price = p /\ UNCHANGED <<kind, chart, cur>>
             /\ out' \in BarType /\ out'.to = anchor' /\ Way(out') = dir' /\ out' # NoBar
             /\ \/ /\ dir' = 1 /\ dir = -1 /\ out'.from = anchor + Box /\ anchor' = anchor + 2 * Box
                   /\ p - anchor >= Box * Reversal
                \/ /\ dir' = 1 /\ dir # -1 /\ out'.from = anchor /\ anchor' = anchor + Box
                   /\ p >= anchor + Box
                \/ /\ dir' = -1 /\ dir = 1 /\ out'.from = anchor - Box /\ anchor' = anchor - 2 * Box
                   /\ anchor - p >= Box * Reversal
                \/ /\ dir' = -1 /\ dir # 1 /\ out'.from = anchor /\ anchor' = anchor - Box
                   /\ p <= anchor - Box
<1> DEFINE p == Head(pending).price
           way == BrickWay(p)
           foot == anchor + (IF dir = -way THEN way * Box ELSE 0)
<1>1. /\ pc = "loop" /\ pc' = "loop" /\ kind = "renko" /\ p \in Int
      /\ way \in {-1, 1} /\ foot \in Int /\ dir' = way
      /\ anchor' = foot + way * Box /\ anchor' \in Int /\ out' \in BarType
      /\ out'.from = foot /\ out'.to = anchor'
      /\ UNCHANGED <<kind, pending, cur, chart>>
  BY BrickIs
<1>2. anchor \in Int /\ dir \in {-1, 0, 1} /\ Box \in Int /\ Box >= 1
  BY DEF Shape, Typed
<1>3. /\ way = 1 => p >= anchor + Box /\ (dir = -1 => p - anchor >= Box * Reversal)
      /\ way = -1 => p <= anchor - Box /\ (dir = 1 => anchor - p >= Box * Reversal)
  BY <1>1, BrickWayIs
<1> HIDE DEF p, way
<1>4. CASE way = 1
  <2>1. foot = (IF dir = -1 THEN anchor + Box ELSE anchor) /\ anchor' = foot + Box
    BY <1>1, <1>2, <1>4
  <2> HIDE DEF foot
  <2>2. out'.to > out'.from /\ out'.to # out'.from /\ NoBar.to = NoBar.from
    BY <1>1, <1>2, <2>1 DEF NoBar
  <2>3. Way(out') = 1 /\ out' # NoBar
    BY <2>2 DEF Way
  <2>4. dir = -1 => anchor' = anchor + 2 * Box
    BY <1>2, <2>1
  <2> QED BY <1>1, <1>2, <1>3, <1>4, <2>1, <2>3, <2>4 DEF p
<1>5. CASE way = -1
  <2>1. way \in Int /\ -way = 0 - way
    BY <1>1
  <2>2. 0 - way = 1
    BY <1>5
  <2>3. -way = 1
    BY <2>1, <2>2
  <2>4. (-1) * Box = -Box
    BY <1>2
  <2>5. way * Box = -Box
    BY <1>5, <2>4
  <2>6. foot = (IF dir = 1 THEN anchor - Box ELSE anchor) /\ anchor' = foot - Box
    BY <1>1, <1>2, <2>3, <2>5
  <2> HIDE DEF foot
  <2>7. ~(out'.to > out'.from) /\ out'.to # out'.from /\ NoBar.to = NoBar.from
    BY <1>1, <1>2, <2>6 DEF NoBar
  <2>8. Way(out') = -1 /\ out' # NoBar
    BY <2>7 DEF Way
  <2>9. dir = 1 => anchor' = anchor - 2 * Box
    BY <1>2, <2>6
  <2> QED BY <1>1, <1>2, <1>3, <1>5, <2>6, <2>8, <2>9 DEF p
<1> QED BY <1>1, <1>4, <1>5

\* A brick of the loop goes on from the one before, or from the chart.
LEMMA BrickLinked ==
  ASSUME Shape, Linked, RenkoBrick
  PROVE  Linked'
<1> DEFINE p == Head(pending).price
<1>1. /\ anchor \in Int /\ p \in Int /\ Box \in Int /\ Box >= 1 /\ kind = "renko" /\ pc = "loop"
      /\ pc' = "loop" /\ Head(pending').price = p /\ UNCHANGED <<kind, chart, cur>>
      /\ out' \in BarType /\ out'.to = anchor' /\ Way(out') = dir' /\ out' # NoBar
      /\ \/ /\ dir' = 1 /\ dir = -1 /\ out'.from = anchor + Box /\ anchor' = anchor + 2 * Box
            /\ p - anchor >= Box * Reversal
         \/ /\ dir' = 1 /\ dir # -1 /\ out'.from = anchor /\ anchor' = anchor + Box
            /\ p >= anchor + Box
         \/ /\ dir' = -1 /\ dir = 1 /\ out'.from = anchor - Box /\ anchor' = anchor - 2 * Box
            /\ anchor - p >= Box * Reversal
         \/ /\ dir' = -1 /\ dir # 1 /\ out'.from = anchor /\ anchor' = anchor - Box
            /\ p <= anchor - Box
  BY BrickMoves
<1>2. /\ Box * Reversal \in Int /\ Box * Reversal >= Box
      /\ Reversal # 1 => Box * Reversal >= 2 * Box
      /\ Reversal = 1 => Box * Reversal = Box
  BY ReversalIs
<1>3. chart \in Seq(BarType) /\ dir \in {-1, 0, 1} /\ out \in BarType /\ out.to \in Int /\ out.from \in Int
  BY BarIs DEF Shape, Typed
<1> DEFINE R == Box * Reversal
<1>4. /\ Stuck <=> /\ Reversal = 1
                   /\ \/ dir = 1 /\ anchor - p = Box
                      \/ dir = -1 /\ p - anchor = Box
      /\ Stuck' <=> /\ Reversal = 1
                    /\ \/ dir' = 1 /\ anchor' - p = Box
                       \/ dir' = -1 /\ p - anchor' = Box
  BY <1>1 DEF Stuck
<1>5. /\ chart # <<>> /\ out = NoBar => anchor = Last(chart).to /\ dir = Way(Last(chart))
      /\ out # NoBar =>
           /\ anchor = out.to /\ dir = Way(out)
           /\ \/ Stuck
              \/ /\ dir = 1 => anchor - p < Box
                 /\ dir = -1 => p - anchor < Box
                 /\ chart # <<>> => BrickFollows(Last(chart), out)
  BY <1>1 DEF Linked, GridGoesOn
<1> HIDE DEF p, R
<1>6. /\ R \in Int /\ R >= Box /\ (Reversal # 1 => R >= 2 * Box) /\ (Reversal = 1 => R = Box)
      /\ dir' = 1 /\ dir = -1 => p - anchor >= R
      /\ dir' = -1 /\ dir = 1 => anchor - p >= R
  BY <1>1, <1>2 DEF R
\* The brick leaves less than a box to the price, unless it is stuck.
<1>7. \/ Stuck'
      \/ /\ dir' = 1 => anchor' - p < Box
         /\ dir' = -1 => p - anchor' < Box
  <2>1. CASE /\ dir' = 1 /\ dir = -1 /\ anchor' = anchor + 2 * Box
    <3>1. Reversal = 1 \/ anchor' - p <= 0
      BY <1>1, <1>6, <2>1
    <3>2. anchor' - p <= Box
      BY <1>1, <1>6, <2>1
    <3> QED BY <1>1, <1>4, <2>1, <3>1, <3>2
  <2>2. CASE dir' = 1 /\ dir # -1 /\ anchor' = anchor + Box /\ p >= anchor + Box
    BY <1>1, <2>2
  <2>3. CASE /\ dir' = -1 /\ dir = 1 /\ anchor' = anchor - 2 * Box
    <3>1. Reversal = 1 \/ p - anchor' <= 0
      BY <1>1, <1>6, <2>3
    <3>2. p - anchor' <= Box
      BY <1>1, <1>6, <2>3
    <3> QED BY <1>1, <1>4, <2>3, <3>1, <3>2
  <2>4. CASE dir' = -1 /\ dir # 1 /\ anchor' = anchor - Box /\ p <= anchor - Box
    BY <1>1, <2>4
  <2> QED BY <1>1, <2>1, <2>2, <2>3, <2>4
\* It follows the chart.
<1>8. ASSUME chart # <<>>, ~Stuck' PROVE BrickFollows(Last(chart), out')
  <2> DEFINE x == Last(chart)
  <2>0. Way(x) \in {-1, 1} /\ x.to \in Int
    BY <1>3, <1>8, LastIs, BarIs DEF Way
  <2>1. CASE out = NoBar
    <3>1. anchor = x.to /\ dir = Way(x)
      BY <1>5, <1>8, <2>1
    <3> HIDE DEF x
    <3>2. \/ dir' = 1 /\ dir = -1 /\ out'.from - x.to = Box
          \/ dir' = 1 /\ dir = 1 /\ out'.from - x.to = 0
          \/ dir' = -1 /\ dir = 1 /\ out'.from - x.to = -Box
          \/ dir' = -1 /\ dir = -1 /\ out'.from - x.to = 0
      BY <1>1, <2>0, <3>1
    <3>3. (-1) * (-Box) = Box /\ (-1) * 0 = 0
      BY <1>1
    <3>4. dir' * (out'.from - x.to) >= (IF dir' = dir THEN 0 ELSE Box)
      BY <1>1, <3>2, <3>3
    <3>5. BrickFollows(x, out')
      BY <1>1, <3>1, <3>4 DEF BrickFollows
    <3> QED BY <3>5 DEF x
  <2>2. CASE out # NoBar
    <3>1. ~Stuck
      <4> SUFFICES ASSUME Stuck PROVE FALSE
        OBVIOUS
      <4>1. Reversal = 1 /\ R = Box
        BY <1>4, <1>6
      <4>2. CASE dir = 1 /\ anchor - p = Box
        <5>1. dir' = -1 /\ anchor' = anchor - 2 * Box
          BY <1>1, <4>2
        <5>2. p - anchor' = Box
          BY <1>1, <4>2, <5>1
        <5> QED BY <1>4, <1>8, <4>1, <5>1, <5>2
      <4>3. CASE dir = -1 /\ p - anchor = Box
        <5>1. dir' = 1 /\ anchor' = anchor + 2 * Box
          BY <1>1, <4>3
        <5>2. anchor' - p = Box
          BY <1>1, <4>3, <5>1
        <5> QED BY <1>4, <1>8, <4>1, <5>1, <5>2
      <4> QED BY <1>4, <4>2, <4>3
    <3>2. /\ anchor = out.to /\ dir = Way(out) /\ BrickFollows(x, out)
          /\ dir = 1 => anchor - p < Box
          /\ dir = -1 => p - anchor < Box
      BY <1>5, <1>8, <2>2, <3>1
    <3>3. dir \in {-1, 1} /\ (dir = 1 => out.to > out.from) /\ (dir = -1 => out.to <= out.from)
      BY <1>3, <3>2 DEF Way
    <3>4. dir' = dir /\ out'.from = out.to
      BY <1>1, <1>6, <3>2, <3>3
    <3>5. dir * (out.from - x.to) >= (IF dir = Way(x) THEN 0 ELSE Box)
      BY <3>2 DEF BrickFollows
    <3> DEFINE z == IF dir = Way(x) THEN 0 ELSE Box
    <3>6. z \in Int
      BY <1>1
    <3> HIDE DEF x, z
    <3>7. dir * (out.to - x.to) >= z
      <4>1. dir * (out.from - x.to) >= z
        BY <3>5 DEF z
      <4>2. CASE dir = 1
        BY <1>3, <2>0, <3>3, <3>6, <4>1, <4>2
      <4>3. CASE dir = -1
        <5>1. \A y \in Int : (-1) * y = -y
          OBVIOUS
        <5>2. dir * (out.from - x.to) = -(out.from - x.to) /\ dir * (out.to - x.to) = -(out.to - x.to)
          BY <1>3, <2>0, <4>3, <5>1
        <5> QED BY <1>3, <2>0, <3>3, <3>6, <4>1, <4>3, <5>2
      <4> QED BY <3>3, <4>2, <4>3
    <3>8. dir' * (out'.from - x.to) >= (IF dir' = Way(x) THEN 0 ELSE Box)
      BY <3>4, <3>7 DEF z
    <3>9. BrickFollows(x, out')
      BY <1>1, <3>8 DEF BrickFollows
    <3> QED BY <3>9 DEF x
  <2> QED BY <2>1, <2>2
<1>9. GridGoesOn'
  <2>1. Stuck' \/ (chart # <<>> => BrickFollows(Last(chart), out'))
    BY <1>8
  <2>2. Last(chart') = Last(chart) /\ (BrickFollows(Last(chart), out)' <=> BrickFollows(Last(chart), out'))
    BY <1>1 DEF BrickFollows, Way
  <2>3. Way(out)' = Way(out')
    BY DEF Way
  <2> QED BY <1>1, <1>7, <2>1, <2>2, <2>3 DEF GridGoesOn, p
<1>10. LinesAreLast' /\ Chained'
  <2>1. \A i \in 2 .. Len(chart) : Follows(chart, i)
    BY ChainedIs DEF Linked
  <2>2. Chained'
    BY <1>1, <2>1, ChainedNext
  <2> QED BY <1>1, <2>2 DEF LinesAreLast
<1> QED BY <1>9, <1>10 DEF Linked

\* The brick that is sent follows the last of the chart.
LEMMA LeaveLinked ==
  ASSUME Shape, Told, Traded, Linked, RenkoLeave
  PROVE  Linked'
<1>1. /\ pc = "loop" /\ kind = "renko" /\ pc' = "run" /\ BrickWay(Head(pending).price) = 0
      /\ UNCHANGED <<kind, anchor, dir, cur, lines, out>>
  BY LeaveIs
<1>2. chart \in Seq(BarType) /\ out \in BarType /\ ~Stuck
  BY <1>1, StuckTurns DEF Shape, Typed
<1>3. anchor # Unset
  BY <1>1, <1>2 DEF Traded, GridReal
<1>4. /\ chart # <<>> /\ out = NoBar => anchor = Last(chart).to /\ dir = Way(Last(chart))
      /\ out # NoBar =>
           /\ anchor = out.to /\ dir = Way(out)
           /\ chart # <<>> => BrickFollows(Last(chart), out)
  BY <1>1, <1>2 DEF Linked, GridGoesOn
<1>5. \A i \in 2 .. Len(chart) : Follows(chart, i)
  BY ChainedIs DEF Linked
<1>6. LinesAreLast'
  BY <1>1 DEF LinesAreLast
<1>7. Unset' = Unset /\ \A x : Way(x)' = Way(x)
  BY DEF Unset, Way
<1>8. CASE out = NoBar /\ chart' = chart
  <2>1. Chained'
    BY <1>1, <1>5, <1>8, ChainedNext
  <2>2. GridGoesOn'
    BY <1>1, <1>3, <1>4, <1>8 DEF GridGoesOn, Unset, Way
  <2> QED BY <1>6, <2>1, <2>2 DEF Linked
<1>9. CASE out # NoBar /\ chart' = Append(chart, out)
  <2> DEFINE c == Append(chart, out)
             n == Len(chart)
  <2>1. c # <<>> /\ Last(c) = out
    BY <1>2 DEF Last
  <2>2. chart # <<>> => Follows(c, n + 1)
    <3>1. ASSUME chart # <<>> PROVE Follows(c, n + 1)
      <4>1. n \in Nat /\ n >= 1 /\ Last(chart) = chart[n]
        BY <1>2, <3>1, LastIs
      <4>2. c[n + 1] = out /\ c[n] = chart[n] /\ (n + 1) - 1 = n
        BY <1>2, <4>1
      <4>3. BrickFollows(c[n], c[n + 1])
        BY <1>4, <1>9, <3>1, <4>1, <4>2
      <4> HIDE DEF c, n
      <4> QED BY <1>1, <4>2, <4>3 DEF Follows
    <3> QED BY <3>1
  <2>3. \A i \in 2 .. Len(c) : Follows(c, i)
    BY <1>2, <1>5, <2>2, AppendFollows
  <2> HIDE DEF c
  <2>4. chart' = c
    BY <1>9 DEF c
  <2>5. Chained'
    BY <1>1, <2>3, <2>4, ChainedNext
  <2>6. GridGoesOn'
    BY <1>1, <1>3, <1>4, <1>9, <2>1, <2>4 DEF GridGoesOn, Unset, Way
  <2> QED BY <1>6, <2>5, <2>6 DEF Linked
<1> QED BY <1>8, <1>9, LeaveTold

\* A loop begins at the anchor that the chart ended at.
LEMMA EnterLinked ==
  ASSUME Shape, Linked, RenkoEnter
  PROVE  Linked'
<1>1. /\ pc = "run" /\ kind = "renko" /\ pc' = "loop" /\ out' = NoBar
      /\ anchor' = IF anchor = Unset THEN Floor(Head(pending).price) ELSE anchor
      /\ UNCHANGED <<kind, dir, cur, lines, chart>>
  BY EnterIs
<1>2. chart # <<>> => anchor # Unset /\ anchor = Last(chart).to /\ dir = Way(Last(chart))
  BY <1>1 DEF Linked, GridGoesOn
<1>3. GridGoesOn'
  BY <1>1, <1>2 DEF GridGoesOn, Unset, Way
<1>4. \A i \in 2 .. Len(chart) : Follows(chart, i)
  BY ChainedIs DEF Linked
<1>5. Chained'
  BY <1>1, <1>4, ChainedNext
<1>6. LinesAreLast'
  BY <1>1 DEF LinesAreLast
<1> QED BY <1>3, <1>5, <1>6 DEF Linked

\* The other kinds are chained by nothing.
LEMMA OtherLinked ==
  ASSUME kind # "tlb", kind # "renko", kind' = kind
  PROVE  Linked'
<1>1. \A i \in 2 .. Len(chart') : Joined(kind', chart', i)
  BY DEF Joined
<1>2. Chained'
  BY <1>1, Zenon DEF Chained, Joined
<1> QED BY <1>2 DEF Linked, LinesAreLast, GridGoesOn

\* A step outside the loop that builds nothing leaves the chain alone.
LEMMA QuietLinked ==
  ASSUME Linked, UNCHANGED <<kind, chart, lines, cur, anchor, dir>>, pc # "loop", pc' # "loop"
  PROVE  Linked'
<1>1. \A i \in 2 .. Len(chart) : Follows(chart, i)
  BY ChainedIs DEF Linked
<1>2. Chained'
  BY <1>1, ChainedNext
<1> QED BY <1>2 DEF Linked, LinesAreLast, GridGoesOn, Unset, Way

\* Every step keeps the chain, as long as open times do not saturate.
LEMMA LinkedStep ==
  ASSUME Shape, Told, Traded, Linked, [Next]_vars, lastId' < MaxId
  PROVE  Linked'
<1>1. CASE Fold
  <2>1. CASE FoldLine(Head(pending))
    BY <1>1, <2>1, FoldLineLinked
  <2>2. CASE ~FoldLine(Head(pending))
    <3>1. kind \in {"range", "volume", "dollar", "pnf", "kagi"}
      BY <1>1, <2>2, FoldIs, FoldBarIs, FoldColumnIs, FoldSegmentIs
    <3> QED BY <3>1, KindStays, OtherLinked
  <2> QED BY <2>1, <2>2
<1>2. CASE RenkoEnter \/ RenkoBrick \/ RenkoLeave
  BY <1>2, EnterLinked, BrickLinked, LeaveLinked
<1>3. CASE Trade \/ Subscribe \/ Fetch \/ NoFetch \/ SeedDone \/ Receive
  <2>1. UNCHANGED <<kind, chart, lines, cur, anchor, dir>>
    BY <1>3 DEF Trade, Subscribe, Fetch, NoFetch, SeedDone, Receive, builder, output
  <2>2. pc # "loop" /\ pc' # "loop"
    <3>1. CASE Trade
      BY <3>1 DEF Trade, Shape, Looping
    <3>2. CASE Subscribe \/ Fetch \/ NoFetch \/ SeedDone \/ Receive
      BY <3>2 DEF Subscribe, Fetch, NoFetch, SeedDone, Receive
    <3> QED BY <1>3, <3>1, <3>2
  <2> QED BY <2>1, <2>2, QuietLinked
<1>4. CASE UNCHANGED vars
  <2>1. UNCHANGED <<kind, pc, pending, chart, lines, cur, anchor, dir, out>>
    BY <1>4 DEF vars, builder, output
  <2>2. \A i \in 2 .. Len(chart) : Follows(chart, i)
    BY ChainedIs DEF Linked
  <2>3. Chained'
    BY <2>1, <2>2, ChainedNext
  <2>4. LinesAreLast' /\ GridGoesOn'
    BY <2>1 DEF Linked, LinesAreLast, GridGoesOn, Unset, Way, Stuck, BrickFollows
  <2> QED BY <2>3, <2>4 DEF Linked
<1> QED BY <1>1, <1>2, <1>3, <1>4 DEF Next, Forwarder

\* The chain, as long as open times do not saturate.
Bound == kind # "pnf" /\ lastId < MaxId => Linked

\* A chart hangs together as long as open times are below the bound at which the model lets
\* them saturate (Chained).
THEOREM ChainHolds == Spec => [](lastId < MaxId => Chained)
<1>1. Init => Traded /\ Bound
  <2> SUFFICES ASSUME Init PROVE Traded /\ Bound
    OBVIOUS
  <2>1. /\ pc = "idle" /\ pending = <<>> /\ chart = <<>> /\ cur = NoBar /\ anchor = Unset /\ dir = 0
        /\ lines = <<>>
    BY DEF Init
  <2>2. Traded
    BY <2>1 DEF Traded, FromTape, ChartFits, BarFits, ColumnFits, AnchorReal, LineReal, GridReal
  <2>3. Len(<<>>) = 0 /\ DOMAIN <<>> = {} /\ Least(LinesBack, 0) = 0 /\ 2 .. 0 = {}
    BY DEF Least
  <2>4. LinesAreLast /\ GridGoesOn
    BY <2>1, <2>3 DEF LinesAreLast, GridGoesOn
  <2>5. Chained
    BY <2>1, <2>3, ChainedIs
  <2> QED BY <2>2, <2>4, <2>5 DEF Bound, Linked
<1>2. Shape /\ Sold /\ Traded /\ Bound /\ [Next]_vars => Traded' /\ Bound'
  <2> SUFFICES ASSUME Shape, Sold, Traded, Bound, [Next]_vars PROVE Traded' /\ Bound'
    OBVIOUS
  <2>1. Traded'
    BY TradedStep
  <2>2. ASSUME kind' # "pnf", lastId' < MaxId PROVE Linked'
    <3>1. kind' = kind
      BY KindStays
    <3>2. lastId < MaxId /\ kind # "pnf"
      BY <2>2, <3>1, IdsGrow
    <3> QED BY <2>2, <3>2, LinkedStep DEF Sold, Bound
  <2> QED BY <2>1, <2>2 DEF Bound
<1>3. Bound => (lastId < MaxId => Chained)
  <2>1. kind = "pnf" => Chained
    BY ChainedIs DEF Follows
  <2> QED BY <2>1 DEF Bound, Linked
<1> QED BY <1>1, <1>2, <1>3, ShapeHolds, SoldHolds, PTL DEF Spec
=============================================================================
