------------------------ MODULE KlineForwarderProofs ------------------------
(***************************************************************************)
(* Proofs about KlineForwarder: in what order the consumers of a forwarder *)
(* get bars and that they miss none, and that the ring and the log are     *)
(* ahead of them, for any cadence of the heal, any ring and broadcast      *)
(* capacity and any number of bars, faults and restarts.                   *)
(*                                                                         *)
(* A heal folds Upsert over what REST answered.  That fold is reasoned     *)
(* about through the table of its intermediate rings (IsTable); a claim    *)
(* about each of them holds because there is no least length at which it   *)
(* fails (LeastNumber).                                                    *)
(***************************************************************************)
EXTENDS KlineForwarder, SequenceTheorems, WellFoundedInduction, TLAPS

USE KlineAssumption DEF KlineAssumption

-----------------------------------------------------------------------------
(* The least of a set of numbers, on which the induction over a fold rests.  *)

NatLess == {p \in Nat \X Nat : p[1] < p[2]}

\* A set of numbers that is not empty has a least one.
LEMMA LeastNumber ==
  ASSUME NEW T \in SUBSET Nat, T # {}
  PROVE  \E x \in T : \A y \in T : x <= y
<1>1. IsWellFoundedOn(NatLess, Nat)
  <2>1. OpToRel(<, Nat) = NatLess
    BY DEF OpToRel, NatLess
  <2> QED BY <2>1, NatLessThanWellFounded, Zenon
<1>2. PICK x \in T : \A y \in T : ~ (<<y, x>> \in NatLess)
  BY <1>1, WFMin, Zenon
<1>3. ASSUME NEW y \in T PROVE x <= y
  <2>1. ~(<<y, x>> \in NatLess)
    BY <1>2
  <2>2. y \in Nat /\ x \in Nat
    OBVIOUS
  <2>3. ~(y < x)
    BY <2>1, <2>2 DEF NatLess
  <2> QED BY <2>2, <2>3
<1> QED BY <1>3

\* The minimum of a non-empty set of naturals is its least member.
LEMMA LeastIn ==
  ASSUME NEW S \in SUBSET Nat, S # {}
  PROVE  Min(S) \in S /\ \A y \in S : Min(S) <= y
<1>1. \E x \in S : \A y \in S : x <= y
  BY LeastNumber
<1> QED BY <1>1 DEF Min

\* The largest of some numbers with a bound.
LEMMA LargestIn ==
  ASSUME NEW n \in Nat, NEW S \in SUBSET (0 .. n), S # {}
  PROVE  Max(S) \in S /\ Max(S) \in 0 .. n /\ \A y \in S : Max(S) >= y
<1> DEFINE T == {u \in Nat : \A y \in S : y <= u}
<1>1. n \in T
  OBVIOUS
<1>2. PICK u \in T : \A v \in T : u <= v
  BY <1>1, LeastNumber
<1>3. u \in S
  <2> SUFFICES ASSUME u \notin S PROVE FALSE
    OBVIOUS
  <2>1. PICK y \in S : TRUE
    OBVIOUS
  <2>2. u - 1 \in Nat /\ \A z \in S : z <= u - 1
    <3>1. \A z \in S : z <= u /\ z # u /\ z \in 0 .. n
      BY <1>2
    <3> QED BY <2>1, <3>1
  <2>3. u - 1 \in T
    BY <2>2
  <2> QED BY <1>2, <2>3
<1>4. \E x \in S : \A y \in S : x >= y
  BY <1>2, <1>3
<1>5. Max(S) \in S /\ \A y \in S : Max(S) >= y
  BY <1>4 DEF Max
<1> QED BY <1>5

-----------------------------------------------------------------------------
(* Sequences of bars: their newest copies, Upsert.                           *)

\* The parts of a bar.
LEMMA BarIs ==
  ASSUME NEW s \in Seq(Bars), NEW i \in DOMAIN s
  PROVE  /\ s[i] \in Bars /\ s[i].ts \in Times /\ s[i].val \in 0 .. MaxUpdates
         /\ i \in 1 .. Len(s) /\ i \in Nat /\ s[i].ts \in Nat /\ s[i].val \in Nat /\ s[i] # NoBar
<1>1. s[i] \in Bars
  OBVIOUS
<1> QED BY <1>1 DEF Bars, Times, NoBar

\* Where the last copy of a bar is.
LEMMA CopyIs ==
  ASSUME NEW s \in Seq(Bars), NEW t, At(s, t) # {}
  PROVE  /\ Max(At(s, t)) \in At(s, t) /\ \A i \in At(s, t) : i <= Max(At(s, t))
         /\ Copy(s, t) \in Bars /\ Copy(s, t).ts = t /\ Copy(s, t).val \in 0 .. MaxUpdates
<1>1. At(s, t) \in SUBSET (0 .. Len(s)) /\ Len(s) \in Nat
  BY DEF At
<1>2. Max(At(s, t)) \in At(s, t) /\ \A i \in At(s, t) : Max(At(s, t)) >= i
  BY <1>1, LargestIn
<1>3. Max(At(s, t)) \in DOMAIN s /\ s[Max(At(s, t))].ts = t
  BY <1>2 DEF At
<1>4. Max(At(s, t)) \in Nat /\ At(s, t) \in SUBSET Nat
  BY <1>1, <1>2
<1>5. s[Max(At(s, t))] \in Bars /\ s[Max(At(s, t))].val \in 0 .. MaxUpdates
  BY <1>3, BarIs
<1> QED BY <1>2, <1>3, <1>4, <1>5 DEF Copy

\* A place that no copy follows is the last copy's.
LEMMA CopyAt ==
  ASSUME NEW s \in Seq(Bars), NEW t, NEW i \in DOMAIN s, s[i].ts = t,
         \A j \in DOMAIN s : i < j => s[j].ts # t
  PROVE  At(s, t) # {} /\ Max(At(s, t)) = i /\ Copy(s, t) = s[i]
<1>1. i \in At(s, t)
  BY DEF At
<1>2. Max(At(s, t)) \in At(s, t) /\ i <= Max(At(s, t))
  BY <1>1, CopyIs
<1>3. Max(At(s, t)) \in DOMAIN s /\ ~(i < Max(At(s, t)))
  BY <1>2 DEF At
<1>4. Max(At(s, t)) = i
  BY <1>2, <1>3
<1> QED BY <1>1, <1>4 DEF Copy

\* Sequences that agree from some place on, where the one has a copy.
LEMMA SameCopy ==
  ASSUME NEW s \in Seq(Bars), NEW q \in Seq(Bars), NEW t, NEW k \in Int,
         At(q, t) # {},
         \A i \in DOMAIN q : q[i].ts = t => i + k \in DOMAIN s /\ s[i + k] = q[i],
         \A i \in DOMAIN s : s[i].ts = t /\ i - k \in Nat \ {0} => i - k \in DOMAIN q
         /\ q[i - k].ts = t
  PROVE  At(s, t) # {} /\ Copy(s, t) = Copy(q, t)
<1> DEFINE m == Max(At(q, t))
<1>1. m \in At(q, t) /\ \A i \in At(q, t) : i <= m
  BY CopyIs
<1>2. m \in DOMAIN q /\ q[m].ts = t /\ Copy(q, t) = q[m] /\ m \in Nat \ {0}
  BY <1>1 DEF At, Copy
<1> HIDE DEF m
<1>3. m + k \in DOMAIN s /\ s[m + k] = q[m] /\ s[m + k].ts = t
  BY <1>2
<1>4. ASSUME NEW j \in DOMAIN s, m + k < j, s[j].ts = t PROVE FALSE
  <2>1. j - k \in Nat \ {0} /\ j \in Int /\ ~(j - k <= m)
    BY <1>2, <1>4
  <2>2. j - k \in At(q, t)
    BY <1>4, <2>1 DEF At
  <2> QED BY <1>1, <2>1, <2>2
<1>5. At(s, t) # {} /\ Copy(s, t) = s[m + k]
  BY <1>3, <1>4, CopyAt
<1> QED BY <1>2, <1>3, <1>5

\* A push: the new bar is the last; of the others perhaps the first has gone.
LEMMA PushIs ==
  ASSUME NEW r \in Seq(Bars), Len(r) <= Warm, NEW b \in Bars
  PROVE  LET q == Push(r, b)
             k == IF Len(r) = Warm THEN 1 ELSE 0
         IN  /\ q \in Seq(Bars) /\ Len(q) <= Warm /\ Len(q) = Len(r) - k + 1
             /\ q[Len(q)] = b
             /\ \A i \in 1 .. Len(r) - k : q[i] = r[i + k]
<1>1. CASE Len(r) = Warm
  <2>1. Tail(r) \in Seq(Bars) /\ Len(Tail(r)) = Len(r) - 1
        /\ \A i \in 1 .. Len(r) - 1 : Tail(r)[i] = r[i + 1]
    BY <1>1
  <2>2. Push(r, b) = Append(Tail(r), b)
    BY <1>1 DEF Push
  <2> HIDE DEF Push
  <2> QED BY <1>1, <2>1, <2>2
<1>2. CASE Len(r) # Warm
  BY <1>2 DEF Push
<1> QED BY <1>1, <1>2

\* What Upsert does to a ring: the bar's last copy is the new one, the copies of
\* other bars are what they were, as far as they are still there; a bar that was not
\* there comes last.
LEMMA UpsertIs ==
  ASSUME NEW r \in Seq(Bars), Len(r) <= Warm, NEW b \in Bars
  PROVE  /\ Upsert(r, b) \in Seq(Bars) /\ Len(Upsert(r, b)) <= Warm
         /\ Len(Upsert(r, b)) >= Len(r) /\ Len(Upsert(r, b)) >= 1
         /\ \A i \in DOMAIN Upsert(r, b) :
              Upsert(r, b)[i] = b \/ \E j \in DOMAIN r : Upsert(r, b)[i] = r[j]
         /\ At(r, b.ts) = {} => Upsert(r, b)[Len(Upsert(r, b))] = b
         /\ Copy(Upsert(r, b), b.ts) = b
         /\ \A t : t # b.ts /\ At(Upsert(r, b), t) # {} =>
              At(r, t) # {} /\ Copy(r, t) = Copy(Upsert(r, b), t)
<1> DEFINE q == Upsert(r, b)
<1>1. CASE At(r, b.ts) = {}
  <2> DEFINE k == IF Len(r) = Warm THEN 1 ELSE 0
  <2>1. q = Push(r, b)
    BY <1>1 DEF Upsert
  <2>2. /\ q \in Seq(Bars) /\ Len(q) <= Warm /\ Len(q) = Len(r) - k + 1
        /\ q[Len(q)] = b
        /\ \A i \in 1 .. Len(r) - k : q[i] = r[i + k]
    BY <2>1, PushIs
  <2>3. k \in {0, 1} /\ Len(r) \in Nat /\ k <= Len(r) /\ DOMAIN q = 1 .. Len(q)
        /\ DOMAIN r = 1 .. Len(r)
        /\ Len(q) \in Nat
    <3>1. q \in Seq(Bars)
      BY <2>2
    <3> HIDE DEF q
    <3> QED BY <3>1
  <2> HIDE DEF q, k
  <2>4. \A i \in DOMAIN q : i = Len(q) \/ (i \in 1 .. Len(r) - k /\ i + k \in DOMAIN r)
    BY <2>2, <2>3
  <2>5. \A i \in DOMAIN q : q[i] = b \/ \E j \in DOMAIN r : q[i] = r[j]
    BY <2>2, <2>4
  <2>6. Copy(q, b.ts) = b
    <3>1. Len(q) \in DOMAIN q /\ \A j \in DOMAIN q : ~(Len(q) < j)
      BY <2>2, <2>3
    <3> QED BY <2>2, <3>1, CopyAt
  <2>7. ASSUME NEW t, t # b.ts, At(q, t) # {}
        PROVE  At(r, t) # {} /\ Copy(r, t) = Copy(q, t)
    <3>1. \A i \in DOMAIN q : q[i].ts = t => i + k \in DOMAIN r /\ r[i + k] = q[i]
      BY <2>2, <2>4, <2>7
    <3>2. ASSUME NEW i \in DOMAIN r, r[i].ts = t, i - k \in Nat \ {0}
          PROVE  i - k \in DOMAIN q /\ q[i - k].ts = t
      <4>1. i - k \in 1 .. Len(r) - k /\ (i - k) + k = i /\ i - k \in DOMAIN q
        BY <2>2, <2>3, <3>2
      <4> QED BY <2>2, <3>2, <4>1
    <3>3. k \in Int
      BY <2>3
    <3>4. \A i \in DOMAIN r : r[i].ts = t /\ i - k \in Nat \ {0} => i - k \in DOMAIN q
          /\ q[i - k].ts = t
      BY <3>2
    <3>5. q \in Seq(Bars) /\ r \in Seq(Bars)
      BY <2>2
    <3> QED BY <2>7, <3>1, <3>3, <3>4, <3>5, SameCopy, Zenon
  <2>8. Len(q) >= Len(r) /\ Len(q) >= 1
    BY <2>2, <2>3
  <2> QED BY <1>1, <2>2, <2>5, <2>6, <2>7, <2>8 DEF q
<1>2. CASE At(r, b.ts) # {}
  <2> DEFINE m == Max(At(r, b.ts))
  <2>1. q = [r EXCEPT ![m] = b]
    BY <1>2 DEF Upsert
  <2>2. m \in At(r, b.ts) /\ \A i \in At(r, b.ts) : i <= m
    BY <1>2, CopyIs
  <2>3. m \in DOMAIN r /\ r[m].ts = b.ts
    BY <2>2 DEF At
  <2> HIDE DEF m
  <2>4. q \in Seq(Bars) /\ Len(q) = Len(r) /\ DOMAIN q = DOMAIN r /\ q[m] = b
        /\ \A i \in DOMAIN r : i # m => q[i] = r[i]
    BY <2>1, <2>3
  <2> HIDE DEF q
  <2>5. \A i \in DOMAIN q : q[i] = b \/ \E j \in DOMAIN r : q[i] = r[j]
    BY <2>4
  <2>6. Copy(q, b.ts) = b
    <3>1. ASSUME NEW j \in DOMAIN q, m < j, q[j].ts = b.ts PROVE FALSE
      <4>1. j # m /\ ~(j <= m) /\ j \in DOMAIN r
        BY <2>3, <2>4, <3>1
      <4>2. j \in At(r, b.ts)
        BY <2>4, <3>1, <4>1 DEF At
      <4> QED BY <2>2, <4>1, <4>2
    <3> QED BY <2>3, <2>4, <3>1, CopyAt
  <2>7. ASSUME NEW t, t # b.ts, At(q, t) # {}
        PROVE  At(r, t) # {} /\ Copy(r, t) = Copy(q, t)
    <3>1. \A i \in DOMAIN q : q[i].ts = t => i + 0 \in DOMAIN r /\ r[i + 0] = q[i]
      BY <2>3, <2>4, <2>7
    <3>2. \A i \in DOMAIN r : r[i].ts = t /\ i - 0 \in Nat \ {0} => i - 0 \in DOMAIN q
          /\ q[i - 0].ts = t
      BY <2>3, <2>4, <2>7
    <3>3. 0 \in Int /\ q \in Seq(Bars) /\ r \in Seq(Bars)
      BY <2>4
    <3> QED BY <2>7, <3>1, <3>2, <3>3, SameCopy, Zenon
  <2>8. Len(q) >= 1 /\ Len(q) >= Len(r) /\ Len(q) <= Warm
    BY <2>3, <2>4
  <2> QED BY <1>2, <2>4, <2>5, <2>6, <2>7, <2>8 DEF q
<1> QED BY <1>1, <1>2

-----------------------------------------------------------------------------
(* FoldLeft(Upsert, r, s), one bar after the other.                          *)

\* The ring after some bars of s, the last of them taken off first.
IsTable(g, r, s, n) ==
  g = [S \in SUBSET (1 .. n) |-> IF S = {} THEN r ELSE Upsert(g[S \ {Max(S)}], s[Max(S)])]

\* Such a table exists for every number of bars.
LEMMA TableExists ==
  ASSUME NEW s \in Seq(Bars), NEW r \in Seq(Bars), Len(r) <= Warm
  PROVE  \A n \in 0 .. Len(s) : \E g : IsTable(g, r, s, n)
<1> DEFINE Has(n) == \E g : IsTable(g, r, s, n)
           Bad == {n \in 0 .. Len(s) : ~Has(n)}
<1> SUFFICES ASSUME Bad # {} PROVE FALSE
  OBVIOUS
<1>1. PICK n \in Bad : \A m \in Bad : n <= m
  <2>1. Bad \in SUBSET Nat
    OBVIOUS
  <2> HIDE DEF Bad
  <2> QED BY <2>1, LeastNumber
<1>2. n # 0
  <2> SUFFICES ASSUME n = 0 PROVE Has(0)
    OBVIOUS
  <2> DEFINE g == [S \in SUBSET (1 .. 0) |-> r]
  <2>1. \A S \in SUBSET (1 .. 0) : S = {}
    OBVIOUS
  <2>2. IsTable(g, r, s, 0)
    BY <2>1 DEF IsTable
  <2> QED BY <2>2
<1>3. PICK h : IsTable(h, r, s, n - 1)
  <2>1. n - 1 \in 0 .. Len(s) /\ ~(n <= n - 1)
    BY <1>2
  <2>2. n - 1 \notin Bad
    BY <1>1, <2>1
  <2> QED BY <2>1, <2>2
<1> DEFINE g == [S \in SUBSET (1 .. n) |-> IF n \in S THEN Upsert(h[S \ {n}], s[n]) ELSE h[S]]
<1>4. n \in 1 .. Len(s) /\ n \in Nat
  BY <1>2
<1>5. ASSUME NEW S \in SUBSET (1 .. n)
      PROVE  g[S] = IF S = {} THEN r ELSE Upsert(g[S \ {Max(S)}], s[Max(S)])
  <2>1. CASE n \in S
    <3>1. Max(S) = n
      <4>1. S \in SUBSET (0 .. n) /\ S # {}
        BY <1>4, <2>1
      <4>2. Max(S) \in 0 .. n /\ Max(S) >= n
        BY <1>4, <2>1, <4>1, LargestIn
      <4> QED BY <1>4, <4>2
    <3>2. n \notin S \ {n} /\ S \ {n} \in SUBSET (1 .. n) /\ S \ {n} \in SUBSET (1 .. n - 1)
      BY <1>4
    <3> QED BY <2>1, <3>1, <3>2
  <2>2. CASE n \notin S
    <3>1. S \in SUBSET (1 .. n - 1)
      BY <1>4, <2>2
    <3>2. h[S] = IF S = {} THEN r ELSE Upsert(h[S \ {Max(S)}], s[Max(S)])
      BY <1>3, <3>1 DEF IsTable
    <3>3. \A x : n \notin S \ {x} /\ S \ {x} \in SUBSET (1 .. n)
      BY <2>2
    <3> QED BY <2>2, <3>2, <3>3
  <2> QED BY <2>1, <2>2
<1>6. IsTable(g, r, s, n)
  <2>1. g = [S \in SUBSET (1 .. n) |-> g[S]]
    OBVIOUS
  <2> HIDE DEF g
  <2> QED BY <1>5, <2>1 DEF IsTable
<1> QED BY <1>6

Table(r, s) == CHOOSE g : IsTable(g, r, s, Len(s))

\* The ring after the first m bars of s.
After(r, s, m) == Table(r, s)[1 .. m]

\* The fold is the last of these rings, and each is an Upsert to the one before.
LEMMA FoldIs ==
  ASSUME NEW s \in Seq(Bars), NEW r \in Seq(Bars), Len(r) <= Warm
  PROVE  /\ FoldLeft(Upsert, r, s) = After(r, s, Len(s))
         /\ After(r, s, 0) = r
         /\ \A m \in 1 .. Len(s) : After(r, s, m) = Upsert(After(r, s, m - 1), s[m])
<1> DEFINE g == Table(r, s)
           n == Len(s)
<1>1. n \in Nat /\ DOMAIN s = 1 .. n /\ n \in 0 .. n
  OBVIOUS
<1>2. \E x : IsTable(x, r, s, n)
  BY <1>1, TableExists
<1>3. IsTable(g, r, s, n)
  BY <1>2 DEF Table
<1>4. FoldLeft(Upsert, r, s) = g[DOMAIN s]
  BY <1>1, Zenon DEF FoldLeft, MapThenFoldSet, Table, IsTable
<1> HIDE DEF g
<1>5. \A S \in SUBSET (1 .. n) : g[S] = IF S = {} THEN r ELSE Upsert(g[S \ {Max(S)}], s[Max(S)])
  BY <1>3 DEF IsTable
<1>6. g[1 .. 0] = r
  <2>1. 1 .. 0 = {} /\ {} \in SUBSET (1 .. n)
    OBVIOUS
  <2>2. g[{}] = r
    BY <1>5, <2>1
  <2> QED BY <2>1, <2>2
<1>7. ASSUME NEW m \in 1 .. n PROVE g[1 .. m] = Upsert(g[1 .. m - 1], s[m])
  <2>1. m \in Nat /\ 1 <= m /\ m <= n
    BY <1>1
  <2>2. 1 .. m \in SUBSET (1 .. n) /\ 1 .. m # {} /\ m \in 1 .. m /\ 1 .. m \in SUBSET (0 .. m)
    <3>1. \A i \in 1 .. m : i \in 1 .. n
      BY <1>1, <2>1
    <3>2. 1 .. m \in SUBSET (1 .. n)
      BY <3>1
    <3>3. 1 .. m \in SUBSET (0 .. m) /\ m \in 1 .. m
      BY <2>1
    <3> QED BY <3>2, <3>3
  <2>3. Max(1 .. m) \in 1 .. m /\ Max(1 .. m) >= m
    BY <2>1, <2>2, LargestIn
  <2>4. Max(1 .. m) = m /\ (1 .. m) \ {m} = 1 .. m - 1
    BY <2>1, <2>3
  <2>5. g[1 .. m] = IF 1 .. m = {} THEN r ELSE Upsert(g[(1 .. m) \ {Max(1 .. m)}], s[Max(1 .. m)])
    BY <1>5, <2>2
  <2> QED BY <2>2, <2>4, <2>5
<1> QED BY <1>1, <1>4, <1>6, <1>7 DEF After, g

\* What m bars of s make of a ring r: q holds bars of both, and the last copy of a bar
\* is one of s or what it was.
Healed(q, r, s, m) ==
  /\ q \in Seq(Bars) /\ Len(q) <= Warm /\ Len(q) >= Len(r)
  /\ \A i \in DOMAIN q : (\E j \in DOMAIN r : q[i] = r[j]) \/ \E j \in 1 .. m : q[i] = s[j]
  /\ \A t : At(q, t) # {} => (At(r, t) # {} /\ Copy(q, t) = Copy(r, t))
                             \/ \E j \in 1 .. m : s[j].ts = t /\ Copy(q, t) = s[j]

\* Every ring on the way holds bars of the first ring and of s, and the last copy of
\* a bar is the one it had or one of s.
LEMMA HealedAfter ==
  ASSUME NEW s \in Seq(Bars), NEW r \in Seq(Bars), Len(r) <= Warm
  PROVE  \A m \in 0 .. Len(s) : Healed(After(r, s, m), r, s, m)
<1> DEFINE Bad == {m \in 0 .. Len(s) : ~Healed(After(r, s, m), r, s, m)}
<1> SUFFICES ASSUME Bad # {} PROVE FALSE
  OBVIOUS
<1>1. PICK n \in Bad : \A m \in Bad : n <= m
  <2>1. Bad \in SUBSET Nat
    OBVIOUS
  <2> HIDE DEF Bad
  <2> QED BY <2>1, LeastNumber
<1>2. n # 0
  <2>1. After(r, s, 0) = r
    BY FoldIs
  <2>2. Healed(r, r, s, 0)
    BY DEF Healed
  <2> QED BY <1>1, <2>1, <2>2
<1>3. n \in 1 .. Len(s) /\ n - 1 \in 0 .. Len(s) /\ ~(n <= n - 1) /\ n \in DOMAIN s
  BY <1>2
<1> DEFINE p == After(r, s, n - 1)
           b == s[n]
<1>4. Healed(p, r, s, n - 1)
  BY <1>1, <1>3
<1>5. After(r, s, n) = Upsert(p, b)
  BY <1>3, FoldIs
<1>6. b \in Bars /\ \A j \in 1 .. n - 1 : j \in 1 .. n /\ n \in 1 .. n
  BY <1>3, BarIs
<1>7. n \in 1 .. n
  BY <1>3
<1> HIDE DEF p
<1>8. p \in Seq(Bars) /\ Len(p) <= Warm /\ Len(p) >= Len(r)
  BY <1>4 DEF Healed
<1> DEFINE q == Upsert(p, b)
<1>9. /\ q \in Seq(Bars) /\ Len(q) <= Warm /\ Len(q) >= Len(p)
      /\ \A i \in DOMAIN q : q[i] = b \/ \E j \in DOMAIN p : q[i] = p[j]
      /\ Copy(q, b.ts) = b
      /\ \A t : t # b.ts /\ At(q, t) # {} => At(p, t) # {} /\ Copy(p, t) = Copy(q, t)
  BY <1>6, <1>8, UpsertIs
<1> HIDE DEF q
<1>10. Len(q) >= Len(r)
  BY <1>8, <1>9
<1>11. ASSUME NEW i \in DOMAIN q
       PROVE  (\E j \in DOMAIN r : q[i] = r[j]) \/ \E j \in 1 .. n : q[i] = s[j]
  <2>1. CASE q[i] = b
    BY <1>7, <2>1
  <2>2. CASE \E j \in DOMAIN p : q[i] = p[j]
    BY <1>4, <1>6, <2>2 DEF Healed
  <2> QED BY <1>9, <2>1, <2>2
<1>12. ASSUME NEW t, At(q, t) # {}
       PROVE  (At(r, t) # {} /\ Copy(q, t) = Copy(r, t))
              \/ \E j \in 1 .. n : s[j].ts = t /\ Copy(q, t) = s[j]
  <2>1. CASE t = b.ts
    BY <1>7, <1>9, <2>1
  <2>2. CASE t # b.ts
    <3>1. At(p, t) # {} /\ Copy(p, t) = Copy(q, t)
      BY <1>9, <1>12, <2>2
    <3> QED BY <1>4, <1>6, <3>1 DEF Healed
  <2> QED BY <2>1, <2>2
<1>13. Healed(q, r, s, n)
  BY <1>9, <1>10, <1>11, <1>12 DEF Healed
<1> QED BY <1>1, <1>5, <1>13 DEF q

\* The whole heal of a ring.
LEMMA HealedRing ==
  ASSUME NEW s \in Seq(Bars), NEW r \in Seq(Bars), Len(r) <= Warm
  PROVE  LET q == FoldLeft(Upsert, r, s)
         IN  /\ Healed(q, r, s, Len(s))
             /\ s = <<>> => q = r
             /\ \A t : /\ Len(s) > 0 /\ s[Len(s)].ts = t
                       /\ \A i \in DOMAIN r : r[i].ts # t
                       /\ \A i \in 1 .. Len(s) - 1 : s[i].ts # t
                       => Len(q) > 0 /\ q[Len(q)] = s[Len(s)]
<1> DEFINE q == FoldLeft(Upsert, r, s)
           n == Len(s)
<1>1. q = After(r, s, n) /\ n \in Nat /\ n \in 0 .. n
  <2>1. n \in Nat /\ n \in 0 .. n
    OBVIOUS
  <2> QED BY <2>1, FoldIs
<1>2. Healed(q, r, s, n)
  BY <1>1, HealedAfter
<1>3. s = <<>> => q = r
  BY <1>1, FoldIs
<1>4. ASSUME NEW t, n > 0, s[n].ts = t, \A i \in DOMAIN r : r[i].ts # t,
             \A i \in 1 .. n - 1 : s[i].ts # t
      PROVE  Len(q) > 0 /\ q[Len(q)] = s[n]
  <2> DEFINE p == After(r, s, n - 1)
  <2>1. n \in 1 .. n /\ n - 1 \in 0 .. n /\ n \in DOMAIN s
    BY <1>1, <1>4
  <2>2. q = Upsert(p, s[n])
    BY <1>1, <2>1, FoldIs
  <2>3. Healed(p, r, s, n - 1)
    BY <2>1, HealedAfter
  <2> HIDE DEF p, q
  <2>4. p \in Seq(Bars) /\ Len(p) <= Warm /\ s[n] \in Bars
    BY <2>1, <2>3, BarIs DEF Healed
  <2>5. At(p, s[n].ts) = {}
    <3>1. \A i \in DOMAIN p : p[i].ts # t
      BY <1>4, <2>3, SMTT(30) DEF Healed
    <3> QED BY <1>4, <3>1 DEF At
  <2> HIDE DEF n
  <2>6. q[Len(q)] = s[n] /\ Len(q) >= 1
    BY <2>2, <2>4, <2>5, UpsertIs
  <2>7. Len(q) \in Nat
    BY <1>2 DEF Healed
  <2> QED BY <2>6, <2>7
<1> HIDE DEF q, n
<1>5. \A t : n > 0 /\ s[n].ts = t /\ (\A i \in DOMAIN r : r[i].ts # t)
             /\ (\A i \in 1 .. n - 1 : s[i].ts # t)
             => Len(q) > 0 /\ q[Len(q)] = s[n]
  BY <1>4
<1> QED BY <1>2, <1>3, <1>5 DEF q, n

-----------------------------------------------------------------------------
(* What the parts of the steps do.                                           *)

\* The end of a sequence.
LEMMA NewestSeq ==
  ASSUME NEW X, NEW s \in Seq(X), NEW n \in Nat
  PROVE  /\ Newest(s, n) \in Seq(X) /\ Len(Newest(s, n)) = Least(n, Len(s))
         /\ Len(Newest(s, n)) <= n
         /\ \A i \in DOMAIN Newest(s, n) :
              Len(s) - Len(Newest(s, n)) + i \in DOMAIN s
              /\ Newest(s, n)[i] = s[Len(s) - Len(Newest(s, n)) + i]
<1> DEFINE L == Len(s)
           k == Largest(L - n, 0)
<1>1. L \in Nat /\ k \in 0 .. L /\ L - k = Least(n, L) /\ L - k <= n
  <2>1. L \in Nat
    OBVIOUS
  <2> HIDE DEF L
  <2>2. CASE L <= n
    BY <2>1, <2>2 DEF Largest, Least
  <2>3. CASE L > n
    BY <2>1, <2>3 DEF Largest, Least
  <2> QED BY <2>1, <2>2, <2>3
<1>2. Newest(s, n) = SubSeq(s, k + 1, Len(s))
  BY DEF Newest
<1> HIDE DEF k
<1>3. /\ SubSeq(s, k + 1, Len(s)) \in Seq(X) /\ Len(SubSeq(s, k + 1, Len(s))) = Len(s) - k
      /\ \A i \in 1 .. Len(s) - k : SubSeq(s, k + 1, Len(s))[i] = s[k + i]
  BY <1>1
<1> QED BY <1>1, <1>2, <1>3

\* What REST answers: the bars up to the open one, as they are now.
LEMMA RecentIs ==
  ASSUME cur \in Times, updates \in [Times -> 0 .. MaxUpdates], NEW n \in Nat
  PROVE  LET s == KlinesRecent(n)
         IN  /\ s \in Seq(Bars) /\ Len(s) = Least(n, cur) /\ Len(s) \in Nat /\ Len(s) <= cur
             /\ \A i \in DOMAIN s : /\ s[i].ts = cur - Len(s) + i /\ s[i].ts \in Times
                                    /\ s[i].ts <= cur /\ s[i].val = updates[s[i].ts]
             /\ \A t \in Times : t > cur - Len(s) /\ t <= cur =>
                  t - cur + Len(s) \in DOMAIN s /\ s[t - cur + Len(s)] = Bar(t)
<1> DEFINE first == Largest(cur - n, 0)
           s == KlinesRecent(n)
<1>1. cur \in Nat /\ first \in Nat /\ first <= cur /\ cur - first = Least(n, cur)
      /\ \A i \in 1 .. cur - first : first + i \in Times /\ first + i <= cur
  <2>1. cur \in Nat /\ cur >= 1 /\ cur <= MaxBars /\ MaxBars \in Nat
    BY DEF Times
  <2>2. CASE cur <= n
    BY <2>1, <2>2 DEF Times, Largest, Least
  <2>3. CASE cur > n
    BY <2>1, <2>3 DEF Times, Largest, Least
  <2> QED BY <2>1, <2>2, <2>3
<1>2. s = [i \in 1 .. cur - first |-> Bar(first + i)]
  BY DEF KlinesRecent
<1> HIDE DEF first
<1>3. \A t \in Times : Bar(t) \in Bars /\ Bar(t).ts = t /\ Bar(t).val = updates[t]
  BY DEF Bar, Bars
<1>4. s \in Seq(Bars) /\ Len(s) = cur - first /\ DOMAIN s = 1 .. cur - first
  <2>1. \A i \in 1 .. cur - first : Bar(first + i) \in Bars
    BY <1>1, <1>3
  <2>2. cur - first \in Nat
    BY <1>1
  <2> QED BY <1>2, <2>1, <2>2
<1> HIDE DEF s
<1>5. ASSUME NEW i \in DOMAIN s
      PROVE  /\ s[i].ts = cur - Len(s) + i /\ s[i].ts \in Times
             /\ s[i].ts <= cur /\ s[i].val = updates[s[i].ts]
  <2>1. s[i] = Bar(first + i) /\ first + i \in Times /\ first + i <= cur
    BY <1>1, <1>2, <1>4
  <2>2. cur - Len(s) + i = first + i
    BY <1>1, <1>4
  <2> QED BY <1>3, <2>1, <2>2
<1>6. ASSUME NEW t \in Times, t > cur - Len(s), t <= cur
      PROVE  t - cur + Len(s) \in DOMAIN s /\ s[t - cur + Len(s)] = Bar(t)
  <2>1. t \in Nat /\ t - cur + Len(s) \in 1 .. cur - first /\ first + (t - cur + Len(s)) = t
    BY <1>1, <1>4, <1>6 DEF Times
  <2> QED BY <1>2, <1>4, <2>1
<1>7. Len(s) \in Nat /\ Len(s) <= cur /\ Len(s) = Least(n, cur)
  BY <1>1, <1>4
<1> QED BY <1>4, <1>5, <1>6, <1>7 DEF s

\* A broadcast: the event is appended, or the front makes room and an error is put there.
LEMMA BroadcastIs ==
  ASSUME feed \in Seq(Bars \cup {Err}), NEW e \in Bars \cup {Err}, Broadcast(e), pc # "off"
  PROVE  /\ feed' \in Seq(Bars \cup {Err})
         /\ \/ feed' = Append(feed, e)
            \/ /\ Len(feed') >= 2 /\ feed'[1] = Err /\ feed'[Len(feed')] = e
               /\ \E k \in Int : \A i \in 2 .. Len(feed') - 1 :
                                   i + k \in DOMAIN feed /\ feed'[i] = feed[i + k]
<1>1. CASE Len(feed) < FeedCap
  <2>1. feed' = Append(feed, e)
    BY <1>1 DEF Broadcast
  <2> QED BY <2>1
<1>2. CASE ~(Len(feed) < FeedCap)
  <2> DEFINE p == Newest(feed, FeedCap - 1)
             X == Bars \cup {Err}
  <2>1. feed' = <<Err>> \o Append(p, e)
    BY <1>2 DEF Broadcast
  <2>2. FeedCap - 1 \in Nat /\ feed \in Seq(X) /\ Err \in X /\ e \in X /\ Len(feed) \in Nat
    <3>1. Len(feed) \in Nat
      OBVIOUS
    <3>2. FeedCap - 1 \in Nat
      OBVIOUS
    <3> QED BY <3>1, <3>2
  <2> HIDE DEF X
  <2>3. /\ p \in Seq(X)
        /\ \A i \in DOMAIN p : Len(feed) - Len(p) + i \in DOMAIN feed
                               /\ p[i] = feed[Len(feed) - Len(p) + i]
    BY <2>2, NewestSeq
  <2> HIDE DEF p
  <2>4. /\ feed' \in Seq(X) /\ Len(feed') = Len(p) + 2 /\ Len(p) \in Nat
        /\ feed'[1] = Err /\ feed'[Len(p) + 2] = e
        /\ \A i \in 2 .. Len(p) + 1 : feed'[i] = p[i - 1]
    BY <2>1, <2>2, <2>3
  <2>5. ASSUME NEW i \in 2 .. Len(feed') - 1
        PROVE  i + (Len(feed) - Len(p) - 1) \in DOMAIN feed
               /\ feed'[i] = feed[i + (Len(feed) - Len(p) - 1)]
    <3>1. i \in 2 .. Len(p) + 1 /\ i - 1 \in DOMAIN p
          /\ Len(feed) - Len(p) + (i - 1) = i + (Len(feed) - Len(p) - 1)
      BY <2>2, <2>3, <2>4
    <3> QED BY <2>3, <2>4, <3>1
  <2>6. Len(feed) - Len(p) - 1 \in Int /\ Len(feed') >= 2 /\ feed'[Len(feed')] = e
    BY <2>2, <2>4
  <2> QED BY <2>4, <2>5, <2>6 DEF X
<1> QED BY <1>1, <1>2

\* The log grows at its end.
LEMMA WriteIs ==
  ASSUME stored \in Seq(Bars), buffered \in Seq(Bars), NEW more \in Seq(Bars),
         NEW n \in 0 .. Len(buffered) + Len(more), Disk!Write(more, n)
  PROVE  /\ stored' \in Seq(Bars) /\ buffered' \in Seq(Bars)
         /\ stored' \o buffered' = (stored \o buffered) \o more
<1> DEFINE all == buffered \o more
<1>1. all \in Seq(Bars) /\ Len(all) = Len(buffered) + Len(more) /\ Len(all) \in Nat
      /\ n \in 0 .. Len(all)
  OBVIOUS
<1>2. stored' = stored \o SubSeq(all, 1, n) /\ buffered' = SubSeq(all, n + 1, Len(all))
  BY DEF Disk!Write
<1>3. (stored \o buffered) \o more = stored \o all
  BY ConcatAssociative
<1> HIDE DEF all
<1> DEFINE front == SubSeq(all, 1, n)
           rest == SubSeq(all, n + 1, Len(all))
<1>4. front \in Seq(Bars) /\ rest \in Seq(Bars)
  BY <1>1
<1>5. front \o rest = all
  <2>1. 1 \in 1 .. Len(all) + 1 /\ n \in 1 - 1 .. Len(all) /\ Len(all) \in n .. Len(all)
    BY <1>1
  <2>2. SubSeq(all, 1, n) \o SubSeq(all, n + 1, Len(all)) = SubSeq(all, 1, Len(all))
    BY <1>1, <2>1, ConcatAdjacentSubSeq
  <2>3. SubSeq(all, 1, Len(all)) = all
    BY <1>1
  <2> QED BY <2>2, <2>3
<1>6. (stored \o front) \o rest = stored \o (front \o rest)
  <2> HIDE DEF front, rest
  <2> QED BY <1>4, ConcatAssociative, SMTT(30)
<1>7. stored' \in Seq(Bars) /\ buffered' \in Seq(Bars)
  BY <1>2, <1>4
<1>8. stored' \o buffered' = (stored \o buffered) \o more
  BY <1>2, <1>3, <1>5, <1>6, Zenon
<1> QED BY <1>7, <1>8

\* One bar sent.
LEMMA EmitOne ==
  ASSUME NEW b \in Bars, EmitFresh(<<b>>)
  PROVE  /\ view' = [t \in Times |-> IF t = b.ts THEN b.val ELSE view[t]]
         /\ live' = live \cup {b.ts} /\ newest' = b
<1>1. DOMAIN <<b>> = {1} /\ <<b>>[1] = b /\ <<b>> # <<>> /\ Len(<<b>>) = 1 /\ <<b>> \in Seq(Bars)
  OBVIOUS
<1>2. \A t : At(<<b>>, t) = {} <=> t # b.ts
  BY <1>1 DEF At
<1>3. Copy(<<b>>, b.ts) = b
  <2>1. \A j \in DOMAIN <<b>> : 1 < j => <<b>>[j].ts # b.ts
    BY <1>1
  <2>2. 1 \in DOMAIN <<b>> /\ <<b>>[1].ts = b.ts
    BY <1>1
  <2>3. Copy(<<b>>, b.ts) = <<b>>[1]
    <3> DEFINE s == <<b>>
    <3> HIDE DEF s
    <3>1. s \in Seq(Bars) /\ 1 \in DOMAIN s /\ s[1].ts = b.ts
          /\ \A j \in DOMAIN s : 1 < j => s[j].ts # b.ts
      BY <1>1, <2>1, <2>2 DEF s
    <3>2. Copy(s, b.ts) = s[1]
      BY <3>1, CopyAt
    <3> QED BY <3>2 DEF s
  <2> QED BY <1>1, <2>3
<1>4. view' = [t \in Times |-> IF t = b.ts THEN b.val ELSE view[t]]
  BY <1>2, <1>3 DEF EmitFresh
<1> QED BY <1>1, <1>4 DEF EmitFresh, Last

\* Nothing sent.
LEMMA EmitNone ==
  ASSUME view = [t \in Times |-> view[t]], EmitFresh(<<>>)
  PROVE  UNCHANGED <<view, live, newest>>
<1>1. \A t : At(<<>>, t) = {}
  BY DEF At
<1> QED BY <1>1 DEF EmitFresh

\* The window of a heal: the bars after last that REST gave, up to the open one.
LEMMA EmitWindow ==
  ASSUME cur \in Times, updates \in [Times -> 0 .. MaxUpdates], NEW n \in Nat, n >= 1,
         last \in 0 .. cur, EmitFresh(HealWindow(KlinesRecent(n)))
  PROVE  LET new == {t \in Times : t > last /\ t > cur - Least(n, cur) /\ t <= cur}
         IN  /\ view' = [t \in Times |-> IF t \in new THEN updates[t] ELSE view[t]]
             /\ live' = live \cup new
             /\ newest' = IF cur > last THEN Bar(cur) ELSE newest
<1> DEFINE s == KlinesRecent(n)
           new == {t \in Times : t > last /\ t > cur - Least(n, cur) /\ t <= cur}
           newer == {i \in DOMAIN s : s[i].ts > last}
           w == HealWindow(s)
           N == Len(s)
<1>1. /\ s \in Seq(Bars) /\ N = Least(n, cur) /\ N \in Nat /\ N <= cur
      /\ \A i \in DOMAIN s : /\ s[i].ts = cur - N + i /\ s[i].ts \in Times
                             /\ s[i].ts <= cur /\ s[i].val = updates[s[i].ts]
      /\ \A t \in Times : t > cur - N /\ t <= cur => t - cur + N \in DOMAIN s
            /\ s[t - cur + N] = Bar(t)
  BY RecentIs
<1>2. cur \in Nat /\ N >= 1 /\ last \in Nat /\ DOMAIN s = 1 .. N
  BY <1>1 DEF Least, Times
<1>3. w = IF newer = {} THEN <<>> ELSE SubSeq(s, Min(newer), N)
  BY DEF HealWindow
<1> HIDE DEF s, w, N
<1>4. CASE newer = {}
  <2>1. ~(cur > last)
    <3>1. N \in DOMAIN s /\ s[N].ts = cur - N + N
      BY <1>1, <1>2
    <3>2. cur - N + N = cur
      BY <1>1, <1>2
    <3> QED BY <1>4, <3>1, <3>2
  <2>2. new = {}
    BY <1>2, <2>1 DEF Times
  <2>3. w = <<>>
    BY <1>3, <1>4
  <2>4. \A t : At(<<>>, t) = {}
    BY DEF At
  <2>5. EmitFresh(<<>>)
    BY <2>3 DEF w, s
  <2> QED BY <2>1, <2>2, <2>4, <2>5 DEF EmitFresh
<1>5. CASE newer # {}
  <2> DEFINE k == Min(newer)
  <2>1. k \in newer /\ \A i \in newer : k <= i
    <3>1. newer \in SUBSET Nat
      BY <1>2
    <3> HIDE DEF newer
    <3> QED BY <1>5, <3>1, LeastIn
  <2>2. w = SubSeq(s, k, N)
    BY <1>3, <1>5
  <2> HIDE DEF k
  <2>3. k \in 1 .. N /\ s[k].ts > last /\ k \in Nat /\ s[k].ts = cur - N + k
    BY <1>1, <1>2, <2>1
  <2>4. /\ w \in Seq(Bars) /\ Len(w) = N - k + 1 /\ DOMAIN w = 1 .. N - k + 1
        /\ \A i \in 1 .. N - k + 1 : w[i] = s[k + i - 1]
    BY <1>1, <1>2, <2>2, <2>3
  <2>5. \A i \in 1 .. N - k + 1 : k + i - 1 \in DOMAIN s
    BY <1>1, <1>2, <2>3
  <2>6. \A i \in DOMAIN w : w[i].ts = cur - N + (k + i - 1) /\ w[i].ts \in Times /\ w[i].ts <= cur
                            /\ w[i].val = updates[w[i].ts]
    BY <1>1, <2>4, <2>5
  <2>7. \A i \in DOMAIN w : w[i].ts > last
    <3> SUFFICES ASSUME NEW i \in DOMAIN w PROVE w[i].ts > last
      OBVIOUS
    <3>1. i \in Nat /\ i >= 1 /\ w[i].ts = cur - N + (k + i - 1)
      BY <1>1, <1>2, <2>3, <2>4, <2>6
    <3> QED BY <1>1, <1>2, <2>3, <3>1
  <2>8. ASSUME NEW t \in new PROVE t - cur + N - k + 1 \in DOMAIN w
    <3>1. t \in Times /\ t > last /\ t > cur - N /\ t <= cur /\ t \in Nat
      BY <1>1 DEF Times
    <3>2. t - cur + N \in DOMAIN s /\ s[t - cur + N] = Bar(t)
      BY <1>1, <3>1
    <3>3. s[t - cur + N].ts = t
      BY <3>2 DEF Bar
    <3>4. t - cur + N \in newer
      BY <3>1, <3>2, <3>3
    <3>5. k <= t - cur + N
      BY <2>1, <3>4
    <3>6. t - cur + N - k + 1 \in 1 .. N - k + 1
      <4> HIDE DEF new, newer
      <4>1. cur \in Nat /\ N \in Nat /\ k \in Nat /\ t \in Nat /\ k <= t - cur + N /\ t <= cur
        BY <1>1, <1>2, <2>3, <3>1, <3>5
      <4> QED BY <4>1
    <3> QED BY <2>4, <3>6
  <2>9. \A i \in DOMAIN w : w[i].ts \in new
    <3> SUFFICES ASSUME NEW i \in DOMAIN w PROVE w[i].ts > cur - N
      BY <1>1, <2>6, <2>7
    <3>1. i \in Nat /\ i >= 1 /\ w[i].ts = cur - N + (k + i - 1)
      BY <1>1, <1>2, <2>3, <2>4, <2>6
    <3> QED BY <1>1, <1>2, <2>3, <3>1
  <2>10. ASSUME NEW t \in Times
         PROVE  IF t \in new THEN At(w, t) # {} /\ Copy(w, t).val = updates[t] ELSE At(w, t) = {}
    <3>1. CASE t \in new
      <4> DEFINE i == t - cur + N - k + 1
      <4>1. i \in DOMAIN w /\ t \in Nat
        BY <2>8, <3>1 DEF Times
      <4>2. w[i].ts = t /\ w[i].val = updates[t]
        <5>1. cur - N + (k + i - 1) = t
          BY <1>1, <1>2, <2>3, <4>1, SMTT(30)
        <5> QED BY <2>6, <4>1, <5>1
      <4>3. At(w, t) # {}
        BY <4>1, <4>2 DEF At
      <4>4. Max(At(w, t)) \in DOMAIN w /\ w[Max(At(w, t))].ts = t
        BY <2>4, <4>3, CopyIs DEF At
      <4> QED BY <2>6, <3>1, <4>3, <4>4 DEF Copy
    <3>2. CASE t \notin new
      BY <2>9, <3>2 DEF At
    <3> QED BY <3>1, <3>2
  <2>11. view' = [t \in Times |-> IF t \in new THEN updates[t] ELSE view[t]]
    <3>1. view' = [t \in Times |-> IF At(w, t) = {} THEN view[t] ELSE Copy(w, t).val]
      BY DEF EmitFresh, w, s
    <3> HIDE DEF new
    <3> QED BY <2>10, <3>1
  <2>12. live' = live \cup new
    <3>1. live' = live \cup {w[i].ts : i \in DOMAIN w}
      BY DEF EmitFresh, w, s
    <3>2. ASSUME NEW t \in new PROVE \E i \in DOMAIN w : w[i].ts = t
      <4>1. At(w, t) # {}
        BY <2>10
      <4> QED BY <4>1 DEF At
    <3> HIDE DEF new
    <3> QED BY <2>9, <3>1, <3>2
  <2>13. newest' = Bar(cur) /\ cur > last
    <3>1. N - k + 1 \in DOMAIN w /\ w # <<>> /\ k + (N - k + 1) - 1 = N
      BY <1>1, <1>2, <2>3, <2>4, SMTT(30)
    <3>2. Last(w) = s[N]
      BY <2>4, <3>1 DEF Last
    <3>3. s[N] = Bar(cur)
      <4>1. cur - cur + N = N /\ cur > cur - N /\ cur <= cur
        BY <1>1, <1>2
      <4> QED BY <1>1, <4>1
    <3>4. newest' = IF w = <<>> THEN newest ELSE Last(w)
      BY DEF EmitFresh, w, s
    <3>5. cur > last
      <4>1. w[N - k + 1].ts > last /\ w[N - k + 1].ts <= cur /\ w[N - k + 1].ts \in Times
        BY <2>6, <2>7, <3>1
      <4> QED BY <1>2, <4>1 DEF Times
    <3> QED BY <3>1, <3>2, <3>3, <3>4, <3>5
  <2> QED BY <2>11, <2>12, <2>13
<1> QED BY <1>4, <1>5

-----------------------------------------------------------------------------
(* The inductive invariant.                                                  *)

\* a is an older bar than b, or an older state of it, or the same.
Below(a, b) == a.ts < b.ts \/ (a.ts = b.ts /\ a.val <= b.val)

\* Whatever is kept of a bar was a bar of the exchange, in a state it has had.
Real(b) == b.ts <= cur /\ b.val <= updates[b.ts]
RealBars ==
  /\ \A i \in DOMAIN feed : feed[i] # Err => Real(feed[i])
  /\ \A i \in DOMAIN (stored \o buffered) : (stored \o buffered)[i].ts <= cur
  /\ \A t \in live : view[t] \in Nat /\ view[t] <= updates[t]

\* Nothing in the ring is newer than last_emitted_ms.
RingBehind == \A i \in DOMAIN ring : ring[i].ts <= last

\* Once a consumer got something, last_emitted_ms is the newest bar it got.
NewestIsLast ==
  /\ live = {} <=> newest = NoBar
  /\ live # {} => newest.ts = last /\ last \in live /\ newest.val <= updates[last]
  /\ \A t \in live : t <= last
  /\ pc = "attach" => live = {}

\* What the receiver holds comes in order, and after all that was emitted.
FeedInOrder ==
  pc = "live" => \A i \in DOMAIN feed : feed[i] # Err =>
    /\ last <= feed[i].ts /\ Below(newest, feed[i])
    /\ \A j \in DOMAIN feed : i < j /\ feed[j] # Err => Below(feed[i], feed[j])

\* Up to the first error it holds every bar since the last one emitted; without an
\* error, and with the wire up, to the one that is open.
Whole == ~gap /\ ~unnoticed
Told(i) == \A j \in 1 .. i : feed[j] # Err
Before(i) == IF i = 1 THEN last ELSE feed[i - 1].ts
FeedIsWhole ==
  Whole /\ pc = "live" =>
    /\ \A i \in DOMAIN feed : Told(i) /\ (i > 1 \/ live # {}) => feed[i].ts <= Before(i) + 1
    /\ online /\ Told(Len(feed)) /\ (feed # <<>> \/ live # {}) => Before(Len(feed) + 1) = cur

\* The pull under way reaches back to the last bar emitted, or max_limit forbids it.
PullReaches ==
  /\ pc = "pull" => limit >= 1
  /\ pc = "pull" /\ ~gap /\ last > 0 => limit >= cur - last \/ cur - last > Largest(MaxLimit, 1)
  /\ pc = "resub" /\ ~gap => last = cur

\* NoHole, bar by bar.
Solid == \A a \in live, c \in live, t \in Times : a < t /\ t < c => t \in live
NoneMissing == Whole => Solid

KInv == /\ TypeOK /\ RealBars /\ RingBehind /\ NewestIsLast /\ FeedInOrder /\ FeedIsWhole
        /\ PullReaches /\ NoneMissing /\ RingIsAhead /\ LogIsAhead

\* The first state.
LEMMA KInvInit == Init => KInv
<1> SUFFICES ASSUME Init PROVE KInv
  OBVIOUS
<1>1. /\ cur = 1 /\ feed = <<>> /\ ring = <<>> /\ stored = <<>> /\ buffered = <<>> /\ pc = "off"
      /\ live = {} /\ newest = NoBar /\ last = 0 /\ DOMAIN <<>> = {} /\ <<>> \o <<>> = <<>>
  BY DEF Init, Disk!LogInit
<1>2. TypeOK
  <2>1. cur \in Times /\ Len(ring) <= Warm /\ last \in 0 .. cur
        /\ limit \in 0 .. Largest(MaxLimit, 1)
    BY <1>1 DEF Init, Times, Largest
  <2>2. view \in [Times -> {None} \cup 0 .. MaxUpdates] /\ updates \in [Times -> 0 .. MaxUpdates]
    BY DEF Init
  <2>3. feed \in Seq(Bars \cup {Err}) /\ ring \in Seq(Bars) /\ stored \in Seq(Bars)
        /\ buffered \in Seq(Bars)
    BY <1>1
  <2>4. starts \in 0 .. MaxStarts /\ faults \in 0 .. MaxFaults
    BY DEF Init
  <2>5. persist \in Persist /\ online \in BOOLEAN /\ gap \in BOOLEAN /\ unnoticed \in BOOLEAN
    BY Zenon DEF Init
  <2>6. pc \in {"off", "attach", "live", "pull", "resub"} /\ newest \in Bars \cup {NoBar}
        /\ live \subseteq Times
    BY <1>1
  <2> QED BY <2>1, <2>2, <2>3, <2>4, <2>5, <2>6, Zenon DEF TypeOK
<1>3. RealBars /\ RingBehind /\ NewestIsLast
  BY <1>1 DEF RealBars, RingBehind, NewestIsLast
<1>4. FeedInOrder /\ FeedIsWhole /\ PullReaches /\ NoneMissing /\ RingIsAhead /\ LogIsAhead
  BY <1>1 DEF FeedInOrder, FeedIsWhole, PullReaches, NoneMissing, Solid, RingIsAhead, LogIsAhead
<1> QED BY <1>2, <1>3, <1>4 DEF KInv

-----------------------------------------------------------------------------
(* The exchange and the wire.                                                *)

\* What a bar of the feed is.
LEMMA EventIs ==
  ASSUME KInv, NEW i \in DOMAIN feed
  PROVE  /\ i \in 1 .. Len(feed) /\ i \in Nat
         /\ feed[i] \in Bars \cup {Err}
         /\ feed[i] # Err => feed[i] \in Bars /\ feed[i].ts \in Times
               /\ feed[i].val \in 0 .. MaxUpdates
                             /\ feed[i].ts <= cur /\ feed[i].val <= updates[feed[i].ts]
<1>1. feed[i] \in Bars \cup {Err} /\ i \in 1 .. Len(feed)
  BY DEF KInv, TypeOK
<1> QED BY <1>1 DEF KInv, RealBars, Real, Bars

\* A feed that a newer bar, an error or nothing is added to.
LEMMA FeedGrows ==
  ASSUME KInv, NEW e \in Bars \cup {Err},
         \/ Broadcast(e) /\ (e # Err => online)
         \/ UNCHANGED feed /\ ~online,
         UNCHANGED <<online, pc, last, live, newest>>,
         cur' \in {cur, cur + 1}, cur' \in Times, e = Err => cur' = cur,
         updates' \in [Times -> 0 .. MaxUpdates], \A t \in Times : updates'[t] >= updates[t],
         e # Err => e.ts = cur' /\ e.val = updates'[cur'],
         Whole' => Whole
  PROVE  /\ feed' \in Seq(Bars \cup {Err})
         /\ \A i \in DOMAIN feed' :
              feed'[i] # Err => feed'[i].ts <= cur' /\ feed'[i].val <= updates'[feed'[i].ts]
         /\ FeedInOrder' /\ FeedIsWhole'
<1> DEFINE X == Bars \cup {Err}
           Was(b) == b.ts <= cur' /\ b.val <= updates'[b.ts]
<1>a. PICK n \in Nat : n = Len(feed)
  BY DEF KInv, TypeOK
<1>0. /\ n = Len(feed) /\ feed \in Seq(X) /\ n \in Nat /\ DOMAIN feed = 1 .. n
      /\ cur \in Times /\ cur \in Nat /\ cur' \in Nat /\ cur' >= cur
            /\ updates \in [Times -> 0 .. MaxUpdates]
      /\ last \in Nat /\ last <= cur
  BY <1>a DEF KInv, TypeOK, Times
<1>1. \A t \in Times : updates[t] \in Nat /\ updates'[t] \in Nat
  BY <1>0
<1>2. \A i \in DOMAIN feed : feed[i] # Err =>
        /\ feed[i] \in Bars /\ feed[i].ts \in Nat /\ feed[i].val \in Nat /\ feed[i].ts \in Times
        /\ feed[i].ts <= cur' /\ feed[i].val <= updates'[feed[i].ts]
  <2> SUFFICES ASSUME NEW i \in DOMAIN feed, feed[i] # Err
               PROVE  /\ feed[i] \in Bars /\ feed[i].ts \in Nat /\ feed[i].val \in Nat
                            /\ feed[i].ts \in Times
                      /\ feed[i].ts <= cur' /\ feed[i].val <= updates'[feed[i].ts]
    OBVIOUS
  <2>1. /\ feed[i] \in Bars /\ feed[i].ts \in Times /\ feed[i].val \in 0 .. MaxUpdates
        /\ feed[i].ts <= cur /\ feed[i].val <= updates[feed[i].ts]
    BY EventIs
  <2>2. feed[i].ts \in Nat /\ updates'[feed[i].ts] >= updates[feed[i].ts]
    BY <2>1 DEF Times
  <2> QED BY <1>0, <1>1, <2>1, <2>2
<1>3. e # Err => Was(e)
  BY <1>0, <1>1
<1>4. ASSUME e # Err, NEW b, b.ts \in Nat, b.ts <= cur, b.val \in Nat,
             b.ts \in Times => b.val <= updates[b.ts]
      PROVE  Below(b, e)
  <2>1. CASE b.ts = cur'
    <3>1. cur' = cur /\ b.val <= updates[cur] /\ updates'[cur] >= updates[cur]
          /\ e.val = updates'[cur]
      BY <1>0, <1>4, <2>1
    <3> QED BY <1>0, <1>1, <1>4, <2>1, <3>1 DEF Below
  <2>2. CASE b.ts # cur'
    BY <1>0, <1>4, <2>2 DEF Below
  <2> QED BY <2>1, <2>2
<1>5. e # Err => \A i \in DOMAIN feed : feed[i] # Err => Below(feed[i], e)
  <2> SUFFICES ASSUME e # Err, NEW i \in DOMAIN feed, feed[i] # Err PROVE Below(feed[i], e)
    OBVIOUS
  <2>1. /\ feed[i].ts <= cur /\ feed[i].val <= updates[feed[i].ts] /\ feed[i].ts \in Nat
              /\ feed[i].val \in Nat
    BY <1>2, EventIs
  <2> QED BY <1>4, <2>1
<1>6. e # Err => last <= e.ts /\ Below(newest, e)
  <2> SUFFICES ASSUME e # Err PROVE last <= e.ts /\ Below(newest, e)
    OBVIOUS
  <2>1. last <= e.ts
    BY <1>0
  <2>2. newest.ts \in Nat /\ newest.val \in Nat /\ newest.ts <= cur
        /\ (newest.ts \in Times => newest.val <= updates[newest.ts])
    <3>1. CASE live = {}
      <4>1. newest = NoBar
        BY <3>1 DEF KInv, NewestIsLast
      <4> QED BY <1>0, <4>1 DEF NoBar, Times
    <3>2. CASE live # {}
      <4>1. newest.ts = last /\ newest.val <= updates[last] /\ newest # NoBar
        BY <3>2 DEF KInv, NewestIsLast
      <4>2. newest \in Bars
        BY <4>1 DEF KInv, TypeOK
      <4> QED BY <1>0, <4>1, <4>2 DEF Bars
    <3> QED BY <3>1, <3>2
  <2> QED BY <1>4, <2>1, <2>2
<1>7. CASE feed' = feed
  <2>1. FeedInOrder'
    BY <1>7 DEF KInv, FeedInOrder, Below
  <2>2. pc = "off" => FeedIsWhole'
    BY DEF FeedIsWhole
  <2>3. ASSUME ~online PROVE FeedIsWhole'
    <3> SUFFICES ASSUME Whole', pc' = "live"
                 PROVE  \A i \in DOMAIN feed' : Told(i)'
                        /\ (i > 1 \/ live' # {}) => feed'[i].ts <= Before(i)' + 1
      BY <2>3 DEF FeedIsWhole
    <3>1. \A i \in DOMAIN feed : Told(i) /\ (i > 1 \/ live # {}) => feed[i].ts <= Before(i) + 1
      BY DEF KInv, FeedIsWhole
    <3>2. \A i : Told(i)' <=> Told(i)
      BY <1>7 DEF Told
    <3>3. \A i : Before(i)' = Before(i)
      BY <1>7 DEF Before
    <3> QED BY <1>7, <3>1, <3>2, <3>3
  <2>4. ASSUME online, pc # "off" PROVE FeedIsWhole'
    <3>1. Broadcast(e) /\ Len(feed') = Len(feed)
      BY <1>7, <2>4
    <3>2. \/ feed' = Append(feed, e)
          \/ Len(feed') >= 2 /\ feed'[1] = Err /\ feed'[Len(feed')] = e
      BY <1>0, <2>4, <3>1, BroadcastIs
    <3>3. Len(Append(feed, e)) = n + 1
      BY <1>0
    <3>4. feed'[1] = Err /\ Len(feed') >= 2 /\ Len(feed') \in Nat
      BY <1>0, <3>1, <3>2, <3>3
    <3>5. \A i \in 1 .. Len(feed') : ~Told(i)'
      BY <3>4 DEF Told
    <3> QED BY <1>0, <1>7, <3>4, <3>5 DEF FeedIsWhole
  <2> QED BY <1>2, <1>7, <2>1, <2>2, <2>3, <2>4 DEF KInv, TypeOK
<1>8. CASE Broadcast(e) /\ pc # "off" /\ feed' # Append(feed, e)
  <2>1. /\ feed' \in Seq(X)
        /\ Len(feed') >= 2 /\ feed'[1] = Err /\ feed'[Len(feed')] = e
        /\ \E k \in Int : \A i \in 2 .. Len(feed') - 1 :
                           i + k \in DOMAIN feed /\ feed'[i] = feed[i + k]
    BY <1>0, <1>8, BroadcastIs
  <2>2. PICK k \in Int : \A i \in 2 .. Len(feed') - 1 : i + k \in DOMAIN feed
        /\ feed'[i] = feed[i + k]
    BY <2>1
  <2> DEFINE m == Len(feed')
  <2>3. m \in Nat /\ DOMAIN feed' = 1 .. m /\ m >= 2 /\ feed'[m] = e /\ feed'[1] = Err
    BY <2>1
  <2> HIDE DEF m
  <2>4. \A i \in 1 .. m : feed'[i] # Err => i = m \/ i \in 2 .. m - 1
    BY <2>3
  <2>5. ASSUME NEW i \in 1 .. m, feed'[i] # Err, i # m
        PROVE  i + k \in DOMAIN feed /\ feed'[i] = feed[i + k] /\ feed[i + k] # Err
               /\ i \in 2 .. m - 1
    <3>1. i \in 2 .. m - 1
      BY <2>4, <2>5
    <3> QED BY <2>2, <2>5, <3>1 DEF m
  <2>6. \A i \in 1 .. m : feed'[i] # Err => Was(feed'[i])
    <3> SUFFICES ASSUME NEW i \in 1 .. m, feed'[i] # Err PROVE Was(feed'[i])
      OBVIOUS
    <3>1. CASE i = m
      BY <1>3, <2>3, <3>1
    <3>2. CASE i # m
      BY <1>2, <2>5, <3>2
    <3> QED BY <3>1, <3>2
  <2>7. FeedInOrder'
    <3> SUFFICES ASSUME pc = "live", NEW i \in 1 .. m, feed'[i] # Err
                 PROVE  /\ last <= feed'[i].ts /\ Below(newest, feed'[i])
                        /\ \A j \in 1 .. m : i < j /\ feed'[j] # Err => Below(feed'[i], feed'[j])
      BY <2>3 DEF FeedInOrder, Below
    <3>1. CASE i = m
      BY <1>6, <2>3, <3>1
    <3>2. CASE i # m
      <4>1. i + k \in DOMAIN feed /\ feed'[i] = feed[i + k] /\ feed[i + k] # Err
        BY <2>5, <3>2
      <4>2. /\ last <= feed[i + k].ts /\ Below(newest, feed[i + k])
            /\ \A j \in DOMAIN feed : i + k < j /\ feed[j] # Err => Below(feed[i + k], feed[j])
        BY <4>1 DEF KInv, FeedInOrder
      <4>3. ASSUME NEW j \in 1 .. m, i < j, feed'[j] # Err PROVE Below(feed'[i], feed'[j])
        <5>1. CASE j = m
          BY <1>5, <2>3, <4>1, <4>3, <5>1
        <5>2. CASE j # m
          <6>1. j + k \in DOMAIN feed /\ feed'[j] = feed[j + k] /\ feed[j + k] # Err
            BY <2>5, <4>3, <5>2
          <6>2. i + k < j + k
            BY <2>3, <4>3
          <6> QED BY <4>1, <4>2, <6>1, <6>2
        <5> QED BY <5>1, <5>2
      <4> QED BY <4>1, <4>2, <4>3
    <3> QED BY <3>1, <3>2
  <2>8. FeedIsWhole'
    <3>1. \A i \in 1 .. m : ~Told(i)'
      BY <2>3 DEF Told
    <3>2. m \in 1 .. m
      BY <2>3
    <3> QED BY <2>3, <3>1, <3>2 DEF FeedIsWhole, m
  <2> QED BY <2>1, <2>3, <2>6, <2>7, <2>8
<1>9. CASE Broadcast(e) /\ feed' = Append(feed, e) /\ (e # Err => online)
  <2>1. /\ feed' \in Seq(X) /\ Len(feed') = n + 1 /\ DOMAIN feed' = 1 .. n + 1
        /\ feed'[n + 1] = e /\ \A i \in 1 .. n : feed'[i] = feed[i]
    <3>1. feed \in Seq(X) /\ e \in X
      BY <1>0
    <3> HIDE DEF X
    <3> QED BY <1>0, <1>9, <3>1
  <2>2. \A i \in 1 .. n + 1 : i \in 1 .. n \/ i = n + 1
    BY <1>0
  <2>3. \A i \in 1 .. n + 1 : feed'[i] # Err => Was(feed'[i])
    <3> SUFFICES ASSUME NEW i \in 1 .. n + 1, feed'[i] # Err PROVE Was(feed'[i])
      OBVIOUS
    <3>1. CASE i = n + 1
      BY <1>3, <2>1, <3>1
    <3>2. CASE i \in 1 .. n
      BY <1>0, <1>2, <2>1, <3>2
    <3> QED BY <2>2, <3>1, <3>2
  <2>4. FeedInOrder'
    <3> SUFFICES ASSUME pc = "live", NEW i \in 1 .. n + 1, feed'[i] # Err
                 PROVE  /\ last <= feed'[i].ts /\ Below(newest, feed'[i])
                        /\ \A j \in 1 .. n + 1 : i < j
                              /\ feed'[j] # Err => Below(feed'[i], feed'[j])
      BY <2>1 DEF FeedInOrder, Below
    <3>1. CASE i = n + 1
      BY <1>0, <1>6, <2>1, <3>1
    <3>2. CASE i \in 1 .. n
      <4>1. i \in DOMAIN feed /\ feed'[i] = feed[i] /\ feed[i] # Err
        BY <1>0, <2>1, <3>2
      <4>2. /\ last <= feed[i].ts /\ Below(newest, feed[i])
            /\ \A j \in DOMAIN feed : i < j /\ feed[j] # Err => Below(feed[i], feed[j])
        BY <4>1 DEF KInv, FeedInOrder
      <4>3. ASSUME NEW j \in 1 .. n + 1, i < j, feed'[j] # Err PROVE Below(feed'[i], feed'[j])
        <5>1. CASE j = n + 1
          BY <1>5, <2>1, <4>1, <4>3, <5>1
        <5>2. CASE j \in 1 .. n
          <6>1. j \in DOMAIN feed /\ feed'[j] = feed[j]
            BY <1>0, <2>1, <5>2
          <6> QED BY <4>1, <4>2, <4>3, <6>1
        <5> QED BY <2>2, <5>1, <5>2
      <4> QED BY <4>1, <4>2, <4>3
    <3> QED BY <2>2, <3>1, <3>2
  <2>5. FeedIsWhole'
    <3> SUFFICES ASSUME Whole', pc = "live"
                 PROVE  /\ \A i \in 1 .. n + 1 : Told(i)'
                              /\ (i > 1 \/ live # {}) => feed'[i].ts <= Before(i)' + 1
                        /\ online /\ Told(n + 1)' => Before(n + 2)' = cur'
      BY <1>0, <2>1 DEF FeedIsWhole
    <3>1. /\ \A i \in DOMAIN feed : Told(i) /\ (i > 1 \/ live # {}) => feed[i].ts <= Before(i) + 1
          /\ online /\ Told(n) /\ (feed # <<>> \/ live # {}) => Before(n + 1) = cur
      BY <1>a DEF KInv, FeedIsWhole
    <3>2. ASSUME NEW i \in 1 .. n + 1 PROVE Before(i)' = Before(i)
      <4>1. i = 1 \/ i - 1 \in 1 .. n
        BY <1>0
      <4> QED BY <2>1, <4>1 DEF Before
    <3>3. ASSUME NEW i \in 1 .. n + 1, Told(i)' PROVE \A j \in 1 .. n : j <= i => feed[j] # Err
      <4>1. \A j \in 1 .. i : feed'[j] # Err
        BY <3>3 DEF Told
      <4> QED BY <1>0, <2>1, <4>1
    <3>4. ASSUME NEW i \in 1 .. n + 1, Told(i)',
                 i > 1 \/ live # {} PROVE feed'[i].ts <= Before(i)' + 1
      <4>1. CASE i \in 1 .. n
        <5>1. \A j \in 1 .. i : j \in 1 .. n /\ j <= i
          BY <1>0, <4>1
        <5>2. Told(i)
          BY <3>3, <3>4, <5>1 DEF Told
        <5> QED BY <1>0, <2>1, <3>1, <3>2, <3>4, <4>1, <5>2
      <4>2. CASE i = n + 1
        <5>1. e # Err /\ online
          <6>1. feed'[i] # Err
            <7>1. i \in 1 .. i
              BY <1>0
            <7> QED BY <3>4, <7>1 DEF Told
          <6> QED BY <1>9, <2>1, <4>2, <6>1
        <5>2. Told(n)
          <6>1. \A j \in 1 .. n : j <= i
            BY <1>0, <4>2
          <6> QED BY <3>3, <3>4, <6>1 DEF Told
        <5>3. feed # <<>> \/ live # {}
          BY <1>0, <3>4, <4>2
        <5>4. Before(n + 1) = cur
          BY <3>1, <5>1, <5>2, <5>3
        <5> QED BY <1>0, <2>1, <3>2, <4>2, <5>1, <5>4
      <4> QED BY <2>2, <4>1, <4>2
    <3>5. ASSUME online, Told(n + 1)' PROVE Before(n + 2)' = cur'
      <4>1. n + 1 \in 1 .. n + 1 /\ n + 2 # 1 /\ n + 2 - 1 = n + 1
        BY <1>0
      <4>2. feed'[n + 1] # Err
        BY <3>5, <4>1 DEF Told
      <4>3. Before(n + 2)' = e.ts
        BY <2>1, <4>1 DEF Before
      <4> QED BY <2>1, <4>2, <4>3
    <3> QED BY <3>4, <3>5
  <2> QED BY <2>1, <2>3, <2>4, <2>5
<1>10. \/ feed' = feed
       \/ Broadcast(e) /\ pc # "off" /\ feed' # Append(feed, e)
       \/ Broadcast(e) /\ feed' = Append(feed, e) /\ (e # Err => online)
  BY DEF Broadcast
<1> QED BY <1>7, <1>8, <1>9, <1>10

\* What the forwarder has and what was sent stay true while only the exchange, the
\* feed and the wire move on.
LEMMA RestStays ==
  ASSUME KInv, UNCHANGED <<persist, pc, ring, last, log, view, live, newest>>,
         cur' \in {cur, cur + 1}, cur' \in Times,
         updates' \in [Times -> 0 .. MaxUpdates], \A t \in Times : updates'[t] >= updates[t],
         Whole' => Whole
  PROVE  /\ \A i \in DOMAIN (stored' \o buffered') : (stored' \o buffered')[i].ts <= cur'
         /\ \A t \in live' : view'[t] \in Nat /\ view'[t] <= updates'[t]
         /\ RingBehind' /\ NewestIsLast' /\ NoneMissing' /\ RingIsAhead' /\ LogIsAhead'
<1>1. /\ cur \in Nat /\ cur' \in Nat /\ cur' >= cur /\ last \in Nat
      /\ updates \in [Times -> 0 .. MaxUpdates] /\ live \subseteq Times
  BY SMTT(30) DEF KInv, TypeOK, Times
<1>2. \A t \in Times : updates[t] \in Nat /\ updates'[t] \in Nat
  BY <1>1
<1>3. /\ persist' = persist /\ pc' = pc /\ ring' = ring /\ last' = last /\ stored' = stored
      /\ buffered' = buffered /\ view' = view /\ live' = live /\ newest' = newest
  BY DEF log
<1>4. ASSUME NEW i \in DOMAIN (stored \o buffered) PROVE (stored \o buffered)[i].ts <= cur'
  <2>1. stored \o buffered \in Seq(Bars)
    BY DEF KInv, TypeOK
  <2>2. (stored \o buffered)[i].ts \in Nat
    <3> DEFINE all == stored \o buffered
    <3> HIDE DEF all
    <3>1. all[i].ts \in Nat
      BY <2>1, BarIs DEF all
    <3> QED BY <3>1 DEF all
  <2>3. (stored \o buffered)[i].ts <= cur
    BY DEF KInv, RealBars
  <2> QED BY <1>1, <2>2, <2>3
<1>5. ASSUME NEW t \in live PROVE view[t] \in Nat /\ view[t] <= updates'[t]
  <2>1. t \in Times /\ view[t] \in Nat /\ view[t] <= updates[t]
    BY <1>1 DEF KInv, RealBars
  <2> QED BY <1>2, <2>1
<1>6. RingBehind' /\ RingIsAhead' /\ LogIsAhead'
  <2>1. RingBehind'
    BY <1>3 DEF KInv, RingBehind
  <2>2. RingIsAhead'
    <3>1. \A t : At(ring, t)' = At(ring, t) /\ Copy(ring, t)' = Copy(ring, t)
      BY <1>3 DEF At, Copy
    <3> QED BY <1>3, <3>1 DEF KInv, RingIsAhead
  <2>3. LogIsAhead'
    BY <1>3 DEF KInv, LogIsAhead, At
  <2> QED BY <2>1, <2>2, <2>3
<1>7. NewestIsLast'
  <2>1. live # {} => newest.ts = last /\ last \in live /\ newest.val <= updates'[last]
    <3> SUFFICES ASSUME live # {} PROVE newest.ts = last /\ last \in live
                        /\ newest.val <= updates'[last]
      OBVIOUS
    <3>1. newest.ts = last /\ last \in live /\ newest.val <= updates[last] /\ last \in Times
          /\ newest # NoBar
      BY <1>1 DEF KInv, NewestIsLast
    <3>2. newest \in Bars
      BY <3>1 DEF KInv, TypeOK
    <3>3. newest.val \in Nat
      BY <3>2 DEF Bars
    <3> QED BY <1>2, <3>1, <3>3
  <2> QED BY <1>3, <2>1 DEF KInv, NewestIsLast
<1>8. NoneMissing'
  BY <1>3 DEF KInv, NoneMissing, Solid
<1> QED BY <1>3, <1>4, <1>5, <1>6, <1>7, <1>8

\* A new bar.
LEMMA OpenBarStep == KInv /\ OpenBar => KInv'
<1> SUFFICES ASSUME KInv, OpenBar PROVE KInv'
  OBVIOUS
<1> USE DEF OpenBar
<1> DEFINE e == Bar(cur + 1)
<1>0. TypeOK
  BY DEF KInv
<1>1. cur \in Nat /\ cur < MaxBars /\ cur' = cur + 1 /\ cur' \in Times /\ cur \in Times
  BY <1>0 DEF TypeOK, Times
<1>2. updates' = updates /\ updates \in [Times -> 0 .. MaxUpdates]
      /\ \A t \in Times : updates'[t] >= updates[t]
  BY <1>0 DEF TypeOK
<1>3. e \in Bars /\ e.ts = cur' /\ e.val = updates'[cur'] /\ e # Err
  BY <1>1, <1>2 DEF Bar, Bars, Err, None
<1>4. Whole' => Whole
  BY DEF Whole
<1>5. (Broadcast(e) /\ online) \/ (UNCHANGED feed /\ ~online)
  BY DEF Publish
<1> HIDE DEF e
<1>6. UNCHANGED <<online, pc, last, live, newest>>
      /\ UNCHANGED <<persist, pc, ring, last, log, view, live, newest>>
  OBVIOUS
<1>7. /\ feed' \in Seq(Bars \cup {Err})
      /\ \A i \in DOMAIN feed' :
           feed'[i] # Err => feed'[i].ts <= cur' /\ feed'[i].val <= updates'[feed'[i].ts]
      /\ FeedInOrder' /\ FeedIsWhole'
  BY <1>1, <1>2, <1>3, <1>4, <1>5, <1>6, FeedGrows
<1>8. /\ \A i \in DOMAIN (stored' \o buffered') : (stored' \o buffered')[i].ts <= cur'
      /\ \A t \in live' : view'[t] \in Nat /\ view'[t] <= updates'[t]
      /\ RingBehind' /\ NewestIsLast' /\ NoneMissing' /\ RingIsAhead' /\ LogIsAhead'
  BY <1>1, <1>2, <1>4, <1>6, RestStays
<1>9. RealBars'
  BY <1>7, <1>8 DEF RealBars, Real
<1>10. TypeOK'
  <2>1. gap' \in BOOLEAN
    BY <1>0, Zenon DEF TypeOK
  <2>2. last' \in 0 .. cur'
    BY <1>0, <1>1 DEF TypeOK
  <2> QED BY <1>0, <1>1, <1>2, <1>7, <2>1, <2>2 DEF TypeOK, log
<1>11. PullReaches'
  <2>1. pc' = pc /\ limit' = limit /\ last' = last
    OBVIOUS
  <2>2. ASSUME pc = "pull", ~gap', last > 0
        PROVE  limit >= cur' - last \/ cur' - last > Largest(MaxLimit, 1)
    <3>1. ~(cur + 1 - last > limit)
      BY <2>2 DEF Unwatched
    <3>2. limit \in Int /\ last \in Int /\ cur \in Int
      BY <1>0, <1>1 DEF TypeOK
    <3> QED BY <1>1, <3>1, <3>2
  <2>3. pc = "resub" => gap'
    BY DEF Unwatched
  <2> QED BY <2>1, <2>2, <2>3 DEF PullReaches, KInv
<1> QED BY <1>7, <1>8, <1>9, <1>10, <1>11 DEF KInv

\* A new state of the open bar.
LEMMA UpdateBarStep == KInv /\ UpdateBar => KInv'
<1> SUFFICES ASSUME KInv, UpdateBar PROVE KInv'
  OBVIOUS
<1> USE DEF UpdateBar
<1> DEFINE e == [ts |-> cur, val |-> updates[cur] + 1]
<1>0. TypeOK
  BY DEF KInv
<1>1. cur \in Nat /\ cur' = cur /\ cur' \in Times /\ cur \in Times
      /\ updates \in [Times -> 0 .. MaxUpdates]
  BY <1>0 DEF TypeOK, Times
<1>2. /\ updates' \in [Times -> 0 .. MaxUpdates] /\ updates'[cur] = updates[cur] + 1
      /\ \A t \in Times : updates'[t] >= updates[t]
  <2>1. updates[cur] \in Nat /\ updates[cur] + 1 \in 0 .. MaxUpdates
    BY <1>1
  <2>2. \A t \in Times : updates[t] \in Nat
    BY <1>1
  <2> QED BY <1>1, <2>1, <2>2
<1>3. e \in Bars /\ e.ts = cur' /\ e.val = updates'[cur'] /\ e # Err
  <2>1. updates'[cur] \in 0 .. MaxUpdates
    BY <1>1, <1>2
  <2> QED BY <1>1, <1>2, <2>1 DEF Bars, Err, None
<1>4. Whole' => Whole
  BY DEF Whole, consumers
<1>5. (Broadcast(e) /\ online) \/ (UNCHANGED feed /\ ~online)
  BY DEF Publish
<1> HIDE DEF e
<1>6. UNCHANGED <<online, pc, last, live, newest>>
      /\ UNCHANGED <<persist, pc, ring, last, log, view, live, newest>>
      /\ UNCHANGED <<limit, gap, unnoticed, starts, faults>>
  BY DEF consumers
<1>7. /\ feed' \in Seq(Bars \cup {Err})
      /\ \A i \in DOMAIN feed' :
           feed'[i] # Err => feed'[i].ts <= cur' /\ feed'[i].val <= updates'[feed'[i].ts]
      /\ FeedInOrder' /\ FeedIsWhole'
  BY <1>1, <1>2, <1>3, <1>4, <1>5, <1>6, FeedGrows
<1>8. /\ \A i \in DOMAIN (stored' \o buffered') : (stored' \o buffered')[i].ts <= cur'
      /\ \A t \in live' : view'[t] \in Nat /\ view'[t] <= updates'[t]
      /\ RingBehind' /\ NewestIsLast' /\ NoneMissing' /\ RingIsAhead' /\ LogIsAhead'
  BY <1>1, <1>2, <1>4, <1>6, RestStays
<1>9. RealBars'
  BY <1>7, <1>8 DEF RealBars, Real
<1>10. TypeOK'
  BY <1>0, <1>1, <1>2, <1>6, <1>7 DEF TypeOK, log
<1>11. PullReaches'
  BY <1>1, <1>6 DEF PullReaches, KInv
<1> QED BY <1>7, <1>8, <1>9, <1>10, <1>11 DEF KInv

\* An error on the channel.
LEMMA WireErrorStep == KInv /\ WireError => KInv'
<1> SUFFICES ASSUME KInv, WireError PROVE KInv'
  OBVIOUS
<1> USE DEF WireError
<1>0. TypeOK
  BY DEF KInv
<1>1. cur \in Nat /\ cur' = cur /\ cur' \in Times /\ cur \in Times /\ updates' = updates
      /\ updates \in [Times -> 0 .. MaxUpdates] /\ \A t \in Times : updates'[t] >= updates[t]
  BY <1>0 DEF TypeOK, Times, exchange
<1>2. Err \in Bars \cup {Err} /\ Broadcast(Err)
  OBVIOUS
<1>3. Whole' => Whole
  BY DEF Whole, consumers
<1>4. UNCHANGED <<online, pc, last, live, newest>>
      /\ UNCHANGED <<persist, pc, ring, last, log, view, live, newest>>
      /\ UNCHANGED <<limit, gap, unnoticed, starts>>
  BY DEF consumers
<1>5. /\ feed' \in Seq(Bars \cup {Err})
      /\ \A i \in DOMAIN feed' :
           feed'[i] # Err => feed'[i].ts <= cur' /\ feed'[i].val <= updates'[feed'[i].ts]
      /\ FeedInOrder' /\ FeedIsWhole'
  BY <1>1, <1>2, <1>3, <1>4, FeedGrows
<1>6. /\ \A i \in DOMAIN (stored' \o buffered') : (stored' \o buffered')[i].ts <= cur'
      /\ \A t \in live' : view'[t] \in Nat /\ view'[t] <= updates'[t]
      /\ RingBehind' /\ NewestIsLast' /\ NoneMissing' /\ RingIsAhead' /\ LogIsAhead'
  BY <1>1, <1>3, <1>4, RestStays
<1>7. RealBars'
  BY <1>5, <1>6 DEF RealBars, Real
<1>8. TypeOK'
  <2>1. faults' \in 0 .. MaxFaults
    BY <1>0 DEF TypeOK, MayFail
  <2> QED BY <1>0, <1>1, <1>4, <1>5, <2>1 DEF TypeOK, log
<1>9. PullReaches'
  BY <1>1, <1>4 DEF PullReaches, KInv
<1> QED BY <1>5, <1>6, <1>7, <1>8, <1>9 DEF KInv

\* A lost connection, and the next one.
LEMMA WireStep == KInv /\ (LoseWire \/ Redial \/ UNCHANGED vars) => KInv'
<1> SUFFICES ASSUME KInv, LoseWire \/ Redial \/ UNCHANGED vars PROVE KInv'
  OBVIOUS
<1>0. TypeOK
  BY DEF KInv
<1>1. UNCHANGED <<persist, exchange, feed, pc, limit, ring, last, log, view, live, newest,
                  gap, starts>>
  BY DEF LoseWire, Redial, vars, consumers
<1>2. cur \in Nat /\ cur' = cur /\ cur' \in Times /\ cur \in Times /\ updates' = updates
      /\ updates \in [Times -> 0 .. MaxUpdates] /\ \A t \in Times : updates'[t] >= updates[t]
  BY <1>0, <1>1 DEF TypeOK, Times, exchange
<1>3. Whole' => Whole
  BY DEF Whole, LoseWire, Redial, vars, consumers
<1>4. /\ \A i \in DOMAIN (stored' \o buffered') : (stored' \o buffered')[i].ts <= cur'
      /\ \A t \in live' : view'[t] \in Nat /\ view'[t] <= updates'[t]
      /\ RingBehind' /\ NewestIsLast' /\ NoneMissing' /\ RingIsAhead' /\ LogIsAhead'
  BY <1>1, <1>2, <1>3, RestStays
<1>5. RealBars'
  BY <1>1, <1>2, <1>4 DEF RealBars, Real, KInv
<1>6. TypeOK'
  <2>1. faults' \in 0 .. MaxFaults
    <3>1. faults' = faults \/ MayFail
      BY DEF LoseWire, Redial, vars
    <3> QED BY <1>0, <3>1 DEF TypeOK, MayFail
  <2>2. online' \in BOOLEAN /\ unnoticed' \in BOOLEAN
    BY <1>0, Zenon DEF TypeOK, LoseWire, Redial, vars, consumers
  <2> QED BY <1>0, <1>1, <1>2, <2>1, <2>2 DEF TypeOK, log
<1>7. PullReaches' /\ FeedInOrder'
  BY <1>1, <1>2 DEF PullReaches, FeedInOrder, KInv
<1>8. FeedIsWhole'
  <2> SUFFICES ASSUME Whole', pc = "live"
               PROVE  /\ \A i \in DOMAIN feed : Told(i)
                            /\ (i > 1 \/ live # {}) => feed[i].ts <= Before(i) + 1
                      /\ online' /\ Told(Len(feed))
                            /\ (feed # <<>> \/ live # {}) => Before(Len(feed) + 1) = cur
    BY <1>1, <1>2 DEF FeedIsWhole, Told, Before
  <2>1. /\ \A i \in DOMAIN feed : Told(i) /\ (i > 1 \/ live # {}) => feed[i].ts <= Before(i) + 1
        /\ online /\ Told(Len(feed)) /\ (feed # <<>> \/ live # {}) => Before(Len(feed) + 1) = cur
    BY <1>3 DEF KInv, FeedIsWhole
  <2>2. CASE ~Redial
    <3>1. online' => online
      BY <2>2 DEF LoseWire, vars
    <3> QED BY <2>1, <3>1
  <2>3. CASE Redial
    <3> SUFFICES ASSUME Told(Len(feed)),
                        feed # <<>> \/ live # {} PROVE Before(Len(feed) + 1) = cur
      BY <2>1
    <3>1. PICK n \in Nat : n = Len(feed)
      BY <1>0 DEF TypeOK
    <3>2. DOMAIN feed = 1 .. n /\ feed \in Seq(Bars \cup {Err}) /\ (feed = <<>> <=> n = 0)
      BY <1>0, <3>1 DEF TypeOK
    <3>3. \A i \in 1 .. n : feed[i] # Err
      BY <3>1 DEF Told
    <3>4. Err \notin Range(feed)
      BY <3>2, <3>3 DEF Range
    <3>5. PICK t \in Known : ~(t < cur)
      BY <2>3, <3>4 DEF Redial, Whole
    <3>6. last \in Nat /\ last <= cur
      BY <1>0, <1>2 DEF TypeOK
    <3>7. CASE n = 0
      <4>1. t = last
        BY <3>2, <3>5, <3>7 DEF Known
      <4> QED BY <1>2, <3>1, <3>5, <3>6, <3>7, <4>1 DEF Before
    <3>8. CASE n # 0
      <4>1. n \in DOMAIN feed /\ feed[n] # Err /\ Before(n + 1) = feed[n].ts
        BY <3>2, <3>3, <3>8 DEF Before
      <4>2. feed[n].ts \in Nat /\ feed[n].ts <= cur
        BY <4>1, EventIs DEF Times
      <4>3. last <= feed[n].ts
        BY <4>1 DEF KInv, FeedInOrder
      <4>4. \A i \in DOMAIN feed : feed[i].ts <= feed[n].ts /\ feed[i].ts \in Nat
        <5> SUFFICES ASSUME NEW i \in DOMAIN feed PROVE feed[i].ts <= feed[n].ts
                            /\ feed[i].ts \in Nat
          OBVIOUS
        <5>1. feed[i] # Err /\ feed[i].ts \in Nat /\ i \in 1 .. n
          BY <3>2, <3>3, EventIs DEF Times
        <5>2. i < n => Below(feed[i], feed[n])
          BY <4>1, <5>1 DEF KInv, FeedInOrder
        <5> QED BY <4>2, <5>1, <5>2 DEF Below
      <4>5. t = last \/ \E i \in DOMAIN feed : t = feed[i].ts
        BY DEF Known
      <4>6. t <= feed[n].ts /\ t \in Nat
        BY <3>6, <4>2, <4>3, <4>4, <4>5
      <4>7. feed[n].ts = cur
        BY <1>2, <3>5, <4>2, <4>6
      <4> QED BY <3>1, <4>1, <4>7
    <3> QED BY <3>7, <3>8
  <2> QED BY <2>2, <2>3
<1> QED BY <1>4, <1>5, <1>6, <1>7, <1>8 DEF KInv

-----------------------------------------------------------------------------
(* The forwarder.                                                            *)

\* A seed, from the log or from REST.
LEMMA SeedIs ==
  ASSUME KInv, NEW seed \in {Newest(stored, Warm), KlinesRecent(Warm)}
  PROVE  /\ seed \in Seq(Bars) /\ Len(seed) <= Warm
         /\ \A i \in DOMAIN seed : seed[i].ts <= cur
<1>0. cur \in Times /\ cur \in Nat /\ updates \in [Times -> 0 .. MaxUpdates]
      /\ stored \in Seq(Bars)
      /\ buffered \in Seq(Bars)
  BY DEF KInv, TypeOK, Times
<1>1. CASE seed = Newest(stored, Warm)
  <2>1. /\ seed \in Seq(Bars) /\ Len(seed) <= Warm
        /\ \A i \in DOMAIN seed : Len(stored) - Len(seed) + i \in DOMAIN stored
                                  /\ seed[i] = stored[Len(stored) - Len(seed) + i]
    BY <1>0, <1>1, NewestSeq
  <2>2. \A i \in DOMAIN stored : i \in DOMAIN (stored \o buffered)
        /\ (stored \o buffered)[i] = stored[i]
    BY <1>0
  <2>3. \A i \in DOMAIN stored : stored[i].ts <= cur
    BY <2>2 DEF KInv, RealBars
  <2> QED BY <2>1, <2>3
<1>2. CASE seed = KlinesRecent(Warm)
  <2>1. Warm \in Nat
    OBVIOUS
  <2>2. /\ seed \in Seq(Bars) /\ Len(seed) = Least(Warm, cur)
        /\ \A i \in DOMAIN seed : seed[i].ts <= cur
    BY <1>0, <1>2, <2>1, RecentIs
  <2> QED BY <1>0, <2>1, <2>2 DEF Least
<1> QED BY <1>1, <1>2

\* A new forwarder.
LEMMA StartStep == KInv /\ Start => KInv'
<1> SUFFICES ASSUME KInv, Start PROVE KInv'
  OBVIOUS
<1>0. TypeOK
  BY DEF KInv
<1>1. PICK seed \in {Newest(stored, Warm), KlinesRecent(Warm)} :
        /\ ring' = seed
        /\ last' = Max({0} \cup {seed[i].ts : i \in DOMAIN seed})
        /\ view' = [t \in Times |-> IF At(seed, t) = {} THEN None ELSE Copy(seed, t).val]
  BY DEF Start
<1>2. seed \in Seq(Bars) /\ Len(seed) <= Warm /\ \A i \in DOMAIN seed : seed[i].ts <= cur
  BY SeedIs
<1>3. /\ live' = {} /\ newest' = NoBar /\ feed' = <<>> /\ pc' = "attach" /\ gap' = FALSE
            /\ unnoticed' = FALSE
      /\ persist' = persist /\ cur' = cur /\ updates' = updates /\ online' = online
            /\ limit' = limit
      /\ stored' = stored /\ buffered' = buffered /\ faults' = faults /\ starts' = starts + 1
            /\ starts < MaxStarts
  BY DEF Start, exchange, log
<1>4. cur \in Nat /\ cur \in Times
  BY <1>0 DEF TypeOK, Times
<1>5. last' \in 0 .. cur /\ \A i \in DOMAIN seed : seed[i].ts <= last'
  <2> DEFINE S == {0} \cup {seed[i].ts : i \in DOMAIN seed}
  <2>1. \A i \in DOMAIN seed : seed[i].ts \in 0 .. cur
    BY <1>2, <1>4, BarIs
  <2>2. S \in SUBSET (0 .. cur) /\ S # {}
    BY <1>4, <2>1
  <2>3. \A i \in DOMAIN seed : seed[i].ts \in S
    OBVIOUS
  <2> HIDE DEF S
  <2>4. Max(S) \in 0 .. cur /\ \A y \in S : Max(S) >= y
    BY <1>4, <2>2, LargestIn
  <2>5. last' = Max(S)
    BY <1>1 DEF S
  <2> QED BY <1>4, <2>1, <2>3, <2>4, <2>5
<1>6. view' \in [Times -> {None} \cup 0 .. MaxUpdates]
  <2>1. \A t \in Times : At(seed, t) # {} => Copy(seed, t).val \in 0 .. MaxUpdates
    BY <1>2, CopyIs
  <2> QED BY <1>1, <2>1
<1>7. TypeOK'
  <2>1. starts' \in 0 .. MaxStarts
    BY <1>0, <1>3 DEF TypeOK
  <2>2. ring' \in Seq(Bars) /\ Len(ring') <= Warm
    BY <1>1, <1>2
  <2>3. feed' \in Seq(Bars \cup {Err}) /\ live' \subseteq Times /\ newest' \in Bars \cup {NoBar}
        /\ last' \in 0 .. cur'
    BY <1>3, <1>5
  <2>4. pc' \in {"off", "attach", "live", "pull", "resub"} /\ gap' \in BOOLEAN
        /\ unnoticed' \in BOOLEAN
    BY <1>3, Zenon
  <2> QED BY <1>0, <1>3, <1>6, <2>1, <2>2, <2>3, <2>4, Zenon DEF TypeOK
<1>8. RealBars' /\ RingBehind' /\ NewestIsLast'
  <2>1. RealBars'
    BY <1>3 DEF RealBars, KInv
  <2>2. RingBehind'
    BY <1>1, <1>5 DEF RingBehind
  <2>3. NewestIsLast'
    BY <1>3 DEF NewestIsLast
  <2> QED BY <2>1, <2>2, <2>3
<1>9. FeedInOrder' /\ FeedIsWhole' /\ PullReaches'
  BY <1>3 DEF FeedInOrder, FeedIsWhole, PullReaches
<1>10. NoneMissing' /\ RingIsAhead' /\ LogIsAhead'
  BY <1>3 DEF NoneMissing, Solid, RingIsAhead, LogIsAhead
<1> QED BY <1>7, <1>8, <1>9, <1>10 DEF KInv

\* A new receiver.
LEMMA AttachStep == KInv /\ Attach => KInv'
<1> SUFFICES ASSUME KInv, Attach PROVE KInv'
  OBVIOUS
<1>0. TypeOK
  BY DEF KInv
<1>1. /\ pc \in {"attach", "resub"} /\ pc' = "live" /\ feed' = <<>>
      /\ UNCHANGED <<persist, cur, updates, online, limit, ring, last, stored, buffered, view, live,
                     newest, gap, unnoticed, starts, faults>>
  BY DEF Attach, exchange, log, consumers
<1>2. TypeOK'
  <2>1. feed' \in Seq(Bars \cup {Err})
    BY <1>1
  <2> QED BY <1>0, <1>1, <2>1, Zenon DEF TypeOK
<1>3. RealBars' /\ RingBehind' /\ NewestIsLast'
  <2>1. RealBars'
    BY <1>1 DEF RealBars, KInv
  <2>2. RingBehind' /\ NewestIsLast'
    BY <1>1 DEF RingBehind, NewestIsLast, KInv
  <2> QED BY <2>1, <2>2
<1>4. FeedInOrder' /\ PullReaches'
  BY <1>1 DEF FeedInOrder, PullReaches
<1>5. FeedIsWhole'
  <2>1. live # {} /\ ~gap => last = cur
    BY <1>1 DEF KInv, NewestIsLast, PullReaches
  <2>2. Len(<<>>) = 0 /\ DOMAIN <<>> = {}
    OBVIOUS
  <2> QED BY <1>1, <2>1, <2>2 DEF FeedIsWhole, Before, Whole
<1>6. NoneMissing' /\ RingIsAhead' /\ LogIsAhead'
  <2>1. NoneMissing'
    BY <1>1 DEF NoneMissing, Solid, Whole, KInv
  <2>2. RingIsAhead'
    <3>1. \A t : At(ring, t)' = At(ring, t) /\ Copy(ring, t)' = Copy(ring, t)
      BY <1>1 DEF At, Copy
    <3> QED BY <1>1, <3>1 DEF KInv, RingIsAhead
  <2>3. LogIsAhead'
    BY <1>1 DEF KInv, LogIsAhead, At
  <2> QED BY <2>1, <2>2, <2>3
<1> QED BY <1>2, <1>3, <1>4, <1>5, <1>6 DEF KInv

\* An error, the end of the stream, or a silence.
LEMMA DisconnectStep == KInv /\ Disconnect => KInv'
<1> SUFFICES ASSUME KInv, Disconnect PROVE KInv'
  OBVIOUS
<1>0. TypeOK
  BY DEF KInv
<1>1. /\ pc = "live" /\ pc' = "pull"
      /\ UNCHANGED <<persist, cur, updates, online, feed, ring, last, stored, buffered, view, live,
                     newest, gap, unnoticed, starts>>
      /\ UNCHANGED faults \/ MayFail
  BY DEF Disconnect, exchange, log, consumers
<1>2. PICK part \in {0, 1} : limit' = HealLimit(cur, part)
  BY DEF Disconnect
<1>3. /\ limit' \in 1 .. Largest(MaxLimit, 1)
      /\ last > 0 => limit' >= cur - last \/ cur - last > Largest(MaxLimit, 1)
  <2> DEFINE base == Largest(DefaultLimit, 1)
             top == Largest(MaxLimit, 1)
             need == IF last = 0 \/ cur + part <= last THEN base ELSE cur + part - last
  <2>1. base \in Nat /\ base >= 1 /\ top \in Nat /\ top >= 1
    BY DEF Largest
  <2>2. cur \in Nat /\ last \in Nat /\ last <= cur
    BY <1>0 DEF TypeOK, Times
  <2>3. limit' = Least(Largest(need, base), top)
    BY <1>2 DEF HealLimit
  <2>4. need \in Nat /\ (last > 0 => need >= cur - last)
    BY <2>1, <2>2
  <2> HIDE DEF need, base, top
  <2>5. Largest(need, base) \in Nat /\ Largest(need, base) >= need /\ Largest(need, base) >= base
    BY <2>1, <2>4 DEF Largest
  <2>6. limit' \in 1 .. top /\ (last > 0 => limit' >= cur - last \/ cur - last > top)
    BY <2>1, <2>2, <2>3, <2>4, <2>5 DEF Least
  <2> QED BY <2>6 DEF top
<1>4. TypeOK'
  <2>1. faults' \in 0 .. MaxFaults
    BY <1>0, <1>1 DEF TypeOK, MayFail
  <2>2. limit' \in 0 .. Largest(MaxLimit, 1)
    BY <1>3
  <2> QED BY <1>0, <1>1, <2>1, <2>2, Zenon DEF TypeOK
<1>5. RealBars' /\ RingBehind' /\ NewestIsLast'
  <2>1. RealBars'
    BY <1>1 DEF RealBars, Real, KInv
  <2>2. RingBehind' /\ NewestIsLast'
    BY <1>1 DEF RingBehind, NewestIsLast, KInv
  <2> QED BY <2>1, <2>2
<1>6. FeedInOrder' /\ FeedIsWhole' /\ PullReaches'
  <2>1. FeedInOrder' /\ FeedIsWhole'
    BY <1>1 DEF FeedInOrder, FeedIsWhole
  <2>2. PullReaches'
    BY <1>1, <1>3 DEF PullReaches
  <2> QED BY <2>1, <2>2
<1>7. NoneMissing' /\ RingIsAhead' /\ LogIsAhead'
  <2>1. NoneMissing'
    BY <1>1 DEF NoneMissing, Solid, Whole, KInv
  <2>2. RingIsAhead'
    <3>1. \A t : At(ring, t)' = At(ring, t) /\ Copy(ring, t)' = Copy(ring, t)
      BY <1>1 DEF At, Copy
    <3> QED BY <1>1, <3>1 DEF KInv, RingIsAhead
  <2>3. LogIsAhead'
    BY <1>1 DEF KInv, LogIsAhead, At
  <2> QED BY <2>1, <2>2, <2>3
<1> QED BY <1>4, <1>5, <1>6, <1>7 DEF KInv

\* The next event is newer than all that was sent, or a newer state of it.
LEMMA HeadIs ==
  ASSUME KInv, Deliver
  PROVE  LET b == Head(feed)
         IN  /\ b \in Bars /\ b.ts \in Times /\ b.ts \in Nat /\ b.val \in Nat
         /\ b.val \in 0 .. MaxUpdates
             /\ b.ts <= cur /\ b.val <= updates[b.ts]
             /\ b.ts >= last /\ Below(newest, b) /\ last' = b.ts
<1>0. feed \in Seq(Bars \cup {Err}) /\ feed # <<>> /\ pc = "live" /\ Head(feed) # Err
  BY DEF KInv, TypeOK, Deliver
<1>1. 1 \in DOMAIN feed /\ Head(feed) = feed[1]
  BY <1>0
<1>2. feed[1] # Err
  BY <1>0, <1>1
<1>3. /\ feed[1] \in Bars /\ feed[1].ts \in Times /\ feed[1].val \in 0 .. MaxUpdates
      /\ feed[1].ts <= cur /\ feed[1].val <= updates[feed[1].ts]
  BY <1>1, <1>2, EventIs
<1>4. feed[1].ts >= last /\ Below(newest, feed[1])
  <2>1. last <= feed[1].ts /\ Below(newest, feed[1])
    BY <1>0, <1>1, <1>2 DEF KInv, FeedInOrder
  <2>2. last \in Nat
    BY DEF KInv, TypeOK
  <2> QED BY <1>3, <2>1, <2>2 DEF Times
<1>5. last' = Largest(last, feed[1].ts)
  BY <1>1 DEF Deliver
<1>6. last' = feed[1].ts
  <2>1. last \in Nat
    BY DEF KInv, TypeOK
  <2>2. feed[1].ts \in Nat
    BY <1>3 DEF Times
  <2> QED BY <1>4, <1>5, <2>1, <2>2 DEF Largest
<1> QED BY <1>1, <1>3, <1>4, <1>6 DEF Times

\* An event of the feed.
LEMMA DeliverStep == KInv /\ Deliver => KInv'
<1> SUFFICES ASSUME KInv, Deliver PROVE KInv'
  OBVIOUS
<1> DEFINE b == Head(feed)
           X == Bars \cup {Err}
<1>0. TypeOK
  BY DEF KInv
<1>1. /\ b \in Bars /\ b.ts \in Times /\ b.ts \in Nat /\ b.val \in Nat
            /\ b.val \in 0 .. MaxUpdates
      /\ b.ts <= cur /\ b.val <= updates[b.ts]
      /\ b.ts >= last /\ Below(newest, b) /\ last' = b.ts
  BY HeadIs
<1>2. /\ pc = "live" /\ LogBars(<<b>>) /\ ring' = Upsert(ring, b) /\ EmitFresh(<<b>>)
            /\ feed' = Tail(feed)
      /\ UNCHANGED <<persist, cur, updates, online, pc, limit, gap, unnoticed, starts, faults>>
      /\ feed # <<>> /\ b # Err
  BY DEF Deliver, exchange
<1>3. PICK n \in Nat : n = Len(feed)
  BY <1>0 DEF TypeOK
<1>4. /\ n >= 1 /\ DOMAIN feed = 1 .. n /\ feed \in Seq(X) /\ feed[1] = b /\ feed' \in Seq(X)
            /\ Len(feed') = n - 1
      /\ DOMAIN feed' = 1 .. n - 1 /\ \A i \in 1 .. n - 1 : feed'[i] = feed[i + 1]
            /\ i + 1 \in 1 .. n
  <2>1. feed \in Seq(X)
    BY <1>0 DEF TypeOK
  <2> HIDE DEF X
  <2> QED BY <1>2, <1>3, <2>1
<1> HIDE DEF b
<1>5. /\ view' = [t \in Times |-> IF t = b.ts THEN b.val ELSE view[t]]
      /\ live' = live \cup {b.ts} /\ newest' = b
  BY <1>1, <1>2, EmitOne
<1>6. /\ ring' \in Seq(Bars) /\ Len(ring') <= Warm
      /\ \A i \in DOMAIN ring' : ring'[i] = b \/ \E j \in DOMAIN ring : ring'[i] = ring[j]
      /\ Copy(ring', b.ts) = b
      /\ \A t : t # b.ts /\ At(ring', t) # {} => At(ring, t) # {}
            /\ Copy(ring, t) = Copy(ring', t)
  <2>1. ring \in Seq(Bars) /\ Len(ring) <= Warm
    BY <1>0 DEF TypeOK
  <2> DEFINE q == Upsert(ring, b)
  <2>2. /\ q \in Seq(Bars) /\ Len(q) <= Warm
        /\ \A i \in DOMAIN q : q[i] = b \/ \E j \in DOMAIN ring : q[i] = ring[j]
        /\ Copy(q, b.ts) = b
        /\ \A t : t # b.ts /\ At(q, t) # {} => At(ring, t) # {} /\ Copy(ring, t) = Copy(q, t)
    BY <1>1, <2>1, UpsertIs
  <2>3. ring' = q
    BY <1>2
  <2> HIDE DEF q
  <2> QED BY <2>2, <2>3
<1>7. /\ stored' \in Seq(Bars) /\ buffered' \in Seq(Bars)
      /\ persist => stored' \o buffered' = (stored \o buffered) \o <<b>>
      /\ ~persist => UNCHANGED <<stored, buffered>>
  <2>1. stored \in Seq(Bars) /\ buffered \in Seq(Bars) /\ <<b>> \in Seq(Bars) /\ <<b>> # <<>>
    BY <1>0, <1>1 DEF TypeOK
  <2>2. 0 \in 0 .. Len(buffered) + Len(<<b>>)
    BY <2>1
  <2>3. persist => Disk!Write(<<b>>, 0)
    BY <1>2, <2>1 DEF LogBars
  <2>4. ~persist => UNCHANGED <<stored, buffered>>
    BY <1>2 DEF LogBars, log
  <2>5. persist => /\ stored' \in Seq(Bars) /\ buffered' \in Seq(Bars)
                   /\ stored' \o buffered' = (stored \o buffered) \o <<b>>
    BY <2>1, <2>2, <2>3, WriteIs
  <2> QED BY <2>1, <2>4, <2>5
<1>8. cur \in Nat /\ last \in Nat /\ live \subseteq Times
      /\ view \in [Times -> {None} \cup 0 .. MaxUpdates]
  BY <1>0 DEF TypeOK, Times
<1>9. TypeOK'
  <2>1. last' \in 0 .. cur'
    BY <1>1, <1>2, <1>8
  <2>2. live' \subseteq Times /\ newest' \in Bars \cup {NoBar}
    BY <1>1, <1>5, <1>8
  <2>3. view' \in [Times -> {None} \cup 0 .. MaxUpdates]
    BY <1>1, <1>5, <1>8
  <2>4. feed' \in Seq(Bars \cup {Err})
    BY <1>4
  <2> QED BY <1>0, <1>2, <1>6, <1>7, <2>1, <2>2, <2>3, <2>4, Zenon DEF TypeOK
<1>10. /\ \A i \in DOMAIN (stored \o buffered) : (stored' \o buffered')[i] = (stored \o buffered)[i]
                                                 /\ i \in DOMAIN (stored' \o buffered')
       /\ \A i \in DOMAIN (stored' \o buffered') :
            i \in DOMAIN (stored \o buffered) \/ (persist /\ (stored' \o buffered')[i] = b)
       /\ persist => /\ Len(stored' \o buffered') \in DOMAIN (stored' \o buffered')
                     /\ (stored' \o buffered')[Len(stored' \o buffered')] = b
  <2> DEFINE all == stored \o buffered
             now == stored' \o buffered'
  <2>1. all \in Seq(Bars)
    BY <1>0 DEF TypeOK
  <2>2. persist => now = all \o <<b>>
    BY <1>7
  <2>3. ~persist => now = all
    BY <1>7
  <2> HIDE DEF all, now
  <2>4. persist => /\ Len(now) = Len(all) + 1 /\ DOMAIN now = 1 .. Len(all) + 1
        /\ now[Len(all) + 1] = b
                   /\ \A i \in DOMAIN all : now[i] = all[i]
    BY <1>1, <2>1, <2>2
  <2>5. Len(all) \in Nat /\ DOMAIN all = 1 .. Len(all)
    BY <2>1
  <2>6. persist => /\ \A i \in DOMAIN all : i \in DOMAIN now
                   /\ \A i \in DOMAIN now : i \in DOMAIN all \/ i = Len(all) + 1
                   /\ Len(now) \in DOMAIN now
    BY <2>4, <2>5
  <2>7. /\ \A i \in DOMAIN all : now[i] = all[i] /\ i \in DOMAIN now
        /\ \A i \in DOMAIN now : i \in DOMAIN all \/ (persist /\ now[i] = b)
        /\ persist => Len(now) \in DOMAIN now /\ now[Len(now)] = b
    BY <2>3, <2>4, <2>6
  <2> QED BY <2>7 DEF all, now
<1>11. RealBars'
  <2>1. \A i \in DOMAIN feed' : feed'[i] # Err => Real(feed'[i])
    BY <1>4 DEF KInv, RealBars
  <2>2. \A i \in DOMAIN (stored' \o buffered') : (stored' \o buffered')[i].ts <= cur
    BY <1>1, <1>10 DEF KInv, RealBars
  <2>3. \A t \in live' : view'[t] \in Nat /\ view'[t] <= updates[t]
    <3> SUFFICES ASSUME NEW t \in live' PROVE view'[t] \in Nat /\ view'[t] <= updates[t]
      OBVIOUS
    <3>1. t \in Times
      BY <1>1, <1>5, <1>8
    <3>2. CASE t = b.ts
      BY <1>1, <1>5, <3>1, <3>2
    <3>3. CASE t # b.ts
      <4>1. t \in live /\ view'[t] = view[t]
        BY <1>5, <3>1, <3>3
      <4> QED BY <4>1 DEF KInv, RealBars
    <3> QED BY <3>2, <3>3
  <2> QED BY <1>2, <2>1, <2>2, <2>3 DEF RealBars, Real
<1>12. RingBehind'
  <2> SUFFICES ASSUME NEW i \in DOMAIN ring' PROVE ring'[i].ts <= last'
    BY DEF RingBehind
  <2>1. CASE ring'[i] = b
    BY <1>1, <2>1
  <2>2. CASE ring'[i] # b
    <3>1. PICK j \in DOMAIN ring : ring'[i] = ring[j]
      BY <1>6, <2>2
    <3>2. ring[j].ts <= last /\ ring[j].ts \in Nat
      <4>1. ring \in Seq(Bars)
        BY <1>0 DEF TypeOK
      <4>2. ring[j].ts \in Nat
        BY <4>1, BarIs
      <4> QED BY <4>2 DEF KInv, RingBehind
    <3> QED BY <1>1, <1>8, <3>1, <3>2
  <2> QED BY <2>1, <2>2
<1>13. NewestIsLast'
  <2>1. \A t \in live' : t <= last'
    <3> SUFFICES ASSUME NEW t \in live' PROVE t <= last'
      OBVIOUS
    <3>1. t = b.ts \/ (t \in live /\ t <= last /\ t \in Nat)
      BY <1>5, <1>8 DEF KInv, NewestIsLast, Times
    <3> QED BY <1>1, <1>8, <3>1
  <2>2. live' # {} /\ newest' # NoBar /\ newest'.ts = last' /\ last' \in live'
    <3>1. b # NoBar
      BY <1>1 DEF NoBar, Times
    <3> QED BY <1>1, <1>5, <3>1
  <2>3. newest'.val <= updates'[last']
    BY <1>1, <1>2, <1>5
  <2> QED BY <1>2, <2>1, <2>2, <2>3 DEF NewestIsLast
<1>14. FeedInOrder'
  <2> SUFFICES ASSUME NEW i \in 1 .. n - 1, feed'[i] # Err
               PROVE  /\ last' <= feed'[i].ts /\ Below(newest', feed'[i])
                      /\ \A j \in 1 .. n - 1 : i < j
                            /\ feed'[j] # Err => Below(feed'[i], feed'[j])
    BY <1>4 DEF FeedInOrder, Below
  <2>1. feed'[i] = feed[i + 1] /\ i + 1 \in DOMAIN feed /\ feed[i + 1] # Err
    BY <1>4
  <2>2. Below(feed[1], feed[i + 1])
    <3>1. 1 \in DOMAIN feed /\ 1 < i + 1 /\ feed[1] # Err
      BY <1>2, <1>4
    <3> QED BY <1>2, <2>1, <3>1 DEF KInv, FeedInOrder
  <2>3. last' <= feed'[i].ts /\ Below(newest', feed'[i])
    <3>1. feed[i + 1].ts \in Nat
      BY <2>1, EventIs DEF Times
    <3> QED BY <1>1, <1>4, <1>5, <2>1, <2>2, <3>1 DEF Below
  <2>4. ASSUME NEW j \in 1 .. n - 1, i < j, feed'[j] # Err PROVE Below(feed'[i], feed'[j])
    <3>1. feed'[j] = feed[j + 1] /\ j + 1 \in DOMAIN feed /\ feed[j + 1] # Err /\ i + 1 < j + 1
      BY <1>4, <2>4
    <3> QED BY <1>2, <2>1, <3>1 DEF KInv, FeedInOrder
  <2> QED BY <2>3, <2>4
<1>15. FeedIsWhole'
  <2> SUFFICES ASSUME Whole'
               PROVE  /\ \A i \in 1 .. n - 1 : Told(i)' => feed'[i].ts <= Before(i)' + 1
                      /\ online' /\ Told(n - 1)' => Before(n)' = cur'
    <3>1. n - 1 + 1 = n
      OBVIOUS
    <3> QED BY <1>4, <3>1 DEF FeedIsWhole
  <2>1. /\ \A i \in DOMAIN feed : Told(i) /\ (i > 1 \/ live # {}) => feed[i].ts <= Before(i) + 1
        /\ online /\ Told(n) /\ (feed # <<>> \/ live # {}) => Before(n + 1) = cur
    BY <1>2, <1>3 DEF KInv, FeedIsWhole, Whole
  <2>2. ASSUME NEW i \in 0 .. n - 1, Told(i)' PROVE Told(i + 1)
    <3> SUFFICES ASSUME NEW j \in 1 .. i + 1 PROVE feed[j] # Err
      BY DEF Told
    <3>1. CASE j = 1
      BY <1>2, <1>4, <3>1
    <3>2. CASE j # 1
      <4>1. j - 1 \in 1 .. i /\ j - 1 \in 1 .. n - 1 /\ j - 1 + 1 = j
        BY <3>2
      <4>2. feed'[j - 1] # Err
        BY <2>2, <4>1 DEF Told
      <4> QED BY <1>4, <4>1, <4>2
    <3> QED BY <3>1, <3>2
  <2>3. ASSUME NEW i \in 1 .. n PROVE Before(i)' = Before(i + 1)
    <3>1. CASE i = 1
      <4>1. i + 1 # 1 /\ i + 1 - 1 = 1
        BY <3>1
      <4> QED BY <1>1, <1>4, <3>1, <4>1 DEF Before
    <3>2. CASE i # 1
      <4>1. i + 1 # 1 /\ i + 1 - 1 = i /\ i - 1 \in 1 .. n - 1 /\ i - 1 + 1 = i
        BY <3>2
      <4> QED BY <1>4, <3>2, <4>1 DEF Before
    <3> QED BY <3>1, <3>2
  <2>4. ASSUME NEW i \in 1 .. n - 1, Told(i)' PROVE feed'[i].ts <= Before(i)' + 1
    <3>1. i \in 0 .. n - 1 /\ i \in 1 .. n /\ i + 1 > 1 /\ i + 1 \in DOMAIN feed
      BY <1>4
    <3>2. feed[i + 1].ts <= Before(i + 1) + 1
      BY <2>1, <2>2, <2>4, <3>1
    <3> QED BY <1>4, <2>3, <3>1, <3>2
  <2>5. ASSUME online', Told(n - 1)' PROVE Before(n)' = cur'
    <3>1. n - 1 \in 0 .. n - 1 /\ n \in 1 .. n /\ n - 1 + 1 = n
      BY <1>4
    <3>2. Told(n)
      <4> DEFINE m == n - 1
      <4>1. m \in 0 .. n - 1 /\ m + 1 = n /\ Told(m)'
        BY <2>5, <3>1
      <4> HIDE DEF m
      <4>2. Told(m + 1)
        BY <2>2, <4>1
      <4> QED BY <4>1, <4>2
    <3>3. Before(n + 1) = cur
      BY <1>2, <2>1, <2>5, <3>2
    <3> QED BY <1>2, <2>3, <3>1, <3>3
  <2> QED BY <2>4, <2>5
<1>16. NoneMissing'
  <2> SUFFICES ASSUME Whole', NEW a \in live', NEW c \in live', NEW t \in Times, a < t, t < c
               PROVE  t \in live'
    BY DEF NoneMissing, Solid
  <2>0. Whole /\ \A x \in live : x \in Nat /\ x <= last
    BY <1>2, <1>8 DEF Whole, KInv, NewestIsLast, Times
  <2>1. a \in Nat /\ c \in Nat /\ t \in Nat /\ c <= b.ts
    <3>1. c \in live \/ c = b.ts
      BY <1>5
    <3>2. c <= b.ts /\ c \in Nat
      BY <1>1, <1>8, <2>0, <3>1
    <3> QED BY <1>1, <1>5, <2>0, <3>2 DEF Times
  <2>2. a \in live
    <3>1. a # b.ts
      BY <1>1, <2>1
    <3> QED BY <1>5, <3>1
  <2>3. last \in live /\ b.ts <= last + 1
    <3>1. last \in live /\ live # {}
      BY <2>2 DEF KInv, NewestIsLast
    <3>2. \A j \in 1 .. 1 : feed[j] # Err
      BY <1>2, <1>4
    <3>3. 1 \in DOMAIN feed /\ Told(1) /\ Before(1) = last
      BY <1>4, <3>2 DEF Told, Before
    <3>4. feed[1].ts <= Before(1) + 1
      BY <1>2, <2>0, <3>1, <3>3 DEF KInv, FeedIsWhole
    <3> QED BY <1>4, <3>1, <3>3, <3>4
  <2>4. t <= last
    BY <1>1, <1>8, <2>1, <2>3
  <2>5. CASE t = last
    BY <1>5, <2>3, <2>5
  <2>6. CASE t # last
    <3>1. t < last
      BY <1>8, <2>1, <2>4, <2>6
    <3> QED BY <1>5, <2>0, <2>2, <2>3, <3>1 DEF KInv, NoneMissing, Solid
  <2> QED BY <2>5, <2>6
<1>17. RingIsAhead'
  <2> SUFFICES ASSUME NEW t \in live', At(ring', t) # {} PROVE Copy(ring', t).val >= view'[t]
    BY DEF RingIsAhead, At, Copy
  <2>1. t \in Times
    BY <1>1, <1>5, <1>8
  <2>2. CASE t = b.ts
    BY <1>1, <1>5, <1>6, <2>1, <2>2
  <2>3. CASE t # b.ts
    <3>1. At(ring, t) # {} /\ Copy(ring, t) = Copy(ring', t) /\ t \in live /\ view'[t] = view[t]
      BY <1>5, <1>6, <2>1, <2>3
    <3> QED BY <1>2, <3>1 DEF KInv, RingIsAhead
  <2> QED BY <2>2, <2>3
<1>18. LogIsAhead'
  <2> DEFINE all == stored \o buffered
             now == stored' \o buffered'
  <2> SUFFICES ASSUME persist, NEW t \in live'
               PROVE  (\E i \in At(now, t) : now[i].val >= view'[t]) /\ Last(now).ts >= t
    BY <1>2 DEF LogIsAhead, At
  <2>1. Last(now) = b
    BY <1>10 DEF Last
  <2>2. t \in Times /\ t <= last' /\ t \in Nat
    BY <1>1, <1>5, <1>8, <1>13 DEF NewestIsLast, Times
  <2>3. Last(now).ts >= t
    BY <1>1, <2>1, <2>2
  <2>4. CASE t = b.ts
    <3>1. Len(now) \in DOMAIN now /\ now[Len(now)] = b
      BY <1>10
    <3>2. Len(now) \in At(now, t)
      BY <2>4, <3>1 DEF At
    <3>3. view'[t] = b.val
      BY <1>5, <2>2, <2>4
    <3> QED BY <1>1, <2>3, <3>1, <3>2, <3>3
  <2>5. CASE t # b.ts
    <3>1. t \in live /\ view'[t] = view[t]
      BY <1>5, <2>2, <2>5
    <3>2. PICK i \in At(all, t) : all[i].val >= view[t]
      BY <1>2, <3>1 DEF KInv, LogIsAhead
    <3>3. i \in At(now, t) /\ now[i] = all[i]
      BY <1>10, <3>2 DEF At
    <3> QED BY <2>3, <3>1, <3>2, <3>3
  <2> QED BY <2>4, <2>5
<1>19. PullReaches'
  BY <1>2 DEF PullReaches
<1> QED BY <1>9, <1>11, <1>12, <1>13, <1>14, <1>15, <1>16, <1>17, <1>18, <1>19 DEF KInv

\* What a heal that REST answers does: the ring and last_emitted_ms reach the open bar.
LEMMA HealIs ==
  ASSUME KInv, Heal
  PROVE  LET s == KlinesRecent(limit)
             new == {t \in Times : t > last /\ t > cur - Len(s) /\ t <= cur}
         IN  /\ limit \in Nat /\ limit >= 1
             /\ s \in Seq(Bars) /\ Len(s) = Least(limit, cur) /\ Len(s) \in Nat /\ Len(s) >= 1
                   /\ Len(s) <= cur
             /\ \A i \in DOMAIN s : /\ s[i].ts = cur - Len(s) + i /\ s[i].ts \in Times
                                    /\ s[i].ts <= cur /\ s[i].val = updates[s[i].ts]
             /\ \A t \in Times : t > cur - Len(s) /\ t <= cur =>
                  t - cur + Len(s) \in DOMAIN s /\ s[t - cur + Len(s)] = Bar(t)
             /\ Healed(ring', ring, s, Len(s))
             /\ last' = cur
             /\ view' = [t \in Times |-> IF t \in new THEN updates[t] ELSE view[t]]
             /\ live' = live \cup new
             /\ newest' = IF cur > last THEN Bar(cur) ELSE newest
<1> DEFINE s == KlinesRecent(limit)
           N == Len(s)
           new == {t \in Times : t > last /\ t > cur - N /\ t <= cur}
<1>0. /\ cur \in Times /\ cur \in Nat /\ cur >= 1 /\ updates \in [Times -> 0 .. MaxUpdates]
      /\ ring \in Seq(Bars) /\ Len(ring) <= Warm /\ last \in 0 .. cur /\ last \in Nat
            /\ pc = "pull"
  BY DEF KInv, TypeOK, Times, Heal
<1>1. limit \in Nat /\ limit >= 1
  <2>1. limit \in 0 .. Largest(MaxLimit, 1) /\ Largest(MaxLimit, 1) \in Nat
    BY DEF KInv, TypeOK, Largest
  <2>2. limit >= 1
    BY <1>0 DEF KInv, PullReaches
  <2> QED BY <2>1, <2>2
<1>2. /\ s \in Seq(Bars) /\ N = Least(limit, cur) /\ N \in Nat /\ N <= cur
      /\ \A i \in DOMAIN s : /\ s[i].ts = cur - N + i /\ s[i].ts \in Times
                             /\ s[i].ts <= cur /\ s[i].val = updates[s[i].ts]
      /\ \A t \in Times : t > cur - N /\ t <= cur => t - cur + N \in DOMAIN s
            /\ s[t - cur + N] = Bar(t)
  BY <1>0, <1>1, RecentIs
<1>3. HealWith(s, TRUE)
  BY DEF Heal
<1>4. /\ ring' = FoldLeft(Upsert, ring, s) /\ EmitFresh(HealWindow(s))
      /\ last' = Largest(last, IF ring' = <<>> THEN 0 ELSE Last(ring').ts)
  BY <1>3 DEF HealWith
<1>5. /\ view' = [t \in Times |-> IF t \in new THEN updates[t] ELSE view[t]]
      /\ live' = live \cup new
      /\ newest' = IF cur > last THEN Bar(cur) ELSE newest
  BY <1>0, <1>1, <1>2, <1>4, EmitWindow
<1>6. N >= 1
  BY <1>0, <1>1, <1>2 DEF Least
<1> HIDE DEF s, N, new
<1>7. /\ Healed(ring', ring, s, N)
      /\ \A t : /\ N > 0 /\ s[N].ts = t
                /\ \A i \in DOMAIN ring : ring[i].ts # t
                /\ \A i \in 1 .. N - 1 : s[i].ts # t
                => Len(ring') > 0 /\ ring'[Len(ring')] = s[N]
  <2> DEFINE q == FoldLeft(Upsert, ring, s)
  <2>1. /\ Healed(q, ring, s, N)
        /\ \A t : /\ N > 0 /\ s[N].ts = t
                  /\ \A i \in DOMAIN ring : ring[i].ts # t
                  /\ \A i \in 1 .. N - 1 : s[i].ts # t
                  => Len(q) > 0 /\ q[Len(q)] = s[N]
    BY <1>0, <1>2, HealedRing DEF N
  <2>2. ring' = q
    BY <1>4
  <2> HIDE DEF q
  <2> QED BY <2>1, <2>2
<1>8. \A i \in DOMAIN ring : ring[i].ts \in Nat /\ ring[i].ts <= last
  BY <1>0, BarIs DEF KInv, RingBehind
<1>9. DOMAIN s = 1 .. N
  BY <1>2 DEF N
<1>10. \A i \in DOMAIN ring' : ring'[i].ts \in Nat /\ ring'[i].ts <= cur
  <2> SUFFICES ASSUME NEW i \in DOMAIN ring' PROVE ring'[i].ts \in Nat /\ ring'[i].ts <= cur
    OBVIOUS
  <2>1. CASE \E j \in DOMAIN ring : ring'[i] = ring[j]
    BY <1>0, <1>8, <2>1
  <2>2. CASE \E j \in 1 .. N : ring'[i] = s[j]
    BY <1>2, <1>9, <2>2 DEF Times
  <2> QED BY <1>7, <2>1, <2>2 DEF Healed
<1>11. ring' \in Seq(Bars)
  BY <1>7 DEF Healed
<1>12. last' = cur
  <2> DEFINE x == IF ring' = <<>> THEN 0 ELSE Last(ring').ts
  <2>1. x \in Nat /\ x <= cur
    <3>1. CASE ring' = <<>>
      BY <1>0, <3>1
    <3>2. CASE ring' # <<>>
      <4>1. Len(ring') \in DOMAIN ring'
        BY <1>11, <3>2
      <4> QED BY <1>10, <3>2, <4>1 DEF Last
    <3> QED BY <3>1, <3>2
  <2>2. last' = Largest(last, x)
    BY <1>4
  <2>3. last < cur => x = cur
    <3> SUFFICES ASSUME last < cur PROVE x = cur
      OBVIOUS
    <3>1. N \in DOMAIN s /\ s[N].ts = cur
      <4>1. N \in DOMAIN s
        BY <1>2, <1>6, <1>9
      <4>2. s[N].ts = cur - N + N
        BY <1>2, <4>1
      <4> QED BY <1>0, <1>2, <4>1, <4>2
    <3>2. \A i \in DOMAIN ring : ring[i].ts # cur
      BY <1>0, <1>8
    <3>3. \A i \in 1 .. N - 1 : s[i].ts # cur
      <4> SUFFICES ASSUME NEW i \in 1 .. N - 1 PROVE s[i].ts # cur
        OBVIOUS
      <4>1. i \in DOMAIN s /\ i < N /\ i \in Nat
        BY <1>2, <1>9
      <4>2. s[i].ts = cur - N + i
        BY <1>2, <4>1
      <4> QED BY <1>0, <1>2, <4>1, <4>2
    <3>4. Len(ring') > 0 /\ ring'[Len(ring')] = s[N]
      BY <1>2, <1>6, <1>7, <3>1, <3>2, <3>3
    <3>5. ring' # <<>>
      BY <1>11, <3>4
    <3> QED BY <3>1, <3>4, <3>5 DEF Last
  <2> HIDE DEF x
  <2> QED BY <1>0, <2>1, <2>2, <2>3 DEF Largest
<1> QED BY <1>1, <1>2, <1>5, <1>6, <1>7, <1>12 DEF s, N, new

\* A heal that REST answers.
LEMMA HealStep == KInv /\ Heal => KInv'
<1> SUFFICES ASSUME KInv, Heal PROVE KInv'
  OBVIOUS
<1> DEFINE s == KlinesRecent(limit)
           N == Len(s)
           new == {t \in Times : t > last /\ t > cur - N /\ t <= cur}
           all == stored \o buffered
           now == stored' \o buffered'
<1>0. TypeOK
  BY DEF KInv
<1>1. /\ limit \in Nat /\ limit >= 1
      /\ s \in Seq(Bars) /\ N = Least(limit, cur) /\ N \in Nat /\ N >= 1 /\ N <= cur
      /\ \A i \in DOMAIN s : /\ s[i].ts = cur - N + i /\ s[i].ts \in Times
                             /\ s[i].ts <= cur /\ s[i].val = updates[s[i].ts]
      /\ \A t \in Times : t > cur - N /\ t <= cur => t - cur + N \in DOMAIN s
            /\ s[t - cur + N] = Bar(t)
      /\ Healed(ring', ring, s, N)
      /\ last' = cur
      /\ view' = [t \in Times |-> IF t \in new THEN updates[t] ELSE view[t]]
      /\ live' = live \cup new
      /\ newest' = IF cur > last THEN Bar(cur) ELSE newest
  BY HealIs
<1>2. /\ pc = "pull" /\ pc' = "resub" /\ gap' = (gap \/ cur - last > Largest(MaxLimit, 1))
      /\ UNCHANGED <<persist, cur, updates, online, feed, limit, unnoticed, starts, faults>>
      /\ HealWith(s, TRUE)
  BY DEF Heal, HealWith, exchange
<1>3. /\ cur \in Times /\ cur \in Nat /\ cur >= 1 /\ updates \in [Times -> 0 .. MaxUpdates]
      /\ last \in Nat /\ last <= cur /\ live \subseteq Times
      /\ view \in [Times -> {None} \cup 0 .. MaxUpdates] /\ ring \in Seq(Bars)
      /\ stored \in Seq(Bars) /\ buffered \in Seq(Bars)
  BY <1>0 DEF TypeOK, Times
<1>4. persist => Disk!Write(s, Len(buffered) + N)
  BY <1>2 DEF HealWith
<1>5. ~persist => UNCHANGED <<stored, buffered>>
  BY <1>2 DEF HealWith, log
<1> HIDE DEF s
<1>6. /\ stored' \in Seq(Bars) /\ buffered' \in Seq(Bars)
      /\ persist => now = all \o s
      /\ ~persist => now = all
  <2>1. Len(buffered) + N \in 0 .. Len(buffered) + Len(s)
    BY <1>1, <1>3
  <2>2. persist => stored' \in Seq(Bars) /\ buffered' \in Seq(Bars) /\ now = all \o s
    BY <1>1, <1>3, <1>4, <2>1, WriteIs
  <2> QED BY <1>3, <1>5, <2>2
<1>7. DOMAIN s = 1 .. N
  BY <1>1
<1>8. \A t \in new : t \in Times /\ t \in Nat /\ t > last /\ t > cur - N /\ t <= cur
  BY DEF Times
<1>9. \A t \in live : t \in Times /\ t \in Nat /\ t <= last /\ t \notin new
  BY <1>3, <1>8 DEF KInv, NewestIsLast, Times
<1>10. \A t \in Times : updates[t] \in Nat /\ updates[t] \in 0 .. MaxUpdates
  BY <1>3
<1> HIDE DEF N
<1>11. all \in Seq(Bars) /\ Len(all) \in Nat /\ DOMAIN all = 1 .. Len(all)
  BY <1>3
<1>12. ASSUME persist
       PROVE  /\ DOMAIN now = 1 .. Len(all) + N
              /\ \A i \in DOMAIN all : now[i] = all[i] /\ i \in DOMAIN now
              /\ \A i \in 1 .. N : now[Len(all) + i] = s[i] /\ Len(all) + i \in DOMAIN now
              /\ \A i \in DOMAIN now : (i \in DOMAIN all \/ i - Len(all) \in 1 .. N)
              /\ Len(now) = Len(all) + N
  <2>1. now = all \o s /\ Len(s) = N /\ s \in Seq(Bars) /\ N \in Nat
    BY <1>1, <1>6, <1>12 DEF N
  <2> HIDE DEF all, now
  <2>2. Len(now) = Len(all) + N
    BY <1>11, <2>1, SMTT(30)
  <2>3. DOMAIN now = 1 .. Len(all) + N
    BY <1>11, <2>1, <2>2
  <2>4. \A i \in 1 .. Len(all) + N : now[i] = IF i <= Len(all) THEN all[i] ELSE s[i - Len(all)]
    BY <1>11, <2>1
  <2>5. \A i \in DOMAIN all : now[i] = all[i] /\ i \in DOMAIN now
    BY <1>11, <2>1, <2>3, <2>4
  <2>6. \A i \in 1 .. N : now[Len(all) + i] = s[i] /\ Len(all) + i \in DOMAIN now
    BY <1>11, <2>1, <2>3, <2>4
  <2>7. \A i \in DOMAIN now : (i \in DOMAIN all \/ i - Len(all) \in 1 .. N)
    BY <1>11, <2>1, <2>3
  <2> QED BY <2>2, <2>3, <2>5, <2>6, <2>7
<1> HIDE DEF new
<1>13. TypeOK'
  <2>0. live' \subseteq Times
    BY <1>1, <1>3, <1>8
  <2>1. last' \in 0 .. cur' /\ live' \subseteq Times
    <3>1. last' = cur /\ cur' = cur
      BY <1>1, <1>2 DEF exchange
    <3> QED BY <1>3, <2>0, <3>1
  <2>2. newest' \in Bars \cup {NoBar}
    <3>1. Bar(cur) \in Bars
      BY <1>3, <1>10 DEF Bar, Bars
    <3> QED BY <1>0, <1>1, <3>1 DEF TypeOK
  <2>3. view' \in [Times -> {None} \cup 0 .. MaxUpdates]
    BY <1>1, <1>3, <1>10
  <2>4. gap' \in BOOLEAN
    BY <1>0, <1>2, Zenon DEF TypeOK
  <2>5. ring' \in Seq(Bars) /\ Len(ring') <= Warm
    BY <1>1 DEF Healed
  <2>6. pc' \in {"off", "attach", "live", "pull", "resub"}
    BY <1>2
  <2> QED BY <1>0, <1>2, <1>6, <2>1, <2>2, <2>3, <2>4, <2>5, <2>6, Zenon DEF TypeOK
<1>14. \A t \in live' : view'[t] \in Nat /\ view'[t] <= updates[t]
  <2> SUFFICES ASSUME NEW t \in live' PROVE view'[t] \in Nat /\ view'[t] <= updates[t]
    OBVIOUS
  <2>1. CASE t \in new
    BY <1>1, <1>8, <1>10, <2>1
  <2>2. CASE t \notin new
    <3>1. t \in live /\ view'[t] = view[t]
      BY <1>1, <1>9, <2>2
    <3> QED BY <3>1 DEF KInv, RealBars
  <2> QED BY <2>1, <2>2
<1>15. RealBars'
  <2>1. \A i \in DOMAIN all : all[i].ts <= cur
    BY DEF KInv, RealBars
  <2>2. \A i \in DOMAIN now : now[i].ts <= cur
    <3>1. CASE ~persist
      BY <1>6, <2>1, <3>1
    <3>2. CASE persist
      <4> SUFFICES ASSUME NEW i \in DOMAIN now PROVE now[i].ts <= cur
        OBVIOUS
      <4>1. CASE i \in DOMAIN all
        BY <1>12, <2>1, <3>2, <4>1
      <4>2. CASE i - Len(all) \in 1 .. N
        <5> DEFINE j == i - Len(all)
        <5>1. j \in 1 .. N /\ i = Len(all) + j
          BY <1>11, <1>12, <3>2, <4>2
        <5> HIDE DEF j
        <5> QED BY <1>1, <1>7, <1>12, <3>2, <5>1
      <4> QED BY <1>12, <3>2, <4>1, <4>2
    <3> QED BY <3>1, <3>2
  <2>3. \A i \in DOMAIN feed' : feed'[i] # Err => Real(feed'[i])
    BY <1>2 DEF KInv, RealBars
  <2> QED BY <1>2, <1>14, <2>2, <2>3 DEF RealBars, Real
<1>16. RingBehind'
  <2> SUFFICES ASSUME NEW i \in DOMAIN ring' PROVE ring'[i].ts <= cur
    BY <1>1 DEF RingBehind
  <2>1. CASE \E j \in DOMAIN ring : ring'[i] = ring[j]
    <3>1. \A j \in DOMAIN ring : ring[j].ts \in Nat /\ ring[j].ts <= last
      BY <1>3, BarIs DEF KInv, RingBehind
    <3> QED BY <1>3, <2>1, <3>1
  <2>2. CASE \E j \in 1 .. N : ring'[i] = s[j]
    BY <1>1, <1>7, <2>2
  <2> QED BY <1>1, <2>1, <2>2 DEF Healed
<1>17. NewestIsLast'
  <2>1. \A t \in live' : t <= last'
    BY <1>1, <1>3, <1>8, <1>9
  <2>2. CASE cur > last
    <3>1. cur \in new
      BY <1>1, <1>3, <2>2 DEF new
    <3>2. newest' = Bar(cur) /\ newest' # NoBar
      BY <1>1, <1>3, <2>2 DEF Bar, NoBar
    <3> QED BY <1>1, <1>2, <1>10, <1>3, <2>1, <3>1, <3>2 DEF NewestIsLast, Bar
  <2>3. CASE ~(cur > last)
    <3>1. last = cur /\ new = {}
      BY <1>3, <1>8, <2>3
    <3>2. newest' = newest /\ live' = live /\ last' = last /\ updates' = updates /\ pc' # "attach"
      BY <1>1, <1>2, <2>3, <3>1
    <3> QED BY <2>1, <3>2 DEF NewestIsLast, KInv
  <2> QED BY <2>2, <2>3
<1>18. FeedInOrder' /\ FeedIsWhole' /\ PullReaches'
  BY <1>1, <1>2 DEF FeedInOrder, FeedIsWhole, PullReaches
<1>19. NoneMissing'
  <2> SUFFICES ASSUME Whole', NEW a \in live', NEW c \in live', NEW t \in Times, a < t, t < c
               PROVE  t \in live'
    BY DEF NoneMissing, Solid
  <2>1. Whole /\ ~gap /\ ~(cur - last > Largest(MaxLimit, 1))
    BY <1>2 DEF Whole
  <2>2. a \in Nat /\ c \in Nat /\ t \in Nat /\ c <= cur
    <3>1. \A x \in live' : x \in Nat /\ x <= cur
      <4>1. \A x \in live : x \in Nat /\ x <= cur
        BY <1>3, <1>9
      <4>2. \A x \in new : x \in Nat /\ x <= cur
        BY <1>8
      <4> QED BY <1>1, <4>1, <4>2
    <3> QED BY <3>1 DEF Times
  <2>3. CASE t > last
    <3>1. t > cur - N
      <4>1. CASE live = {}
        BY <1>1, <1>3, <1>8, <2>2, <4>1
      <4>2. CASE live # {}
        <5>1. last \in live /\ last > 0
          BY <1>3, <4>2 DEF KInv, NewestIsLast, Times
        <5>2. limit >= cur - last
          BY <1>2, <2>1, <5>1 DEF KInv, PullReaches
        <5>3. N >= cur - last
          BY <1>1, <1>3, <5>2 DEF Least
        <5> QED BY <1>1, <1>3, <2>2, <2>3, <5>3
      <4> QED BY <4>1, <4>2
    <3>2. t \in new
      BY <1>3, <2>2, <2>3, <3>1 DEF new
    <3> QED BY <1>1, <3>2
  <2>4. CASE ~(t > last)
    <3>1. a \in live
      <4>1. a \notin new
        BY <1>3, <1>8, <2>2, <2>4
      <4> QED BY <1>1, <4>1
    <3>2. last \in live
      BY <3>1 DEF KInv, NewestIsLast
    <3>3. CASE t = last
      BY <1>1, <3>2, <3>3
    <3>4. CASE t # last
      <4>1. t < last
        BY <1>3, <2>2, <2>4, <3>4
      <4> QED BY <1>1, <2>1, <3>1, <3>2, <4>1 DEF KInv, NoneMissing, Solid
    <3> QED BY <3>3, <3>4
  <2> QED BY <2>3, <2>4
<1>20. RingIsAhead'
  <2> SUFFICES ASSUME NEW t \in live', At(ring', t) # {} PROVE Copy(ring', t).val >= view'[t]
    BY DEF RingIsAhead, At, Copy
  <2>1. CASE At(ring, t) # {} /\ Copy(ring', t) = Copy(ring, t)
    <3>1. PICK i \in DOMAIN ring : ring[i].ts = t
      BY <2>1 DEF At
    <3>2. ring[i].ts \in Nat /\ ring[i].ts <= last
      BY <1>3, BarIs DEF KInv, RingBehind
    <3>3. t \notin new
      BY <1>3, <1>8, <3>1, <3>2
    <3>4. t \in live /\ view'[t] = view[t] /\ pc # "off"
      BY <1>1, <1>2, <1>9, <3>3
    <3> QED BY <2>1, <3>4 DEF KInv, RingIsAhead
  <2>2. CASE \E j \in 1 .. N : s[j].ts = t /\ Copy(ring', t) = s[j]
    <3>1. Copy(ring', t).val = updates[t] /\ t \in Times
      BY <1>1, <1>7, <2>2
    <3> QED BY <1>10, <1>14, <3>1
  <2> QED BY <1>1, <2>1, <2>2 DEF Healed
<1>21. LogIsAhead'
  <2> SUFFICES ASSUME persist, NEW t \in live'
               PROVE  (\E i \in At(now, t) : now[i].val >= view'[t]) /\ Last(now).ts >= t
    BY <1>2 DEF LogIsAhead, At
  <2>1. Last(now).ts = cur
    <3>1. N \in 1 .. N /\ s[N].ts = cur - N + N
      BY <1>1, <1>7
    <3>2. Last(now) = s[N]
      <4>1. now[Len(all) + N] = s[N] /\ Len(now) = Len(all) + N
        BY <1>12, <3>1
      <4> HIDE DEF now, all
      <4> QED BY <4>1 DEF Last
    <3>3. cur - N + N = cur
      BY <1>1, <1>3
    <3> HIDE DEF now
    <3> QED BY <3>1, <3>2, <3>3
  <2>2. Last(now).ts >= t
    BY <1>1, <1>3, <1>8, <1>9, <2>1
  <2>3. CASE t \in new
    <3> DEFINE j == t - cur + N
    <3>1. j \in 1 .. N /\ s[j] = Bar(t) /\ t \in Times
      BY <1>1, <1>7, <1>8, <2>3
    <3> HIDE DEF j
    <3>2. now[Len(all) + j] = Bar(t) /\ Len(all) + j \in DOMAIN now
      BY <1>12, <3>1
    <3>3. Len(all) + j \in At(now, t)
      BY <3>2 DEF At, Bar
    <3>4. Bar(t).val = updates[t] /\ view'[t] = updates[t]
      BY <1>1, <2>3, <3>1 DEF Bar
    <3> QED BY <1>10, <2>2, <3>1, <3>2, <3>3, <3>4
  <2>4. CASE t \notin new
    <3>1. t \in live /\ view'[t] = view[t] /\ pc # "off"
      BY <1>1, <1>2, <1>9, <2>4
    <3>2. PICK i \in At(all, t) : all[i].val >= view[t]
      BY <3>1 DEF KInv, LogIsAhead
    <3>3. i \in At(now, t) /\ now[i] = all[i]
      BY <1>12, <3>2 DEF At
    <3> QED BY <2>2, <3>1, <3>2, <3>3
  <2> QED BY <2>3, <2>4
<1> QED BY <1>13, <1>15, <1>16, <1>17, <1>18, <1>19, <1>20, <1>21 DEF KInv

\* A heal that pulls nothing changes nothing but the forwarder's place.
LEMMA NoHealStep == KInv /\ NoHeal => KInv'
<1> SUFFICES ASSUME KInv, NoHeal PROVE KInv'
  OBVIOUS
<1> DEFINE all == stored \o buffered
           now == stored' \o buffered'
<1>0. TypeOK
  BY DEF KInv
<1>1. /\ pc = "pull" /\ faults' \in 0 .. MaxFaults /\ gap' = TRUE
      /\ UNCHANGED <<persist, cur, updates, online, feed, limit, unnoticed, starts>>
  BY <1>0 DEF NoHeal, exchange, MayFail, TypeOK
<1>2. PICK flushed \in BOOLEAN : HealWith(<<>>, flushed)
  BY DEF NoHeal
<1>3. /\ pc' = "resub" /\ ring' = FoldLeft(Upsert, ring, <<>>) /\ EmitFresh(HealWindow(<<>>))
      /\ last' = Largest(last, IF ring' = <<>> THEN 0 ELSE Last(ring').ts)
  BY <1>2 DEF HealWith
<1>4. /\ ring \in Seq(Bars) /\ Len(ring) <= Warm /\ last \in Nat
      /\ stored \in Seq(Bars) /\ buffered \in Seq(Bars)
      /\ view \in [Times -> {None} \cup 0 .. MaxUpdates]
  BY <1>0 DEF TypeOK, Times
<1>5. ring' = ring
  <2> DEFINE s == <<>>
  <2>1. s \in Seq(Bars) /\ s = <<>>
    OBVIOUS
  <2> HIDE DEF s
  <2>2. FoldLeft(Upsert, ring, s) = ring
    BY <1>4, <2>1, HealedRing
  <2> QED BY <1>3, <2>1, <2>2
<1>6. UNCHANGED <<view, live, newest>>
  <2>1. HealWindow(<<>>) = <<>>
    BY DEF HealWindow
  <2>2. view = [t \in Times |-> view[t]]
    BY <1>4
  <2> QED BY <1>3, <2>1, <2>2, EmitNone
<1>7. last' = last
  <2>1. ASSUME ring # <<>> PROVE Last(ring).ts \in Nat /\ Last(ring).ts <= last
    <3>1. Len(ring) \in DOMAIN ring
      BY <1>4, <2>1
    <3> QED BY <1>4, <3>1, BarIs DEF KInv, RingBehind, Last
  <2> QED BY <1>3, <1>4, <1>5, <2>1 DEF Largest
<1>8. stored' \in Seq(Bars) /\ buffered' \in Seq(Bars) /\ now = all
  <2>1. CASE persist
    <3>1. PICK n \in 0 .. Len(buffered) : Disk!Write(<<>>, n)
      <4>1. Disk!Write(<<>>, IF flushed THEN Len(buffered) + Len(<<>>) ELSE 0)
        BY <1>2, <2>1 DEF HealWith
      <4>2. (IF flushed THEN Len(buffered) + Len(<<>>) ELSE 0) \in 0 .. Len(buffered)
        BY <1>4
      <4> QED BY <4>1, <4>2
    <3> DEFINE s == <<>>
    <3>2. s \in Seq(Bars) /\ n \in 0 .. Len(buffered) + Len(s) /\ Disk!Write(s, n)
      BY <1>4, <3>1
    <3> HIDE DEF s
    <3>3. stored' \in Seq(Bars) /\ buffered' \in Seq(Bars) /\ now = all \o s
      BY <1>4, <3>2, WriteIs
    <3>4. all \o s = all
      BY <1>4 DEF s
    <3> QED BY <3>3, <3>4
  <2>2. CASE ~persist
    BY <1>2, <1>4, <2>2 DEF HealWith, log
  <2> QED BY <2>1, <2>2
<1>9. TypeOK'
  <2>1. pc' \in {"off", "attach", "live", "pull", "resub"} /\ gap' \in BOOLEAN
    BY <1>1, <1>3
  <2> QED BY <1>0, <1>1, <1>5, <1>6, <1>7, <1>8, <2>1, Zenon DEF TypeOK
<1>10. RealBars'
  <2>1. \A i \in DOMAIN now : now[i].ts <= cur
    <3>1. \A i \in DOMAIN all : all[i].ts <= cur
      BY DEF KInv, RealBars
    <3> QED BY <1>8, <3>1
  <2>2. /\ \A i \in DOMAIN feed : feed[i] # Err => Real(feed[i])
        /\ \A t \in live : view[t] \in Nat /\ view[t] <= updates[t]
    BY DEF KInv, RealBars
  <2> QED BY <1>1, <1>6, <2>1, <2>2 DEF RealBars, Real
<1>11. RingBehind' /\ NewestIsLast'
  <2>1. RingBehind'
    BY <1>5, <1>7 DEF KInv, RingBehind
  <2>2. NewestIsLast'
    BY <1>1, <1>3, <1>6, <1>7 DEF KInv, NewestIsLast
  <2> QED BY <2>1, <2>2
<1>12. FeedInOrder' /\ FeedIsWhole' /\ PullReaches' /\ NoneMissing'
  BY <1>1, <1>3 DEF FeedInOrder, FeedIsWhole, PullReaches, NoneMissing, Whole
<1>13. RingIsAhead'
  <2>1. \A t : At(ring, t)' = At(ring, t) /\ Copy(ring, t)' = Copy(ring, t)
    BY <1>5 DEF At, Copy
  <2> QED BY <1>1, <1>6, <2>1 DEF KInv, RingIsAhead
<1>14. LogIsAhead'
  <2>1. now = all
    BY <1>8
  <2> HIDE DEF now, all
  <2>2. persist => \A t \in live : (\E i \in At(all, t) : all[i].val >= view[t])
        /\ Last(all).ts >= t
    BY <1>1 DEF KInv, LogIsAhead, all
  <2>3. persist' => \A t \in live' : (\E i \in At(now, t) : now[i].val >= view'[t])
        /\ Last(now).ts >= t
    BY <1>1, <1>6, <2>1, <2>2
  <2> QED BY <2>3 DEF LogIsAhead, At, now
<1> QED BY <1>9, <1>10, <1>11, <1>12, <1>13, <1>14 DEF KInv

\* A forwarder that ends, however much of the buffer it leaves on disk.
LEMMA EndStep ==
  ASSUME KInv, pc' = "off", feed' = <<>>,
         UNCHANGED <<persist, exchange, online, limit, ring, last, consumers, starts>>,
         faults' \in 0 .. MaxFaults,
         stored' \in Seq(Bars), buffered' \in Seq(Bars),
         \A i \in DOMAIN (stored' \o buffered') : (stored' \o buffered')[i].ts <= cur
  PROVE  KInv'
<1>0. TypeOK
  BY DEF KInv
<1>1. UNCHANGED <<persist, cur, updates, online, limit, ring, last, view, live, newest, gap,
                  unnoticed, starts>>
  BY DEF exchange, consumers
<1>2. TypeOK'
  <2>1. feed' \in Seq(Bars \cup {Err}) /\ pc' \in {"off", "attach", "live", "pull", "resub"}
    OBVIOUS
  <2> QED BY <1>0, <1>1, <2>1, Zenon DEF TypeOK
<1>3. RealBars'
  <2>1. DOMAIN feed' = {}
    OBVIOUS
  <2>2. \A t \in live : view[t] \in Nat /\ view[t] <= updates[t]
    BY DEF KInv, RealBars
  <2> QED BY <1>1, <2>1, <2>2 DEF RealBars
<1>4. RingBehind' /\ NewestIsLast' /\ NoneMissing'
  <2>1. RingBehind'
    BY <1>1 DEF KInv, RingBehind
  <2>2. NewestIsLast'
    BY <1>1 DEF KInv, NewestIsLast
  <2>3. NoneMissing'
    BY <1>1 DEF KInv, NoneMissing, Solid, Whole
  <2> QED BY <2>1, <2>2, <2>3
<1>5. FeedInOrder' /\ FeedIsWhole' /\ PullReaches' /\ RingIsAhead' /\ LogIsAhead'
  BY DEF FeedInOrder, FeedIsWhole, PullReaches, RingIsAhead, LogIsAhead
<1> QED BY <1>2, <1>3, <1>4, <1>5 DEF KInv

\* A shutdown.
LEMMA StopStep == KInv /\ Stop => KInv'
<1> SUFFICES ASSUME KInv, Stop PROVE KInv'
  OBVIOUS
<1> DEFINE all == stored \o buffered
           now == stored' \o buffered'
<1>1. /\ stored \in Seq(Bars) /\ buffered \in Seq(Bars) /\ faults \in 0 .. MaxFaults
      /\ \A i \in DOMAIN all : all[i].ts <= cur
  BY DEF KInv, TypeOK, RealBars
<1>2. stored' \in Seq(Bars) /\ buffered' \in Seq(Bars) /\ now = all
  <2> DEFINE s == <<>>
  <2>1. s \in Seq(Bars) /\ Len(buffered) \in 0 .. Len(buffered) + Len(s)
        /\ Disk!Write(s, Len(buffered))
    BY <1>1 DEF Stop
  <2> HIDE DEF s
  <2>2. stored' \in Seq(Bars) /\ buffered' \in Seq(Bars) /\ now = all \o s
    BY <1>1, <2>1, WriteIs
  <2>3. all \o s = all
    BY <1>1 DEF s
  <2> QED BY <2>2, <2>3
<1>3. \A i \in DOMAIN now : now[i].ts <= cur
  BY <1>1, <1>2
<1>4. pc' = "off" /\ feed' = <<>> /\ faults' = faults
      /\ UNCHANGED <<persist, exchange, online, limit, ring, last, consumers, starts>>
  BY DEF Stop
<1> QED BY <1>1, <1>2, <1>3, <1>4, EndStep

\* A crash.
LEMMA CrashStep == KInv /\ CrashStation => KInv'
<1> SUFFICES ASSUME KInv, CrashStation PROVE KInv'
  OBVIOUS
<1> DEFINE all == stored \o buffered
           now == stored' \o buffered'
<1>1. /\ stored \in Seq(Bars) /\ buffered \in Seq(Bars) /\ faults \in 0 .. MaxFaults
      /\ \A i \in DOMAIN all : all[i].ts <= cur
  BY DEF KInv, TypeOK, RealBars
<1>2. PICK n \in 0 .. Len(buffered) : Disk!Crash(n)
  BY DEF CrashStation
<1> DEFINE front == SubSeq(buffered, 1, n)
<1>3. front \in Seq(Bars) /\ Len(front) = n /\ \A i \in 1 .. n : front[i] = buffered[i]
  BY <1>1, <1>2
<1>4. stored' = stored \o front /\ buffered' = <<>>
  BY <1>2 DEF Disk!Crash
<1> HIDE DEF front
<1>5. stored' \in Seq(Bars) /\ buffered' \in Seq(Bars) /\ now = stored \o front
  BY <1>1, <1>3, <1>4
<1>6. \A i \in DOMAIN (stored \o front) : i \in DOMAIN all /\ (stored \o front)[i] = all[i]
  BY <1>1, <1>2, <1>3
<1>7. \A i \in DOMAIN now : now[i].ts <= cur
  BY <1>1, <1>5, <1>6
<1>8. pc' = "off" /\ feed' = <<>> /\ faults' \in 0 .. MaxFaults
      /\ UNCHANGED <<persist, exchange, online, limit, ring, last, consumers, starts>>
  BY <1>1 DEF CrashStation, MayFail
<1> QED BY <1>5, <1>7, <1>8, EndStep

\* Every step.
LEMMA KInvStep == KInv /\ [Next]_vars => KInv'
<1> SUFFICES ASSUME KInv, [Next]_vars PROVE KInv'
  OBVIOUS
<1>1. CASE OpenBar
  BY <1>1, OpenBarStep
<1>2. CASE UpdateBar
  BY <1>2, UpdateBarStep
<1>3. CASE LoseWire \/ Redial \/ UNCHANGED vars
  BY <1>3, WireStep
<1>4. CASE WireError
  BY <1>4, WireErrorStep
<1>5. CASE Start
  BY <1>5, StartStep
<1>6. CASE Attach
  BY <1>6, AttachStep
<1>7. CASE Deliver
  BY <1>7, DeliverStep
<1>8. CASE Disconnect
  BY <1>8, DisconnectStep
<1>9. CASE Heal
  BY <1>9, HealStep
<1>10. CASE NoHeal
  BY <1>10, NoHealStep
<1>11. CASE Stop
  BY <1>11, StopStep
<1>12. CASE CrashStation
  BY <1>12, CrashStep
<1> QED BY <1>1, <1>2, <1>3, <1>4, <1>5, <1>6, <1>7, <1>8, <1>9, <1>10, <1>11, <1>12 DEF Next

-----------------------------------------------------------------------------
(* What follows.                                                             *)

\* A feed or a heal sends nothing older than what was sent last.
LEMMA EmittedStep ==
  ASSUME KInv, [Next]_vars, newest' # NoBar, newest' # newest
  PROVE  newest'.ts > newest.ts \/ (newest'.ts = newest.ts /\ newest'.val >= newest.val)
<1>0. newest \in Bars \cup {NoBar} /\ last \in Nat /\ cur \in Nat /\ cur \in Times
  BY DEF KInv, TypeOK, Times
<1>1. newest.ts \in Nat /\ newest.val \in Nat
  BY <1>0 DEF Bars, NoBar, Times
<1>2. CASE Deliver
  <2> DEFINE b == Head(feed)
  <2>1. pc = "live" /\ feed # <<>> /\ b # Err /\ EmitFresh(<<b>>) /\ feed \in Seq(Bars \cup {Err})
    BY <1>2 DEF Deliver, KInv, TypeOK
  <2>2. 1 \in DOMAIN feed /\ feed[1] = b
    BY <2>1
  <2>3. b \in Bars /\ Below(newest, b)
    BY <2>1, <2>2, EventIs DEF KInv, FeedInOrder
  <2>4. newest' = b
    BY <2>1, <2>3, EmitOne
  <2>5. b.ts \in Nat /\ b.val \in Nat
    BY <2>3 DEF Bars, Times
  <2> QED BY <1>1, <2>3, <2>4, <2>5 DEF Below
<1>3. CASE Heal
  <2>1. newest' = IF cur > last THEN Bar(cur) ELSE newest
    BY <1>3, HealIs
  <2>2. cur > last /\ newest'.ts = cur
    BY <2>1 DEF Bar
  <2>3. newest.ts <= last
    BY <1>0 DEF KInv, NewestIsLast, NoBar
  <2> QED BY <1>0, <1>1, <2>2, <2>3
<1>4. CASE NoHeal
  <2>1. EmitFresh(HealWindow(<<>>))
    BY <1>4 DEF NoHeal, HealWith
  <2>2. HealWindow(<<>>) = <<>>
    BY DEF HealWindow
  <2> QED BY <2>1, <2>2 DEF EmitFresh
<1>5. CASE Start
  BY <1>5 DEF Start
<1>6. CASE ~(Deliver \/ Heal \/ NoHeal \/ Start)
  <2>1. UNCHANGED newest
    BY <1>6 DEF Next, OpenBar, UpdateBar, LoseWire, WireError, Redial, Attach, Disconnect, Stop,
                CrashStation, consumers, vars
  <2> QED BY <2>1
<1> QED BY <1>2, <1>3, <1>4, <1>5, <1>6

\* Every bar between the first and the last that were sent is one that was sent.
LEMMA NoHoleFollows == KInv => NoHole
<1> SUFFICES ASSUME KInv, ~gap, ~unnoticed, NEW t \in Times, live # {}, t > Min(live),
                    t < Max(live)
             PROVE  t \in live
  BY DEF NoHole, Contiguous
<1>1. live \in SUBSET Nat /\ live \in SUBSET (0 .. MaxBars) /\ MaxBars \in Nat
  BY DEF KInv, TypeOK, Times
<1>2. Min(live) \in live /\ Max(live) \in live
  BY <1>1, LeastIn, LargestIn
<1> QED BY <1>2 DEF KInv, NoneMissing, Whole, Solid

\* In every state the forwarder reaches: last_emitted_ms is the newest bar sent, the
\* receiver holds what follows it in order and, up to its first error, without a hole,
\* the pull under way reaches back to it, and ring and log are no older than it.
THEOREM KInvHolds == Spec => []KInv
<1>1. Init => KInv
  BY KInvInit
<1>2. KInv /\ [Next]_vars => KInv'
  BY KInvStep
<1> QED BY <1>1, <1>2, PTL DEF Spec

\* Every variable has its type: the ring never grows past warm_start_capacity, through
\* seeds, deliveries and heals of any length, and last_emitted_ms never passes the bar
\* that is open at the exchange.
THEOREM KlineTypeCorrect == Spec => []TypeOK
<1>1. KInv => TypeOK
  BY DEF KInv
<1> QED BY <1>1, KInvHolds, PTL

\* The consumers of a forwarder have every bar between the first and the last they got,
\* across errors, lags and outages up to max_limit bars long that the feed told of, if
\* REST answered in time (heal_limit, select_heal_window and the re-attach together).
THEOREM NoHoleHolds == Spec => []NoHole
BY NoHoleFollows, KInvHolds, PTL

\* Series never shows an older state of a bar than the consumers were sent: the heal's
\* upserts overwrite half-formed bars, and no event of the dead connection comes after.
THEOREM RingAhead == Spec => []RingIsAhead
<1>1. KInv => RingIsAhead
  BY DEF KInv
<1> QED BY <1>1, KInvHolds, PTL

\* What the consumers got is in the log, on disk or buffered, at least as new, and the log
\* ends with the newest bar: the write comes before the emit in both paths.
THEOREM LogAhead == Spec => []LogIsAhead
<1>1. KInv => LogIsAhead
  BY DEF KInv
<1> QED BY <1>1, KInvHolds, PTL

\* Feed and heals never send a consumer an older bar, nor an older state of a bar, than
\* the one before: the heal's window starts after last_emitted_ms and the receiver is new.
THEOREM InOrder == Spec => EmittedInOrder
<1>1. KInv /\ [Next]_vars =>
        [newest' # NoBar =>
           \/ newest'.ts > newest.ts
           \/ newest'.ts = newest.ts /\ newest'.val >= newest.val]_newest
  BY EmittedStep
<1> QED BY <1>1, KInvHolds, PTL DEF Spec, EmittedInOrder
=============================================================================
