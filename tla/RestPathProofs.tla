--------------------------- MODULE RestPathProofs ---------------------------
(***************************************************************************)
(* What RestPath guarantees for every set of callers, every weight, window *)
(* and number of attempts: the limiter's log stays in order, the wait it   *)
(* tells a refused caller is the exact one, and a caller on its own is     *)
(* never refused by the exchange, unless its last good answer was that of  *)
(* an amendment, which brings no report.  The sums are folds over a        *)
(* sequence; the induction over them is the choice of a least              *)
(* counterexample, a theorem about well-founded relations that takes no    *)
(* operator.                                                               *)
(***************************************************************************)
EXTENDS RestPath, WellFoundedInduction, TLAPS

USE RestAssumption DEF RestAssumption

-----------------------------------------------------------------------------
(* The least of a set of numbers, on which every induction below rests.      *)

NatLess == {p \in Nat \X Nat : p[1] < p[2]}

\* A set of numbers that is not empty has a least one.
LEMMA LeastNumber ==
  ASSUME NEW T \in SUBSET Nat, T # {}
  PROVE  \E x \in T : \A y \in T : x <= y
<1>1. IsWellFoundedOn(NatLess, Nat)
  <2>1. OpToRel(<, Nat) = NatLess
    BY DEF OpToRel, NatLess
  <2> QED BY <2>1, NatLessThanWellFounded, Zenon
<1>2. PICK x \in T : \A y \in T : ~ (<<y, x>> \in NatLess)
  BY <1>1, WFMin, Zenon
<1>3. ASSUME NEW y \in T PROVE x <= y
  <2>1. ~(<<y, x>> \in NatLess)
    BY <1>2
  <2>2. y \in Nat /\ x \in Nat
    OBVIOUS
  <2>3. ~(y < x)
    BY <2>1, <2>2 DEF NatLess
  <2> QED BY <2>2, <2>3
<1> QED BY <1>3

\* The minimum of a non-empty set of naturals is its least member.
LEMMA LeastIn ==
  ASSUME NEW S \in SUBSET Nat, S # {}
  PROVE  Min(S) \in S /\ \A y \in S : Min(S) <= y
<1>1. \E x \in S : \A y \in S : x <= y
  BY LeastNumber
<1> QED BY <1>1 DEF Min

\* The largest of some positions.
LEMMA LargestIn ==
  ASSUME NEW n \in Nat, NEW S \in SUBSET (1 .. n), S # {}
  PROVE  Max(S) \in S /\ \A y \in S : Max(S) >= y
<1> DEFINE T == {u \in Nat : \A y \in S : y <= u}
<1>1. n \in T
  OBVIOUS
<1>2. PICK u \in T : \A v \in T : u <= v
  BY <1>1, LeastNumber
<1>3. u \in S
  <2> SUFFICES ASSUME u \notin S PROVE FALSE
    OBVIOUS
  <2>1. PICK y \in S : TRUE
    OBVIOUS
  <2>2. u - 1 \in Nat /\ \A z \in S : z <= u - 1
    <3>1. \A z \in S : z <= u /\ z # u /\ z \in 1 .. n
      BY <1>2
    <3> QED BY <2>1, <3>1
  <2>3. u - 1 \in T
    BY <2>2
  <2> QED BY <1>2, <2>3
<1>4. \E x \in S : \A y \in S : x >= y
  BY <1>2, <1>3
<1> QED BY <1>4 DEF Max

-----------------------------------------------------------------------------
(* Sums of weights.                                                          *)

Entry == [age : 0 .. Window, w : 1 .. MaxWeight]

\* The parts of an entry.
LEMMA EntryIs ==
  ASSUME NEW s \in Seq(Entry), NEW m \in 1 .. Len(s)
  PROVE  s[m] \in Entry /\ s[m].w \in 1 .. MaxWeight /\ s[m].w \in Nat /\ s[m].age \in 0 .. Window
<1>1. s[m] \in Entry
  OBVIOUS
<1> QED BY <1>1 DEF Entry

\* The sum over a set of positions, the largest taken off first.
IsTable(g, s, n) ==
  g = [S \in SUBSET (1 .. n) |-> IF S = {} THEN 0 ELSE g[S \ {Max(S)}] + s[Max(S)].w]

\* Such a table exists for every number of positions.
LEMMA TableExists ==
  ASSUME NEW s \in Seq(Entry)
  PROVE  \A n \in 0 .. Len(s) : \E g \in [SUBSET (1 .. n) -> Nat] : IsTable(g, s, n)
<1> DEFINE Has(n) == \E g \in [SUBSET (1 .. n) -> Nat] : IsTable(g, s, n)
           Bad == {n \in 0 .. Len(s) : ~Has(n)}
<1> SUFFICES ASSUME Bad # {} PROVE FALSE
  OBVIOUS
<1>1. PICK n \in Bad : \A m \in Bad : n <= m
  <2>1. Bad \in SUBSET Nat
    OBVIOUS
  <2> HIDE DEF Bad
  <2> QED BY <2>1, LeastNumber
<1>2. n # 0
  <2> SUFFICES ASSUME n = 0 PROVE Has(0)
    OBVIOUS
  <2> DEFINE g == [S \in SUBSET (1 .. 0) |-> 0]
  <2>1. \A S \in SUBSET (1 .. 0) : S = {}
    OBVIOUS
  <2>2. IsTable(g, s, 0)
    BY <2>1 DEF IsTable
  <2>3. g \in [SUBSET (1 .. 0) -> Nat]
    OBVIOUS
  <2> QED BY <2>2, <2>3
<1>3. PICK h \in [SUBSET (1 .. n - 1) -> Nat] : IsTable(h, s, n - 1)
  <2>1. n - 1 \in 0 .. Len(s) /\ ~(n <= n - 1)
    BY <1>2
  <2>2. n - 1 \notin Bad
    BY <1>1, <2>1
  <2> QED BY <2>1, <2>2
<1> DEFINE g == [S \in SUBSET (1 .. n) |-> IF n \in S THEN h[S \ {n}] + s[n].w ELSE h[S]]
<1>4. n \in 1 .. Len(s) /\ s[n].w \in Nat
  <2>1. s[n] \in Entry
    BY <1>2
  <2> QED BY <1>2, <2>1 DEF Entry
<1>5. g \in [SUBSET (1 .. n) -> Nat]
  BY <1>4
<1>6. ASSUME NEW S \in SUBSET (1 .. n)
      PROVE  g[S] = IF S = {} THEN 0 ELSE g[S \ {Max(S)}] + s[Max(S)].w
  <2>1. CASE n \in S
    <3>1. Max(S) = n
      <4>1. Max(S) \in S /\ Max(S) >= n
        <5>1. n \in Nat /\ S # {}
          BY <1>4, <2>1
        <5> QED BY <2>1, <5>1, LargestIn
      <4>2. Max(S) \in 1 .. n
        BY <4>1
      <4> QED BY <1>4, <4>1, <4>2
    <3>2. n \notin S \ {n} /\ S \ {n} \in SUBSET (1 .. n) /\ S \ {n} \in SUBSET (1 .. n - 1)
      BY <1>4
    <3> QED BY <2>1, <3>1, <3>2
  <2>2. CASE n \notin S
    <3>1. S \in SUBSET (1 .. n - 1)
      BY <1>4, <2>2
    <3>2. h[S] = IF S = {} THEN 0 ELSE h[S \ {Max(S)}] + s[Max(S)].w
      BY <1>3, <3>1 DEF IsTable
    <3>3. \A x : n \notin S \ {x} /\ S \ {x} \in SUBSET (1 .. n)
      BY <2>2
    <3> QED BY <2>2, <3>2, <3>3
  <2> QED BY <2>1, <2>2
<1>7. IsTable(g, s, n)
  <2>1. g = [S \in SUBSET (1 .. n) |-> g[S]]
    OBVIOUS
  <2> HIDE DEF g
  <2> QED BY <1>6, <2>1 DEF IsTable
<1> QED BY <1>5, <1>7

Table(s) == CHOOSE g : IsTable(g, s, Len(s))

\* The fold that adds the weights up is a look at that table.
LEMMA TableIs ==
  ASSUME NEW s \in Seq(Entry)
  PROVE  IsTable(Table(s), s, Len(s)) /\ Total(s) = Table(s)[1 .. Len(s)]
<1>1. Len(s) \in 0 .. Len(s)
  OBVIOUS
<1>2. \E g : IsTable(g, s, Len(s))
  BY <1>1, TableExists
<1>3. IsTable(Table(s), s, Len(s))
  BY <1>2 DEF Table
<1>4. DOMAIN s = 1 .. Len(s)
  OBVIOUS
<1>5. Total(s) = Table(s)[DOMAIN s]
  BY <1>4, Zenon DEF Total, FoldLeft, MapThenFoldSet, Table, IsTable
<1> QED BY <1>3, <1>4, <1>5
\* The sum of the first m weights.
Part(s, m) == Table(s)[1 .. m]

\* Each entry adds its weight.
LEMMA PartSteps ==
  ASSUME NEW s \in Seq(Entry)
  PROVE  /\ Part(s, 0) = 0
         /\ \A m \in 1 .. Len(s) : Part(s, m) = Part(s, m - 1) + s[m].w
<1> DEFINE g == Table(s)
           n == Len(s)
<1>1. IsTable(g, s, n) /\ n \in Nat
  BY TableIs
<1> HIDE DEF g
<1>2. \A S \in SUBSET (1 .. n) : g[S] = IF S = {} THEN 0 ELSE g[S \ {Max(S)}] + s[Max(S)].w
  BY <1>1 DEF IsTable
<1>3. 1 .. 0 = {} /\ g[1 .. 0] = 0
  <2>1. 1 .. 0 = {} /\ {} \in SUBSET (1 .. n)
    OBVIOUS
  <2>2. g[{}] = 0
    BY <1>2, <2>1
  <2> QED BY <2>1, <2>2
<1>4. ASSUME NEW m \in 1 .. n PROVE g[1 .. m] = g[1 .. m - 1] + s[m].w
  <2>1. /\ 1 .. m \in SUBSET (1 .. n) /\ 1 .. m # {} /\ m \in 1 .. m
        /\ m \in Nat /\ 1 .. m \in SUBSET (1 .. m)
    <3>1. m \in Nat /\ 1 <= m /\ m <= n
      BY <1>1
    <3>2. \A i \in 1 .. m : i \in 1 .. n
      BY <1>1, <3>1
    <3> HIDE DEF n
    <3> QED BY <3>1, <3>2
  <2>2. Max(1 .. m) \in 1 .. m /\ Max(1 .. m) >= m
    BY <2>1, LargestIn
  <2>3. Max(1 .. m) = m
    BY <2>1, <2>2
  <2>4. (1 .. m) \ {m} = 1 .. m - 1
    BY <2>1
  <2>5. g[1 .. m] = IF 1 .. m = {} THEN 0 ELSE g[(1 .. m) \ {Max(1 .. m)}] + s[Max(1 .. m)].w
    BY <1>2, <2>1
  <2> QED BY <2>1, <2>3, <2>4, <2>5
<1> QED BY <1>3, <1>4 DEF Part, g

\* What grows by natural numbers from zero is a natural number.
LEMMA PartsAreNat ==
  ASSUME NEW s \in Seq(Entry)
  PROVE  \A m \in 0 .. Len(s) : Part(s, m) \in Nat
<1> DEFINE Bad == {m \in 0 .. Len(s) : Part(s, m) \notin Nat}
<1> SUFFICES ASSUME Bad # {} PROVE FALSE
  OBVIOUS
<1>1. PICK n \in Bad : \A m \in Bad : n <= m
  <2>1. Bad \in SUBSET Nat
    OBVIOUS
  <2> HIDE DEF Bad
  <2> QED BY <2>1, LeastNumber
<1>2. n # 0
  BY PartSteps
<1>3. n \in 1 .. Len(s) /\ n - 1 \in 0 .. Len(s) /\ ~(n <= n - 1)
  BY <1>2
<1>4. Part(s, n - 1) \in Nat
  BY <1>1, <1>3
<1>5. s[n].w \in Nat
  BY <1>3, EntryIs
<1> QED BY <1>1, <1>3, <1>4, <1>5, PartSteps

\* Sequences with the same steps have the same sums.
LEMMA SumsAgree ==
  ASSUME NEW n \in Nat, NEW f \in [0 .. n -> Int], NEW g \in [0 .. n -> Int], f[0] = g[0],
         \A m \in 1 .. n : f[m] - f[m - 1] = g[m] - g[m - 1]
  PROVE  \A m \in 0 .. n : f[m] = g[m]
<1> DEFINE Bad == {m \in 0 .. n : f[m] # g[m]}
<1> SUFFICES ASSUME Bad # {} PROVE FALSE
  OBVIOUS
<1>1. PICK k \in Bad : \A m \in Bad : k <= m
  <2>1. Bad \in SUBSET Nat
    OBVIOUS
  <2> HIDE DEF Bad
  <2> QED BY <2>1, LeastNumber
<1>2. k \in 1 .. n /\ k - 1 \in 0 .. n /\ ~(k <= k - 1)
  OBVIOUS
<1>3. f[k - 1] = g[k - 1]
  BY <1>1, <1>2
<1> QED BY <1>1, <1>2, <1>3

\* The whole sum is the last of the partial ones.
LEMMA TotalIs ==
  ASSUME NEW s \in Seq(Entry)
  PROVE  Total(s) = Part(s, Len(s)) /\ Total(s) \in Nat
<1>1. Len(s) \in 0 .. Len(s)
  OBVIOUS
<1> QED BY <1>1, TableIs, PartsAreNat DEF Part

\* The sum of a stretch of a log.
LEMMA StretchSum ==
  ASSUME NEW s \in Seq(Entry), NEW t \in Seq(Entry), NEW k \in 0 .. Len(s),
         k + Len(t) <= Len(s), \A i \in 1 .. Len(t) : t[i].w = s[k + i].w
  PROVE  \A m \in 0 .. Len(t) : Part(t, m) = Part(s, k + m) - Part(s, k)
<1> DEFINE n == Len(t)
           f == [m \in 0 .. n |-> Part(t, m)]
           g == [m \in 0 .. n |-> Part(s, k + m) - Part(s, k)]
<1>1. n \in Nat /\ Len(s) \in Nat /\ \A m \in 0 .. n : k + m \in 0 .. Len(s)
  OBVIOUS
<1>2. f \in [0 .. n -> Int] /\ g \in [0 .. n -> Int]
  <2>1. Part(s, k) \in Nat
    BY PartsAreNat
  <2>2. \A m \in 0 .. n : Part(t, m) \in Nat /\ Part(s, k + m) \in Nat
    BY <1>1, PartsAreNat
  <2> QED BY <2>1, <2>2
<1>3. f[0] = g[0]
  <2>1. Part(t, 0) = 0 /\ Part(s, k) \in Nat
    BY PartSteps, PartsAreNat
  <2> QED BY <1>1, <2>1
<1>4. ASSUME NEW m \in 1 .. n PROVE f[m] - f[m - 1] = g[m] - g[m - 1]
  <2>1. m \in 0 .. n /\ m - 1 \in 0 .. n /\ k + m \in 1 .. Len(s) /\ (k + m) - 1 = k + (m - 1)
    BY <1>1
  <2>2. Part(t, m) = Part(t, m - 1) + t[m].w
    BY PartSteps
  <2>3. Part(s, k + m) = Part(s, k + (m - 1)) + s[k + m].w
    BY <2>1, PartSteps
  <2>4. t[m].w = s[k + m].w /\ t[m].w \in Nat
    BY EntryIs
  <2>5. /\ Part(t, m) \in Nat /\ Part(t, m - 1) \in Nat /\ Part(s, k) \in Nat
        /\ Part(s, k + m) \in Nat /\ Part(s, k + (m - 1)) \in Nat
    BY <1>1, <2>1, PartsAreNat
  <2>6. /\ f[m] = Part(t, m) /\ f[m - 1] = Part(t, m - 1)
        /\ g[m] = Part(s, k + m) - Part(s, k) /\ g[m - 1] = Part(s, k + (m - 1)) - Part(s, k)
    BY <2>1
  <2> HIDE DEF f, g
  <2>7. Part(t, m) - Part(t, m - 1) = t[m].w
    BY <2>2, <2>4, <2>5, SMTT(30)
  <2>8. (Part(s, k + m) - Part(s, k)) - (Part(s, k + (m - 1)) - Part(s, k)) = s[k + m].w
    BY <2>3, <2>4, <2>5, SMTT(30)
  <2> QED BY <2>4, <2>6, <2>7, <2>8
<1> HIDE DEF f, g
<1>5. \A m \in 0 .. n : f[m] = g[m]
  BY <1>1, <1>2, <1>3, <1>4, SumsAgree
<1> QED BY <1>5 DEF f, g

-----------------------------------------------------------------------------
\* A log that ages keeps its weights.
LEMMA TotalOlder ==
  ASSUME NEW s \in Seq(Entry)
  PROVE  /\ Older(s) \in Seq(Entry) /\ Len(Older(s)) = Len(s) /\ Total(Older(s)) = Total(s)
         /\ \A i \in 1 .. Len(s) :
              Older(s)[i].age = IF s[i].age = Window THEN Window ELSE s[i].age + 1
<1> DEFINE t == Older(s)
           n == Len(s)
<1>1. n \in Nat /\ DOMAIN s = 1 .. n
  OBVIOUS
<1>2. ASSUME NEW i \in 1 .. n
      PROVE  /\ t[i] \in Entry /\ t[i].w = s[i].w
             /\ t[i].age = IF s[i].age = Window THEN Window ELSE s[i].age + 1
  <2>1. s[i] \in Entry /\ s[i].age \in 0 .. Window
    BY EntryIs
  <2>2. t[i] = [s[i] EXCEPT !.age = IF @ = Window THEN @ ELSE @ + 1]
    BY <1>1 DEF Older
  <2> QED BY <2>1, <2>2, SMTT(30) DEF Entry
<1>3. t \in Seq(Entry) /\ Len(t) = n
  <2>1. t = [i \in 1 .. n |-> t[i]]
    BY <1>1 DEF Older
  <2> HIDE DEF t
  <2>2. [i \in 1 .. n |-> t[i]] \in Seq(Entry) /\ Len([i \in 1 .. n |-> t[i]]) = n
    BY <1>1, <1>2
  <2> QED BY <2>1, <2>2
<1> HIDE DEF t
<1>4. \A m \in 0 .. n : Part(t, m) = Part(s, 0 + m) - Part(s, 0)
  <2>1. 0 \in 0 .. Len(s) /\ 0 + Len(t) <= Len(s) /\ \A i \in 1 .. Len(t) : t[i].w = s[0 + i].w
    BY <1>2, <1>3
  <2> QED BY <1>3, <2>1, StretchSum
<1>5. Part(t, n) = Part(s, n)
  <2>1. Part(s, 0) = 0 /\ Part(s, n) \in Nat
    BY <1>1, PartSteps, PartsAreNat
  <2> QED BY <1>1, <1>4, <2>1
<1> QED BY <1>2, <1>3, <1>5, TotalIs DEF t

\* An entry that is admitted adds its weight.
LEMMA TotalAppend ==
  ASSUME NEW s \in Seq(Entry), NEW e \in Entry
  PROVE  Append(s, e) \in Seq(Entry) /\ Total(Append(s, e)) = Total(s) + e.w
<1> DEFINE t == Append(s, e)
           n == Len(s)
<1>1. /\ t \in Seq(Entry) /\ Len(t) = n + 1 /\ t[n + 1] = e /\ n \in Nat
      /\ \A i \in 1 .. n : t[i] = s[i]
  OBVIOUS
<1> HIDE DEF t
<1>2. \A m \in 0 .. n : Part(s, m) = Part(t, 0 + m) - Part(t, 0)
  <2>1. 0 \in 0 .. Len(t) /\ 0 + Len(s) <= Len(t) /\ \A i \in 1 .. Len(s) : s[i].w = t[0 + i].w
    BY <1>1
  <2> QED BY <1>1, <2>1, StretchSum
<1>3. Part(s, n) = Part(t, n) /\ Part(s, n) \in Nat
  <2>1. Part(t, 0) = 0 /\ Part(t, n) \in Nat
    BY <1>1, PartSteps, PartsAreNat
  <2> QED BY <1>1, <1>2, <2>1
<1>4. Part(t, n + 1) = Part(t, n) + e.w
  <2>1. n + 1 \in 1 .. Len(t) /\ (n + 1) - 1 = n
    BY <1>1
  <2> QED BY <1>1, <2>1, PartSteps
<1> QED BY <1>1, <1>3, <1>4, TotalIs DEF t

\* The sums of the beginning and of the end of a log.
LEMMA TotalPrefix ==
  ASSUME NEW s \in Seq(Entry), NEW k \in 0 .. Len(s)
  PROVE  SubSeq(s, 1, k) \in Seq(Entry) /\ Total(SubSeq(s, 1, k)) = Part(s, k)
<1> DEFINE t == SubSeq(s, 1, k)
<1>1. t \in Seq(Entry) /\ Len(t) = k /\ \A i \in 1 .. k : t[i] = s[i]
  OBVIOUS
<1> HIDE DEF t
<1>2. \A m \in 0 .. k : Part(t, m) = Part(s, 0 + m) - Part(s, 0)
  <2>1. 0 \in 0 .. Len(s) /\ 0 + Len(t) <= Len(s) /\ \A i \in 1 .. Len(t) : t[i].w = s[0 + i].w
    BY <1>1
  <2> QED BY <1>1, <2>1, StretchSum
<1>3. Part(s, 0) = 0 /\ Part(s, k) \in Nat
  BY PartSteps, PartsAreNat
<1>4. k \in 0 .. k /\ 0 + k = k
  OBVIOUS
<1>5. Part(t, k) = Part(s, k)
  BY <1>2, <1>3, <1>4
<1> QED BY <1>1, <1>5, TotalIs DEF t

\* So is the sum of the end of a log, what was before it taken off.
LEMMA TotalSuffix ==
  ASSUME NEW s \in Seq(Entry), NEW k \in 0 .. Len(s)
  PROVE  LET t == SubSeq(s, k + 1, Len(s))
         IN  /\ t \in Seq(Entry) /\ Len(t) = Len(s) - k /\ Total(t) = Total(s) - Part(s, k)
             /\ \A m \in 0 .. Len(s) - k : Part(t, m) = Part(s, k + m) - Part(s, k)
<1> DEFINE t == SubSeq(s, k + 1, Len(s))
           n == Len(s)
<1>1. /\ t \in Seq(Entry) /\ Len(t) = n - k /\ n \in Nat
      /\ \A i \in 1 .. n - k : t[i] = s[k + i]
  OBVIOUS
<1> HIDE DEF t
<1>2. \A m \in 0 .. n - k : Part(t, m) = Part(s, k + m) - Part(s, k)
  <2>1. k + Len(t) <= Len(s) /\ \A i \in 1 .. Len(t) : t[i].w = s[k + i].w
    BY <1>1
  <2> QED BY <1>1, <2>1, StretchSum
<1>3. Part(t, n - k) = Part(s, n) - Part(s, k)
  <2>1. n - k \in 0 .. n - k /\ k + (n - k) = n
    BY <1>1
  <2> QED BY <1>2, <2>1
<1> QED BY <1>1, <1>2, <1>3, TotalIs DEF t

\* Partial sums grow.
LEMMA PartGrows ==
  ASSUME NEW s \in Seq(Entry), NEW i \in 0 .. Len(s), NEW j \in 0 .. Len(s), i <= j
  PROVE  Part(s, i) <= Part(s, j)
<1>1. j - i \in 0 .. Len(s) - i /\ i + (j - i) = j
  OBVIOUS
<1>2. Part(SubSeq(s, i + 1, Len(s)), j - i) = Part(s, j) - Part(s, i)
  BY <1>1, TotalSuffix
<1>3. Part(SubSeq(s, i + 1, Len(s)), j - i) \in Nat
  BY <1>1, TotalSuffix, PartsAreNat
<1>4. Part(s, i) \in Nat /\ Part(s, j) \in Nat
  BY PartsAreNat
<1> QED BY <1>2, <1>3, <1>4

\* What is cleared is the front of a log, all of it too old.
LEMMA YoungerIs ==
  ASSUME NEW s \in Seq(Entry), NEW limit \in Int
  PROVE  \E k \in 0 .. Len(s) :
           /\ Younger(s, limit) = SubSeq(s, k + 1, Len(s))
           /\ \A i \in 1 .. k : s[i].age >= limit
           /\ k < Len(s) => s[k + 1].age < limit
<1> DEFINE young == {i \in DOMAIN s : s[i].age < limit}
           n == Len(s)
<1>1. n \in Nat /\ DOMAIN s = 1 .. n /\ young \in SUBSET Nat
  OBVIOUS
<1>2. \A i \in 1 .. n : s[i].age \in Int
  BY EntryIs
<1>3. CASE young = {}
  <2>1. Younger(s, limit) = <<>>
    BY <1>3 DEF Younger
  <2>2. SubSeq(s, n + 1, n) = <<>>
    BY <1>1
  <2>3. \A i \in 1 .. n : s[i].age >= limit
    BY <1>1, <1>2, <1>3
  <2> QED BY <1>1, <2>1, <2>2, <2>3
<1>4. CASE young # {}
  <2> DEFINE m == Min(young)
  <2>1. m \in young /\ \A y \in young : m <= y
    BY <1>1, <1>4, LeastIn
  <2>2. m \in 1 .. n /\ m - 1 \in 0 .. n /\ (m - 1) + 1 = m
    BY <1>1, <2>1
  <2>3. Younger(s, limit) = SubSeq(s, m, n)
    BY <1>4 DEF Younger
  <2>4. \A i \in 1 .. m - 1 : s[i].age >= limit
    <3> SUFFICES ASSUME NEW i \in 1 .. m - 1, ~(s[i].age >= limit) PROVE FALSE
      OBVIOUS
    <3>1. i \in 1 .. n /\ i < m
      BY <1>1, <2>2
    <3>2. i \in young
      BY <1>1, <1>2, <3>1
    <3>3. m <= i
      BY <2>1, <3>2
    <3> HIDE DEF m
    <3> QED BY <1>1, <2>2, <3>1, <3>3
  <2>5. s[m].age < limit
    BY <2>1
  <2> HIDE DEF m
  <2> QED BY <2>2, <2>3, <2>4, <2>5
<1> QED BY <1>3, <1>4

\* What is left of a log weighs no more than the log.
LEMMA YoungerType ==
  ASSUME NEW s \in Seq(Entry), NEW limit \in Int
  PROVE  Younger(s, limit) \in Seq(Entry) /\ Total(Younger(s, limit)) <= Total(s)
<1>1. PICK k \in 0 .. Len(s) : Younger(s, limit) = SubSeq(s, k + 1, Len(s))
  BY YoungerIs
<1>2. Total(s) \in Nat /\ Part(s, k) \in Nat
  BY TotalIs, PartsAreNat
<1>3. /\ SubSeq(s, k + 1, Len(s)) \in Seq(Entry)
      /\ Total(SubSeq(s, k + 1, Len(s))) = Total(s) - Part(s, k)
  BY TotalSuffix
<1> QED BY <1>1, <1>2, <1>3

-----------------------------------------------------------------------------
(* The strengthening.                                                        *)

Sorted(s) == \A i, j \in DOMAIN s : i <= j => s[i].age >= s[j].age

\* The limiter keeps its entries oldest first.
Logs == entries \in Seq(Entry) /\ Sorted(entries) /\ used \in Seq(Entry)

Numbers ==
  /\ report \in [used : 0 .. MaxWeight, age : 0 .. Window]
  /\ wake \in [Tasks -> 0 .. Window] /\ calls \in [Tasks -> 0 .. MaxCalls]
  /\ lost \in 0 .. MaxLost /\ amended \subseteq Essential
  /\ strays \in [Tasks -> Nat] /\ \A t \in Tasks : strays[t] <= lost

\* A call that has made no attempt yet, one that may make another, and who has an answer.
Attempts ==
  /\ pc \in [Tasks -> {"idle", "ask", "sleep", "send", "away", "back", "backoff"}]
  /\ attempt \in [Tasks -> 0 .. MaxAttempts]
  /\ answer \in [Tasks -> [status : {"none", "ok", "refused", "broken"}, used : 0 .. MaxWeight]]
  /\ \A t \in Tasks :
       /\ pc[t] \in {"ask", "sleep", "send"} => attempt[t] = 0
       /\ pc[t] = "backoff" => attempt[t] < MaxAttempts /\ lost > 0
       /\ pc[t] # "back" => answer[t] = NoAnswer
       /\ calls[t] = 0 => pc[t] = "idle"

PathInv == Logs /\ Numbers /\ Attempts

\* Nothing was admitted, sent or answered yet.
LEMMA PathInvInit == Init => PathInv
<1> SUFFICES ASSUME Init PROVE PathInv
  OBVIOUS
<1>1. <<>> \in Seq(Entry)
  OBVIOUS
<1>2. Logs
  BY <1>1 DEF Init, Logs, Sorted
<1>3. Numbers
  BY DEF Init, Numbers, NoReport
<1>4. Attempts
  BY DEF Init, Attempts, NoAnswer
<1> QED BY <1>2, <1>3, <1>4 DEF PathInv

\* A log that is in order stays so when it is cleared, ...
LEMMA SuffixSorted ==
  ASSUME NEW s \in Seq(Entry), Sorted(s), NEW limit \in Int
  PROVE  Sorted(Younger(s, limit))
<1>1. PICK k \in 0 .. Len(s) : Younger(s, limit) = SubSeq(s, k + 1, Len(s))
  BY YoungerIs
<1> DEFINE t == SubSeq(s, k + 1, Len(s))
<1>2. Len(t) = Len(s) - k /\ \A i \in 1 .. Len(s) - k : t[i] = s[k + i] /\ k + i \in DOMAIN s
  OBVIOUS
<1>3. DOMAIN t = 1 .. Len(s) - k
  BY <1>2
<1> HIDE DEF t
<1>4. ASSUME NEW i \in DOMAIN t, NEW j \in DOMAIN t, i <= j PROVE t[i].age >= t[j].age
  <2>1. /\ k + i <= k + j /\ k + i \in DOMAIN s /\ k + j \in DOMAIN s
        /\ t[i] = s[k + i] /\ t[j] = s[k + j]
    BY <1>2, <1>3, <1>4
  <2> QED BY <2>1 DEF Sorted
<1>5. Sorted(t)
  BY <1>4 DEF Sorted
<1> QED BY <1>1, <1>5 DEF t

\* ... when something is admitted ...
LEMMA AppendSorted ==
  ASSUME NEW s \in Seq(Entry), Sorted(s), NEW e \in Entry, e.age = 0
  PROVE  Sorted(Append(s, e))
<1> DEFINE t == Append(s, e)
<1>1. /\ Len(t) = Len(s) + 1 /\ t[Len(s) + 1] = e /\ \A i \in 1 .. Len(s) : t[i] = s[i]
      /\ DOMAIN t = 1 .. Len(s) + 1 /\ DOMAIN s = 1 .. Len(s)
  OBVIOUS
<1> HIDE DEF t
<1>2. \A i \in 1 .. Len(s) : s[i].age \in 0 .. Window
  BY EntryIs
<1>3. ASSUME NEW i \in DOMAIN t, NEW j \in DOMAIN t, i <= j PROVE t[i].age >= t[j].age
  <2>1. CASE j <= Len(s)
    <3>1. i \in DOMAIN s /\ j \in DOMAIN s /\ t[i] = s[i] /\ t[j] = s[j]
      BY <1>1, <1>3, <2>1
    <3> QED BY <1>3, <3>1 DEF Sorted
  <2>2. CASE j > Len(s)
    <3>1. j = Len(s) + 1 /\ t[j].age = 0
      BY <1>1, <2>2
    <3>2. CASE i = j
      BY <3>1, <3>2
    <3>3. CASE i # j
      <4>1. i \in 1 .. Len(s) /\ t[i] = s[i]
        BY <1>1, <1>3, <3>1, <3>3
      <4> QED BY <1>2, <3>1, <4>1
    <3> QED BY <3>2, <3>3
  <2> QED BY <1>1, <2>1, <2>2
<1> QED BY <1>3 DEF Sorted, t

\* ... and when it ages.
LEMMA OlderSorted ==
  ASSUME NEW s \in Seq(Entry), Sorted(s)
  PROVE  Sorted(Older(s))
<1> DEFINE t == Older(s)
<1>1. /\ t \in Seq(Entry) /\ Len(t) = Len(s)
      /\ \A i \in 1 .. Len(s) : t[i].age = IF s[i].age = Window THEN Window ELSE s[i].age + 1
  BY TotalOlder
<1> HIDE DEF t
<1>2. \A i \in 1 .. Len(s) : s[i].age \in 0 .. Window
  BY EntryIs
<1>3. ASSUME NEW i \in 1 .. Len(s), NEW j \in 1 .. Len(s), i <= j PROVE t[i].age >= t[j].age
  <2>1. s[i].age >= s[j].age
    BY <1>3 DEF Sorted
  <2> QED BY <1>1, <1>2, <2>1, SMTT(30)
<1>4. DOMAIN t = 1 .. Len(s)
  BY <1>1
<1> QED BY <1>3, <1>4 DEF Sorted, t

\* What is alive is younger than the window, all of it.
LEMMA AliveIs ==
  ASSUME NEW s \in Seq(Entry)
  PROVE  /\ Alive(s) \in Seq(Entry) /\ Total(Alive(s)) <= Total(s)
         /\ Sorted(s) => Sorted(Alive(s))
<1>1. Window \in Int
  OBVIOUS
<1> QED BY <1>1, YoungerType, SuffixSorted DEF Alive

\* No wait is longer than the window.
LEMMA WaitBound ==
  ASSUME Logs, NEW w \in 1 .. MaxWeight
  PROVE  TimeUntilReady(w) \in 0 .. Window
<1> DEFINE es == Alive(entries)
           needed == Current(es) + w - MaxWeight
           enough == {i \in DOMAIN es : Total(SubSeq(es, 1, i)) >= needed}
<1>1. es \in Seq(Entry)
  BY AliveIs DEF Logs
<1>2. CASE needed <= 0 \/ enough = {}
  BY <1>2 DEF TimeUntilReady
<1>3. CASE ~(needed <= 0 \/ enough = {})
  <2>1. enough \in SUBSET Nat /\ enough \in SUBSET (1 .. Len(es))
    BY <1>1
  <2>2. Min(enough) \in enough
    BY <1>3, <2>1, LeastIn
  <2>3. es[Min(enough)].age \in 0 .. Window
    BY <1>1, <2>1, <2>2, EntryIs
  <2>4. TimeUntilReady(w) = Window - es[Min(enough)].age
    BY <1>3 DEF TimeUntilReady
  <2> HIDE DEF enough, es
  <2> QED BY <2>3, <2>4
<1> QED BY <1>2, <1>3

\* Every step keeps the logs in order, ...
LEMMA LogsStep == ASSUME PathInv, [Next]_vars PROVE Logs'
<1> USE DEF PathInv, Logs
<1>1. CASE Tick
  <2>1. Alive(used) \in Seq(Entry)
    BY AliveIs
  <2> QED BY <1>1, <2>1, TotalOlder, OlderSorted DEF Tick
<1>2. ASSUME NEW t \in Tasks, Ask(t) PROVE Logs'
  <2> DEFINE e == [age |-> 0, w |-> Weight[t]]
  <2>1. Alive(entries) \in Seq(Entry) /\ Sorted(Alive(entries)) /\ e \in Entry /\ e.age = 0
    <3>1. e \in Entry /\ e.age = 0
      BY DEF Entry
    <3> QED BY <3>1, AliveIs
  <2>2. used' = used /\ (entries' = Alive(entries) \/ entries' = Append(Alive(entries), e))
    BY <1>2 DEF Ask, Admit, exchange
  <2> HIDE DEF e
  <2> QED BY <2>1, <2>2, TotalAppend, AppendSorted
<1>3. ASSUME NEW t \in Tasks, Arrive(t) \/ ArriveStray(t) PROVE Logs'
  <2> DEFINE e == [age |-> 0, w |-> Weight[t]]
  <2>1. Alive(used) \in Seq(Entry) /\ e \in Entry
    <3>1. e \in Entry
      BY DEF Entry
    <3> QED BY <3>1, AliveIs
  <2>2. entries' = entries /\ (used' = used \/ used' = Append(Alive(used), e))
    BY <1>3 DEF Arrive, ArriveStray, limiter
  <2> HIDE DEF e
  <2> QED BY <2>1, <2>2, TotalAppend
<1>4. CASE UNCHANGED <<entries, used>>
  BY <1>4
<1> QED
  BY <1>1, <1>2, <1>3, <1>4 DEF Next, Call, Wake, Send, Fail, Receive, limiter, exchange, vars

\* ... the counters and the report in range ...
LEMMA NumbersStep == ASSUME PathInv, [Next]_vars PROVE Numbers'
<1> USE DEF PathInv, Numbers
<1>1. CASE Tick
  BY <1>1 DEF Tick
<1>2. ASSUME NEW t \in Tasks, Call(t) PROVE Numbers'
  BY <1>2 DEF Call, limiter, exchange
<1>3. ASSUME NEW t \in Tasks, Ask(t) PROVE Numbers'
  <2>1. TimeUntilReady(Weight[t]) \in 0 .. Window
    BY WaitBound
  <2>2. wake' = wake \/ wake' = [wake EXCEPT ![t] = TimeUntilReady(Weight[t])]
    BY <1>3 DEF Ask
  <2>3. UNCHANGED <<report, calls, strays, lost, amended>>
    BY <1>3 DEF Ask, exchange
  <2> QED BY <2>1, <2>2, <2>3
<1>4. ASSUME NEW t \in Tasks, Wake(t) \/ Send(t) PROVE Numbers'
  BY <1>4 DEF Wake, Send, limiter, exchange
<1>5. ASSUME NEW t \in Tasks, Arrive(t) PROVE Numbers'
  <2>1. /\ UNCHANGED <<report, wake, calls, strays, amended>>
        /\ lost' = lost \/ (lost < MaxLost /\ lost' = lost + 1)
    BY <1>5 DEF Arrive, limiter
  <2> QED BY <2>1
<1>6. ASSUME NEW t \in Tasks, ArriveStray(t) PROVE Numbers'
  <2>1. /\ strays[t] > 0 /\ strays' = [strays EXCEPT ![t] = @ - 1]
        /\ UNCHANGED <<report, wake, calls, lost, amended>>
    BY <1>6 DEF ArriveStray, limiter
  <2> QED BY <2>1
<1>7. ASSUME NEW t \in Tasks, Fail(t) PROVE Numbers'
  <2>1. /\ strays' = strays \/ strays' = [strays EXCEPT ![t] = @ + 1]
        /\ lost < MaxLost /\ lost' = lost + 1 /\ UNCHANGED <<report, wake, calls, amended>>
    BY <1>7 DEF Fail, limiter
  <2> QED BY <2>1
<1>8. ASSUME NEW t \in Tasks, Receive(t) PROVE Numbers'
  <2>1. answer[t].used \in 0 .. MaxWeight
    BY DEF Attempts
  <2>2. report' = report \/ report' = [used |-> answer[t].used, age |-> 0]
    BY <1>8 DEF Receive
  <2>3. /\ UNCHANGED <<wake, calls, strays>>
        /\ lost' = lost \/ (lost < MaxLost /\ lost' = lost + 1)
        /\ amended' \subseteq Essential
    BY <1>8 DEF Receive, exchange
  <2> QED BY <2>1, <2>2, <2>3
<1>9. CASE UNCHANGED vars
  BY <1>9 DEF vars, limiter, exchange
<1> QED BY <1>1, <1>2, <1>3, <1>4, <1>5, <1>6, <1>7, <1>8, <1>9 DEF Next

\* ... and what a task has done so far in line with where it is.
LEMMA AttemptsStep == ASSUME PathInv, [Next]_vars PROVE Attempts'
<1> USE DEF PathInv, Attempts
<1>1. CASE Tick
  BY <1>1 DEF Tick
<1>2. ASSUME NEW t \in Tasks, Call(t) PROVE Attempts'
  BY <1>2 DEF Call, Numbers
<1>3. ASSUME NEW t \in Tasks, Ask(t) PROVE Attempts'
  <2>1. \/ pc' = [pc EXCEPT ![t] = "idle"]
        \/ pc' = [pc EXCEPT ![t] = "send"]
        \/ pc' = [pc EXCEPT ![t] = "ask"]
        \/ pc' = [pc EXCEPT ![t] = "sleep"]
    BY <1>3 DEF Ask
  <2>2. pc[t] = "ask" /\ UNCHANGED <<attempt, answer, calls, lost>>
    BY <1>3 DEF Ask
  <2> QED BY <2>1, <2>2
<1>4. ASSUME NEW t \in Tasks, Wake(t) PROVE Attempts'
  BY <1>4 DEF Wake
<1>5. ASSUME NEW t \in Tasks, Send(t) PROVE Attempts'
  <2>1. attempt[t] < MaxAttempts /\ attempt[t] \in 0 .. MaxAttempts
    BY <1>5 DEF Send
  <2> QED BY <1>5, <2>1 DEF Send
<1>6. ASSUME NEW t \in Tasks, Arrive(t) PROVE Attempts'
  <2>1. Total(Alive(used)) \in Nat /\ Weight[t] \in 1 .. MaxWeight
    BY AliveIs, TotalIs DEF Logs
  <2>2. PICK a \in [status : {"none", "ok", "refused", "broken"}, used : 0 .. MaxWeight] :
          answer' = [answer EXCEPT ![t] = a]
    BY <1>6, <2>1 DEF Arrive
  <2>3. /\ pc[t] = "away" /\ pc' = [pc EXCEPT ![t] = "back"] /\ UNCHANGED <<attempt, calls>>
        /\ lost' = lost \/ lost' = lost + 1
    BY <1>6 DEF Arrive
  <2>4. lost \in Nat
    BY DEF Numbers
  <2> QED BY <2>2, <2>3, <2>4
<1>7. ASSUME NEW t \in Tasks, ArriveStray(t) PROVE Attempts'
  BY <1>7 DEF ArriveStray
<1>8. ASSUME NEW t \in Tasks, Fail(t) PROVE Attempts'
  <2>1. /\ \/ pc' = [pc EXCEPT ![t] = "idle"]
           \/ attempt[t] < MaxAttempts /\ pc' = [pc EXCEPT ![t] = "backoff"]
        /\ pc[t] \in {"away", "back"} /\ answer' = [answer EXCEPT ![t] = NoAnswer]
        /\ lost' = lost + 1 /\ UNCHANGED <<attempt, calls>>
    BY <1>8 DEF Fail
  <2>2. lost \in Nat
    BY DEF Numbers
  <2> QED BY <2>1, <2>2 DEF NoAnswer
<1>9. ASSUME NEW t \in Tasks, Receive(t) PROVE Attempts'
  <2>1. /\ pc' = [pc EXCEPT ![t] = "idle"] /\ answer' = [answer EXCEPT ![t] = NoAnswer]
        /\ UNCHANGED <<attempt, calls>> /\ lost' \in {lost, lost + 1}
    BY <1>9 DEF Receive
  <2>2. lost \in Nat
    BY DEF Numbers
  <2> QED BY <2>1, <2>2 DEF NoAnswer
<1>10. CASE UNCHANGED vars
  BY <1>10 DEF vars, limiter, exchange
<1> QED BY <1>1, <1>2, <1>3, <1>4, <1>5, <1>6, <1>7, <1>8, <1>9, <1>10 DEF Next

\* The strengthening is inductive.
LEMMA PathInvStep == PathInv /\ [Next]_vars => PathInv'
BY LogsStep, NumbersStep, AttemptsStep DEF PathInv

\* The order of the logs and the state of each call, in every reachable state.
THEOREM PathInvHolds == Spec => []PathInv
BY PathInvInit, PathInvStep, PTL DEF Spec

\* The counters stay in range and the limiter's log in order, so that clearing
\* its front clears all that has expired.
THEOREM RestTypeCorrect == Spec => []TypeOK
<1>1. ASSUME PathInv PROVE TypeOK
  <2>1. entries \in Seq([age : 0 .. Window, w : 1 .. MaxWeight])
        /\ used \in Seq([age : 0 .. Window, w : 1 .. MaxWeight])
    BY <1>1 DEF PathInv, Logs, Entry
  <2>2. \A i \in 1 .. Len(entries) - 1 : entries[i].age >= entries[i + 1].age
    <3>1. ASSUME NEW i \in 1 .. Len(entries) - 1 PROVE entries[i].age >= entries[i + 1].age
      <4>1. i \in DOMAIN entries /\ i + 1 \in DOMAIN entries /\ i <= i + 1
        BY <2>1
      <4> QED BY <1>1, <4>1 DEF PathInv, Logs, Sorted
    <3> QED BY <3>1
  <2>3. strays \in [Tasks -> 0 .. MaxLost]
    BY <1>1 DEF PathInv, Numbers
  <2> QED BY <1>1, <2>1, <2>2, <2>3 DEF PathInv, Numbers, Attempts, TypeOK
<1> QED BY <1>1, PathInvHolds, PTL

-----------------------------------------------------------------------------
(* The wait.                                                                 *)

\* What is left of the entries when those of age limit and more are gone.
LEMMA LeftOver ==
  ASSUME Logs, NEW limit \in Int
  PROVE  \E q \in 0 .. Len(entries) :
           /\ Total(Younger(entries, limit)) = Total(entries) - Part(entries, q)
           /\ \A i \in 1 .. q : entries[i].age >= limit
           /\ \A i \in q + 1 .. Len(entries) : entries[i].age < limit
<1>0. entries \in Seq(Entry)
  BY DEF Logs
<1>1. PICK k \in 0 .. Len(entries) :
        /\ Younger(entries, limit) = SubSeq(entries, k + 1, Len(entries))
        /\ \A i \in 1 .. k : entries[i].age >= limit
        /\ k < Len(entries) => entries[k + 1].age < limit
  BY <1>0, YoungerIs
<1>2. ASSUME NEW i \in k + 1 .. Len(entries) PROVE entries[i].age < limit
  <2>1. k + 1 \in 1 .. Len(entries) /\ i \in 1 .. Len(entries) /\ k + 1 <= i /\ k < Len(entries)
    BY <1>0
  <2>2. entries[k + 1].age >= entries[i].age
    BY <1>0, <2>1 DEF Logs, Sorted
  <2>3. entries[k + 1].age \in 0 .. Window /\ entries[i].age \in 0 .. Window
    BY <1>0, <2>1, EntryIs
  <2> QED BY <1>1, <2>1, <2>2, <2>3
<1> QED BY <1>0, <1>1, <1>2, TotalSuffix

\* Entries that are all alive stay as they are.
LEMMA AliveTwice ==
  ASSUME Logs
  PROVE  Alive(Alive(entries)) = Alive(entries)
<1> DEFINE es == Alive(entries)
<1>0. entries \in Seq(Entry) /\ es \in Seq(Entry) /\ Window \in Int /\ Sorted(es)
  BY AliveIs DEF Logs
<1>1. CASE es = <<>>
  <2>1. Alive(<<>>) = <<>>
    BY DEF Alive, Younger
  <2> QED BY <1>1, <2>1
<1>2. CASE es # <<>>
  <2>1. PICK k \in 0 .. Len(entries) :
          /\ es = SubSeq(entries, k + 1, Len(entries))
          /\ k < Len(entries) => entries[k + 1].age < Window
    BY <1>0, YoungerIs DEF Alive
  <2>2. k < Len(entries) /\ es[1] = entries[k + 1] /\ 1 \in 1 .. Len(es)
    BY <1>0, <1>2, <2>1
  <2>3. es[1].age < Window
    BY <2>1, <2>2
  <2> HIDE DEF es
  <2> DEFINE young == {i \in DOMAIN es : es[i].age < Window}
  <2>4. 1 \in young /\ young \in SUBSET Nat /\ \A y \in young : 1 <= y
    BY <1>0, <2>2, <2>3
  <2>5. Min(young) = 1
    <3>1. Min(young) \in young /\ \A y \in young : Min(young) <= y
      <4> HIDE DEF young
      <4> QED BY <2>4, LeastIn
    <3>2. Min(young) <= 1 /\ 1 <= Min(young) /\ Min(young) \in Nat
      BY <2>4, <3>1
    <3> QED BY <3>2
  <2>6. Alive(es) = SubSeq(es, 1, Len(es))
    BY <2>4, <2>5 DEF Alive, Younger
  <2> QED BY <1>0, <2>6 DEF es
<1> QED BY <1>1, <1>2

\* As long as the limiter goes by its own entries, the wait it tells a refused caller
\* is exactly the one after which the weight fits.
LEMMA WaitFits ==
  ASSUME PathInv, report.age = Window, NEW t \in Tasks
  PROVE  LET d == TimeUntilReady(Weight[t])
         IN  /\ Total(Later(entries, d)) + Weight[t] <= MaxWeight
             /\ d > 0 => Total(Later(entries, d - 1)) + Weight[t] > MaxWeight
<1> DEFINE es == Alive(entries)
           w == Weight[t]
           needed == Total(es) + w - MaxWeight
           enough == {i \in DOMAIN es : Total(SubSeq(es, 1, i)) >= needed}
           n == Len(entries)
           d == TimeUntilReady(w)
<1>0. /\ Logs /\ entries \in Seq(Entry) /\ es \in Seq(Entry) /\ w \in 1 .. MaxWeight
      /\ n \in Nat /\ Len(es) \in Nat /\ Total(es) \in Nat
  BY AliveIs, TotalIs DEF PathInv, Logs
<1>1. Current(es) = Total(es)
  BY <1>0, AliveTwice DEF Current
<1>2. CASE needed <= 0
  <2>1. d = 0
    BY <1>1, <1>2 DEF TimeUntilReady
  <2>2. Window - 0 = Window
    OBVIOUS
  <2>3. Later(entries, 0) = es
    BY <2>2 DEF Later, Alive
  <2> QED BY <1>0, <1>2, <2>1, <2>3
<1>3. CASE needed > 0
  <2>1. \A i \in 1 .. Len(es) : Total(SubSeq(es, 1, i)) = Part(es, i)
    <3>1. \A i \in 1 .. Len(es) : i \in 0 .. Len(es)
      OBVIOUS
    <3> QED BY <1>0, <3>1, TotalPrefix
  <2>2. Part(es, 0) = 0 /\ Total(es) = Part(es, Len(es))
    BY <1>0, PartSteps, TotalIs
  <2>3. Len(es) # 0
    BY <1>0, <1>3, <2>2
  <2>4. Len(es) \in enough /\ enough \in SUBSET Nat /\ enough \in SUBSET (1 .. Len(es))
    BY <1>0, <2>1, <2>2, <2>3
  <2> DEFINE m == Min(enough)
             a == es[m].age
  <2>5. m \in enough /\ \A y \in enough : m <= y
    <3> HIDE DEF enough
    <3> QED BY <2>4, LeastIn
  <2>6. m \in 1 .. Len(es) /\ m - 1 \in 0 .. Len(es) /\ Part(es, m) >= needed
    BY <1>0, <2>1, <2>4, <2>5
  <2>7. Part(es, m - 1) < needed
    <3>1. CASE m = 1
      BY <1>3, <2>2, <3>1
    <3>2. CASE m # 1
      <4>1. m - 1 \in 1 .. Len(es) /\ ~(m <= m - 1)
        BY <1>0, <2>6, <3>2
      <4>2. m - 1 \notin enough
        BY <2>5, <4>1
      <4>3. ~(Part(es, m - 1) >= needed)
        BY <1>0, <2>1, <4>1, <4>2
      <4>4. Part(es, m - 1) \in Nat
        BY <1>0, <2>6, PartsAreNat
      <4> QED BY <1>0, <4>3, <4>4
    <3> QED BY <3>1, <3>2
  <2>8. d = Window - a /\ enough # {} /\ ~(needed <= 0)
    BY <1>0, <1>1, <1>3, <2>4 DEF TimeUntilReady
  <2> HIDE DEF enough, d
  <2>9. PICK p \in 0 .. n : /\ es = SubSeq(entries, p + 1, n)
                            /\ \A i \in 1 .. p : entries[i].age >= Window
    <3>1. Window \in Int
      OBVIOUS
    <3> QED BY <1>0, <3>1, YoungerIs DEF Alive
  <2>10. /\ Len(es) = n - p
         /\ \A i \in 0 .. n - p : Part(es, i) = Part(entries, p + i) - Part(entries, p)
         /\ Total(es) = Total(entries) - Part(entries, p)
    BY <1>0, <2>9, TotalSuffix
  <2>11. es[m] = entries[p + m] /\ p + m \in 1 .. n
    BY <1>0, <2>6, <2>9, <2>10, SMTT(30)
  <2>12. a \in 0 .. Window
    BY <1>0, <2>6, EntryIs
  <2> HIDE DEF m, es
  <2>13. /\ Part(es, m) = Part(entries, p + m) - Part(entries, p)
         /\ Part(es, m - 1) = Part(entries, p + m - 1) - Part(entries, p)
    <3>1. m \in 0 .. n - p /\ m - 1 \in 0 .. n - p /\ p + (m - 1) = p + m - 1
      BY <2>6, <2>10
    <3> QED BY <2>10, <3>1
  <2>14. /\ Part(entries, p) \in Nat
         /\ Part(entries, p + m) \in Nat /\ Part(entries, p + m - 1) \in Nat
         /\ Total(entries) \in Nat
    <3>1. n \in Nat /\ m \in Nat
      BY <1>0, <2>6
    <3>2. p + m \in 0 .. n /\ p + m - 1 \in 0 .. n
      <4> HIDE DEF n
      <4> QED BY <2>11, <3>1
    <3> QED BY <1>0, <3>2, PartsAreNat, TotalIs
  <2>15. Total(es) = Total(entries) - Part(entries, p)
    BY <2>10
  <2>16. Total(Later(entries, d)) + w <= MaxWeight
    <3>1. Later(entries, d) = Younger(entries, a) /\ a \in Int
      <4>1. Window - d = a
        BY <2>8, <2>12
      <4> QED BY <2>12, <4>1 DEF Later
    <3>2. PICK q \in 0 .. n : /\ Total(Younger(entries, a)) = Total(entries) - Part(entries, q)
                              /\ \A i \in q + 1 .. n : entries[i].age < a
      BY <1>0, <3>1, LeftOver
    <3>3. p + m <= q
      <4>1. ~(p + m \in q + 1 .. n)
        BY <2>11, <2>12, <3>2
      <4> QED BY <1>0, <2>11, <3>2, <4>1
    <3>4. p + m \in 0 .. n
      BY <2>11
    <3>5. Part(entries, p + m) <= Part(entries, q)
      BY <1>0, <3>2, <3>3, <3>4, PartGrows
    <3>6. Part(entries, q) \in Nat
      BY <1>0, PartsAreNat
    <3>7. Part(entries, p + m) - Part(entries, p)
            >= Total(entries) - Part(entries, p) + w - MaxWeight
      BY <2>6, <2>13, <2>15
    <3>8. /\ Total(Later(entries, d)) = Total(entries) - Part(entries, q)
          /\ w \in Nat /\ MaxWeight \in Nat
      BY <1>0, <3>1, <3>2
    <3> HIDE DEF w, d
    <3> QED BY <2>14, <3>5, <3>6, <3>7, <3>8
  <2>17. ASSUME d > 0 PROVE Total(Later(entries, d - 1)) + w > MaxWeight
    <3>1. Later(entries, d - 1) = Younger(entries, a + 1) /\ a + 1 \in Int
      <4>1. Window - (d - 1) = a + 1
        BY <2>8, <2>12, SMTT(30)
      <4> QED BY <2>12, <4>1 DEF Later
    <3>2. PICK q \in 0 .. n : /\ Total(Younger(entries, a + 1)) = Total(entries) - Part(entries, q)
                              /\ \A i \in 1 .. q : entries[i].age >= a + 1
      BY <1>0, <3>1, LeftOver
    <3>3. q <= p + m - 1
      <4>1. ~(p + m \in 1 .. q)
        BY <2>11, <2>12, <3>2
      <4> QED BY <1>0, <2>6, <2>11, <3>2, <4>1
    <3>4. p + m - 1 \in 0 .. n
      BY <1>0, <2>6, <2>11
    <3>5. Part(entries, q) <= Part(entries, p + m - 1)
      BY <1>0, <3>2, <3>3, <3>4, PartGrows
    <3>6. Part(entries, q) \in Nat
      BY <1>0, PartsAreNat
    <3>7. Part(entries, p + m - 1) - Part(entries, p)
            < Total(entries) - Part(entries, p) + w - MaxWeight
      BY <2>7, <2>13, <2>15
    <3>8. /\ Total(Later(entries, d - 1)) = Total(entries) - Part(entries, q)
          /\ w \in Nat /\ MaxWeight \in Nat
      BY <1>0, <3>1, <3>2
    <3> HIDE DEF w, d
    <3> QED BY <2>14, <3>5, <3>6, <3>7, <3>8
  <2> QED BY <2>16, <2>17 DEF d
<1> QED BY <1>0, <1>2, <1>3

\* A task that is refused sleeps exactly until its weight fits, as long as the
\* limiter goes by its own entries.
THEOREM WaitHolds == Spec => []WaitIsExact
<1>1. PathInv => WaitIsExact
  BY WaitFits DEF WaitIsExact
<1> QED BY <1>1, PathInvHolds, PTL

-----------------------------------------------------------------------------
(* A caller on its own.                                                      *)

\* What the exchange still counts of a caller that is alone, has lost nothing and
\* whose last answer brought its report: before a call no more than the fresh report
\* says, and nothing once the report has expired; on the way to the exchange it
\* leaves room for the call.
Covered(t) ==
  /\ pc[t] \in {"idle", "ask", "sleep"} =>
       /\ \A i \in DOMAIN used : used[i].age >= report.age
       /\ report.age < Window => Total(Alive(used)) <= report.used
  /\ pc[t] \in {"send", "away"} => Total(Alive(used)) + Weight[t] <= MaxWeight
  /\ pc[t] = "back" => answer[t].status = "ok"

\* Whether covered or not, a good answer on its way back counts all there is.
Answered(t) ==
  pc[t] = "back" /\ answer[t].status = "ok" => Total(Alive(used)) <= answer[t].used

Alone(t) == lost = 0 /\ \A u \in Tasks \ {t} : calls[u] = 0
SoleInv == \A t \in Tasks : Alone(t) => Answered(t) /\ (t \notin amended => Covered(t))

\* At the start the exchange has counted nothing.
LEMMA SoleInit == Init => SoleInv
<1> SUFFICES ASSUME Init, NEW t \in Tasks PROVE Answered(t) /\ Covered(t)
  BY DEF SoleInv
<1>1. pc[t] = "idle" /\ used = <<>> /\ report = NoReport
  BY DEF Init
<1> QED BY <1>1 DEF Answered, Covered, NoReport

\* Nothing has been accepted since the report, if the report is too old to be used.
LEMMA ExpiredWithReport ==
  ASSUME PathInv, report.age = Window, \A i \in DOMAIN used : used[i].age >= report.age
  PROVE  Total(Alive(used)) = 0
<1>1. {i \in DOMAIN used : used[i].age < Window} = {}
  <2>1. used \in Seq(Entry)
    BY DEF PathInv, Logs
  <2>2. \A i \in DOMAIN used : used[i].age \in 0 .. Window
    BY <2>1, EntryIs
  <2> QED BY <2>2
<1>2. Alive(used) = <<>>
  BY <1>1 DEF Alive, Younger
<1>3. <<>> \in Seq(Entry) /\ Len(<<>>) = 0
  OBVIOUS
<1> QED BY <1>2, <1>3, TotalIs, PartSteps

\* What is still counted does not grow with time.
LEMMA TickShrinks ==
  ASSUME PathInv, Tick
  PROVE  /\ used' \in Seq(Entry) /\ Total(Alive(used')) <= Total(Alive(used))
         /\ \A r \in 0 .. Window : (\A i \in DOMAIN used : used[i].age >= r) =>
              \A i \in DOMAIN used' : used'[i].age >= IF r = Window THEN r ELSE r + 1
<1> DEFINE a == Alive(used)
<1>1. used \in Seq(Entry) /\ a \in Seq(Entry)
  BY AliveIs DEF PathInv, Logs
<1>2. /\ Older(a) \in Seq(Entry) /\ Len(Older(a)) = Len(a) /\ Total(Older(a)) = Total(a)
      /\ \A i \in 1 .. Len(a) : Older(a)[i].age = IF a[i].age = Window THEN Window ELSE a[i].age + 1
  BY <1>1, TotalOlder
<1>3. used' = Older(a)
  BY DEF Tick
<1>4. Total(Alive(used')) <= Total(a)
  BY <1>2, <1>3, AliveIs
<1>5. ASSUME NEW r \in 0 .. Window, \A i \in DOMAIN used : used[i].age >= r, NEW j \in DOMAIN used'
      PROVE  used'[j].age >= IF r = Window THEN r ELSE r + 1
  <2>1. PICK k \in 0 .. Len(used) : a = SubSeq(used, k + 1, Len(used))
    <3>1. Window \in Int
      OBVIOUS
    <3> QED BY <1>1, <3>1, YoungerIs DEF Alive
  <2>2. j \in 1 .. Len(a)
    BY <1>2, <1>3
  <2>3. a[j] = used[k + j] /\ k + j \in DOMAIN used
    BY <1>1, <2>1, <2>2
  <2>4. a[j].age >= r /\ a[j].age \in 0 .. Window
    BY <1>1, <1>5, <2>2, <2>3, EntryIs
  <2> HIDE DEF a
  <2> QED BY <1>2, <1>3, <2>2, <2>4
<1> QED BY <1>2, <1>3, <1>4, <1>5

\* What another one's step would take: nobody else has made a call.
LEMMA SoleMoves ==
  ASSUME PathInv, [Next]_vars, NEW t \in Tasks, Alone(t)'
  PROVE  /\ lost = 0 /\ lost' = 0 /\ Alone(t)
         /\ \/ Tick \/ Call(t) \/ Ask(t) \/ Wake(t) \/ Send(t) \/ Arrive(t) \/ Receive(t)
            \/ UNCHANGED vars
<1>0. /\ lost \in Nat /\ lost' \in Nat /\ lost' >= lost
      /\ calls \in [Tasks -> 0 .. MaxCalls] /\ Total(Alive(used)) \in Nat /\ Weight[t] \in Nat
  <2>1. lost \in Nat /\ calls \in [Tasks -> 0 .. MaxCalls]
    BY DEF PathInv, Numbers
  <2>2. lost' = lost \/ lost' = lost + 1
    BY DEF Next, Tick, Call, Ask, Wake, Send, Arrive, ArriveStray, Fail, Receive, exchange, vars
  <2>3. Total(Alive(used)) \in Nat
    BY AliveIs, TotalIs DEF PathInv, Logs
  <2> QED BY <2>1, <2>2, <2>3
<1>1. lost = 0 /\ lost' = 0
  BY <1>0 DEF Alone
<1>2. \A u \in Tasks \ {t} : calls[u] = 0 /\ pc[u] = "idle" /\ calls'[u] = 0
  <2> SUFFICES ASSUME NEW u \in Tasks \ {t} PROVE calls[u] = 0 /\ pc[u] = "idle" /\ calls'[u] = 0
    OBVIOUS
  <2>1. calls'[u] = 0
    BY DEF Alone
  <2>2. calls' = calls \/ \E v \in Tasks : calls' = [calls EXCEPT ![v] = @ + 1]
    BY DEF Next, Tick, Call, Ask, Wake, Send, Arrive, ArriveStray, Fail, Receive, vars
  <2>3. calls[u] = 0
    BY <1>0, <2>1, <2>2
  <2> QED BY <2>1, <2>3 DEF PathInv, Attempts
<1>3. ASSUME NEW u \in Tasks, ArriveStray(u) PROVE FALSE
  <2>1. strays[u] <= 0 /\ strays[u] \in Nat
    BY <1>1 DEF PathInv, Numbers
  <2> QED BY <1>3, <2>1 DEF ArriveStray
<1>4. ASSUME NEW u \in Tasks \ {t},
             Call(u) \/ Ask(u) \/ Wake(u) \/ Send(u) \/ Arrive(u) \/ Fail(u) \/ Receive(u)
      PROVE  FALSE
  <2>1. Call(u)
    BY <1>2, <1>4 DEF Ask, Wake, Send, Arrive, Fail, Receive
  <2>2. calls'[u] = calls[u] + 1
    BY <1>0, <2>1 DEF Call
  <2> QED BY <1>2, <2>2
<1>5. ~Fail(t)
  BY <1>1 DEF Fail
<1> QED BY <1>1, <1>2, <1>3, <1>4, <1>5 DEF Next, Alone

\* A caller on its own stays covered, as long as its answers bring reports, and is
\* covered again by the next report.
LEMMA SoleStep == ASSUME PathInv, SoleInv, [Next]_vars PROVE SoleInv'
<1> SUFFICES ASSUME NEW t \in Tasks, Alone(t)'
             PROVE  Answered(t)' /\ (t \notin amended' => Covered(t)')
  BY DEF SoleInv
<1>0. Total(Alive(used)) \in Nat /\ Weight[t] \in Nat
  BY AliveIs, TotalIs DEF PathInv, Logs
<1>1. /\ lost = 0 /\ lost' = 0
      /\ \/ Tick \/ Call(t) \/ Ask(t) \/ Wake(t) \/ Send(t) \/ Arrive(t) \/ Receive(t)
         \/ UNCHANGED vars
  BY SoleMoves
<1>3. Answered(t) /\ (t \notin amended => Covered(t))
  BY SoleMoves DEF SoleInv
<1> USE DEF Answered, Covered
<1>2. pc \in [Tasks -> {"idle", "ask", "sleep", "send", "away", "back", "backoff"}]
  BY DEF PathInv, Attempts
<1>4. CASE Tick
  <2>1. /\ Total(Alive(used')) <= Total(Alive(used)) /\ Total(Alive(used')) \in Nat
        /\ \A r \in 0 .. Window : (\A i \in DOMAIN used : used[i].age >= r) =>
              \A i \in DOMAIN used' : used'[i].age >= IF r = Window THEN r ELSE r + 1
    BY <1>4, TickShrinks, AliveIs, TotalIs
  <2>2. report.age \in 0 .. Window /\ report.used \in Nat /\ answer[t].used \in Nat
    BY DEF PathInv, Numbers, Attempts
  <2>3. /\ report'.age = IF report.age = Window THEN Window ELSE report.age + 1
        /\ report'.used = report.used /\ UNCHANGED <<pc, answer, amended>>
    BY <1>4 DEF Tick, PathInv, Numbers
  <2>4. Answered(t)'
    BY <1>0, <1>3, <2>1, <2>2, <2>3
  <2>5. ASSUME Covered(t), pc'[t] \in {"idle", "ask", "sleep"}
        PROVE  /\ \A i \in DOMAIN used' : used'[i].age >= report'.age
               /\ report'.age < Window => Total(Alive(used')) <= report'.used
    <3>1. pc[t] \in {"idle", "ask", "sleep"}
      BY <2>3, <2>5
    <3>2. \A i \in DOMAIN used' : used'[i].age >= report'.age
      BY <2>5, <2>1, <2>2, <2>3, <3>1
    <3>3. report'.age < Window => Total(Alive(used')) <= report'.used
      BY <1>0, <2>5, <2>1, <2>2, <2>3, <3>1
    <3> QED BY <3>2, <3>3
  <2>6. Covered(t) => Covered(t)'
    BY <1>0, <2>1, <2>2, <2>3, <2>5
  <2> HIDE DEF Covered
  <2> QED BY <1>3, <2>3, <2>4, <2>6
<1>5. CASE Call(t)
  BY <1>3, <1>5, <1>2 DEF Call, limiter, exchange
<1>6. CASE Ask(t)
  <2>1. pc[t] = "ask" /\ UNCHANGED <<report, used, answer, amended>>
    BY <1>6 DEF Ask, exchange
  <2>2. pc'[t] \in {"idle", "ask", "sleep", "send"}
    BY <1>6, <1>2 DEF Ask
  <2>3. ASSUME Covered(t), pc'[t] = "send" PROVE Total(Alive(used)) + Weight[t] <= MaxWeight
    <3>1. Current(entries) + Weight[t] <= MaxWeight
      BY <1>6, <1>2, <2>3 DEF Ask
    <3>2. report \in [used : 0 .. MaxWeight, age : 0 .. Window] /\ Total(Alive(entries)) \in Nat
      BY AliveIs, TotalIs DEF PathInv, Numbers, Logs
    <3>3. CASE report.age < Window
      BY <1>0, <2>3, <2>1, <3>1, <3>2, <3>3 DEF Current
    <3>4. CASE report.age = Window
      <4>1. Total(Alive(used)) = 0
        BY <2>3, <2>1, <3>4, ExpiredWithReport
      <4> QED BY <4>1
    <3> QED BY <3>2, <3>3, <3>4
  <2>4. Covered(t) => Covered(t)'
    BY <2>1, <2>2, <2>3
  <2>5. Answered(t)'
    BY <2>2
  <2> HIDE DEF Covered, Answered
  <2> QED BY <1>3, <2>1, <2>4, <2>5
<1>7. CASE Wake(t)
  BY <1>3, <1>7, <1>2 DEF Wake, limiter, exchange
<1>8. CASE Send(t)
  <2>1. pc[t] # "backoff"
    BY <1>1 DEF PathInv, Attempts
  <2> QED BY <1>3, <1>8, <1>2, <2>1 DEF Send, limiter, exchange
<1>9. CASE Arrive(t)
  <2> DEFINE load == Total(Alive(used)) + Weight[t]
             e == [age |-> 0, w |-> Weight[t]]
  <2>1. /\ pc[t] = "away" /\ pc'[t] = "back" /\ amended' = amended
        /\ answer \in [Tasks -> [status : {"none", "ok", "refused", "broken"}, used : 0 .. MaxWeight]]
    BY <1>9, <1>2 DEF Arrive, PathInv, Attempts
  <2>2. \/ /\ load <= MaxWeight /\ used' = Append(Alive(used), e)
           /\ answer' = [answer EXCEPT ![t] = [status |-> "ok", used |-> load]]
        \/ /\ load > MaxWeight
           /\ answer' = [answer EXCEPT ![t] = [status |-> "refused", used |-> 0]]
    BY <1>0, <1>1, <1>9 DEF Arrive
  <2>3. CASE /\ load <= MaxWeight /\ used' = Append(Alive(used), e)
             /\ answer' = [answer EXCEPT ![t] = [status |-> "ok", used |-> load]]
    <3>1. answer'[t] = [status |-> "ok", used |-> load]
      BY <2>1, <2>3
    <3>2. Alive(used) \in Seq(Entry) /\ e \in Entry
      <4>1. e \in Entry
        BY DEF Entry
      <4> QED BY <4>1, AliveIs DEF PathInv, Logs
    <3>3. used' \in Seq(Entry) /\ Total(used') = Total(Alive(used)) + e.w
      BY <2>3, <3>2, TotalAppend
    <3>4. Total(Alive(used')) <= Total(used')
      BY <3>3, AliveIs
    <3> QED BY <2>1, <3>1, <3>3, <3>4
  <2>4. CASE /\ load > MaxWeight
             /\ answer' = [answer EXCEPT ![t] = [status |-> "refused", used |-> 0]]
    <3>1. answer'[t].status = "refused"
      BY <2>1, <2>4
    <3>2. ~Covered(t)
      BY <1>0, <2>1, <2>4
    <3> QED BY <1>3, <2>1, <3>1, <3>2
  <2> QED BY <2>2, <2>3, <2>4
<1>10. CASE Receive(t)
  <2>1. /\ pc[t] = "back" /\ pc'[t] = "idle" /\ used' = used
        /\ t \notin amended => answer[t].status = "ok"
    BY <1>3, <1>10, <1>2 DEF Receive, exchange
  <2>2. Answered(t)'
    BY <2>1
  <2>3. \/ /\ answer[t].status = "ok" /\ report' = [used |-> answer[t].used, age |-> 0]
        \/ t \in amended'
    BY <1>1, <1>10, <2>1 DEF Receive
  <2>4. CASE answer[t].status = "ok" /\ report' = [used |-> answer[t].used, age |-> 0]
    <3>1. Total(Alive(used)) <= answer[t].used
      BY <1>3, <2>1, <2>4
    <3>2. \A i \in DOMAIN used : used[i].age >= 0
      <4>1. used \in Seq(Entry)
        BY DEF PathInv, Logs
      <4>2. \A i \in DOMAIN used : used[i].age \in 0 .. Window
        BY <4>1, EntryIs
      <4> QED BY <4>2
    <3>3. Covered(t)'
      BY <2>1, <2>4, <3>1, <3>2
    <3> QED BY <2>2, <3>3
  <2> QED BY <2>2, <2>3, <2>4
<1>11. CASE UNCHANGED vars
  BY <1>3, <1>11 DEF vars, limiter, exchange
<1> QED BY <1>1, <1>4, <1>5, <1>6, <1>7, <1>8, <1>9, <1>10, <1>11

\* A caller that has the connector to itself and loses nothing is never refused,
\* unless its last good answer was that of a put or a patch.
THEOREM SoleHolds == Spec => []SoleCallerWelcome
<1>1. PathInv /\ SoleInv /\ [Next]_vars => (PathInv /\ SoleInv)'
  BY PathInvStep, SoleStep
<1>2. PathInv /\ SoleInv => SoleCallerWelcome
  <2> SUFFICES ASSUME PathInv, SoleInv, NEW t \in Tasks, Alone(t), t \notin amended
                  PROVE  answer[t].status # "refused"
    BY DEF SoleCallerWelcome, Alone
  <2>1. CASE pc[t] = "back"
    BY <2>1 DEF SoleInv, Covered
  <2>2. CASE pc[t] # "back"
    BY <2>2 DEF PathInv, Attempts, NoAnswer
  <2> QED BY <2>1, <2>2
<1> QED BY <1>1, <1>2, PathInvInit, SoleInit, PTL DEF Spec
=============================================================================
