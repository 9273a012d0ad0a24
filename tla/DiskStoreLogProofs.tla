------------------------ MODULE DiskStoreLogProofs ------------------------
(***************************************************************************)
(* DiskStore implements DurableLog, for every retention, capacity of the   *)
(* writers, number of days, points, crashes and disk errors.  The log is   *)
(* what FlattenSeq makes of the days and of the writer, so the module      *)
(* begins with induction over the length of a sequence, without operators  *)
(* as parameters: a statement about n is the set of the n it holds for.    *)
(***************************************************************************)
EXTENDS DiskStoreProofs, WellFoundedInduction

-----------------------------------------------------------------------------
(* Induction, recursion and FlattenSeq.                                      *)

\* Every non-empty set of naturals has a smallest element.
LEMMA SmallestOf ==
  ASSUME NEW S, S \subseteq Nat, S # {}
  PROVE  \E m \in S : \A n \in S : m <= n
<1> DEFINE R == OpToRel(<, Nat)
<1>1. R = {ss \in Nat \X Nat : ss[1] < ss[2]}
  BY DEF OpToRel
<1>2. IsWellFoundedOn(R, Nat)
  BY NatLessThanWellFounded
<1> HIDE DEF R
<1>3. PICK m \in S : \A n \in S : ~(<<n, m>> \in R)
  BY <1>2, WFMin
<1>4. ASSUME NEW n \in S PROVE m <= n
  <2>1. ~(<<n, m>> \in R)
    BY <1>3
  <2>2. n < m => <<n, m>> \in R
    BY <1>1
  <2> QED BY <2>1, <2>2
<1> QED BY <1>4

\* Induction on 0 .. N, for a set in the place of a predicate.
LEMMA InductionTo ==
  ASSUME NEW N \in Nat, NEW S, 0 \in S, \A n \in 1 .. N : n - 1 \in S => n \in S
  PROVE  \A n \in 0 .. N : n \in S
<1> SUFFICES ASSUME (0 .. N) \ S # {} PROVE FALSE
  OBVIOUS
<1> DEFINE C == (0 .. N) \ S
<1>0. C \subseteq Nat /\ C # {}
  OBVIOUS
<1>1. PICK m \in C : \A n \in C : m <= n
  <2> HIDE DEF C
  <2> QED BY <1>0, SmallestOf
<1>2. m \in 1 .. N /\ m - 1 \in 0 .. N
  BY <1>1
<1>3. m - 1 \in S
  BY <1>1, <1>2
<1> QED BY <1>1, <1>2, <1>3

\* f solves the recursion that starts with b and takes step s[i] at i.
Solves(f, N, b, s) == f[0] = b /\ \A i \in 1 .. N : f[i] = s[i][f[i - 1]]

\* A recursion on 0 .. N has a solution.
LEMMA RecursionTo ==
  ASSUME NEW N \in Nat, NEW T, NEW b \in T, NEW s \in [1 .. N -> [T -> T]]
  PROVE  \E f \in [0 .. N -> T] : Solves(f, N, b, s)
<1> DEFINE Sol(n, f) == f[0] = b /\ \A i \in 1 .. n : f[i] = s[i][f[i - 1]]
           S == {n \in 0 .. N : \E f \in [0 .. n -> T] : Sol(n, f)}
<1>1. 0 \in S
  <2> DEFINE z == [i \in 0 .. 0 |-> b]
  <2>1. z \in [0 .. 0 -> T] /\ Sol(0, z)
    OBVIOUS
  <2> HIDE DEF z
  <2> QED BY <2>1
<1>2. ASSUME NEW n \in 1 .. N, n - 1 \in S PROVE n \in S
  <2>1. PICK f \in [0 .. n - 1 -> T] : Sol(n - 1, f)
    BY <1>2
  <2> DEFINE g == [i \in 0 .. n |-> IF i = n THEN s[n][f[n - 1]] ELSE f[i]]
  <2>2. s[n][f[n - 1]] \in T
    BY <2>1
  <2>3. g \in [0 .. n -> T]
    BY <2>1, <2>2
  <2>4. g[0] = b
    BY <2>1
  <2>5. ASSUME NEW i \in 1 .. n PROVE g[i] = s[i][g[i - 1]]
    <3>1. g[i - 1] = f[i - 1]
      BY <2>5
    <3>2. CASE i = n
      BY <3>1, <3>2
    <3>3. CASE i # n
      <4>1. i \in 1 .. n - 1 /\ g[i] = f[i]
        BY <3>3
      <4>2. f[i] = s[i][f[i - 1]]
        BY <2>1, <4>1
      <4> QED BY <3>1, <4>1, <4>2
    <3> QED BY <3>2, <3>3
  <2> HIDE DEF g
  <2>6. Sol(n, g)
    BY <2>4, <2>5
  <2> QED BY <2>3, <2>6
<1> HIDE DEF S
<1>3. \A n \in 1 .. N : n - 1 \in S => n \in S
  BY <1>2
<1>4. \A n \in 0 .. N : n \in S
  BY <1>1, <1>3, InductionTo, Zenon
<1> QED BY <1>4 DEF S, Solves

\* f[i] is the concatenation of the first i sequences in ss.
Gathers(f, ss) == f[0] = <<>> /\ \A i \in 1 .. Len(ss) : f[i] = f[i - 1] \o ss[i]

\* One sequence more.
LEMMA GatherAt ==
  ASSUME NEW f, NEW ss, Gathers(f, ss), NEW n \in 1 .. Len(ss)
  PROVE  f[n] = f[n - 1] \o ss[n]
BY DEF Gathers

\* Sequences of the same length with the same elements are the same.
LEMMA SameSeq ==
  ASSUME NEW T, NEW s \in Seq(T), NEW t \in Seq(T), Len(s) = Len(t),
         \A i \in 1 .. Len(s) : s[i] = t[i]
  PROVE  s = t
OBVIOUS

\* What FlattenSeq computes, one sequence at a time.
LEMMA FlattenSteps ==
  ASSUME NEW T, NEW ss \in Seq(Seq(T))
  PROVE  \E f \in [0 .. Len(ss) -> Seq(T)] : Gathers(f, ss) /\ FlattenSeq(ss) = f[Len(ss)]
<1> DEFINE N == Len(ss)
           s == [i \in 1 .. N |-> [x \in Seq(T) |-> x \o ss[i]]]
<1>0. N \in Nat /\ <<>> \in Seq(T) /\ \A i \in 1 .. N : ss[i] \in Seq(T)
  OBVIOUS
<1>1. s \in [1 .. N -> [Seq(T) -> Seq(T)]]
  BY <1>0
<1>2. PICK f \in [0 .. N -> Seq(T)] : f[0] = <<>> /\ \A i \in 1 .. N : f[i] = s[i][f[i - 1]]
  <2> DEFINE U == Seq(T)
             e == <<>>
  <2>1. N \in Nat /\ e \in U /\ s \in [1 .. N -> [U -> U]]
    BY <1>0, <1>1
  <2> HIDE DEF N, s, U, e
  <2>2. \E f \in [0 .. N -> U] : Solves(f, N, e, s)
    BY <2>1, RecursionTo
  <2> QED BY <2>2 DEF U, e, Solves
<1>3. \A i \in 1 .. N : f[i] = f[i - 1] \o ss[i]
  <2> SUFFICES ASSUME NEW i \in 1 .. N PROVE f[i] = f[i - 1] \o ss[i]
    OBVIOUS
  <2>1. f[i - 1] \in Seq(T) /\ f[i] = s[i][f[i - 1]]
    <3>1. i - 1 \in 0 .. N
      BY <1>0
    <3> HIDE DEF N, s
    <3> QED BY <1>2, <3>1
  <2> QED BY <2>1
<1>4. FlattenSeq(ss) = f[N]
  <2>1. CASE N = 0
    <3>1. ss = <<>> /\ FlattenSeq(ss) = ss
      BY <2>1 DEF FlattenSeq
    <3> QED BY <1>2, <2>1, <3>1
  <2>2. CASE N # 0
    <3> DEFINE Eq(h) == h = [i \in 1 .. N |-> IF i = 1 THEN ss[i] ELSE h[i - 1] \o ss[i]]
               g == [i \in 1 .. N |-> f[i]]
               c == CHOOSE h : Eq(h)
    <3>1. Eq(g)
      <4>1. ASSUME NEW i \in 1 .. N PROVE g[i] = IF i = 1 THEN ss[i] ELSE g[i - 1] \o ss[i]
        <5>0. g[i] = f[i] /\ f[i] = f[i - 1] \o ss[i]
          BY <1>3
        <5>1. CASE i = 1
          <6>1. <<>> \o ss[i] = ss[i] /\ f[i - 1] = <<>>
            BY <1>0, <1>2, <5>1
          <6> HIDE DEF g
          <6> QED BY <5>0, <5>1, <6>1, Zenon
        <5>2. CASE i # 1
          <6>1. g[i - 1] = f[i - 1]
            BY <5>2
          <6> QED BY <5>0, <5>2, <6>1
        <5> QED BY <5>1, <5>2
      <4> QED BY <4>1
    <3>2. Eq(c)
      <4> HIDE DEF Eq, g
      <4> QED BY <3>1
    <3>3. FlattenSeq(ss) = c[N]
      BY <2>2 DEF FlattenSeq
    <3> HIDE DEF c
    <3> DEFINE S == {n \in 0 .. N : n = 0 \/ c[n] = f[n]}
    <3>4. ASSUME NEW n \in 1 .. N, n - 1 \in S PROVE n \in S
      <4>1. c[n] = IF n = 1 THEN ss[n] ELSE c[n - 1] \o ss[n]
        BY <3>2
      <4>2. g[n] = (IF n = 1 THEN ss[n] ELSE g[n - 1] \o ss[n]) /\ g[n] = f[n]
        BY <3>1
      <4>3. CASE n = 1
        BY <4>1, <4>2, <4>3
      <4>4. CASE n # 1
        <5>1. c[n - 1] = f[n - 1] /\ g[n - 1] = f[n - 1]
          BY <3>4, <4>4
        <5> HIDE DEF g
        <5>2. c[n] = f[n]
          BY <4>1, <4>2, <4>4, <5>1, Zenon
        <5> QED BY <5>2
      <4> QED BY <4>3, <4>4
    <3>5. 0 \in S
      OBVIOUS
    <3>6. \A n \in 0 .. N : n \in S
      <4> HIDE DEF S
      <4>1. \A n \in 1 .. N : n - 1 \in S => n \in S
        BY <3>4
      <4> HIDE DEF N
      <4> QED BY <1>0, <3>5, <4>1, InductionTo, Zenon
    <3> QED BY <1>0, <2>2, <3>3, <3>6
  <2> QED BY <2>1, <2>2
<1> QED BY <1>2, <1>3, <1>4 DEF Gathers

\* A concatenation of sequences is a sequence.
LEMMA FlattenType ==
  ASSUME NEW T, NEW ss \in Seq(Seq(T))
  PROVE  FlattenSeq(ss) \in Seq(T)
<1>1. PICK f \in [0 .. Len(ss) -> Seq(T)] : Gathers(f, ss) /\ FlattenSeq(ss) = f[Len(ss)]
  BY FlattenSteps
<1>2. Len(ss) \in 0 .. Len(ss)
  OBVIOUS
<1> QED BY <1>1, <1>2

\* Nothing flattened is nothing.
LEMMA FlattenNothing ==
  ASSUME NEW T, NEW ss \in Seq(Seq(T)), \A i \in 1 .. Len(ss) : ss[i] = <<>>
  PROVE  FlattenSeq(ss) = <<>>
<1> DEFINE N == Len(ss)
<1>0. N \in Nat /\ <<>> \o <<>> = <<>>
  OBVIOUS
<1>1. PICK f \in [0 .. N -> Seq(T)] : Gathers(f, ss) /\ FlattenSeq(ss) = f[N]
  BY FlattenSteps
<1> DEFINE S == {n \in 0 .. N : f[n] = <<>>}
<1>2. 0 \in S
  BY <1>0, <1>1 DEF Gathers
<1>3. \A n \in 1 .. N : n - 1 \in S => n \in S
  <2> SUFFICES ASSUME NEW n \in 1 .. N, f[n - 1] = <<>> PROVE f[n] = <<>>
    OBVIOUS
  <2>1. f[n] = f[n - 1] \o ss[n] /\ ss[n] = <<>>
    BY <1>1 DEF Gathers
  <2> QED BY <1>0, <2>1, Zenon
<1> HIDE DEF N, S
<1>4. \A n \in 0 .. N : n \in S
  BY <1>0, <1>2, <1>3, InductionTo, Zenon
<1>5. N \in 0 .. N
  BY <1>0
<1> QED BY <1>1, <1>4, <1>5 DEF S

\* Singletons flattened.
LEMMA FlattenSingles ==
  ASSUME NEW T, NEW s \in Seq(T), NEW ss \in Seq(Seq(T)), Len(ss) = Len(s),
         \A i \in 1 .. Len(s) : ss[i] = <<s[i]>>
  PROVE  FlattenSeq(ss) = s
<1> DEFINE N == Len(ss)
<1>0. N \in Nat /\ N = Len(s)
  OBVIOUS
<1>1. PICK f \in [0 .. N -> Seq(T)] : Gathers(f, ss) /\ FlattenSeq(ss) = f[N]
  BY FlattenSteps
<1> DEFINE S == {n \in 0 .. N : Len(f[n]) = n /\ \A i \in 1 .. n : f[n][i] = s[i]}
<1>2. 0 \in S
  BY <1>0, <1>1 DEF Gathers
<1>3. \A n \in 1 .. N : n - 1 \in S => n \in S
  <2> SUFFICES ASSUME NEW n \in 1 .. N, n - 1 \in S PROVE n \in S
    OBVIOUS
  <2>1. f[n] = f[n - 1] \o ss[n] /\ ss[n] = <<s[n]>> /\ f[n - 1] \in Seq(T) /\ s[n] \in T
    <3>1. n - 1 \in 0 .. N /\ ss[n] = <<s[n]>> /\ s[n] \in T
      OBVIOUS
    <3>2. f[n] = f[n - 1] \o ss[n]
      <4>1. Gathers(f, ss) /\ n \in 1 .. Len(ss)
        BY <1>1
      <4> QED BY <4>1, GatherAt, Zenon
    <3> QED BY <1>1, <3>1, <3>2
  <2>2. Len(f[n - 1]) = n - 1 /\ \A i \in 1 .. n - 1 : f[n - 1][i] = s[i]
    OBVIOUS
  <2>3. Len(f[n]) = n /\ f[n][n] = s[n] /\ \A i \in 1 .. n - 1 : f[n][i] = f[n - 1][i]
    BY <2>1, <2>2
  <2> QED BY <2>2, <2>3
<1> HIDE DEF N
<1>4. \A n \in 0 .. N : n \in S
  <2> HIDE DEF S
  <2> QED BY <1>0, <1>2, <1>3, InductionTo, Zenon
<1>5. f[N] \in Seq(T) /\ Len(f[N]) = N /\ \A i \in 1 .. N : f[N][i] = s[i]
  <2>1. N \in 0 .. N
    BY <1>0
  <2> QED BY <1>4, <2>1
<1>6. f[N] = s
  <2>1. Len(f[N]) = Len(s) /\ \A i \in 1 .. Len(f[N]) : f[N][i] = s[i]
    BY <1>0, <1>5
  <2> QED BY <1>5, <2>1, SameSeq
<1> QED BY <1>1, <1>6

Associates(T) == \A a, b, c \in Seq(T) : (a \o b) \o c = a \o (b \o c)

\* The same for all sequences at once.
LEMMA AnyConcatAssociates == \A T : Associates(T)
BY ConcatAssociates, Zenon DEF Associates

\* Sequences after sequences.
LEMMA FlattenConcat ==
  ASSUME NEW T, NEW ss \in Seq(Seq(T)), NEW tt \in Seq(Seq(T))
  PROVE  FlattenSeq(ss \o tt) = FlattenSeq(ss) \o FlattenSeq(tt)
<1> DEFINE M == Len(ss)
           N == Len(tt)
           uu == ss \o tt
<1>0. /\ M \in Nat /\ N \in Nat /\ uu \in Seq(Seq(T)) /\ Len(uu) = M + N
      /\ \A i \in 1 .. M : uu[i] = ss[i]
      /\ \A i \in 1 .. N : uu[M + i] = tt[i]
      /\ \A i \in 1 .. N : tt[i] \in Seq(T)
      /\ \A u \in Seq(T) : u \o <<>> = u
  OBVIOUS
<1>a. \A a, b, c \in Seq(T) : (a \o b) \o c = a \o (b \o c)
  <2>1. Associates(T)
    BY AnyConcatAssociates, Zenon
  <2> QED BY <2>1, Zenon DEF Associates
<1>1. PICK f \in [0 .. M -> Seq(T)] : Gathers(f, ss) /\ FlattenSeq(ss) = f[M]
  BY FlattenSteps
<1>2. PICK g \in [0 .. N -> Seq(T)] : Gathers(g, tt) /\ FlattenSeq(tt) = g[N]
  BY FlattenSteps
<1>3. PICK h \in [0 .. M + N -> Seq(T)] : Gathers(h, uu) /\ FlattenSeq(uu) = h[M + N]
  <2>1. \E h \in [0 .. Len(uu) -> Seq(T)] : Gathers(h, uu) /\ FlattenSeq(uu) = h[Len(uu)]
    <3> HIDE DEF uu, M, N
    <3> QED BY <1>0, FlattenSteps
  <2> QED BY <1>0, <2>1, Zenon
<1> DEFINE S == {n \in 0 .. M : h[n] = f[n]}
           R == {n \in 0 .. N : h[M + n] = f[M] \o g[n]}
<1>4. \A n \in 0 .. M : n \in S
  <2>1. 0 \in S
    BY <1>0, <1>1, <1>3 DEF Gathers
  <2>2. ASSUME NEW n \in 1 .. M, n - 1 \in S PROVE n \in S
    <3>1. h[n] = h[n - 1] \o uu[n] /\ f[n] = f[n - 1] \o ss[n] /\ uu[n] = ss[n]
      <4>1. n \in 1 .. Len(ss) /\ n \in 1 .. Len(uu)
        BY <1>0
      <4>2. h[n] = h[n - 1] \o uu[n]
        <5> HIDE DEF uu
        <5> QED BY <1>3, <4>1, GatherAt
      <4>3. f[n] = f[n - 1] \o ss[n]
        BY <1>1, <4>1, GatherAt
      <4> QED BY <1>0, <4>2, <4>3
    <3>2. h[n - 1] = f[n - 1]
      BY <2>2
    <3>3. h[n] = f[n]
      <4> HIDE DEF uu
      <4> QED BY <3>1, <3>2, Zenon
    <3> QED BY <3>3
  <2>3. \A n \in 1 .. M : n - 1 \in S => n \in S
    BY <2>2
  <2> HIDE DEF M, S
  <2> QED BY <1>0, <2>1, <2>3, InductionTo, Zenon
<1>5. \A n \in 0 .. N : n \in R
  <2>1. 0 \in R
    <3>1. h[M] = f[M] /\ f[M] \in Seq(T) /\ g[0] = <<>>
      BY <1>0, <1>2, <1>4 DEF Gathers
    <3>2. M + 0 = M
      BY <1>0
    <3> QED BY <1>0, <3>1, <3>2
  <2>2. ASSUME NEW n \in 1 .. N, n - 1 \in R PROVE n \in R
    <3>1. h[M + n] = h[M + n - 1] \o tt[n] /\ g[n] = g[n - 1] \o tt[n]
      <4>1. M + n \in 1 .. M + N /\ uu[M + n] = tt[n]
        BY <1>0
      <4>2. M + n \in 1 .. Len(uu) /\ n \in 1 .. Len(tt)
        BY <1>0
      <4>3. h[M + n] = h[M + n - 1] \o uu[M + n]
        <5> DEFINE k == M + n
        <5>1. Gathers(h, uu) /\ k \in 1 .. Len(uu)
          BY <1>3, <4>2
        <5> HIDE DEF uu, M, k
        <5>2. h[k] = h[k - 1] \o uu[k]
          BY <5>1, GatherAt, Zenon
        <5>3. k - 1 = M + n - 1 /\ k = M + n
          BY <1>0 DEF k
        <5> QED BY <5>2, <5>3
      <4>4. g[n] = g[n - 1] \o tt[n]
        BY <1>2, <4>2, GatherAt
      <4> QED BY <4>1, <4>3, <4>4
    <3>2. h[M + (n - 1)] = f[M] \o g[n - 1] /\ M + (n - 1) = M + n - 1
      BY <1>0, <2>2
    <3>3. f[M] \in Seq(T) /\ g[n - 1] \in Seq(T) /\ tt[n] \in Seq(T)
      <4>1. M \in 0 .. M /\ n - 1 \in 0 .. N
        BY <1>0
      <4> QED BY <1>0, <4>1
    <3>4. (f[M] \o g[n - 1]) \o tt[n] = f[M] \o (g[n - 1] \o tt[n])
      <4> HIDE DEF uu, M
      <4> QED BY <1>a, <3>3, Zenon
    <3>5. h[M + n - 1] = f[M] \o g[n - 1]
      BY <3>2
    <3>6. h[M + n] = f[M] \o g[n]
      <4> HIDE DEF uu, M
      <4> QED BY <3>1, <3>4, <3>5, Zenon
    <3>7. n \in 0 .. N
      OBVIOUS
    <3> HIDE DEF uu, M, N
    <3> QED BY <3>6, <3>7, Zenon
  <2>3. \A n \in 1 .. N : n - 1 \in R => n \in R
    BY <2>2
  <2> HIDE DEF M, N, R
  <2> QED BY <1>0, <2>1, <2>3, InductionTo, Zenon
<1>6. N \in R
  BY <1>0, <1>5
<1>7. h[M + N] = f[M] \o g[N]
  BY <1>6
<1> QED BY <1>1, <1>2, <1>3, <1>7

\* One sequence flattened.
LEMMA FlattenOne ==
  ASSUME NEW T, NEW x \in Seq(T)
  PROVE  FlattenSeq(<<x>>) = x
<1> DEFINE ss == <<x>>
<1>0. ss \in Seq(Seq(T)) /\ Len(ss) = 1 /\ ss[1] = x /\ <<>> \o x = x
  OBVIOUS
<1> HIDE DEF ss
<1>1. PICK f \in [0 .. Len(ss) -> Seq(T)] : Gathers(f, ss) /\ FlattenSeq(ss) = f[Len(ss)]
  BY <1>0, FlattenSteps
<1>2. f[1] = f[1 - 1] \o ss[1] /\ f[0] = <<>>
  BY <1>0, <1>1 DEF Gathers
<1>3. 1 - 1 = 0
  OBVIOUS
<1>4. f[1] = x
  BY <1>0, <1>2, <1>3, Zenon
<1> QED BY <1>0, <1>1, <1>4 DEF ss

\* Every element of the result comes from one of the sequences.
LEMMA FlattenElements ==
  ASSUME NEW T, NEW ss \in Seq(Seq(T)), NEW j \in 1 .. Len(FlattenSeq(ss))
  PROVE  \E i \in 1 .. Len(ss) : \E k \in 1 .. Len(ss[i]) : FlattenSeq(ss)[j] = ss[i][k]
<1> DEFINE N == Len(ss)
           From(x, n) == \E i \in 1 .. n : \E k \in 1 .. Len(ss[i]) : x = ss[i][k]
<1>0. N \in Nat /\ \A i \in 1 .. N : ss[i] \in Seq(T)
  OBVIOUS
<1>1. PICK f \in [0 .. N -> Seq(T)] : Gathers(f, ss) /\ FlattenSeq(ss) = f[N]
  BY FlattenSteps
<1> DEFINE S == {n \in 0 .. N : \A m \in 1 .. Len(f[n]) : From(f[n][m], n)}
<1>2. 0 \in S
  BY <1>0, <1>1 DEF Gathers
<1>3. \A n \in 1 .. N : n - 1 \in S => n \in S
  <2> SUFFICES ASSUME NEW n \in 1 .. N, n - 1 \in S PROVE n \in S
    OBVIOUS
  <2> SUFFICES ASSUME NEW m \in 1 .. Len(f[n]) PROVE From(f[n][m], n)
    OBVIOUS
  <2>1. /\ n - 1 \in 0 .. N /\ f[n - 1] \in Seq(T) /\ ss[n] \in Seq(T)
        /\ \A q \in 1 .. Len(f[n - 1]) : From(f[n - 1][q], n - 1)
    BY <1>0
  <2>2. f[n] = f[n - 1] \o ss[n]
    <3>1. Gathers(f, ss) /\ n \in 1 .. Len(ss)
      BY <1>1
    <3> QED BY <3>1, GatherAt, ZenonT(40)
  <2>3. CASE m <= Len(f[n - 1])
    <3>1. f[n][m] = f[n - 1][m] /\ m \in 1 .. Len(f[n - 1])
      BY <2>1, <2>2, <2>3
    <3>2. \E i \in 1 .. n - 1 : \E k \in 1 .. Len(ss[i]) : f[n][m] = ss[i][k]
      BY <2>1, <3>1
    <3>3. \A i \in 1 .. n - 1 : i \in 1 .. n
      OBVIOUS
    <3> QED BY <3>2, <3>3, Zenon
  <2>4. CASE m > Len(f[n - 1])
    <3> DEFINE k == m - Len(f[n - 1])
    <3>1. Len(f[n]) = Len(f[n - 1]) + Len(ss[n])
      BY <2>1, <2>2
    <3>2. k \in 1 .. Len(ss[n]) /\ n \in 1 .. n
      <4>1. Len(f[n - 1]) \in Nat /\ Len(ss[n]) \in Nat
        BY <2>1
      <4>2. m \in 1 .. Len(f[n - 1]) + Len(ss[n])
        BY <3>1
      <4>3. k \in 1 .. Len(ss[n])
        <5>1. ASSUME NEW p \in Nat, NEW q \in Nat, m \in 1 .. p + q, m > p
              PROVE  m - p \in 1 .. q
          BY <5>1
        <5> QED BY <2>4, <4>1, <4>2, <5>1
      <4>4. n \in 1 .. n
        OBVIOUS
      <4> QED BY <4>3, <4>4
    <3>3. f[n][m] = ss[n][k]
      BY <2>1, <2>2, <2>4, <3>1
    <3> QED BY <3>2, <3>3
  <2> QED BY <2>1, <2>3, <2>4
<1> HIDE DEF N
<1>4. \A n \in 0 .. N : n \in S
  <2> HIDE DEF S
  <2> QED BY <1>0, <1>2, <1>3, InductionTo, Zenon
<1>5. N \in S
  <2>1. N \in 0 .. N
    BY <1>0
  <2> QED BY <1>4, <2>1
<1>6. \A m \in 1 .. Len(f[N]) : From(f[N][m], N)
  BY <1>5
<1> QED BY <1>1, <1>6 DEF N

\* tt is ss with x at the end of its sequence e, the last that is not empty.
GrowsAt(tt, ss, e, x) ==
  /\ Len(tt) = Len(ss)
  /\ \A i \in 1 .. Len(ss) : i = e => tt[i] = ss[i] \o x
  /\ \A i \in 1 .. Len(ss) : i # e => tt[i] = ss[i]
  /\ \A i \in 1 .. Len(ss) : i > e => ss[i] = <<>>

\* One of the sequences grows at its end, and those after it are empty.
LEMMA FlattenGrows ==
  ASSUME NEW T, NEW ss \in Seq(Seq(T)), NEW tt \in Seq(Seq(T)), NEW x \in Seq(T),
         NEW e \in 1 .. Len(ss), GrowsAt(tt, ss, e, x)
  PROVE  FlattenSeq(tt) = FlattenSeq(ss) \o x
<1> DEFINE N == Len(ss)
<1>0. /\ N \in Nat /\ N = Len(tt) /\ \A i \in 1 .. N : ss[i] \in Seq(T)
      /\ \A u \in Seq(T) : u \o <<>> = u
  BY DEF GrowsAt
<1>a. \A i \in 1 .. N : i = e => tt[i] = ss[i] \o x
  BY DEF GrowsAt
<1>b. \A i \in 1 .. N : i # e => tt[i] = ss[i]
  BY DEF GrowsAt
<1>c. \A i \in 1 .. N : i > e => ss[i] = <<>>
  BY DEF GrowsAt
<1>d. \A a, b \in Seq(T) : (a \o b) \o x = a \o (b \o x)
  <2> SUFFICES ASSUME NEW a \in Seq(T), NEW b \in Seq(T) PROVE (a \o b) \o x = a \o (b \o x)
    OBVIOUS
  <2> QED BY ConcatAssociates, SMTT(30)
<1>1. PICK f \in [0 .. N -> Seq(T)] : Gathers(f, ss) /\ FlattenSeq(ss) = f[N]
  BY FlattenSteps
<1>2. PICK g \in [0 .. N -> Seq(T)] : Gathers(g, tt) /\ FlattenSeq(tt) = g[N]
  <2>1. \E g \in [0 .. Len(tt) -> Seq(T)] : Gathers(g, tt) /\ FlattenSeq(tt) = g[Len(tt)]
    BY FlattenSteps
  <2> QED BY <1>0, <2>1, Zenon
<1> DEFINE S == {n \in 0 .. N : g[n] = IF n < e THEN f[n] ELSE f[n] \o x}
<1>3. 0 \in S
  BY <1>0, <1>1, <1>2 DEF Gathers
<1>4. \A n \in 1 .. N : n - 1 \in S => n \in S
  <2> SUFFICES ASSUME NEW n \in 1 .. N, n - 1 \in S
               PROVE  g[n] = IF n < e THEN f[n] ELSE f[n] \o x
    OBVIOUS
  <2>1. f[n] = f[n - 1] \o ss[n] /\ g[n] = g[n - 1] \o tt[n]
    <3>1. Gathers(f, ss) /\ Gathers(g, tt) /\ n \in 1 .. Len(ss) /\ n \in 1 .. Len(tt)
      BY <1>0, <1>1, <1>2
    <3> QED BY <3>1, GatherAt, ZenonT(40)
  <2>2. f[n - 1] \in Seq(T) /\ f[n] \in Seq(T) /\ ss[n] \in Seq(T)
    <3>1. n - 1 \in 0 .. N /\ n \in 0 .. N
      OBVIOUS
    <3> QED BY <1>0, <3>1
  <2>3. CASE n < e
    <3>1. tt[n] = ss[n] /\ g[n - 1] = f[n - 1]
      BY <1>b, <2>3
    <3>2. g[n] = f[n]
      BY <2>1, <3>1, Zenon
    <3> QED BY <2>3, <3>2
  <2>4. CASE n = e
    <3>0. n - 1 < e
      BY <2>4
    <3>1. tt[n] = ss[n] \o x /\ g[n - 1] = f[n - 1]
      BY <1>a, <2>4, <3>0
    <3>2. f[n - 1] \o (ss[n] \o x) = (f[n - 1] \o ss[n]) \o x
      BY <1>d, <2>2
    <3>3. g[n] = f[n] \o x
      BY <2>1, <3>1, <3>2
    <3> QED BY <2>4, <3>3
  <2>5. CASE n > e
    <3>0. ~(n - 1 < e) /\ n # e
      BY <2>5
    <3>1. ss[n] = <<>> /\ tt[n] = <<>> /\ g[n - 1] = f[n - 1] \o x
      BY <1>b, <1>c, <2>5, <3>0
    <3>2. f[n] = f[n - 1] /\ f[n - 1] \o x \in Seq(T)
      BY <1>0, <2>1, <2>2, <3>1
    <3>3. g[n] = f[n] \o x
      BY <1>0, <2>1, <3>1, <3>2
    <3>4. ~(n < e)
      BY <2>5
    <3> QED BY <3>3, <3>4, Zenon
  <2> QED BY <2>3, <2>4, <2>5
<1> HIDE DEF N
<1>5. \A n \in 0 .. N : n \in S
  <2> HIDE DEF S
  <2> QED BY <1>0, <1>3, <1>4, InductionTo, Zenon
<1>6. g[N] = f[N] \o x
  <2>1. N \in 0 .. N /\ ~(N < e)
    BY <1>0 DEF N
  <2> QED BY <1>5, <2>1
<1> QED BY <1>1, <1>2, <1>6

USE StoreAssumption DEF Days, StoreAssumption
USE DEF writers, files, history

\* tt is ss without the sequences before c.
SweptTo(tt, ss, c) ==
  /\ Len(tt) = Len(ss)
  /\ \A i \in 1 .. Len(ss) : i < c => tt[i] = <<>>
  /\ \A i \in 1 .. Len(ss) : ~(i < c) => tt[i] = ss[i]

\* Without its first sequences a concatenation loses a part at its front.
LEMMA FlattenSwept ==
  ASSUME NEW T, NEW ss \in Seq(Seq(T)), NEW tt \in Seq(Seq(T)), NEW c \in Int, SweptTo(tt, ss, c)
  PROVE  \E x \in Seq(T) : FlattenSeq(ss) = x \o FlattenSeq(tt)
<1> DEFINE N == Len(ss)
<1>0. /\ N \in Nat /\ N = Len(tt) /\ \A i \in 1 .. N : ss[i] \in Seq(T)
      /\ \A u \in Seq(T) : u \o <<>> = u
      /\ <<>> \in Seq(T) /\ <<>> \o <<>> = <<>>
  BY DEF SweptTo
<1>a. \A i \in 1 .. N : i < c => tt[i] = <<>>
  BY DEF SweptTo
<1>b. \A i \in 1 .. N : ~(i < c) => tt[i] = ss[i]
  BY DEF SweptTo
<1>d. \A u, v, w \in Seq(T) : (u \o v) \o w = u \o (v \o w)
  <2>1. Associates(T)
    BY AnyConcatAssociates, Zenon
  <2> QED BY <2>1, Zenon DEF Associates
<1>1. PICK f \in [0 .. N -> Seq(T)] : Gathers(f, ss) /\ FlattenSeq(ss) = f[N]
  BY FlattenSteps
<1>2. PICK g \in [0 .. N -> Seq(T)] : Gathers(g, tt) /\ FlattenSeq(tt) = g[N]
  <2>1. \E g \in [0 .. Len(tt) -> Seq(T)] : Gathers(g, tt) /\ FlattenSeq(tt) = g[Len(tt)]
    BY FlattenSteps
  <2> QED BY <1>0, <2>1, Zenon
<1> DEFINE S == {n \in 0 .. N : (n < c => g[n] = <<>>) /\ \E x \in Seq(T) : f[n] = x \o g[n]}
<1>3. 0 \in S
  <2>1. f[0] = <<>> /\ g[0] = <<>> /\ 0 \in 0 .. N
    BY <1>0, <1>1, <1>2 DEF Gathers
  <2> QED BY <1>0, <2>1
<1>4. ASSUME NEW n \in 1 .. N, n - 1 \in S PROVE n \in S
  <2>0. n \in 0 .. N
    OBVIOUS
  <2>1. f[n] = f[n - 1] \o ss[n] /\ g[n] = g[n - 1] \o tt[n]
    <3>1. Gathers(f, ss) /\ Gathers(g, tt) /\ n \in 1 .. Len(ss) /\ n \in 1 .. Len(tt)
      BY <1>0, <1>1, <1>2
    <3> QED BY <3>1, GatherAt, ZenonT(40)
  <2>2. f[n] \in Seq(T) /\ g[n - 1] \in Seq(T) /\ ss[n] \in Seq(T)
    <3>1. n - 1 \in 0 .. N /\ n \in 0 .. N
      OBVIOUS
    <3> QED BY <1>0, <3>1
  <2>3. PICK x \in Seq(T) : f[n - 1] = x \o g[n - 1]
    BY <1>4
  <2>4. CASE n < c
    <3>1. tt[n] = <<>> /\ g[n - 1] = <<>>
      <4>1. n - 1 < c
        BY <2>4
      <4> QED BY <1>a, <1>4, <2>4, <4>1
    <3>2. g[n] = <<>>
      BY <1>0, <2>1, <3>1, Zenon
    <3>3. f[n] = f[n] \o g[n]
      BY <1>0, <2>2, <3>2
    <3> QED BY <2>2, <2>0, <3>2, <3>3, Zenon
  <2>5. CASE ~(n < c)
    <3>1. tt[n] = ss[n]
      BY <1>b, <2>5
    <3>2. (x \o g[n - 1]) \o ss[n] = x \o (g[n - 1] \o ss[n])
      BY <1>d, <2>2
    <3>3. f[n] = x \o g[n]
      BY <2>1, <2>3, <3>1, <3>2, Zenon
    <3> QED BY <2>0, <2>5, <3>3, Zenon
  <2> QED BY <2>4, <2>5
<1>5. \A n \in 1 .. N : n - 1 \in S => n \in S
  BY <1>4
<1> HIDE DEF N
<1>6. \A n \in 0 .. N : n \in S
  <2> HIDE DEF S
  <2> QED BY <1>0, <1>3, <1>5, InductionTo, Zenon
<1>7. N \in 0 .. N
  BY <1>0
<1> QED BY <1>1, <1>2, <1>6, <1>7

\* What is left without a part at the front.
LEMMA FrontDropped ==
  ASSUME NEW T, NEW x \in Seq(T), NEW y \in Seq(T)
  PROVE  Len(x) \in 0 .. Len(x \o y) /\ SubSeq(x \o y, Len(x) + 1, Len(x \o y)) = y
<1>1. Len(x \o y) = Len(x) + Len(y) /\ x \o y \in Seq(T) /\ Len(x) \in Nat /\ Len(y) \in Nat
  OBVIOUS
<1> DEFINE z == SubSeq(x \o y, Len(x) + 1, Len(x \o y))
<1>2. z \in Seq(T) /\ Len(z) = Len(y) /\ \A i \in 1 .. Len(z) : z[i] = y[i]
  BY <1>1
<1> HIDE DEF z
<1>3. z = y
  BY <1>2, SameSeq
<1> QED BY <1>1, <1>3 DEF z

\* The parts of a concatenation.
LEMMA ConcatParts ==
  ASSUME NEW T, NEW s \in Seq(T), NEW t \in Seq(T)
  PROVE  /\ s \o t \in Seq(T) /\ Len(s \o t) = Len(s) + Len(t)
         /\ Len(s) \in Nat /\ Len(t) \in Nat
         /\ \A i \in 1 .. Len(s) : (s \o t)[i] = s[i]
         /\ \A i \in 1 .. Len(t) : (s \o t)[Len(s) + i] = t[i]
OBVIOUS

\* What is a concatenation, cell by cell.
LEMMA SameConcat ==
  ASSUME NEW T, NEW s \in Seq(T), NEW t \in Seq(T), NEW u \in Seq(T),
         Len(u) = Len(s) + Len(t), \A i \in 1 .. Len(s) : u[i] = s[i],
         \A i \in 1 .. Len(t) : u[Len(s) + i] = t[i]
  PROVE  u = s \o t
<1> DEFINE v == s \o t
<1>1. /\ v \in Seq(T) /\ Len(v) = Len(s) + Len(t)
      /\ Len(s) \in Nat /\ Len(t) \in Nat
      /\ \A i \in 1 .. Len(s) : v[i] = s[i]
      /\ \A i \in 1 .. Len(t) : v[Len(s) + i] = t[i]
  BY ConcatParts
<1> HIDE DEF v
<1>2. ASSUME NEW i \in 1 .. Len(u) PROVE u[i] = v[i]
  <2>1. CASE i <= Len(s)
    BY <1>1, <2>1
  <2>2. CASE i > Len(s)
    <3>1. PICK j \in 1 .. Len(t) : i = Len(s) + j
      <4>1. i - Len(s) \in 1 .. Len(t) /\ i = Len(s) + (i - Len(s))
        BY <1>1, <2>2
      <4> QED BY <4>1
    <3> QED BY <1>1, <3>1
  <2> QED BY <1>1, <2>1, <2>2
<1>3. \A i \in 1 .. Len(u) : u[i] = v[i]
  BY <1>2
<1>4. u = v
  BY <1>1, <1>3, SameSeq
<1> QED BY <1>4 DEF v

-----------------------------------------------------------------------------
(* The points whose records are complete.                                    *)

\* What each cell adds: the point, if it is the last cell of its record.
CellIds(cells) ==
  [i \in DOMAIN cells |-> IF cells[i].part = Parts THEN <<cells[i].rec.id>> ELSE <<>>]

\* What Complete flattens.
LEMMA CompleteIs == \A s : Complete(s) = FlattenSeq(CellIds(s))
BY DEF Complete, CellIds

\* Every cell gives the number of the record it completes, or nothing.
LEMMA CellIdsType ==
  ASSUME NEW s \in Seq(Cell)
  PROVE  /\ CellIds(s) \in Seq(Seq(Nat)) /\ Len(CellIds(s)) = Len(s)
         /\ \A i \in 1 .. Len(s) :
              CellIds(s)[i] = IF s[i].part = Parts THEN <<s[i].rec.id>> ELSE <<>>
<1>1. DOMAIN s = 1 .. Len(s) /\ Len(s) \in Nat /\ \A i \in 1 .. Len(s) : s[i] \in Cell
  OBVIOUS
<1>2. \A i \in 1 .. Len(s) : s[i].rec.id \in Nat
  BY <1>1 DEF Cell
<1> DEFINE v(i) == IF s[i].part = Parts THEN <<s[i].rec.id>> ELSE <<>>
<1>3. \A i \in 1 .. Len(s) : v(i) \in Seq(Nat)
  <2>1. \A n \in Nat : <<n>> \in Seq(Nat)
    OBVIOUS
  <2>2. <<>> \in Seq(Nat)
    OBVIOUS
  <2> QED BY <1>2, <2>1, <2>2, Zenon
<1>4. CellIds(s) = [i \in 1 .. Len(s) |-> v(i)]
  BY <1>1, Zenon DEF CellIds
<1> HIDE DEF v
<1>5. CellIds(s) \in Seq(Seq(Nat)) /\ Len(CellIds(s)) = Len(s)
  BY <1>1, <1>3, <1>4
<1> QED BY <1>4, <1>5 DEF v

\* The points that are complete have numbers.
LEMMA CompleteType == \A s \in Seq(Cell) : Complete(s) \in Seq(Nat)
BY CompleteIs, CellIdsType, FlattenType

\* No cells complete nothing.
LEMMA CompleteNothing == Complete(<<>>) = <<>>
<1>1. <<>> \in Seq(Cell)
  OBVIOUS
<1> DEFINE e == CellIds(<<>>)
<1>2. e \in Seq(Seq(Nat)) /\ Len(e) = 0
  BY <1>1, CellIdsType
<1> HIDE DEF e
<1>3. \A i \in 1 .. Len(e) : e[i] = <<>>
  BY <1>2
<1>4. FlattenSeq(e) = <<>>
  BY <1>2, <1>3, FlattenNothing
<1> QED BY <1>4, CompleteIs DEF e

\* What is complete in a concatenation is complete in its parts.
LEMMA CompleteConcat ==
  ASSUME NEW s \in Seq(Cell), NEW t \in Seq(Cell)
  PROVE  Complete(s \o t) = Complete(s) \o Complete(t)
<1> DEFINE a == CellIds(s)
           b == CellIds(t)
           c == CellIds(s \o t)
<1>1. /\ s \o t \in Seq(Cell) /\ Len(s \o t) = Len(s) + Len(t)
      /\ Len(s) \in Nat /\ Len(t) \in Nat
      /\ \A i \in 1 .. Len(s) : (s \o t)[i] = s[i]
      /\ \A i \in 1 .. Len(t) : (s \o t)[Len(s) + i] = t[i]
  BY ConcatParts
<1>2. /\ a \in Seq(Seq(Nat)) /\ Len(a) = Len(s)
      /\ \A i \in 1 .. Len(s) : a[i] = IF s[i].part = Parts THEN <<s[i].rec.id>> ELSE <<>>
  BY CellIdsType
<1>3. /\ b \in Seq(Seq(Nat)) /\ Len(b) = Len(t)
      /\ \A i \in 1 .. Len(t) : b[i] = IF t[i].part = Parts THEN <<t[i].rec.id>> ELSE <<>>
  BY CellIdsType
<1>4. /\ c \in Seq(Seq(Nat)) /\ Len(c) = Len(s) + Len(t)
      /\ \A i \in 1 .. Len(s \o t) :
           c[i] = IF (s \o t)[i].part = Parts THEN <<(s \o t)[i].rec.id>> ELSE <<>>
  BY <1>1, CellIdsType
<1>5. \A i \in 1 .. Len(a) : c[i] = a[i]
  <2> HIDE DEF a, b, c
  <2> SUFFICES ASSUME NEW i \in 1 .. Len(s) PROVE c[i] = a[i]
    BY <1>2
  <2>1. (s \o t)[i] = s[i] /\ i \in 1 .. Len(s \o t)
    BY <1>1
  <2> QED BY <1>2, <1>4, <2>1, Zenon
<1>6. \A i \in 1 .. Len(b) : c[Len(a) + i] = b[i]
  <2> HIDE DEF a, b, c
  <2> SUFFICES ASSUME NEW i \in 1 .. Len(t) PROVE c[Len(s) + i] = b[i]
    BY <1>2, <1>3
  <2>1. (s \o t)[Len(s) + i] = t[i] /\ Len(s) + i \in 1 .. Len(s \o t)
    BY <1>1
  <2> QED BY <1>3, <1>4, <2>1, Zenon
<1> HIDE DEF a, b, c
<1>7. c = a \o b
  <2>1. a \in Seq(Seq(Nat)) /\ b \in Seq(Seq(Nat)) /\ c \in Seq(Seq(Nat))
    BY <1>2, <1>3, <1>4
  <2>2. Len(c) = Len(a) + Len(b)
    BY <1>2, <1>3, <1>4
  <2> QED BY <1>5, <1>6, <2>1, <2>2, SameConcat
<1>8. FlattenSeq(a \o b) = FlattenSeq(a) \o FlattenSeq(b)
  BY <1>2, <1>3, FlattenConcat
<1> QED BY <1>7, <1>8, CompleteIs DEF a, b, c

\* The cells of a record complete it.
LEMMA CompleteCells ==
  ASSUME NEW rec \in [id : Nat, off : Nat, len : Nat]
  PROVE  Cells(rec) \in Seq(Cell) /\ Len(Cells(rec)) = Parts /\ Complete(Cells(rec)) = <<rec.id>>
<1> DEFINE a == CellIds(Cells(rec))
           b == [i \in 1 .. Parts - 1 |-> <<>>]
           one == <<rec.id>>
           c == <<one>>
<1>1. /\ Cells(rec) \in Seq(Cell) /\ Len(Cells(rec)) = Parts
      /\ \A i \in 1 .. Parts : Cells(rec)[i].part = i /\ Cells(rec)[i].rec = rec
  <2>1. \A i \in 1 .. Parts : [rec |-> rec, part |-> i] \in Cell
    BY DEF Cell
  <2> QED BY <2>1 DEF Cells
<1>2. /\ a \in Seq(Seq(Nat)) /\ Len(a) = Parts
      /\ \A i \in 1 .. Parts :
           a[i] = IF Cells(rec)[i].part = Parts THEN <<Cells(rec)[i].rec.id>> ELSE <<>>
  BY <1>1, CellIdsType
<1>3. a[Parts] = one /\ \A i \in 1 .. Parts - 1 : a[i] = <<>>
  <2>1. a[Parts] = <<Cells(rec)[Parts].rec.id>>
    BY <1>1, <1>2
  <2>2. ASSUME NEW i \in 1 .. Parts - 1 PROVE a[i] = <<>>
    BY <1>1, <1>2
  <2> QED BY <1>1, <2>1, <2>2
<1> HIDE DEF a
<1>4. b \in Seq(Seq(Nat)) /\ Len(b) = Parts - 1 /\ \A i \in 1 .. Parts - 1 : b[i] = <<>>
  <2>1. <<>> \in Seq(Nat)
    OBVIOUS
  <2> QED BY <2>1
<1>5. c \in Seq(Seq(Nat)) /\ Len(c) = 1 /\ c[1] = one /\ one \in Seq(Nat)
  OBVIOUS
<1> HIDE DEF b, c, one
<1>8. a = b \o c
  <2>1. Parts - 1 + 1 = Parts /\ Parts \in Nat
    OBVIOUS
  <2>2. Len(a) = Len(b) + Len(c)
    BY <1>2, <1>4, <1>5, <2>1
  <2>3. \A i \in 1 .. Len(b) : a[i] = b[i]
    BY <1>3, <1>4
  <2>4. \A i \in 1 .. Len(c) : a[Len(b) + i] = c[i]
    <3>1. \A i \in 1 .. Len(c) : i = 1
      BY <1>5
    <3> QED BY <1>3, <1>4, <1>5, <2>1, <3>1
  <2> QED BY <1>2, <1>4, <1>5, <2>2, <2>3, <2>4, SameConcat, ZenonT(40)
<1>9. FlattenSeq(b \o c) = FlattenSeq(b) \o FlattenSeq(c)
  BY <1>4, <1>5, FlattenConcat
<1>10. FlattenSeq(b) = <<>>
  <2>1. \A i \in 1 .. Len(b) : b[i] = <<>>
    BY <1>4
  <2> QED BY <1>4, <2>1, FlattenNothing
<1>11. FlattenSeq(c) = one
  BY <1>5, FlattenOne DEF c
<1>12. <<>> \o one = one
  BY <1>5
<1>13. FlattenSeq(a) = one
  BY <1>8, <1>9, <1>10, <1>11, <1>12, Zenon
<1> QED BY <1>1, <1>13, CompleteIs DEF a, one

\* The two parts of a buffer.
LEMMA PartsOfBuffer ==
  ASSUME NEW T, NEW s \in Seq(T), NEW k \in 0 .. Len(s)
  PROVE  /\ SubSeq(s, 1, k) \in Seq(T) /\ Drop(s, k) \in Seq(T)
         /\ SubSeq(s, 1, k) \o Drop(s, k) = s
<1> DEFINE a == SubSeq(s, 1, k)
           b == Drop(s, k)
<1>1. a \in Seq(T) /\ b \in Seq(T)
  BY PartOf
<1>2. Len(a) = k /\ \A i \in 1 .. k : a[i] = s[i]
  OBVIOUS
<1>3. Len(b) = Len(s) - k /\ \A i \in 1 .. Len(s) - k : b[i] = s[k + i]
  BY DEF Drop
<1> HIDE DEF a, b
<1>4. Len(s) \in Nat /\ k \in Nat /\ Len(s) = Len(a) + Len(b)
  BY <1>2, <1>3
<1>5. \A i \in 1 .. Len(a) : s[i] = a[i]
  BY <1>2
<1>6. \A i \in 1 .. Len(b) : s[Len(a) + i] = b[i]
  BY <1>2, <1>3
<1>7. s = a \o b
  BY <1>1, <1>4, <1>5, <1>6, SameConcat
<1> QED BY <1>1, <1>7 DEF a, b

\* The points that are complete in a buffer are complete in its two parts.
LEMMA CompleteSplit ==
  ASSUME NEW s \in Seq(Cell), NEW k \in 0 .. Len(s)
  PROVE  /\ SubSeq(s, 1, k) \in Seq(Cell) /\ Drop(s, k) \in Seq(Cell)
         /\ SubSeq(s, 1, k) \o Drop(s, k) = s
         /\ Complete(s) = Complete(SubSeq(s, 1, k)) \o Complete(Drop(s, k))
<1> DEFINE a == SubSeq(s, 1, k)
           b == Drop(s, k)
<1>1. a \in Seq(Cell) /\ b \in Seq(Cell) /\ a \o b = s
  BY PartsOfBuffer
<1> HIDE DEF a, b
<1>2. Complete(a \o b) = Complete(a) \o Complete(b)
  BY <1>1, CompleteConcat
<1> QED BY <1>1, <1>2 DEF a, b

\* A concatenation taken apart again.
LEMMA ConcatSplits ==
  ASSUME NEW T, NEW a \in Seq(T), NEW b \in Seq(T)
  PROVE  /\ Len(a) \in 0 .. Len(a \o b)
         /\ SubSeq(a \o b, 1, Len(a)) = a
         /\ SubSeq(a \o b, Len(a) + 1, Len(a \o b)) = b
<1>1. Len(a) \in 0 .. Len(a \o b) /\ SubSeq(a \o b, Len(a) + 1, Len(a \o b)) = b
  BY FrontDropped
<1> DEFINE c == SubSeq(a \o b, 1, Len(a))
<1>2. c \in Seq(T) /\ Len(c) = Len(a) /\ \A i \in 1 .. Len(c) : c[i] = a[i]
  OBVIOUS
<1> HIDE DEF c
<1>3. c = a
  BY <1>2, SameSeq
<1> QED BY <1>1, <1>3 DEF c

\* The points of each day.
OnDays(f) == [d \in Days |-> Complete(f[d])]
Stored(f) == FlattenSeq(OnDays(f))

\* The complete points of all days.
LEMMA OnDaysType ==
  ASSUME NEW f \in [Days -> Seq(Cell)]
  PROVE  /\ OnDays(f) \in Seq(Seq(Nat)) /\ Len(OnDays(f)) = MaxDay
         /\ \A d \in 1 .. MaxDay : OnDays(f)[d] = Complete(f[d])
         /\ Stored(f) \in Seq(Nat)
<1>1. \A d \in Days : Complete(f[d]) \in Seq(Nat)
  BY CompleteType
<1>2. OnDays(f) = [d \in 1 .. MaxDay |-> Complete(f[d])]
  BY DEF OnDays
<1>3. OnDays(f) \in Seq(Seq(Nat)) /\ Len(OnDays(f)) = MaxDay
  BY <1>1, <1>2
<1>4. \A d \in 1 .. MaxDay : OnDays(f)[d] = Complete(f[d])
  BY <1>2
<1> QED BY <1>3, <1>4, FlattenType DEF Stored

\* What is written to the last day that has anything goes to the end.
LEMMA StoredGrows ==
  ASSUME NEW f \in [Days -> Seq(Cell)], NEW e \in Days, NEW x \in Seq(Cell),
         \A d \in Days : d > e => f[d] = <<>>
  PROVE  Stored([f EXCEPT ![e] = @ \o x]) = Stored(f) \o Complete(x)
<1> DEFINE g == [f EXCEPT ![e] = @ \o x]
           s == OnDays(f)
           t == OnDays(g)
           c == Complete(x)
<1>1. g \in [Days -> Seq(Cell)] /\ g[e] = f[e] \o x /\ \A d \in Days : d # e => g[d] = f[d]
  OBVIOUS
<1> HIDE DEF g
<1>2. /\ s \in Seq(Seq(Nat)) /\ Len(s) = MaxDay /\ c \in Seq(Nat)
      /\ \A d \in 1 .. MaxDay : s[d] = Complete(f[d])
  BY OnDaysType, CompleteType
<1>3. /\ t \in Seq(Seq(Nat)) /\ Len(t) = MaxDay
      /\ \A d \in 1 .. MaxDay : t[d] = Complete(g[d])
  BY <1>1, OnDaysType
<1>4. Complete(g[e]) = Complete(f[e]) \o c
  BY <1>1, CompleteConcat
<1> HIDE DEF s, t, c
<1>5. GrowsAt(t, s, e, c)
  <2>1. t[e] = s[e] \o c
    BY <1>2, <1>3, <1>4
  <2>2. \A i \in 1 .. Len(s) : i # e => t[i] = s[i]
    BY <1>1, <1>2, <1>3
  <2>3. \A i \in 1 .. Len(s) : i > e => s[i] = <<>>
    BY <1>2, CompleteNothing
  <2> QED BY <1>2, <1>3, <2>1, <2>2, <2>3 DEF GrowsAt
<1>6. FlattenSeq(t) = FlattenSeq(s) \o c
  <2>1. e \in 1 .. Len(s)
    BY <1>2
  <2> QED BY <1>2, <1>3, <1>5, <2>1, FlattenGrows, SMTT(30)
<1> QED BY <1>6 DEF Stored, g, s, t, c

\* The sweep takes the oldest.
LEMMA StoredSwept ==
  ASSUME NEW f \in [Days -> Seq(Cell)], NEW d \in Int, NEW keep \in Int
  PROVE  \E x \in Seq(Nat) :
           Stored(f) = x \o Stored([s \in Days |-> IF s \in Stale(d, keep) THEN <<>> ELSE f[s]])
<1> DEFINE g == [s \in Days |-> IF s \in Stale(d, keep) THEN <<>> ELSE f[s]]
           s == OnDays(f)
           t == OnDays(g)
           c == d - keep
<1>0. <<>> \in Seq(Cell)
  OBVIOUS
<1>1. /\ g \in [Days -> Seq(Cell)]
      /\ \A i \in Days : i < c => g[i] = <<>>
      /\ \A i \in Days : ~(i < c) => g[i] = f[i]
  BY <1>0 DEF Stale
<1> HIDE DEF g
<1>2. /\ s \in Seq(Seq(Nat)) /\ Len(s) = MaxDay
      /\ \A i \in 1 .. MaxDay : s[i] = Complete(f[i])
  BY OnDaysType
<1>3. /\ t \in Seq(Seq(Nat)) /\ Len(t) = MaxDay
      /\ \A i \in 1 .. MaxDay : t[i] = Complete(g[i])
  BY <1>1, OnDaysType
<1> HIDE DEF s, t
<1>4. SweptTo(t, s, c)
  <2>1. \A i \in 1 .. Len(s) : i < c => t[i] = <<>>
    BY <1>1, <1>2, <1>3, CompleteNothing
  <2>2. \A i \in 1 .. Len(s) : ~(i < c) => t[i] = s[i]
    BY <1>1, <1>2, <1>3
  <2> QED BY <1>2, <1>3, <2>1, <2>2 DEF SweptTo
<1>5. c \in Int
  OBVIOUS
<1> HIDE DEF c
<1>6. \E x \in Seq(Nat) : FlattenSeq(s) = x \o FlattenSeq(t)
  BY <1>2, <1>3, <1>4, <1>5, FlattenSwept
<1> QED BY <1>6 DEF Stored, g, s, t

-----------------------------------------------------------------------------
\* Nothing is on a day after the writer's, and a rotation does not go back to one.
LateInv ==
  /\ \A e \in Days : e > datDay => dat[e] = <<>>
  /\ Rotating => datDay <= point.day

\* Days after the writer's stay empty: a rotation goes forward, and it opens the new file
\* before anything is written to it.
LEMMA LateInvStep == ASSUME StoreInv, LateInv, [Next]_vars PROVE LateInv'
<1>0. /\ datDay \in Days /\ today \in Days /\ point.day \in Days /\ datDay <= today
      /\ dat \in [Days -> Seq(Cell)] /\ <<>> \in Seq(Cell)
  BY DEF StoreInv, FileType, Calendar
<1>1. ASSUME NEW x, dat' = [dat EXCEPT ![datDay] = @ \o x], datDay' = datDay
      PROVE  \A e \in Days : e > datDay' => dat'[e] = <<>>
  BY <1>0, <1>1 DEF LateInv
<1>2. \A e \in Days : e > datDay' => dat'[e] = <<>>
  <2>1. CASE Open
    BY <1>0, <2>1 DEF Open, SweepAt, LateInv
  <2>2. CASE OpenDat
    BY <1>0, <2>2 DEF OpenDat, LateInv, Rotating
  <2>3. CASE OpenBlob
    BY <1>0, <2>3 DEF OpenBlob, SweepAt, LateInv
  <2>4. CASE Kill
    BY <1>1, <2>4 DEF Kill
  <2>5. CASE WriteDat
    BY <1>1, <2>5 DEF WriteDat
  <2>6. CASE FlushDat
    BY <1>1, <2>6 DEF FlushDat
  <2>7. CASE WriteDatFails
    BY <1>1, <2>7 DEF WriteDatFails
  <2>8. CASE FlushDatFails
    BY <1>1, <2>8 DEF FlushDatFails
  <2>9. CASE UNCHANGED <<dat, datDay>>
    BY <2>9 DEF LateInv
  <2> QED
    BY <2>1, <2>2, <2>3, <2>4, <2>5, <2>6, <2>7, <2>8, <2>9 DEF Next, Writing, Flushing, Failing,
       Midnight, AppendPoint, WriteBlob, Flush, FlushBlob, OpenFails, WriteBlobFails,
       FlushBlobFails, vars
<1>3. Rotating' => datDay' <= point.day'
  <2>1. ASSUME NEW len \in BlobLens, AppendPoint(len) PROVE datDay' <= point.day'
    BY <1>0, <2>1 DEF AppendPoint
  <2>2. CASE Open \/ Midnight \/ UNCHANGED vars \/ Flush \/ FlushDat
    BY <2>2 DEF Open, Midnight, vars, Flush, FlushDat, LateInv, Rotating
  <2>3. CASE OpenDat \/ OpenBlob
    BY <1>0, <2>3 DEF OpenDat, OpenBlob, LateInv, Rotating
  <2>5. CASE WriteBlob \/ WriteDat \/ Kill \/ OpenFails \/ WriteBlobFails \/ WriteDatFails
    <3>1. pc' \in {"dat", "idle", "closed"}
      BY <2>5 DEF WriteBlob, WriteDat, Kill, OpenFails, WriteBlobFails, WriteDatFails, Return
    <3> QED BY <3>1 DEF Rotating
  <2>6. CASE FlushBlob
    <3>1. pc = "flushBlob" /\ pc' = next /\ UNCHANGED <<point, datDay>>
      BY <2>6 DEF FlushBlob
    <3>2. next = "openDat" \/ pc' \in {"idle", "closed"}
      BY <3>1 DEF StoreInv, Control
    <3> QED BY <3>1, <3>2 DEF LateInv, Rotating
  <2>4. CASE FlushDatFails \/ FlushBlobFails
    BY <2>4 DEF FlushDatFails, FlushBlobFails, LateInv, Rotating, Return
  <2> QED BY <2>1, <2>2, <2>3, <2>4, <2>5, <2>6 DEF Next, Writing, Flushing, Failing
<1> QED BY <1>2, <1>3 DEF LateInv

-----------------------------------------------------------------------------
(* What the steps are in the log.                                            *)

Buffered == Complete(datBuf)
LogStep == [Log!LogNext]_<<Stored(dat), Buffered>>

\* The variables of the log.
LEMMA LogIs ==
  /\ Stored(dat) = FlattenSeq([d \in Days |-> Complete(dat[d])])
  /\ Buffered = Complete(datBuf)
BY DEF Stored, OnDays, Buffered

\* Part of what was buffered reaches the file.
LEMMA Syncs ==
  ASSUME StoreInv, LateInv, NEW x \in Seq(Cell), NEW y \in Seq(Cell), datBuf = x \o y,
         dat' = [dat EXCEPT ![datDay] = @ \o x], datBuf' = y
  PROVE  LogStep
<1> DEFINE a == Complete(x)
           b == Complete(y)
<1>1. dat \in [Days -> Seq(Cell)] /\ datDay \in Days /\ \A e \in Days : e > datDay => dat[e] = <<>>
  BY DEF StoreInv, FileType, LateInv
<1>2. a \in Seq(Nat) /\ b \in Seq(Nat) /\ Stored(dat) \in Seq(Nat)
  BY <1>1, CompleteType, OnDaysType
<1>3. Stored(dat)' = Stored(dat) \o a
  BY <1>1, StoredGrows
<1>4. Buffered = a \o b /\ Buffered' = b
  BY CompleteConcat DEF Buffered
<1> HIDE DEF a, b
<1>5. CASE a = <<>>
  BY <1>2, <1>3, <1>4, <1>5 DEF LogStep
<1>6. CASE a # <<>>
  <2> DEFINE n == Len(a)
             all == Buffered \o <<>>
  <2>1. all = a \o b /\ Buffered = a \o b
    BY <1>2, <1>4
  <2>2. n \in 0 .. Len(a \o b) /\ SubSeq(a \o b, 1, n) = a /\ SubSeq(a \o b, n + 1, Len(a \o b)) = b
    BY <1>2, ConcatSplits
  <2>3. n # 0
    BY <1>2, <1>6
  <2>4. n \in 1 .. Len(Buffered)
    BY <2>1, <2>2, <2>3
  <2>5. Log!Write(<<>>, n)
    BY <1>3, <1>4, <2>1, <2>2 DEF Log!Write, Stored, OnDays, Buffered
  <2>6. Log!Sync
    BY <2>4, <2>5 DEF Log!Sync, Buffered
  <2> QED BY <2>6 DEF LogStep, Log!LogNext
<1> QED BY <1>5, <1>6

\* The process ends, or Drop gives up, when part of what was buffered has reached the
\* file.
LEMMA Crashes ==
  ASSUME StoreInv, LateInv, NEW k \in 0 .. Len(datBuf),
         dat' = [dat EXCEPT ![datDay] = @ \o SubSeq(datBuf, 1, k)], datBuf' = <<>>
  PROVE  LogStep
<1> DEFINE x == SubSeq(datBuf, 1, k)
           a == Complete(x)
           b == Complete(Drop(datBuf, k))
<1>1. /\ dat \in [Days -> Seq(Cell)] /\ datDay \in Days /\ \A e \in Days : e > datDay => dat[e] = <<>>
      /\ datBuf \in Seq(Cell)
  BY DEF StoreInv, FileType, LateInv
<1>2. x \in Seq(Cell) /\ Drop(datBuf, k) \in Seq(Cell) /\ Buffered = a \o b
  BY <1>1, CompleteSplit DEF Buffered
<1>3. a \in Seq(Nat) /\ b \in Seq(Nat)
  BY <1>2, CompleteType
<1>4. Stored(dat)' = Stored(dat) \o a
  BY <1>1, <1>2, StoredGrows
<1>5. Buffered' = <<>>
  BY CompleteNothing DEF Buffered
<1> DEFINE n == Len(a)
<1> HIDE DEF a, b, x
<1>6. n \in 0 .. Len(a \o b) /\ SubSeq(a \o b, 1, n) = a
  BY <1>3, ConcatSplits
<1>7. Log!Crash(n) /\ n \in 0 .. Len(Buffered)
  BY <1>2, <1>4, <1>5, <1>6 DEF Log!Crash, Stored, OnDays, Buffered
<1> QED BY <1>7 DEF LogStep, Log!LogNext, Buffered

\* A header is accepted.
LEMMA Accepts == ASSUME StoreInv, LateInv, WriteDat PROVE LogStep
<1> DEFINE x == ToFile(datBuf, Header, DatCap)
           y == ToBuffer(datBuf, Header, DatCap)
           a == Complete(x)
           b == Complete(y)
           p == <<point.id>>
<1>1. /\ dat \in [Days -> Seq(Cell)] /\ datDay \in Days /\ \A e \in Days : e > datDay => dat[e] = <<>>
      /\ datBuf \in Seq(Cell)
  BY DEF StoreInv, FileType, LateInv
<1>2. dat' = [dat EXCEPT ![datDay] = @ \o x] /\ datBuf' = y
  BY DEF WriteDat
<1>3. Header \in Seq(Cell) /\ Complete(Header) = p
  <2>1. [id |-> point.id, off |-> off, len |-> point.len] \in [id : Nat, off : Nat, len : Nat]
    BY DEF StoreInv, FileType
  <2> QED BY <2>1, CompleteCells DEF Header
<1>4. x \in Seq(Cell) /\ y \in Seq(Cell) /\ x \o y = datBuf \o Header
  <2>1. \A s \in Seq(Cell) : <<>> \o s = s /\ s \o <<>> = s
    OBVIOUS
  <2>2. datBuf \o Header \in Seq(Cell)
    BY <1>1, <1>3, ConcatParts
  <2>3. x \in Seq(Cell) /\ y \in Seq(Cell)
    BY <1>1, <1>3, BufferType
  <2> QED BY <1>1, <1>3, <2>1, <2>2, <2>3, Zenon DEF ToFile, ToBuffer
<1>5. /\ Complete(x \o y) = a \o b
      /\ Complete(datBuf \o Header) = Buffered \o p
  BY <1>1, <1>3, <1>4, CompleteConcat DEF Buffered
<1> HIDE DEF x, y
<1>6. a \in Seq(Nat) /\ b \in Seq(Nat) /\ Buffered \in Seq(Nat) /\ p \in Seq(Nat) /\ Len(p) = 1
  <2>1. Buffered \in Seq(Nat)
    BY <1>1, CompleteType DEF Buffered
  <2>2. p \in Seq(Nat) /\ Len(p) = 1
    BY DEF StoreInv, FileType
  <2> QED BY <1>4, <2>1, <2>2, CompleteType
<1>7. Stored(dat)' = Stored(dat) \o a
  BY <1>1, <1>2, <1>4, StoredGrows
<1>8. Buffered' = b
  BY <1>2 DEF Buffered
<1>9. point.id \in 1 .. MaxRecs
  <2>1. pc = "dat"
    BY DEF WriteDat
  <2>2. issued \in 0 .. MaxRecs /\ point.id \in 0 .. issued /\ point.id # 0
    BY <2>1 DEF StoreInv, Control
  <2> QED BY <2>2
<1> DEFINE n == Len(a)
           all == Buffered \o p
<1> HIDE DEF a, b
<1>10. all = a \o b
  BY <1>4, <1>5
<1>11. n \in 0 .. Len(a \o b) /\ SubSeq(a \o b, 1, n) = a /\ SubSeq(a \o b, n + 1, Len(a \o b)) = b
  BY <1>6, ConcatSplits
<1>12. Len(all) = Len(Buffered) + 1
  BY <1>6, ConcatParts
<1> HIDE DEF p
<1>13. Log!Write(p, n) /\ n \in 0 .. Len(Buffered) + 1
  BY <1>7, <1>8, <1>10, <1>11, <1>12 DEF Log!Write, Stored, OnDays, Buffered
<1>14. Log!Accept(point.id)
  BY <1>13 DEF Log!Accept, Buffered, p
<1> QED BY <1>9, <1>14 DEF LogStep, Log!LogNext

\* A sweep.
LEMMA Expires ==
  ASSUME StoreInv, LateInv, NEW d \in Days, SweepAt(d, Retention), datBuf = <<>>, datBuf' = <<>>
  PROVE  LogStep
<1>1. dat \in [Days -> Seq(Cell)] /\ dat' \in [Days -> Seq(Cell)]
  <2>1. <<>> \in Seq(Cell)
    OBVIOUS
  <2> QED BY <2>1 DEF StoreInv, FileType, SweepAt
<1>2. PICK x \in Seq(Nat) : Stored(dat) = x \o Stored(dat)'
  <2>1. dat' = [s \in Days |-> IF s \in Stale(d, Retention) THEN <<>> ELSE dat[s]]
    BY DEF SweepAt
  <2>2. d \in Int /\ Retention \in Int
    OBVIOUS
  <2>3. \E x \in Seq(Nat) : Stored(dat) = x \o Stored(
          [s \in Days |-> IF s \in Stale(d, Retention) THEN <<>> ELSE dat[s]])
    BY <1>1, <2>2, StoredSwept
  <2>4. \E x \in Seq(Nat) : Stored(dat) = x \o Stored(dat')
    BY <2>1, <2>3, Zenon
  <2> QED BY <2>4
<1>3. Stored(dat) \in Seq(Nat) /\ Stored(dat)' \in Seq(Nat)
  BY <1>1, OnDaysType
<1>4. Buffered' = Buffered
  BY DEF Buffered
<1> DEFINE n == Len(x)
           t == Stored(dat)'
<1>5. n \in 0 .. Len(x \o t) /\ SubSeq(x \o t, n + 1, Len(x \o t)) = t
  BY <1>3, FrontDropped
<1>6. CASE x = <<>>
  BY <1>2, <1>3, <1>4, <1>6 DEF LogStep
<1>7. CASE x # <<>>
  <2>1. n # 0
    BY <1>7
  <2> HIDE DEF n
  <2>2. n \in 1 .. Len(Stored(dat))
    BY <1>2, <1>5, <2>1
  <2>3. Log!Expire(n)
    BY <1>2, <1>4, <1>5 DEF Log!Expire, Stored, OnDays, Buffered
  <2> QED BY <2>2, <2>3 DEF LogStep, Log!LogNext, Stored, OnDays
<1> QED BY <1>6, <1>7

\* Every step of the store is a step of the log, or changes nothing of it.
LEMMA LogSteps == ASSUME StoreInv, LateInv, [Next]_vars PROVE LogStep
<1>0. datBuf \in Seq(Cell) /\ <<>> \in Seq(Cell) /\ datBuf \o <<>> = datBuf /\ Len(datBuf) \in Nat
  BY DEF StoreInv, FileType
<1>1. CASE Open
  BY <1>1, Expires DEF Open, StoreInv, Buffers, FileType
<1>2. CASE OpenDat
  BY <1>2 DEF OpenDat, StoreInv, Buffers, LogStep, Stored, OnDays, Buffered
<1>3. CASE OpenBlob
  BY <1>3, Expires DEF OpenBlob, StoreInv, Buffers, FileType
<1>4. CASE Kill
  <2>1. PICK k \in Torn(pc = "flushDat" \/ (pc = "dat" /\ Len(datBuf) + Parts > DatCap), datBuf) :
          dat' = [dat EXCEPT ![datDay] = @ \o SubSeq(datBuf, 1, k)]
    BY <1>4 DEF Kill
  <2>2. k \in 0 .. Len(datBuf)
    BY <1>0, <2>1 DEF Torn
  <2> QED BY <1>4, <2>1, <2>2, Crashes DEF Kill
<1>5. CASE WriteDat
  BY <1>5, Accepts
<1>6. CASE FlushDat
  BY <1>0, <1>6, Syncs DEF FlushDat
<1>7. ASSUME NEW k \in 0 .. Len(datBuf) - 1, datBuf' = Drop(datBuf, k),
             dat' = [dat EXCEPT ![datDay] = @ \o SubSeq(datBuf, 1, k)]
      PROVE  LogStep
  <2>1. k \in 0 .. Len(datBuf)
    BY <1>0
  <2>2. /\ SubSeq(datBuf, 1, k) \in Seq(Cell) /\ Drop(datBuf, k) \in Seq(Cell)
        /\ SubSeq(datBuf, 1, k) \o Drop(datBuf, k) = datBuf
    BY <1>0, <2>1, CompleteSplit
  <2> QED BY <1>7, <2>2, Syncs
<1>8. CASE WriteDatFails
  BY <1>7, <1>8 DEF WriteDatFails
<1>9. CASE FlushDatFails
  <2>1. PICK k \in 0 .. Len(datBuf) - 1 :
          /\ dat' = [dat EXCEPT ![datDay] = @ \o SubSeq(datBuf, 1, k)]
          /\ datBuf' = <<>> \/ datBuf' = Drop(datBuf, k)
    BY <1>9 DEF FlushDatFails
  <2>2. k \in 0 .. Len(datBuf)
    BY <1>0
  <2> QED BY <1>7, <2>1, <2>2, Crashes
<1>10. CASE UNCHANGED <<dat, datBuf>>
  BY <1>10 DEF LogStep, Stored, OnDays, Buffered
<1> QED
  BY <1>1, <1>2, <1>3, <1>4, <1>5, <1>6, <1>8, <1>9, <1>10 DEF Next, Writing, Flushing, Failing,
     Midnight, AppendPoint, WriteBlob, Flush, FlushBlob, OpenFails, WriteBlobFails,
     FlushBlobFails, vars

\* The store keeps what DurableLog promises.
THEOREM StoreIsDurableLog == Spec => ImplementsDurableLog
<1>1. Init => LateInv /\ Log!LogInit
  <2> SUFFICES ASSUME Init PROVE LateInv /\ Log!LogInit
    OBVIOUS
  <2>1. LateInv
    BY DEF Init, LateInv, Rotating
  <2>2. dat \in [Days -> Seq(Cell)] /\ \A d \in Days : dat[d] = <<>>
    BY FileTypeInit DEF FileType, Init
  <2>3. Stored(dat) = <<>>
    <3>1. OnDays(dat) \in Seq(Seq(Nat)) /\ \A d \in 1 .. Len(OnDays(dat)) : OnDays(dat)[d] = <<>>
      BY <2>2, OnDaysType, CompleteNothing
    <3> QED BY <3>1, FlattenNothing DEF Stored
  <2>4. Buffered = <<>>
    BY CompleteNothing DEF Init, Buffered
  <2> QED BY <2>1, <2>3, <2>4 DEF Log!LogInit, Stored, OnDays, Buffered
<1>2. StoreInv /\ LateInv /\ [Next]_vars => StoreInv' /\ LateInv' /\ LogStep
  BY StoreInvStep, LateInvStep, LogSteps
<1>3. StoreInv /\ LateInv /\ [Next]_vars
        => [Log!LogNext]_<<FlattenSeq([d \in Days |-> Complete(dat[d])]), Complete(datBuf)>>
  BY <1>2 DEF LogStep, Stored, OnDays, Buffered
<1> QED BY <1>1, <1>2, <1>3, StoreInvInit, PTL DEF Spec, ImplementsDurableLog, Log!LogSpec
=============================================================================
