-------------------------- MODULE UsageMeterProofs --------------------------
(***************************************************************************)
(* Proofs about UsageMeter: for every set of calls, every clock and every   *)
(* limit, the sort and sweep of unionMs count each instant of use once.     *)
(*                                                                          *)
(* The sweep is a fold over a sequence of any length.  Its steps are proved *)
(* by induction in the form of a least counterexample: the finite subsets   *)
(* of a set are well founded, so a set of numbers has a least member and a  *)
(* family of finite sets a minimal one.                                     *)
(***************************************************************************)
EXTENDS UsageMeter, FiniteSetTheorems, TLAPS

(* A set of natural numbers has a least member, and if bounded a greatest. *)
LEMMA LeastNatural ==
    ASSUME NEW T \in SUBSET Nat, T # {}
    PROVE  \E m \in T : \A k \in T : m <= k
<1> DEFINE W == {0..k : k \in T}
           R == StrictSubsetOrdering(Nat)
<1>1. W \subseteq FiniteSubsetsOf(Nat)
  <2> SUFFICES ASSUME NEW k \in T
               PROVE  0..k \in FiniteSubsetsOf(Nat)
    OBVIOUS
  <2>1. IsFiniteSet(0..k)
    BY FS_Interval
  <2> QED
    BY <2>1 DEF FiniteSubsetsOf
<1>2. IsWellFoundedOn(R, FiniteSubsetsOf(Nat))
  BY FS_StrictSubsetOrderingWellFounded
<1>3. W # {}
  OBVIOUS
<1> HIDE DEF W, R
<1>4. PICK x \in W : \A y \in W : <<y, x>> \notin R
  BY <1>1, <1>2, <1>3, WFMin
<1> USE DEF W, R
<1>5. PICK m \in T : x = 0..m
  OBVIOUS
<1>6. ASSUME NEW k \in T, k < m
      PROVE  FALSE
  <2>1. 0..k \subseteq 0..m /\ m \in 0..m /\ m \notin 0..k
    BY <1>6
  <2>2. 0..k \in SUBSET Nat /\ 0..m \in SUBSET Nat /\ 0..k # 0..m
    BY <2>1
  <2>3. <<0..k, 0..m>> \in R
    BY <2>1, <2>2 DEF StrictSubsetOrdering
  <2> QED
    BY <1>4, <1>5, <2>3
<1> QED
  BY <1>6

LEMMA GreatestIsMember ==
    ASSUME NEW n \in Nat, NEW T \in SUBSET (1..n), T # {}
    PROVE  Max(T) \in T /\ \A k \in T : k <= Max(T)
<1> DEFINE U == {u \in Nat : \A k \in T : k <= u}
<1>1. n \in U
  OBVIOUS
<1>2. PICK m \in U : \A u \in U : m <= u
  BY <1>1, LeastNatural
<1>3. m \in T
  <2> SUFFICES ASSUME m \notin T
               PROVE  FALSE
    OBVIOUS
  <2>1. \A k \in T : k \in Nat /\ k <= m /\ k # m
    OBVIOUS
  <2>2. m > 0
    <3>1. PICK k \in T : TRUE
      OBVIOUS
    <3>2. k \in Nat /\ k >= 1 /\ k <= m /\ m \in Nat
      BY <2>1
    <3> QED
      BY <3>2
  <2>3. m - 1 \in U
    BY <2>1, <2>2
  <2> QED
    BY <1>2, <2>3
<1>4. \E x \in T : \A y \in T : x >= y
  BY <1>3
<1> QED
  BY <1>4 DEF Max

-----------------------------------------------------------------------------
(* The order of unionMs.                                                    *)

Intervals == [from : Nat, to : Nat]

LEMMA BeforeIsOrder ==
    ASSUME NEW a \in Intervals, NEW b \in Intervals
    PROVE  /\ Before(a, a)
           /\ Before(a, b) \/ Before(b, a)
           /\ Before(a, b) /\ Before(b, a) => a = b
           /\ \A c \in Intervals : Before(a, b) /\ Before(b, c) => Before(a, c)
  BY DEF Before, Intervals

(* An interval's place is the number of those not after it. *)
LEMMA PlacesApart ==
    ASSUME NEW S \in SUBSET Intervals, IsFiniteSet(S), NEW x \in S, NEW y \in S,
           Before(x, y), x # y
    PROVE  /\ Cardinality({z \in S : Before(z, x)}) \in 1..Cardinality(S)
           /\ Cardinality({z \in S : Before(z, y)}) \in 1..Cardinality(S)
           /\ Cardinality({z \in S : Before(z, x)}) < Cardinality({z \in S : Before(z, y)})
<1> DEFINE L(v) == {z \in S : Before(z, v)}
<1>1. ASSUME NEW v \in S
      PROVE  Cardinality(L(v)) \in 1..Cardinality(S) /\ IsFiniteSet(L(v))
  <2>1. IsFiniteSet(L(v)) /\ Cardinality(L(v)) <= Cardinality(S)
    BY FS_Subset
  <2>2. v \in L(v)
    BY BeforeIsOrder
  <2>3. Cardinality(L(v)) \in Nat /\ Cardinality(S) \in Nat /\ Cardinality(L(v)) # 0
    BY <2>1, <2>2, FS_CardinalityType, FS_EmptySet
  <2> QED
    BY <2>1, <2>3
<1>2. L(x) \subseteq L(y) /\ y \in L(y) /\ y \notin L(x)
  BY BeforeIsOrder
<1>3. Cardinality(L(x)) <= Cardinality(L(y)) /\ Cardinality(L(x)) # Cardinality(L(y))
  BY <1>1, <1>2, FS_Subset
<1> QED
  BY <1>1, <1>3

(* A finite set of intervals can be put in order, so InOrder does. *)
LEMMA InOrderSorts ==
    ASSUME NEW S \in SUBSET Intervals, IsFiniteSet(S)
    PROVE  LET q == InOrder(S) IN
           /\ q \in [1..Cardinality(S) -> S]
           /\ \A x \in S : \E i \in 1..Cardinality(S) : q[i] = x
           /\ \A i, j \in 1..Cardinality(S) : i <= j => Before(q[i], q[j])
<1> DEFINE N == Cardinality(S)
           D == 1..N
           P(v) == Cardinality({z \in S : Before(z, v)})
           p == [x \in S |-> P(x)]
           q == [n \in D |-> CHOOSE x \in S : p[x] = n]
<1>1. N \in Nat /\ IsFiniteSet(D) /\ Cardinality(D) = N
  BY FS_CardinalityType, FS_Interval
<1>2. ASSUME NEW x \in S
      PROVE  P(x) \in D
  <2>1. IsFiniteSet({z \in S : Before(z, x)}) /\ P(x) <= N
    BY FS_Subset
  <2>2. x \in {z \in S : Before(z, x)}
    BY BeforeIsOrder
  <2> QED
    BY <1>1, <2>1, <2>2, FS_CardinalityType, FS_EmptySet
<1>3. ASSUME NEW x \in S, NEW y \in S, x # y, Before(x, y)
      PROVE  P(x) < P(y)
  BY <1>3, PlacesApart
<1>4. p \in Injection(S, D)
  <2>1. p \in [S -> D]
    BY <1>2
  <2>2. ASSUME NEW x \in S, NEW y \in S, x # y
        PROVE  p[x] # p[y]
    <3>1. P(x) \in Int /\ P(y) \in Int
      BY <1>1, <1>2
    <3>2. P(x) < P(y) \/ P(y) < P(x)
      BY <1>3, <2>2, BeforeIsOrder
    <3> HIDE DEF P
    <3> QED
      BY <3>1, <3>2
  <2> QED
    BY <2>1, <2>2 DEF Injection, IsInjective
<1>5. p \in Surjection(S, D)
  BY <1>1, <1>4, FS_Injection
<1>6. \A n \in D : q[n] \in S /\ p[q[n]] = n
  BY <1>5 DEF Surjection
<1>7. q \in SetToSeqs(S)
  BY <1>6 DEF SetToSeqs
<1>8. \A i, j \in D : i <= j => Before(q[i], q[j])
  <2> SUFFICES ASSUME NEW i \in D, NEW j \in D, i <= j
               PROVE  Before(q[i], q[j])
    OBVIOUS
  <2>1. q[i] \in S /\ q[j] \in S /\ P(q[i]) = i /\ P(q[j]) = j
    BY <1>6
  <2> HIDE DEF q, P
  <2>2. CASE q[i] = q[j]
    BY <2>1, <2>2, BeforeIsOrder
  <2>3. CASE q[i] # q[j] /\ ~Before(q[i], q[j])
    <3>1. Before(q[j], q[i])
      BY <2>1, <2>3, BeforeIsOrder
    <3>2. j < i
      BY <1>3, <2>1, <2>3, <3>1
    <3> QED
      BY <1>1, <3>2
  <2> QED
    BY <2>2, <2>3
<1>9. DOMAIN q = D
  OBVIOUS
<1> HIDE DEF q
<1>10. \E s \in SetToSeqs(S) : \A i, j \in DOMAIN s : i <= j => Before(s[i], s[j])
  BY <1>7, <1>8, <1>9
<1> DEFINE o == InOrder(S)
<1>11. o \in SetToSeqs(S) /\ \A i, j \in DOMAIN o : i <= j => Before(o[i], o[j])
  BY <1>10 DEF InOrder
<1>12. o \in [D -> S] /\ \A i, j \in D : i # j => o[i] # o[j]
  BY <1>11 DEF SetToSeqs
<1>13. o \in Surjection(D, S)
  <2>1. o \in Injection(D, S)
    BY <1>12 DEF Injection, IsInjective
  <2> QED
    BY <1>1, <2>1, FS_Injection
<1> QED
  BY <1>11, <1>12, <1>13 DEF Surjection

-----------------------------------------------------------------------------
(* The fold of unionMs.                                                     *)

Rest(s) == s \ {Max(s)}

IsFold(g, n, q, b) ==
    g = [s \in SUBSET (1..n) |-> IF s = {} THEN b ELSE Join(g[Rest(s)], q[Max(s)])]

(* What the fold defines by recursion over sets of places exists.  The places
   are taken away from the greatest one. *)
LEMMA FoldExists ==
    ASSUME NEW n \in Nat, NEW q, NEW b
    PROVE  \E g : IsFold(g, n, q, b)
<1> DEFINE E(g, s) == IF s = {} THEN b ELSE Join(g[Rest(s)], q[Max(s)])
           Ok(T) == \E g : g = [s \in SUBSET T |-> E(g, s)]
           W == {T \in SUBSET (1..n) : ~Ok(T)}
           R == StrictSubsetOrdering(1..n)
<1>1. SUFFICES ASSUME W # {}
               PROVE  FALSE
  <2>1. 1..n \in SUBSET (1..n)
    OBVIOUS
  <2>2. Ok(1..n)
    BY <1>1, <2>1
  <2> QED
    BY <2>2 DEF IsFold
<1>2. W \subseteq FiniteSubsetsOf(1..n)
  BY FS_Interval, FS_FiniteSubsetsOfFinite
<1>3. IsWellFoundedOn(R, FiniteSubsetsOf(1..n))
  BY FS_StrictSubsetOrderingWellFounded
<1> HIDE DEF W, R
<1>4. PICK T \in W : \A U \in W : <<U, T>> \notin R
  BY <1>1, <1>2, <1>3, WFMin
<1> USE DEF W, R
<1>5. T \in SUBSET (1..n) /\ ~Ok(T)
  OBVIOUS
<1>6. T # {}
  <2> SUFFICES ASSUME T = {}
               PROVE  FALSE
    OBVIOUS
  <2> DEFINE g == [s \in SUBSET {} |-> b]
  <2>1. g = [s \in SUBSET {} |-> E(g, s)]
    OBVIOUS
  <2> HIDE DEF g, E
  <2> QED
    BY <1>5, <2>1
<1> DEFINE m == Max(T)
           U == T \ {m}
<1>7. m \in T /\ (\A k \in T : k <= m) /\ \A k \in T : k \in Nat
  <2>1. m \in T /\ \A k \in T : k <= m
    BY <1>5, <1>6, GreatestIsMember
  <2>2. T \in SUBSET (1..n)
    BY <1>5
  <2> QED
    BY <2>1, <2>2
<1>8. Ok(U)
  <2>1. U \in SUBSET (1..n) /\ U \subseteq T /\ U # T
    BY <1>5, <1>7
  <2>2. <<U, T>> \in R
    BY <1>5, <2>1 DEF StrictSubsetOrdering
  <2> QED
    BY <1>4, <2>1, <2>2
<1> HIDE DEF E, W, R
<1>9. PICK h : h = [s \in SUBSET U |-> E(h, s)]
  BY <1>8
<1> DEFINE g == [s \in SUBSET T |-> IF m \in s THEN Join(h[s \ {m}], q[m]) ELSE h[s]]
<1>10. g = [s \in SUBSET T |-> E(g, s)]
  <2> SUFFICES ASSUME NEW s \in SUBSET T
               PROVE  g[s] = E(g, s)
    OBVIOUS
  <2>1. CASE m \in s
    <3>1. Max(s) \in s /\ \A k \in s : k <= Max(s)
      BY <1>5, <2>1, GreatestIsMember
    <3>2. Max(s) = m
      <4> HIDE DEF m
      <4>1. m \in s /\ m \in Int /\ Max(s) \in Int /\ Max(s) <= m
        <5>1. Max(s) \in T /\ m \in T
          BY <1>7, <3>1
        <5> QED
          BY <1>7, <2>1, <5>1
      <4> QED
        BY <3>1, <4>1
    <3>3. s \ {m} \in SUBSET T /\ m \notin s \ {m}
      OBVIOUS
    <3> HIDE DEF m
    <3>4. g[s \ {m}] = h[s \ {m}]
      BY <3>3
    <3> HIDE DEF g
    <3>5. g[s] = Join(h[s \ {m}], q[m])
      BY <2>1 DEF g
    <3> QED
      BY <2>1, <3>2, <3>4, <3>5 DEF E, Rest
  <2>2. CASE m \notin s
    <3>1. s \in SUBSET U
      BY <2>2
    <3>2. g[s] = h[s] /\ h[s] = E(h, s)
      BY <1>9, <2>2, <3>1
    <3>3. CASE s = {}
      BY <3>2, <3>3 DEF E
    <3>4. CASE s # {}
      <4>1. Max(s) \in s
        BY <1>5, <3>4, GreatestIsMember
      <4>2. Rest(s) \in SUBSET T /\ m \notin Rest(s)
        BY <2>2 DEF Rest
      <4> HIDE DEF m
      <4>3. g[Rest(s)] = h[Rest(s)]
        BY <4>2
      <4> QED
        BY <3>2, <3>4, <4>3 DEF E
    <3> QED
      BY <3>3, <3>4
  <2> QED
    BY <2>1, <2>2
<1> HIDE DEF g, U, m
<1> QED
  BY <1>5, <1>10

(* The fold is the last of a run of values, each joined from the one before. *)
IsRun(g, q, n) ==
    /\ Sweep(q) = g[n] /\ g[0] = [total |-> 0, open |-> q[1]]
    /\ \A k \in 1..n : g[k] = Join(g[k - 1], q[k])

LEMMA FoldIsRun ==
    ASSUME NEW n \in Nat, NEW q, DOMAIN q = 1..n
    PROVE  \E g : IsRun(g, q, n)
<1> DEFINE b == [total |-> 0, open |-> q[1]]
           it == CHOOSE g : IsFold(g, n, q, b)
<1>1. Sweep(q) = it[1..n]
  BY DEF Sweep, FoldLeft, MapThenFoldSet, Rest, IsFold
<1> HIDE DEF b
<1>2. IsFold(it, n, q, b)
  BY FoldExists
<1> HIDE DEF it
<1>3. ASSUME NEW s \in SUBSET (1..n)
      PROVE  it[s] = IF s = {} THEN b ELSE Join(it[Rest(s)], q[Max(s)])
  BY <1>2 DEF IsFold
<1> DEFINE g == [k \in 0..n |-> it[1..k]]
<1>4. g[0] = b
  <2>1. 1..0 = {} /\ 0 \in 0..n
    OBVIOUS
  <2> QED
    BY <1>3, <2>1
<1>5. ASSUME NEW k \in 1..n
      PROVE  g[k] = Join(g[k - 1], q[k])
  <2>1. 1..k \in SUBSET (1..n) /\ k \in 1..k
    OBVIOUS
  <2>2. Max(1..k) = k
    <3>1. Max(1..k) \in 1..k /\ \A i \in 1..k : i <= Max(1..k)
      BY <2>1, GreatestIsMember
    <3> QED
      BY <2>1, <3>1
  <2>3. Rest(1..k) = 1..(k - 1)
    BY <2>2 DEF Rest
  <2>4. it[1..k] = Join(it[1..(k - 1)], q[k])
    BY <1>3, <2>1, <2>2, <2>3
  <2> QED
    BY <2>4
<1>6. g[n] = it[1..n]
  OBVIOUS
<1> HIDE DEF g
<1> QED
  BY <1>1, <1>4, <1>5, <1>6 DEF b, IsRun

-----------------------------------------------------------------------------
(* The sweep of unionMs.                                                    *)

(* The instants of the first k intervals. *)
Covers(q, k) == {t \in Nat : \E i \in 1..k : q[i].from <= t /\ t < q[i].to}

(* The open run is a run of covered instants, which begins no later than any
   interval to come and reaches as far as any before; the total counts the
   covered instants before it. *)
Swept(acc, q, n, k) ==
    /\ acc.total \in Nat
    /\ acc.open \in Intervals /\ acc.open.from <= acc.open.to
    /\ \A j \in k..n : acc.open.from <= q[j].from
    /\ \A i \in 1..k : q[i].to <= acc.open.to
    /\ \A t \in Nat : acc.open.from <= t /\ t < acc.open.to => t \in Covers(q, k)
    /\ acc.total = Cardinality({t \in Covers(q, k) : t < acc.open.from})

(* Interval by interval: in order, and none ends before it begins. *)
Sorted(q, n) ==
    /\ q \in [1..n -> Intervals]
    /\ \A i \in 1..n : q[i].from <= q[i].to
    /\ \A i, j \in 1..n : i <= j => q[i].from <= q[j].from

(* Nothing covered lies beyond the open run, so with it the total is whole. *)
LEMMA SweptCounts ==
    ASSUME NEW n \in Nat, NEW q, Sorted(q, n), NEW k \in 1..n, NEW acc, Swept(acc, q, n, k)
    PROVE  /\ IsFiniteSet(Covers(q, k))
           /\ Cardinality(Covers(q, k)) = acc.total + (acc.open.to - acc.open.from)
<1> DEFINE C == Covers(q, k)
           a == acc.open.from
           z == acc.open.to
           L == {t \in C : t < a}
           M == a..(z - 1)
<1>1. a \in Nat /\ z \in Nat /\ a <= z
  BY DEF Swept, Intervals
<1>2. \A t \in C : t \in Nat /\ t < z
  <2> SUFFICES ASSUME NEW t \in C
               PROVE  t \in Nat /\ t < z
    OBVIOUS
  <2>1. PICK i \in 1..k : q[i].from <= t /\ t < q[i].to
    BY DEF Covers
  <2>2. t \in Nat /\ q[i].to <= z /\ q[i].to \in Nat
    BY DEF Covers, Swept, Sorted, Intervals
  <2> QED
    BY <1>1, <2>1, <2>2
<1>3. \A t \in M : t \in C
  BY <1>1 DEF Swept
<1> HIDE DEF C, a, z
<1>4. C = L \cup M /\ L \cap M = {}
  BY <1>1, <1>2, <1>3
<1>5. L \in SUBSET (0..z)
  BY <1>1, <1>2
<1>6. IsFiniteSet(L)
  <2>1. IsFiniteSet(0..z)
    BY <1>1, FS_Interval
  <2> HIDE DEF L
  <2> QED
    BY <1>5, <2>1, FS_Subset
<1>7. IsFiniteSet(M) /\ Cardinality(M) = z - a
  <2> DEFINE y == z - 1
  <2>1. a \in Int /\ y \in Int
    BY <1>1
  <2> HIDE DEF y
  <2>2. IsFiniteSet(a..y) /\ Cardinality(a..y) = IF a > y THEN 0 ELSE y - a + 1
    BY <2>1, FS_Interval
  <2> QED
    BY <1>1, <2>2 DEF y
<1> HIDE DEF L, M
<1>8. IsFiniteSet(C) /\ Cardinality(C) = Cardinality(L) + Cardinality(M) - Cardinality({})
  BY <1>4, <1>6, <1>7, FS_Union
<1>9. Cardinality(L) = acc.total /\ acc.total \in Nat
  BY DEF Swept, L, C, a
<1>10. Cardinality(C) = Cardinality(L) + (z - a)
  BY <1>1, <1>7, <1>8, <1>9, FS_EmptySet
<1> QED
  BY <1>8, <1>9, <1>10 DEF C, a, z

LEMMA CoversOneMore ==
    ASSUME NEW q, NEW k \in Nat
    PROVE  Covers(q, k + 1) =
               Covers(q, k) \cup {t \in Nat : q[k + 1].from <= t /\ t < q[k + 1].to}
<1>1. 1..(k + 1) = (1..k) \cup {k + 1}
  OBVIOUS
<1> QED
  BY <1>1 DEF Covers

(* The next interval is joined: it touches or overlaps the open run, or opens
   one of its own. *)
LEMMA JoinStep ==
    ASSUME NEW n \in Nat, NEW q, Sorted(q, n), NEW k \in Nat, k >= 1, k < n,
           NEW acc, Swept(acc, q, n, k)
    PROVE  Swept(Join(acc, q[k + 1]), q, n, k + 1)
<1> DEFINE i == q[k + 1]
           new == Join(acc, i)
           a == acc.open.from
           z == acc.open.to
<1>1. /\ k \in 1..n /\ k + 1 \in 1..n /\ k + 1 \in k..n
      /\ \A j \in (k + 1)..n : j \in k..n /\ j \in 1..n
  OBVIOUS
<1>2. /\ i.from \in Nat /\ i.to \in Nat /\ i.from <= i.to /\ i \in Intervals
      /\ a \in Nat /\ z \in Nat /\ a <= z /\ a <= i.from
      /\ acc.open \in Intervals /\ acc.total \in Nat
  BY <1>1 DEF Sorted, Swept, Intervals
<1>3. \A j \in 1..k : q[j].to <= z /\ q[j].to \in Nat
  BY <1>1 DEF Swept, Sorted, Intervals
<1>4. \A j \in 1..(k + 1) : j \in 1..k \/ j = k + 1
  OBVIOUS
<1>5. CASE i.from > z
  <2>1. new.total = acc.total + (z - a) /\ new.open = i
    BY <1>5 DEF Join
  <2>2. /\ IsFiniteSet(Covers(q, k)) /\ Cardinality(Covers(q, k)) = acc.total + (z - a)
    BY <1>1, SweptCounts
  <2>3. \A t \in Covers(q, k) : t \in Nat /\ t < i.from
    BY <1>2, <1>3, <1>5 DEF Covers
  <2>4. {t \in Covers(q, k + 1) : t < i.from} = Covers(q, k)
    BY <1>2, <2>3, CoversOneMore
  <2>5. \A j \in (k + 1)..n : i.from <= q[j].from
    BY <1>1 DEF Sorted
  <2>6. \A j \in 1..(k + 1) : q[j].to <= i.to
    BY <1>2, <1>3, <1>4, <1>5
  <2>7. \A t \in Nat : i.from <= t /\ t < i.to => t \in Covers(q, k + 1)
    BY CoversOneMore
  <2>8. new.total \in Nat
    BY <1>2, <2>1
  <2> HIDE DEF new, i, a, z
  <2> QED
    BY <1>2, <2>1, <2>2, <2>4, <2>5, <2>6, <2>7, <2>8 DEF Swept, new, i
<1>6. CASE i.from <= z
  <2> DEFINE y == IF z > i.to THEN z ELSE i.to
  <2>1. new.total = acc.total /\ new.open = [acc.open EXCEPT !.to = y]
    BY <1>2, <1>6 DEF Join, Extend, Later
  <2>2. /\ new.open \in Intervals /\ new.open.from = a /\ new.open.to = y
        /\ a <= y /\ y \in Nat /\ z <= y /\ i.to <= y
    BY <1>2, <2>1 DEF Intervals
  <2>3. \A j \in (k + 1)..n : a <= q[j].from
    BY <1>1 DEF Swept
  <2>4. \A j \in 1..(k + 1) : q[j].to <= y
    BY <1>2, <1>3, <1>4, <2>2
  <2>5. ASSUME NEW t \in Nat, a <= t, t < y
        PROVE  t \in Covers(q, k + 1)
    <3>1. CASE t < z
      BY <2>5, <3>1, CoversOneMore DEF Swept
    <3>2. CASE ~(t < z)
      <4>1. i.from <= t /\ t < i.to
        BY <1>2, <1>6, <2>5, <3>2
      <4> QED
        BY <4>1, CoversOneMore
    <3> QED
      BY <3>1, <3>2
  <2>6. {t \in Covers(q, k + 1) : t < a} = {t \in Covers(q, k) : t < a}
    BY <1>2, CoversOneMore
  <2>7. acc.total = Cardinality({t \in Covers(q, k) : t < a})
    BY DEF Swept
  <2> HIDE DEF new, i, a, z, y
  <2> QED
    BY <1>2, <2>1, <2>2, <2>3, <2>4, <2>5, <2>6, <2>7 DEF Swept, new, i
<1> QED
  BY <1>2, <1>5, <1>6

LEMMA FirstJoin ==
    ASSUME NEW n \in Nat, n >= 1, NEW q, Sorted(q, n)
    PROVE  Swept(Join([total |-> 0, open |-> q[1]], q[1]), q, n, 1)
<1> DEFINE i == q[1]
<1>1. i \in Intervals /\ i.from \in Nat /\ i.to \in Nat /\ i.from <= i.to
  BY DEF Sorted, Intervals
<1>2. Join([total |-> 0, open |-> i], i) = [total |-> 0, open |-> i]
  <2>1. Extend(i, i) = i
    BY <1>1 DEF Extend, Later, Intervals
  <2> QED
    BY <1>1, <2>1 DEF Join
<1>3. Covers(q, 1) = {t \in Nat : i.from <= t /\ t < i.to}
  BY DEF Covers
<1>4. {t \in Covers(q, 1) : t < i.from} = {}
  BY <1>1, <1>3
<1>5. \A j \in 1..n : i.from <= q[j].from
  BY DEF Sorted
<1>6. \A j \in 1..1 : q[j].to <= i.to
  BY <1>1
<1> HIDE DEF i
<1> QED
  BY <1>1, <1>2, <1>3, <1>4, <1>5, <1>6, FS_EmptySet DEF Swept, i

(* unionMs of any finite set of intervals is the number of instants in them. *)
LEMMA UnionCounts ==
    ASSUME NEW S \in SUBSET Intervals, IsFiniteSet(S), \A i \in S : i.from <= i.to
    PROVE  UnionMs(S) = Cardinality({t \in Nat : \E i \in S : i.from <= t /\ t < i.to})
<1> DEFINE T == {t \in Nat : \E i \in S : i.from <= t /\ t < i.to}
           n == Cardinality(S)
           q == InOrder(S)
<1>1. CASE S = {}
  <2>1. T = {}
    BY <1>1
  <2> QED
    BY <1>1, <2>1, FS_EmptySet DEF UnionMs
<1>2. CASE S # {}
  <2>1. n \in Nat /\ n >= 1
    BY <1>2, FS_CardinalityType, FS_EmptySet
  <2>2. /\ q \in [1..n -> S]
        /\ \A x \in S : \E i \in 1..n : q[i] = x
        /\ \A i, j \in 1..n : i <= j => Before(q[i], q[j])
    BY InOrderSorts
  <2> HIDE DEF q, n
  <2>3. Sorted(q, n)
    BY <2>2 DEF Sorted, Before, Intervals
  <2>4. \E g : IsRun(g, q, n)
    <3>1. DOMAIN q = 1..n
      BY <2>2
    <3> QED
      BY <2>1, <3>1, FoldIsRun
  <2>5. PICK g : /\ Sweep(q) = g[n] /\ g[0] = [total |-> 0, open |-> q[1]]
                 /\ \A k \in 1..n : g[k] = Join(g[k - 1], q[k])
    BY <2>4 DEF IsRun
  <2>6. \A k \in 1..n : Swept(g[k], q, n, k)
    <3> DEFINE W == {k \in 1..n : ~Swept(g[k], q, n, k)}
    <3> SUFFICES ASSUME W # {}
                 PROVE  FALSE
      OBVIOUS
    <3>1. W \in SUBSET Nat
      OBVIOUS
    <3>2. PICK m \in W : \A k \in W : m <= k
      BY <3>1, LeastNatural
    <3>3. m \in 1..n /\ ~Swept(g[m], q, n, m) /\ g[m] = Join(g[m - 1], q[m])
      BY <2>5
    <3>4. CASE m = 1
      BY <2>1, <2>3, <2>5, <3>3, <3>4, FirstJoin
    <3>5. CASE m # 1
      <4>1. m - 1 \in 1..n /\ m - 1 \notin W
        <5>1. m - 1 \in 1..n /\ ~(m <= m - 1)
          BY <2>1, <3>3, <3>5
        <5> QED
          BY <3>2, <5>1
      <4>2. Swept(g[m - 1], q, n, m - 1)
        BY <4>1
      <4>3. m - 1 \in Nat /\ m - 1 >= 1 /\ m - 1 < n /\ (m - 1) + 1 = m
        BY <2>1, <3>3, <3>5
      <4>4. Swept(Join(g[m - 1], q[(m - 1) + 1]), q, n, (m - 1) + 1)
        BY <2>1, <2>3, <4>2, <4>3, JoinStep
      <4> QED
        BY <3>3, <4>3, <4>4
    <3> QED
      BY <3>4, <3>5
  <2>7. Swept(g[n], q, n, n)
    BY <2>1, <2>6
  <2>8. Cardinality(Covers(q, n)) = g[n].total + (g[n].open.to - g[n].open.from)
    BY <2>1, <2>3, <2>7, SweptCounts
  <2>9. Covers(q, n) = T
    BY <2>2 DEF Covers
  <2>10. UnionMs(S) = g[n].total + (g[n].open.to - g[n].open.from)
    BY <1>2, <2>5 DEF UnionMs, q
  <2> QED
    BY <2>8, <2>9, <2>10
<1> QED
  BY <1>1, <1>2

-----------------------------------------------------------------------------
(* The steps of the meter.                                                  *)

LEMMA UsageInitInv == UsageInit => UsageInv
<1> SUFFICES ASSUME UsageInit
             PROVE  UsageInv
  OBVIOUS
<1>1. UsageTypeOK /\ rows = {}
  BY UsageConstants DEF UsageInit, UsageTypeOK
<1> QED
  BY <1>1, FS_EmptySet DEF UsageInv, All

(* A call that is dropped counts for nothing more. *)
LEMMA DropTypes ==
    ASSUME UsageTypeOK, NEW S, Drop(S)
    PROVE  /\ phase' \in [Calls -> {"new", "running", "over"}]
           /\ started' \in [Calls -> 0..MaxClock]
           /\ length' \in [Calls -> 0..(MaxLength + 1)]
  BY UsageConstants DEF UsageTypeOK, Drop

(* A call is counted with the interval it took. *)
LEMMA RecordStep ==
    ASSUME UsageInv, NEW c \in Calls, End(c)
    PROVE  UsageInv'
<1> USE DEF UsageInv
<1>1. CASE UNCHANGED rows
  BY <1>1, DropTypes DEF End, UsageTypeOK, All
<1>2. CASE Counts(c) /\ rows' = rows \cup {Row(c)}
  <2>1. /\ started[c] \in Nat /\ length[c] \in Nat /\ started[c] <= MaxClock
        /\ length[c] <= MaxLength
    BY <1>2, UsageConstants DEF Counts, UsageTypeOK
  <2>2. Row(c) \in [trace : Calls, at : Interval] /\ Row(c).at.from <= Row(c).at.to
    BY <2>1, UsageConstants DEF Row, Interval
  <2>3. IsFiniteSet(rows')
    BY <1>2, FS_AddElement
  <2>4. \A i \in All' : i.from <= i.to
    BY <1>2, <2>2 DEF All
  <2>5. rows' \in SUBSET [trace : Calls, at : Interval]
    BY <1>2, <2>2 DEF UsageTypeOK
  <2>6. now' = now /\ Drop({c})
    BY DEF End
  <2> QED
    BY <2>3, <2>4, <2>5, <2>6, DropTypes DEF UsageTypeOK
<1> QED
  BY <1>1, <1>2 DEF End

LEMMA UsageStepInv == UsageInv /\ [UsageNext]_usageVars => UsageInv'
<1> SUFFICES ASSUME UsageInv, [UsageNext]_usageVars
             PROVE  UsageInv'
  OBVIOUS
<1> USE DEF UsageInv
<1>1. ASSUME UNCHANGED rows, UsageTypeOK'
      PROVE  UsageInv'
  BY <1>1 DEF All
<1>2. ASSUME NEW c \in Calls, Begin(c)
      PROVE  UsageInv'
  BY <1>1, <1>2 DEF Begin, UsageTypeOK
<1>3. ASSUME NEW c \in Calls, End(c)
      PROVE  UsageInv'
  BY <1>3, RecordStep
<1>4. CASE Tick
  <2>1. length' \in [Calls -> 0..(MaxLength + 1)] /\ now' \in 0..MaxClock
    BY <1>4, UsageConstants DEF Tick, UsageTypeOK
  <2> QED
    BY <1>1, <1>4, <2>1 DEF Tick, UsageTypeOK
<1>5. CASE Restart
  BY <1>1, <1>5, DropTypes DEF Restart, UsageTypeOK
<1>6. ASSUME NEW t \in 0..MaxClock, SetClock(t)
      PROVE  UsageInv'
  BY <1>1, <1>6 DEF SetClock, UsageTypeOK
<1>7. CASE UNCHANGED usageVars
  BY <1>1, <1>7 DEF usageVars, UsageTypeOK
<1> QED
  BY <1>2, <1>3, <1>4, <1>5, <1>6, <1>7 DEF UsageNext

LEMMA UsageInvariance == UsageSpec => []UsageInv
  BY UsageInitInv, UsageStepInv, PTL DEF UsageSpec

(* The rows and the clock (usage-meter.js, the wrapper of registerTool) keep
   their types. *)
THEOREM UsageTypes == UsageSpec => []UsageTypeOK
<1>1. UsageInv => UsageTypeOK
  BY DEF UsageInv
<1> QED
  BY <1>1, UsageInvariance, PTL

-----------------------------------------------------------------------------
(* The two figures of summary().                                            *)

LEMMA AllIntervals ==
    ASSUME UsageInv
    PROVE  /\ All \in SUBSET Interval /\ IsFiniteSet(All)
           /\ Interval \in SUBSET Intervals /\ \A i \in All : i.from <= i.to
<1>1. All \in SUBSET Interval
  BY DEF UsageInv, UsageTypeOK, All
<1>2. Interval \in SUBSET Intervals
  BY UsageConstants DEF Interval, Intervals
<1>3. IsFiniteSet(All)
  <2> DEFINE at == [r \in rows |-> r.at]
  <2>1. at \in Surjection(rows, All)
    BY DEF Surjection, All
  <2> QED
    BY <2>1, FS_Surjection DEF UsageInv
<1> QED
  BY <1>1, <1>2, <1>3 DEF UsageInv

LEMMA TotalCounts == UsageInv => TotalExact
<1> SUFFICES ASSUME UsageInv
             PROVE  TotalExact
  OBVIOUS
<1>1. UnionMs(All) = Cardinality({t \in Nat : Busy(t)})
  BY AllIntervals, UnionCounts DEF Busy
<1>2. ASSUME NEW t \in Nat, Busy(t)
      PROVE  t \in 0..(MaxClock + MaxLength)
  <2>1. PICK i \in All : i.from <= t /\ t < i.to
    BY <1>2 DEF Busy
  <2>2. i.to \in 0..(MaxClock + MaxLength)
    BY AllIntervals DEF Interval
  <2> QED
    BY <2>1, <2>2, UsageConstants
<1>3. {t \in Nat : Busy(t)} = {t \in 0..(MaxClock + MaxLength) : Busy(t)}
  BY <1>2, UsageConstants
<1> QED
  BY <1>1, <1>3 DEF TotalExact, UsageMs

LEMMA LastWeekCounts == UsageInv => LastWeekExact
<1> SUFFICES ASSUME UsageInv
             PROVE  LastWeekExact
  OBVIOUS
<1> DEFINE near == {j \in All : j.to >= Since}
           clipped == {Clip(j) : j \in near}
           S == {i \in clipped : i.to >= i.from}
<1>1. Since \in Nat /\ now \in Nat
  BY UsageConstants DEF Since, Later, UsageInv, UsageTypeOK
<1>2. \A j \in All : j.from \in Nat /\ j.to \in Nat /\ j.from <= j.to
  BY AllIntervals DEF Intervals
<1>3. \A j \in All : /\ Clip(j) \in Intervals
                     /\ Clip(j).from = IF Since > j.from THEN Since ELSE j.from
                     /\ Clip(j).to = IF now < j.to THEN now ELSE j.to
  BY <1>1, <1>2 DEF Clip, Later, Sooner, Intervals
<1>4. IsFiniteSet(clipped)
  <2> DEFINE clip == [j \in near |-> Clip(j)]
  <2>1. clip \in Surjection(near, clipped)
    BY DEF Surjection
  <2>2. IsFiniteSet(near)
    BY AllIntervals, FS_Subset
  <2> QED
    BY <2>1, <2>2, FS_Surjection
<1>5. S \in SUBSET Intervals /\ IsFiniteSet(S) /\ \A i \in S : i.from <= i.to
  <2>1. S \in SUBSET clipped
    OBVIOUS
  <2>2. IsFiniteSet(S)
    BY <1>4, <2>1, FS_Subset
  <2>3. \A i \in S : i \in Intervals /\ i.from <= i.to
    BY <1>3 DEF Intervals
  <2> QED
    BY <2>2, <2>3
<1>6. UnionMs(S) = Cardinality({t \in Nat : \E i \in S : i.from <= t /\ t < i.to})
  BY <1>5, UnionCounts
<1>7. ASSUME NEW t \in Nat
      PROVE  (\E i \in S : i.from <= t /\ t < i.to) <=> t \in Since..(now - 1) /\ Busy(t)
  <2>1. ASSUME NEW i \in S, i.from <= t, t < i.to
        PROVE  t \in Since..(now - 1) /\ Busy(t)
    <3>1. PICK j \in near : i = Clip(j)
      OBVIOUS
    <3>2. /\ i.from = IF Since > j.from THEN Since ELSE j.from
          /\ i.to = IF now < j.to THEN now ELSE j.to
          /\ j \in All /\ j.from \in Nat /\ j.to \in Nat
      BY <1>2, <1>3, <3>1
    <3>3. Since <= t /\ t < now /\ j.from <= t /\ t < j.to
      BY <1>1, <2>1, <3>2
    <3> QED
      BY <1>1, <3>2, <3>3 DEF Busy
  <2>2. ASSUME t \in Since..(now - 1), Busy(t)
        PROVE  \E i \in S : i.from <= t /\ t < i.to
    <3>1. PICK j \in All : j.from <= t /\ t < j.to
      BY <2>2 DEF Busy
    <3>2. /\ Clip(j).from = IF Since > j.from THEN Since ELSE j.from
          /\ Clip(j).to = IF now < j.to THEN now ELSE j.to
          /\ j.from \in Nat /\ j.to \in Nat
      BY <1>2, <1>3
    <3>3. /\ Clip(j).from <= t /\ t < Clip(j).to /\ Clip(j).to >= Clip(j).from
          /\ j.to >= Since
      BY <1>1, <2>2, <3>1, <3>2
    <3> QED
      BY <3>3
  <2> QED
    BY <2>1, <2>2
<1>8. {t \in Nat : \E i \in S : i.from <= t /\ t < i.to} = {t \in Since..(now - 1) : Busy(t)}
  BY <1>1, <1>7
<1>9. Last7DaysMs = UnionMs(S)
  BY DEF Last7DaysMs
<1> QED
  BY <1>6, <1>8, <1>9 DEF LastWeekExact

(* unionMs and summary (usage-meter.js:24, :67): whatever calls overlap, nest,
   touch or repeat, and wherever the clock was set, the total and the figure
   of the last seven days count each instant of use once. *)
THEOREM UsageExactHolds == UsageSpec => []UsageExact
<1>1. UsageInv => UsageExact
  BY TotalCounts, LastWeekCounts DEF UsageExact
<1> QED
  BY <1>1, UsageInvariance, PTL
=============================================================================
