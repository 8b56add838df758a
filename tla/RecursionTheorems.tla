------------------------- MODULE RecursionTheorems -------------------------
(***************************************************************************)
(* Induction over numbers, stated with sets instead of predicates, and     *)
(* what it gives for functions defined by recursion: a definition that     *)
(* reaches a smaller number each time has a solution.  And what counting    *)
(* the smaller elements of a finite order gives: the place of each.         *)
(***************************************************************************)
EXTENDS Naturals, FiniteSetTheorems, WellFoundedInduction, TLAPS

(* Every nonempty set of numbers has a least element. *)
LEMMA Least ==
  ASSUME NEW S \in SUBSET Nat, S # {}
  PROVE  \E n \in S : \A m \in S : n <= m
<1>1. \E x \in S : \A y \in S : ~(<<y, x>> \in OpToRel(<, Nat))
  BY NatLessThanWellFounded, WFMin
<1>2. PICK x \in S : \A y \in S : ~(<<y, x>> \in OpToRel(<, Nat))
  BY <1>1
<1>3. \A y \in S : ~(y < x)
  BY <1>2 DEF OpToRel
<1> QED BY <1>3

(* A set of numbers that has every number whose predecessors it has all. *)
LEMMA Strong ==
  ASSUME NEW E \in SUBSET Nat, NEW S,
         \A e \in E : (\A d \in E : d < e => d \in S) => e \in S
  PROVE  E \subseteq S
<1>1. SUFFICES ASSUME E \ S # {} PROVE FALSE
  OBVIOUS
<1>2. PICK e \in E \ S : \A d \in E \ S : e <= d
  BY <1>1, Least
<1>3. \A d \in E : d < e => d \in S
  BY <1>2
<1> QED BY <1>2, <1>3

(* From n to n + 1, up to a bound. *)
LEMMA Upto ==
  ASSUME NEW N \in Nat, NEW S, 0 \in S, \A n \in 0..N : n \in S /\ n < N => n + 1 \in S
  PROVE  0..N \subseteq S
<1>1. SUFFICES ASSUME (0..N) \ S # {} PROVE FALSE
  OBVIOUS
<1>2. PICK e \in (0..N) \ S : \A d \in (0..N) \ S : e <= d
  <2> DEFINE T == (0..N) \ S
  <2>1. T \in SUBSET Nat /\ T # {}
    BY <1>1
  <2> HIDE DEF T
  <2>2. \E e \in T : \A d \in T : e <= d
    BY <2>1, Least
  <2> QED BY <2>2 DEF T
<1>3. e # 0 /\ e - 1 \in 0..N /\ e - 1 < N /\ ~(e <= e - 1)
  BY <1>2
<1>4. e - 1 \in S
  BY <1>2, <1>3
<1>5. (e - 1) + 1 = e
  BY <1>2
<1> QED BY <1>2, <1>3, <1>4, <1>5

-----------------------------------------------------------------------------
(* E is a forest of numbers: P leads from each, unless it is a root, to a   *)
(* smaller one.                                                             *)
Forest(E, Roots, P) ==
  /\ E \in SUBSET Nat
  /\ \A e \in E \ Roots : P[e] \in E /\ P[e] < e

(* g solves the recursion at d: A at the roots, B of the value above.       *)
Solves(g, d, Roots, P, A, B) ==
  g[d] = IF d \in Roots THEN A[d] ELSE B[d][g[P[d]]]

SolvesBelow(g, n, E, Roots, P, A, B) ==
  \A d \in E : d < n => Solves(g, d, Roots, P, A, B)

(* A recursion has at most one solution below a number. *)
LEMMA Unique ==
  ASSUME NEW E, NEW Roots, NEW P, Forest(E, Roots, P), NEW A, NEW B,
         NEW g, NEW h, NEW n \in Nat,
         SolvesBelow(g, n, E, Roots, P, A, B), SolvesBelow(h, n, E, Roots, P, A, B)
  PROVE  \A d \in E : d < n => g[d] = h[d]
<1> DEFINE S == {d \in E : d < n => g[d] = h[d]}
<1>1. E \in SUBSET Nat
  BY DEF Forest
<1>2. ASSUME NEW e \in E, \A d \in E : d < e => d \in S
      PROVE  e \in S
  <2>1. SUFFICES ASSUME e < n PROVE g[e] = h[e]
    OBVIOUS
  <2>2. CASE e \in Roots
    BY <2>1, <2>2 DEF Solves, SolvesBelow
  <2>3. CASE e \notin Roots
    <3>1. P[e] \in E /\ P[e] < e
      BY <2>3 DEF Forest
    <3>2. P[e] \in Nat /\ e \in Nat /\ P[e] < n
      <4> DEFINE p == P[e]
      <4>1. p \in E /\ p < e
        BY <3>1
      <4> HIDE DEF p
      <4>2. p \in Nat /\ e \in Nat /\ p < n
        BY <4>1, <2>1, <1>1
      <4> QED BY <4>2 DEF p
    <3>3. g[P[e]] = h[P[e]]
      BY <3>1, <3>2, <1>2
    <3> QED BY <2>1, <2>3, <3>3 DEF Solves, SolvesBelow
  <2> QED BY <2>2, <2>3
<1>3. E \subseteq S
  <2> HIDE DEF S
  <2> QED BY <1>1, <1>2, Strong
<1> QED BY <1>3

(* It has one below every number. *)
LEMMA Below ==
  ASSUME NEW E, NEW Roots, NEW P, Forest(E, Roots, P), NEW X,
         NEW A \in [E -> X], NEW B \in [E -> [X -> X]]
  PROVE  \A n \in Nat : \E g \in [E -> X] :
           SolvesBelow(g, n, E, Roots, P, A, B)
<1> DEFINE Q(n) == \E g \in [E -> X] : SolvesBelow(g, n, E, Roots, P, A, B)
           S == {n \in Nat : Q(n)}
<1>1. E \in SUBSET Nat
  BY DEF Forest
<1>2. 0 \in S
  BY <1>1 DEF SolvesBelow
<1>3. ASSUME NEW n \in S PROVE n + 1 \in S
  <2>1. PICK g \in [E -> X] : \A d \in E : d < n => Solves(g, d, Roots, P, A, B)
    BY DEF SolvesBelow
  <2>2. CASE n \notin E
    <3>1. \A d \in E : d < n + 1 => d < n
      BY <2>2, <1>1
    <3> QED BY <2>1, <3>1 DEF SolvesBelow
  <2>3. CASE n \in E
    <3> DEFINE v == IF n \in Roots THEN A[n] ELSE B[n][g[P[n]]]
               h == [g EXCEPT ![n] = v]
    <3>1. v \in X
      BY <2>3 DEF Forest
    <3> HIDE DEF v
    <3>2. h \in [E -> X] /\ h[n] = v /\ \A d \in E : d # n => h[d] = g[d]
      BY <3>1, <2>3
    <3> HIDE DEF h
    <3>3. ASSUME NEW d \in E, d < n + 1 PROVE Solves(h, d, Roots, P, A, B)
      <4>1. d \notin Roots => P[d] \in E /\ P[d] < d /\ P[d] # n
        BY <3>3, <1>1 DEF Forest
      <4>2. d \notin Roots => h[P[d]] = g[P[d]]
        BY <4>1, <3>2
      <4>3. CASE d = n
        BY <4>3, <4>2, <3>2 DEF Solves, v
      <4>4. CASE d # n
        <5>1. d < n
          BY <4>4, <3>3, <1>1
        <5>2. Solves(g, d, Roots, P, A, B)
          BY <5>1, <2>1
        <5> QED BY <5>2, <4>2, <4>4, <3>2 DEF Solves
      <4> QED BY <4>3, <4>4
    <3> QED BY <3>2, <3>3 DEF SolvesBelow
  <2> QED BY <2>2, <2>3
<1>4. SUFFICES ASSUME NEW N \in Nat PROVE N \in S
  OBVIOUS
<1> HIDE DEF S
<1>5. 0..N \subseteq S
  BY <1>2, <1>3, Upto
<1> QED BY <1>5

(* It has one everywhere. *)
LEMMA Solution ==
  ASSUME NEW E, NEW Roots, NEW P, Forest(E, Roots, P), NEW X,
         NEW A \in [E -> X], NEW B \in [E -> [X -> X]]
  PROVE  \E f \in [E -> X] : \A e \in E : Solves(f, e, Roots, P, A, B)
<1> DEFINE Q(g, n) == g \in [E -> X] /\ SolvesBelow(g, n, E, Roots, P, A, B)
           G(n) == CHOOSE g : Q(g, n)
           f == [e \in E |-> G(e + 1)[e]]
<1>1. E \in SUBSET Nat
  BY DEF Forest
<1>2. ASSUME NEW n \in Nat PROVE Q(G(n), n)
  <2>1. \E g : Q(g, n)
    BY Below
  <2> HIDE DEF Q
  <2> QED BY <2>1
<1> HIDE DEF G
<1>3. \A e \in E : G(e + 1) \in [E -> X]
  BY <1>1, <1>2
<1>4. f \in [E -> X]
  BY <1>3
<1>5. ASSUME NEW e \in E PROVE Solves(f, e, Roots, P, A, B)
  <2>1. e \in Nat /\ e + 1 \in Nat /\ e < e + 1
    BY <1>1
  <2>2. Solves(G(e + 1), e, Roots, P, A, B)
    BY <2>1, <1>2 DEF SolvesBelow
  <2>3. CASE e \in Roots
    BY <2>2, <2>3 DEF Solves
  <2>4. CASE e \notin Roots
    <3> DEFINE d == P[e]
    <3>1. d \in E /\ d < e
      BY <2>4 DEF Forest
    <3> HIDE DEF d
    <3>2. d \in Nat /\ d + 1 \in Nat /\ d < d + 1 /\ \A c \in E : c < d + 1 => c < e + 1
      BY <3>1, <1>1
    <3>3. /\ SolvesBelow(G(e + 1), d + 1, E, Roots, P, A, B)
          /\ SolvesBelow(G(d + 1), d + 1, E, Roots, P, A, B)
      BY <3>2, <2>1, <1>2 DEF SolvesBelow
    <3>4. G(e + 1)[d] = G(d + 1)[d]
      <4> DEFINE g == G(e + 1)
                 h == G(d + 1)
                 n == d + 1
      <4>1. SolvesBelow(g, n, E, Roots, P, A, B) /\ SolvesBelow(h, n, E, Roots, P, A, B)
        BY <3>3
      <4>2. n \in Nat /\ d < n
        BY <3>2
      <4> HIDE DEF g, h, n
      <4>3. \A c \in E : c < n => g[c] = h[c]
        BY <4>1, <4>2, Unique
      <4>4. g[d] = h[d]
        BY <4>2, <4>3, <3>1
      <4> QED BY <4>4 DEF g, h, n
    <3>5. f[e] = G(e + 1)[e] /\ f[d] = G(d + 1)[d]
      BY <3>1
    <3> QED BY <2>2, <2>4, <3>4, <3>5 DEF Solves, d
  <2> QED BY <2>3, <2>4
<1> HIDE DEF f
<1> QED BY <1>4, <1>5

(* Step n takes what the recursion has after n - 1 steps and stays in X.    *)
Steps(N, X, B) == B \in [1..N -> [X -> X]]

(* f has what N steps make of a.                                            *)
Iterates(f, N, a, B) ==
  \A n \in 0..N : f[n] = IF n = 0 THEN a ELSE B[n][f[n - 1]]

(* A step taken N times. *)
LEMMA Iteration ==
  ASSUME NEW N \in Nat, NEW X, NEW a \in X, NEW B, Steps(N, X, B)
  PROVE  \E f : f \in [0..N -> X] /\ Iterates(f, N, a, B)
<1> DEFINE E == 0..N
           P == [n \in E |-> n - 1]
           A == [n \in E |-> a]
           C == [n \in E |-> IF n = 0 THEN [x \in X |-> x] ELSE B[n]]
<1>1. A \in [E -> X] /\ C \in [E -> [X -> X]]
  BY DEF Steps
<1>2. Forest(E, {0}, P)
  <2>1. E \in SUBSET Nat
    OBVIOUS
  <2>2. \A n \in E \ {0} : P[n] \in E /\ P[n] < n
    OBVIOUS
  <2> QED BY <2>1, <2>2 DEF Forest
<1>3. PICK f \in [E -> X] : \A n \in E : Solves(f, n, {0}, P, A, C)
  <2> HIDE DEF E, P, A, C
  <2> QED BY <1>1, <1>2, Solution
<1>4. ASSUME NEW n \in E
      PROVE  f[n] = IF n = 0 THEN a ELSE B[n][f[n - 1]]
  BY <1>3 DEF Solves
<1> QED BY <1>3, <1>4 DEF Iterates

(* The same, as far as what h has is in X. *)
IteratesWithin(h, N, X, a, B) ==
  \A n \in 0..N :
    h[n] = IF n = 0 THEN a ELSE IF h[n - 1] \in X THEN B[n][h[n - 1]] ELSE h[n]

(* What a step keeps holds after N steps. *)
LEMMA IterationType ==
  ASSUME NEW N \in Nat, NEW X, NEW a \in X, NEW B, Steps(N, X, B),
         NEW h, IteratesWithin(h, N, X, a, B)
  PROVE  \A n \in 0..N : h[n] \in X
<1> DEFINE S == {n \in 0..N : h[n] \in X}
<1>1. 0 \in S
  BY DEF IteratesWithin
<1>2. ASSUME NEW n \in 0..N, n \in S /\ n < N PROVE n + 1 \in S
  <2>1. n + 1 \in 1..N /\ n + 1 \in 0..N /\ n + 1 # 0 /\ (n + 1) - 1 = n
    BY <1>2
  <2> QED BY <2>1, <1>2 DEF IteratesWithin, Steps
<1>3. 0..N \subseteq S
  <2> HIDE DEF S
  <2> QED BY <1>1, <1>2, Upto
<1> QED BY <1>3

-----------------------------------------------------------------------------
(* Under[k] is what comes before k in an order of S.                        *)
Ranked(S, Under) ==
  /\ IsFiniteSet(S) /\ Under \in [S -> SUBSET S]
  /\ \A k \in S : k \notin Under[k]
  /\ \A j, k \in S : j # k =>
       \/ j \in Under[k] /\ Under[j] \subseteq Under[k]
       \/ k \in Under[j] /\ Under[k] \subseteq Under[j]

(* The number of elements before one is its place, and every place is taken. *)
LEMMA Ranks ==
  ASSUME NEW S, NEW Under, Ranked(S, Under)
  PROVE  /\ Cardinality(S) \in Nat
         /\ \A k \in S : Cardinality(Under[k]) \in Nat
                        /\ Cardinality(Under[k]) < Cardinality(S)
         /\ \A j, k \in S : j \in Under[k] <=> Cardinality(Under[j]) < Cardinality(Under[k])
         /\ \A n \in 1..Cardinality(S) : \E k \in S : Cardinality(Under[k]) = n - 1
<1> DEFINE C == Cardinality(S)
           r(k) == Cardinality(Under[k])
<1>1. IsFiniteSet(S) /\ C \in Nat
  BY FS_CardinalityType DEF Ranked
<1>2. ASSUME NEW k \in S PROVE IsFiniteSet(Under[k]) /\ r(k) \in Nat /\ r(k) < C
  <2>1. Under[k] \in SUBSET S /\ Under[k] # S
    BY DEF Ranked
  <2>2. IsFiniteSet(Under[k]) /\ r(k) <= C /\ (C = r(k) => S = Under[k])
    BY <2>1, <1>1, FS_Subset
  <2>3. r(k) \in Nat
    BY <2>2, FS_CardinalityType
  <2> QED BY <2>1, <2>2, <2>3, <1>1
<1>3. ASSUME NEW j \in S, NEW k \in S, j \in Under[k], Under[j] \subseteq Under[k]
      PROVE  r(j) < r(k)
  <2>1. j \notin Under[j] /\ Under[j] \in SUBSET Under[k]
    BY <1>3 DEF Ranked
  <2>2. r(j) <= r(k) /\ (r(k) = r(j) => Under[k] = Under[j])
    BY <2>1, <1>2, FS_Subset
  <2> QED BY <2>1, <2>2, <1>2, <1>3
<1>4. ASSUME NEW j \in S, NEW k \in S, j # k
      PROVE  r(j) # r(k) /\ (j \in Under[k] <=> r(j) < r(k))
  <2>1. CASE j \in Under[k] /\ Under[j] \subseteq Under[k]
    <3>1. r(j) < r(k)
      BY <2>1, <1>3
    <3> QED BY <2>1, <3>1, <1>2
  <2>2. CASE k \in Under[j] /\ Under[k] \subseteq Under[j]
    <3>1. r(k) < r(j)
      BY <2>2, <1>3
    <3>2. j \notin Under[k]
      BY <2>2 DEF Ranked
    <3> QED BY <3>1, <3>2, <1>2
  <2> QED BY <2>1, <2>2, <1>4 DEF Ranked
<1>5. ASSUME NEW j \in S, NEW k \in S
      PROVE  j \in Under[k] <=> r(j) < r(k)
  <2>1. CASE j = k
    BY <2>1, <1>2 DEF Ranked
  <2> QED BY <2>1, <1>4
<1>6. \A n \in 1..C : \E k \in S : r(k) = n - 1
  <2> DEFINE f == [k \in S |-> r(k) + 1]
             T == 1..C
  <2>1. \A k \in S : r(k) + 1 \in T
    BY <1>1, <1>2
  <2>2. f \in Injection(S, T)
    <3>1. f \in [S -> T]
      BY <2>1
    <3>2. \A j, k \in S : f[j] = f[k] => j = k
      BY <1>2, <1>4
    <3> HIDE DEF f, T
    <3> QED BY <3>1, <3>2 DEF Injection, IsInjective
  <2>3. IsFiniteSet(T) /\ Cardinality(T) = C
    <3> HIDE DEF C
    <3>1. 1 \in Int /\ C \in Int
      BY <1>1
    <3>2. IsFiniteSet(1..C) /\ Cardinality(1..C) = IF 1 > C THEN 0 ELSE C - 1 + 1
      BY <3>1, FS_Interval
    <3> QED BY <3>2, <1>1
  <2>4. f \in Surjection(S, T)
    <3> HIDE DEF f, T
    <3> QED BY <2>2, <2>3, FS_Injection
  <2>5. \A n \in T : \E k \in S : f[k] = n
    <3> HIDE DEF f, T
    <3> QED BY <2>4 DEF Surjection
  <2>6. ASSUME NEW n \in 1..C PROVE \E k \in S : r(k) = n - 1
    <3>1. PICK k \in S : r(k) + 1 = n
      BY <2>5
    <3> QED BY <3>1, <1>2
  <2> QED BY <2>6
<1> QED BY <1>1, <1>2, <1>5, <1>6
=============================================================================
