-------------------------- MODULE Iteration_proofs --------------------------
(***************************************************************************)
(* What the proofs about loops over a text, a command line or a queue have *)
(* in common: a recursive function over 0..n exists and is unique.  The    *)
(* library's induction theorems take the induction hypothesis as an        *)
(* operator, which the provers cannot instantiate; these take sets and     *)
(* functions and rest on the least element of a set of naturals.           *)
(***************************************************************************)
EXTENDS Naturals, WellFoundedInduction, TLAPS

\* Every set of naturals with an element has a least one: the induction
\* principle of the proofs below.
LEMMA LeastNatural ==
    ASSUME NEW S \in SUBSET Nat, S # {}
    PROVE  \E n \in S : \A m \in S : n <= m
<1>1. IsWellFoundedOn(OpToRel(<, Nat), Nat)
  BY NatLessThanWellFounded
<1>2. PICK n \in S : \A m \in S : ~(<<m, n>> \in OpToRel(<, Nat))
  BY <1>1, WFMin
<1>3. \A m \in S : ~(m < n)
  BY <1>2 DEF OpToRel
<1> QED
  BY <1>3

\* A step function applied again and again, from a.
Iterates(g, n, a, F) == g[0] = a /\ \A k \in 1..n : g[k] = F[<<k, g[k - 1]>>]

LEMMA IterationExists ==
    ASSUME NEW n \in Nat, NEW S, NEW a \in S, NEW F \in [(1..n) \X S -> S]
    PROVE  \E g \in [0..n -> S] : Iterates(g, n, a, F)
<1> DEFINE Good(m) == \E g \in [0..m -> S] : Iterates(g, m, a, F)
           Bad == {m \in 0..n : ~Good(m)}
<1>1. Good(0)
  <2> DEFINE g == [k \in 0..0 |-> a]
  <2>1. g \in [0..0 -> S] /\ g[0] = a
    OBVIOUS
  <2>2. 1..0 = {}
    OBVIOUS
  <2> HIDE DEF g
  <2> QED
    BY <2>1, <2>2 DEF Iterates
<1>2. ASSUME NEW m \in 1..n, Good(m - 1) PROVE Good(m)
  <2>1. PICK g \in [0..(m - 1) -> S] : Iterates(g, m - 1, a, F)
    BY <1>2
  <2> DEFINE h == [k \in 0..m |-> IF k < m THEN g[k] ELSE F[<<m, g[m - 1]>>]]
  <2>2. m \in Nat /\ m - 1 \in 0..(m - 1) /\ 0 \in 0..(m - 1)
    OBVIOUS
  <2>3. \A k \in 0..m : k < m => k \in 0..(m - 1)
    OBVIOUS
  <2>4. F[<<m, g[m - 1]>>] \in S
    <3>1. g[m - 1] \in S
      BY <2>1, <2>2
    <3>2. <<m, g[m - 1]>> \in (1..n) \X S
      BY <3>1
    <3> QED
      BY <3>2
  <2>5. h \in [0..m -> S]
    BY <2>1, <2>3, <2>4
  <2>6. \A k \in 0..m : h[k] = IF k < m THEN g[k] ELSE F[<<m, g[m - 1]>>]
    OBVIOUS
  <2> HIDE DEF h
  <2>7. h[0] = a
    BY <2>1, <2>2, <2>6 DEF Iterates
  <2>8. ASSUME NEW k \in 1..m PROVE h[k] = F[<<k, h[k - 1]>>]
    <3>0. k \in 0..m /\ k - 1 \in 0..m /\ k - 1 < m
      OBVIOUS
    <3>1. h[k - 1] = g[k - 1]
      BY <2>6, <3>0
    <3>2. CASE k = m
      BY <2>6, <3>0, <3>1, <3>2
    <3>3. CASE k # m
      <4>1. k < m /\ k \in 1..(m - 1)
        BY <3>3
      <4> QED
        BY <2>1, <2>6, <3>0, <3>1, <4>1 DEF Iterates
    <3> QED
      BY <3>2, <3>3
  <2> QED
    BY <2>5, <2>7, <2>8 DEF Iterates
<1>3. Bad = {}
  <2> SUFFICES ASSUME Bad # {} PROVE FALSE
    OBVIOUS
  <2>1. Bad \in SUBSET Nat
    OBVIOUS
  <2> HIDE DEF Good
  <2>2. PICK m \in Bad : \A k \in Bad : m <= k
    BY <2>1, LeastNatural
  <2>3. m # 0 /\ m \in 1..n /\ m - 1 \in 0..n
    BY <1>1, <2>2
  <2>4. m - 1 \notin Bad
    BY <2>2, <2>3
  <2> QED
    BY <1>2, <2>2, <2>3, <2>4
<1> HIDE DEF Good
<1>4. n \in 0..n /\ Good(n)
  BY <1>3
<1> QED
  BY <1>4 DEF Good

\* Two functions that start alike and stay alike from one position to the next.
Alike(g, h, n) ==
    g[0] = h[0] /\ \A k \in 1..n : g[k - 1] = h[k - 1] => g[k] = h[k]

LEMMA SameAllAlong ==
    ASSUME NEW n \in Nat, NEW g, NEW h, Alike(g, h, n)
    PROVE  \A k \in 0..n : g[k] = h[k]
<1> DEFINE Bad == {k \in 0..n : g[k] # h[k]}
<1> SUFFICES ASSUME Bad # {} PROVE FALSE
  OBVIOUS
<1>1. PICK k \in Bad : \A m \in Bad : k <= m
  <2>1. Bad \in SUBSET Nat
    OBVIOUS
  <2> QED
    BY <2>1, LeastNatural
<1>2. k \in 1..n /\ k - 1 \in 0..n /\ k - 1 \notin Bad
  BY <1>1 DEF Alike
<1> QED
  BY <1>1, <1>2 DEF Alike
=============================================================================
