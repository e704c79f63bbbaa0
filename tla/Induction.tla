----------------------------- MODULE Induction -----------------------------
(***************************************************************************)
(* Induction over the natural numbers, stated for a set in the place of a  *)
(* predicate: a set can be instantiated by the first-order provers, the    *)
(* operator parameter of the library's induction theorems cannot.          *)
(***************************************************************************)
EXTENDS Naturals, WellFoundedInduction, TLAPS

\* A set of natural numbers that is not empty has a smallest element.
THEOREM LeastNatural ==
    ASSUME NEW T \in SUBSET Nat, T # {}
    PROVE  \E x \in T : \A y \in T : x <= y
<1>1. PICK x \in T : \A y \in T : <<y, x>> \notin OpToRel(<, Nat)
  BY NatLessThanWellFounded, WFMin
<1>2. \A y \in T : ~(y < x)
  BY <1>1 DEF OpToRel
<1>3. \A y \in T : y \in Nat
  OBVIOUS
<1>4. \A y \in T : x <= y
  BY <1>2, <1>3
<1> QED  BY <1>4

\* A set of natural numbers with 0, and with n + 1 if it has n, is Nat.
THEOREM SetInduction ==
    ASSUME NEW S \in SUBSET Nat, 0 \in S, \A n \in Nat : n \in S => n + 1 \in S
    PROVE  S = Nat
<1> SUFFICES ASSUME S # Nat  PROVE FALSE
  OBVIOUS
<1>1. Nat \ S \in SUBSET Nat /\ Nat \ S # {}
  OBVIOUS
<1>2. PICK x \in Nat \ S : \A y \in Nat \ S : x <= y
  BY <1>1, LeastNatural
<1>3. x - 1 \in Nat /\ x - 1 \in S
  BY <1>2
<1> QED  BY <1>2, <1>3

\* f starts with a, and h[n] gives its value after the one at n.
Iterates(f, S, a, h) ==
    f \in [Nat -> S] /\ f[0] = a /\ \A n \in Nat : f[n + 1] = h[n][f[n]]

\* A start and a step determine a function on the natural numbers.
THEOREM Recursion ==
    ASSUME NEW S, NEW a \in S, NEW h \in [Nat -> [S -> S]]
    PROVE  \E f : Iterates(f, S, a, h)
<1> DEFINE Fits(f, n) == f[0] = a /\ \A i \in 0..n : i < n => f[i + 1] = h[i][f[i]]
           Has == {n \in Nat : \E f \in [Nat -> S] : Fits(f, n)}
<1>1. Has = Nat
  <2>1. 0 \in Has
    <3>1. [i \in Nat |-> a] \in [Nat -> S] /\ Fits([i \in Nat |-> a], 0)
      OBVIOUS
    <3> QED  BY <3>1
  <2>2. ASSUME NEW n \in Nat, n \in Has  PROVE n + 1 \in Has
    <3>1. PICK f \in [Nat -> S] : Fits(f, n)
      BY <2>2
    <3> DEFINE g == [i \in Nat |-> IF i = n + 1 THEN h[n][f[n]] ELSE f[i]]
    <3>2. g \in [Nat -> S] /\ g[0] = a
      BY <3>1
    <3>3. ASSUME NEW i \in 0..(n + 1), i < n + 1  PROVE g[i + 1] = h[i][g[i]]
      <4>1. CASE i = n
        BY <4>1
      <4>2. CASE i # n
        <5>1. i \in 0..n /\ i < n /\ i \in Nat /\ i + 1 \in Nat /\ i # n + 1 /\ i + 1 # n + 1
          BY <3>3, <4>2
        <5> QED  BY <3>1, <5>1
      <4> QED  BY <4>1, <4>2
    <3>4. Fits(g, n + 1)
      BY <3>2, <3>3
    <3>5. \E e \in [Nat -> S] : Fits(e, n + 1)
      <4> HIDE DEF g, Fits
      <4> QED  BY <3>2, <3>4
    <3> QED  BY <3>5
  <2> QED  BY <2>1, <2>2, SetInduction
<1>2. ASSUME NEW n \in Nat  PROVE \E f \in [Nat -> S] : Fits(f, n)
  BY <1>1
<1> DEFINE F == [n \in Nat |-> CHOOSE f \in [Nat -> S] : Fits(f, n)]
<1>3. ASSUME NEW n \in Nat  PROVE F[n] \in [Nat -> S] /\ Fits(F[n], n)
  BY <1>2
\* Two such functions agree as far as both go.
<1>4. ASSUME NEW m \in Nat, NEW f \in [Nat -> S], NEW g \in [Nat -> S],
             Fits(f, m), Fits(g, m + 1)
      PROVE  f[m] = g[m]
  <2> DEFINE Agree == {i \in Nat : i <= m => f[i] = g[i]}
  <2>1. 0 \in Agree
    BY <1>4
  <2>2. ASSUME NEW i \in Nat, i \in Agree  PROVE i + 1 \in Agree
    <3> SUFFICES ASSUME i + 1 <= m  PROVE f[i + 1] = g[i + 1]
      OBVIOUS
    <3>1. i \in 0..m /\ i \in 0..(m + 1) /\ i < m /\ i < m + 1 /\ f[i] = g[i]
      BY <2>2
    <3> QED  BY <1>4, <3>1
  <2>3. Agree = Nat
    BY <2>1, <2>2, SetInduction
  <2> QED  BY <2>3
<1> DEFINE r == [n \in Nat |-> F[n][n]]
<1>5. r \in [Nat -> S] /\ r[0] = a
  BY <1>3
<1>6. ASSUME NEW n \in Nat  PROVE r[n + 1] = h[n][r[n]]
  <2> DEFINE g == F[n + 1]
  <2>1. g \in [Nat -> S] /\ Fits(g, n + 1) /\ F[n] \in [Nat -> S] /\ Fits(F[n], n)
    <3>1. n + 1 \in Nat
      OBVIOUS
    <3> QED  BY <1>3, <3>1
  <2>2. F[n][n] = g[n]
    BY <1>4, <2>1
  <2>3. g[n + 1] = h[n][g[n]]
    <3>1. n \in 0..(n + 1) /\ n < n + 1
      OBVIOUS
    <3> QED  BY <2>1, <3>1
  <2>4. r[n + 1] = g[n + 1] /\ r[n] = F[n][n]
    OBVIOUS
  <2> QED  BY <2>2, <2>3, <2>4
<1>7. Iterates(r, S, a, h)
  BY <1>5, <1>6 DEF Iterates
<1> QED  BY <1>7
=============================================================================
