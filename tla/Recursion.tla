------------------------------ MODULE Recursion ------------------------------
(* Induction over the natural numbers with sets in place of predicates, and   *)
(* what a recursive function over the first numbers is.                       *)
EXTENDS Integers, WellFoundedInduction, TLAPS

LEMMA LessIsWellFounded == IsWellFoundedOn({p \in Nat \X Nat : p[1] < p[2]}, Nat)
  BY NatLessThanWellFounded DEF OpToRel

\* A set that has a number whenever it has all smaller ones has every number.
LEMMA Induction ==
  ASSUME NEW T, \A n \in Nat : (\A k \in 0 .. n - 1 : k \in T) => n \in T
  PROVE  \A n \in Nat : n \in T
  <1> DEFINE R == {p \in Nat \X Nat : p[1] < p[2]}
             U == {n \in Nat : n \notin T}
  <1>1. SUFFICES ASSUME U # {} PROVE FALSE
    OBVIOUS
  <1>2. PICK x \in U : \A y \in U : <<y, x>> \notin R
    <2>1. U \subseteq Nat /\ IsWellFoundedOn(R, Nat)
      BY LessIsWellFounded
    <2> HIDE DEF R, U
    <2>. QED
      BY <1>1, <2>1, WFMin
  <1>3. ASSUME NEW k \in 0 .. x - 1 PROVE k \in T
    <2>1. k \in Nat /\ x \in Nat /\ k < x
      OBVIOUS
    <2>2. <<k, x>> \in R
      BY <2>1
    <2>. QED
      BY <1>2, <2>1, <2>2
  <1>. QED
    BY <1>3

\* f is defined over 0 .. N by its value at zero and a step.
Recursive(f, N, first, next) ==
  \A n \in 0 .. N : f[n] = IF n = 0 THEN first ELSE next[<<n, f[n - 1]>>]

\* There is such a function.
LEMMA RecursionWorks ==
  ASSUME NEW S, NEW first \in S, NEW next \in [Nat \X S -> S], NEW N \in Nat
  PROVE  \E f \in [0 .. N -> S] : Recursive(f, N, first, next)
  <1> DEFINE Right(f, n) ==
               \A k \in 0 .. n : f[k] = IF k = 0 THEN first ELSE next[<<k, f[k - 1]>>]
             T == {n \in Nat : \E f \in [0 .. n -> S] : Right(f, n)}
  <1>1. ASSUME NEW n \in Nat, \A k \in 0 .. n - 1 : k \in T PROVE n \in T
    <2>1. CASE n = 0
      <3>1. [k \in 0 .. 0 |-> first] \in [0 .. 0 -> S] /\ Right([k \in 0 .. 0 |-> first], 0)
        OBVIOUS
      <3>. QED
        BY <2>1, <3>1
    <2>2. CASE n > 0
      <3>1. PICK m \in Nat : m = n - 1 /\ n = m + 1 /\ m \in T
        <4>1. PICK m \in Nat : m = n - 1 /\ n = m + 1 /\ m \in 0 .. n - 1
          BY <2>2
        <4>. HIDE DEF T
        <4>. QED
          BY <1>1, <4>1
      <3>2. PICK f \in [0 .. m -> S] : Right(f, m)
        BY <3>1
      <3>3. PICK v \in S : v = next[<<n, f[m]>>]
        BY <3>1
      <3>4. PICK g : g = [k \in 0 .. n |-> IF k = n THEN v ELSE f[k]]
        OBVIOUS
      <3>5. \A k \in 0 .. n : k # n => k \in 0 .. m
        BY <3>1
      <3>6. g \in [0 .. n -> S]
        BY <3>4, <3>5
      <3>7. g[n] = v /\ \A k \in 0 .. m : g[k] = f[k]
        BY <3>1, <3>4
      <3>8. ASSUME NEW k \in 0 .. n
            PROVE  g[k] = IF k = 0 THEN first ELSE next[<<k, g[k - 1]>>]
        <4>1. CASE k = n
          <5>1. n - 1 \in 0 .. m /\ n - 1 = m
            BY <3>1
          <5>. QED
            BY <2>2, <3>3, <3>7, <4>1, <5>1
        <4>2. CASE k # n
          <5>1. k \in 0 .. m /\ (k # 0 => k - 1 \in 0 .. m)
            BY <3>1, <4>2
          <5>2. f[k] = IF k = 0 THEN first ELSE next[<<k, f[k - 1]>>]
            BY <3>2, <5>1
          <5>. QED
            BY <3>7, <5>1, <5>2
        <4>. QED
          BY <4>1, <4>2
      <3>9. Right(g, n)
        BY <3>8
      <3>. QED
        BY <3>6, <3>9
    <2>. QED
      BY <2>1, <2>2
  <1>2. N \in T
    <2>. HIDE DEF T
    <2>. QED
      BY <1>1, Induction
  <1>3. PICK f \in [0 .. N -> S] : Right(f, N)
    BY <1>2
  <1>. QED
    BY <1>3 DEF Recursive
=============================================================================
