------------------------------ MODULE Induction ------------------------------
(***************************************************************************)
(* Induction over natural numbers, and functions that are defined by it.   *)
(*                                                                         *)
(* The induction theorems of the library take an operator, which the       *)
(* provers cannot be given.  Here the statement is a set: the numbers it   *)
(* holds of.  A recursive function is one of its values and the next; the  *)
(* step is a function g of place and value.                                *)
(***************************************************************************)
EXTENDS Integers, WellFoundedInduction, TLAPS

LEMMA LessIsWellFounded == IsWellFoundedOn({p \in Nat \X Nat : p[1] < p[2]}, Nat)
<1>1. OpToRel(<, Nat) = {p \in Nat \X Nat : p[1] < p[2]}
  BY DEF OpToRel
<1> QED
  BY <1>1, NatLessThanWellFounded

\* What holds of 0 and, with a number, of the next one, holds of all.
LEMMA ForAllNumbers ==
  ASSUME NEW T, 0 \in T, \A n \in Nat : n \in T => n + 1 \in T
  PROVE  \A n \in Nat : n \in T
<1> DEFINE U == Nat \ T
           Less == {p \in Nat \X Nat : p[1] < p[2]}
<1> SUFFICES ASSUME U # {} PROVE FALSE
  OBVIOUS
<1>1. PICK x \in U : \A y \in U : ~(<<y, x>> \in Less)
  <2> HIDE DEF U, Less
  <2>1. U \subseteq Nat
    BY DEF U
  <2> QED
    BY <2>1, LessIsWellFounded, WFMin DEF Less
<1>2. x \in Nat \ {0}
  BY <1>1
<1>3. <<x - 1, x>> \in Less
  BY <1>2
<1>4. x - 1 \in T
  BY <1>1, <1>2, <1>3
<1> QED
  BY <1>1, <1>2, <1>4

\* The same up to a bound.
LEMMA ForAllBelow ==
  ASSUME NEW N \in Nat, NEW T, 0 \in T, \A n \in 0 .. N - 1 : n \in T => n + 1 \in T
  PROVE  \A n \in 0 .. N : n \in T
<1> DEFINE U == {n \in Nat : n <= N => n \in T}
<1>1. 0 \in U
  OBVIOUS
<1>2. \A n \in Nat : n \in U => n + 1 \in U
  OBVIOUS
<1>3. \A n \in Nat : n \in U
  <2> HIDE DEF U
  <2> QED
    BY <1>1, <1>2, ForAllNumbers
<1> QED
  BY <1>3

\* What defines the function: its first value and the step.
Steps(f, N, a, g) ==
  f = [n \in 0 .. N |-> IF n = 0 THEN a ELSE g[n][f[n - 1]]]

LEMMA StepsExist ==
  ASSUME NEW N \in Nat, NEW S, NEW a \in S, NEW g \in [Nat -> [S -> S]]
  PROVE  \E f \in [0 .. N -> S] : Steps(f, N, a, g)
<1> DEFINE Good(f, n) == \A k \in 0 .. n : f[k] = IF k = 0 THEN a ELSE g[k][f[k - 1]]
           T == {n \in Nat : \E f \in [0 .. n -> S] : Good(f, n)}
<1>1. 0 \in T
  <2>1. [n \in 0 .. 0 |-> a] \in [0 .. 0 -> S] /\ Good([n \in 0 .. 0 |-> a], 0)
    OBVIOUS
  <2> QED
    BY <2>1
<1>2. ASSUME NEW n \in Nat, n \in T
      PROVE  n + 1 \in T
  <2>1. PICK f \in [0 .. n -> S] : Good(f, n)
    BY <1>2
  <2> DEFINE h == [k \in 0 .. n + 1 |-> IF k = n + 1 THEN g[n + 1][f[n]] ELSE f[k]]
  <2>2. h \in [0 .. n + 1 -> S]
    <3>1. g[n + 1] \in [S -> S] /\ f[n] \in S
      OBVIOUS
    <3>2. \A k \in 0 .. n + 1 : k # n + 1 => k \in 0 .. n
      OBVIOUS
    <3> QED
      BY <3>1, <3>2
  <2>3. Good(h, n + 1)
    <3> SUFFICES ASSUME NEW k \in 0 .. n + 1
                 PROVE  h[k] = IF k = 0 THEN a ELSE g[k][h[k - 1]]
      OBVIOUS
    <3>1. CASE k = n + 1
      <4>1. h[k] = g[k][f[n]] /\ h[k - 1] = f[n]
        BY <3>1
      <4> QED
        BY <3>1, <4>1
    <3>2. CASE k # n + 1
      <4>1. h[k] = f[k] /\ (k # 0 => h[k - 1] = f[k - 1])
        BY <3>2
      <4>2. f[k] = IF k = 0 THEN a ELSE g[k][f[k - 1]]
        BY <2>1, <3>2
      <4> QED
        BY <4>1, <4>2
    <3> QED
      BY <3>1, <3>2
  <2> HIDE DEF h, Good
  <2> QED
    BY <2>2, <2>3
<1>3. \A n \in Nat : n \in T
  <2> HIDE DEF T
  <2> QED
    BY <1>1, <1>2, ForAllNumbers
<1>4. PICK f \in [0 .. N -> S] : Good(f, N)
  BY <1>3
<1>5. Steps(f, N, a, g)
  BY <1>4 DEF Steps
<1> QED
  BY <1>5
=============================================================================
