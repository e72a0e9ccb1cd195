----------------------------- MODULE Induction ------------------------------
(* Induction over the natural numbers, for a set of them: what the proofs  *)
(* about recursively defined functions rest on.  The library's induction   *)
(* theorems are about predicates; its theorem on minimal elements of       *)
(* well-founded sets gives the same for sets.                              *)
EXTENDS Integers, TLAPS, WellFoundedInduction

Below == {p \in Nat \X Nat : p[1] < p[2]}

(* Less-than is well founded on the natural numbers. *)
LEMMA BelowWellFounded == IsWellFoundedOn(Below, Nat)
<1>1. IsWellFoundedOn(OpToRel(<, Nat), Nat)
  BY NatLessThanWellFounded
<1>2. OpToRel(<, Nat) = Below
  BY DEF OpToRel, Below
<1> QED
  BY <1>1, <1>2

(* A set of natural numbers that is not empty has a least element. *)
LEMMA LeastNumber ==
  ASSUME NEW T \in SUBSET Nat, T # {}
  PROVE  \E n \in T : \A m \in T : ~(m < n)
<1>1. PICK n \in T : \A m \in T : ~(<<m, n>> \in Below)
  BY BelowWellFounded, WFMin, Zenon
<1>2. \A m \in T : ~(m < n)
  <2> TAKE m \in T
  <2>1. <<m, n>> \in Nat \X Nat
    OBVIOUS
  <2>2. <<m, n>>[1] = m /\ <<m, n>>[2] = n
    OBVIOUS
  <2> QED
    BY <1>1, <2>1, <2>2 DEF Below
<1> QED
  BY <1>2

(* What holds at zero and is handed on from each number to the next up to  *)
(* k holds of all of them.                                                 *)
LEMMA InductionUpTo ==
  ASSUME NEW k \in Nat, NEW S, 0 \in S,
         \A n \in 1..k : n - 1 \in S => n \in S
  PROVE  0..k \subseteq S
<1> SUFFICES ASSUME (0..k) \ S # {} PROVE FALSE
  OBVIOUS
<1>1. PICK n \in (0..k) \ S : \A m \in (0..k) \ S : ~(m < n)
  <2>1. (0..k) \ S \in SUBSET Nat
    OBVIOUS
  <2> QED
    BY <2>1, LeastNumber
<1>2. n \in 1..k /\ n - 1 \in 0..k /\ n - 1 < n
  OBVIOUS
<1>3. n - 1 \in S
  BY <1>1, <1>2
<1> QED
  BY <1>2, <1>3

(* A set that the first value of a function is in, and each next value if   *)
(* the one before it is, has all of its values.                            *)
LEMMA HandedOn ==
  ASSUME NEW k \in Nat, NEW T, NEW g, g[0] \in T,
         \A n \in 1..k : g[n - 1] \in T => g[n] \in T
  PROVE  \A n \in 0..k : g[n] \in T
<1> DEFINE S == {n \in 0..k : g[n] \in T}
<1>1. 0 \in S /\ \A n \in 1..k : n - 1 \in S => n \in S
  OBVIOUS
<1> HIDE DEF S
<1>2. 0..k \subseteq S
  BY <1>1, InductionUpTo
<1> QED
  BY <1>2 DEF S

(* A function that starts with a and takes the steps up to k.              *)
Steps(f, k, a, step) == f[0] = a /\ \A n \in 1..k : f[n] = step[n][f[n - 1]]

(* A value and a step for each number from 1 to k give a function on 0..k  *)
(* that starts with the value and takes the steps: functions defined by    *)
(* recursion on a number exist.                                            *)
LEMMA StepwiseFunction ==
  ASSUME NEW k \in Nat, NEW A, NEW a \in A, NEW step \in [1..k -> [A -> A]]
  PROVE  \E f \in [0..k -> A] : Steps(f, k, a, step)
<1> DEFINE Goes(f, n) == Steps(f, n, a, step)
           S == {n \in 0..k : \E f \in [0..n -> A] : Goes(f, n)}
<1>1. \E f \in [0..0 -> A] : Goes(f, 0)
  <2> DEFINE f == [m \in 0..0 |-> a]
  <2>1. f \in [0..0 -> A] /\ f[0] = a
    OBVIOUS
  <2>2. \A m \in 1..0 : f[m] = step[m][f[m - 1]]
    OBVIOUS
  <2> HIDE DEF f
  <2> QED
    BY <2>1, <2>2 DEF Steps
<1>2. ASSUME NEW n \in 1..k, NEW f \in [0..(n - 1) -> A], Goes(f, n - 1)
      PROVE  \E g \in [0..n -> A] : Goes(g, n)
  <2> DEFINE g == [m \in 0..n |-> IF m = n THEN step[n][f[n - 1]] ELSE f[m]]
  <2>1. step[n][f[n - 1]] \in A
    OBVIOUS
  <2>2. g \in [0..n -> A]
    BY <2>1
  <2>3. g[0] = a
    BY <1>2 DEF Steps
  <2>4. \A m \in 1..n : g[m] = step[m][g[m - 1]]
    BY <1>2 DEF Steps
  <2> HIDE DEF g
  <2> QED
    BY <2>2, <2>3, <2>4 DEF Steps
<1> HIDE DEF Goes
<1>3. 0 \in S
  BY <1>1
<1>4. \A n \in 1..k : n - 1 \in S => n \in S
  <2> TAKE n \in 1..k
  <2>1. ASSUME n - 1 \in S PROVE n \in S
    <3>1. PICK f \in [0..(n - 1) -> A] : Goes(f, n - 1)
      BY <2>1
    <3> QED
      BY <3>1, <1>2
  <2> QED
    BY <2>1
<1>5. k \in S
  <2> HIDE DEF S
  <2>1. 0..k \subseteq S
    BY <1>3, <1>4, InductionUpTo
  <2> QED
    BY <2>1
<1> QED
  BY <1>5 DEF Goes
=============================================================================
