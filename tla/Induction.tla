------------------------------ MODULE Induction ------------------------------
(***************************************************************************)
(* Induction and recursion in a form that first-order provers can use: the   *)
(* library's theorems take a predicate as a parameter, these take a set.     *)
(***************************************************************************)
EXTENDS Integers, WellFoundedInduction, TLAPS

\* A set of numbers has a least one, and what holds of 0 and of the next of each
\* holds of all.
LEMMA LeastNumber ==
  ASSUME NEW T \in SUBSET Nat, T # {}
  PROVE  \E n \in T : \A m \in T : n <= m
<1> DEFINE R == OpToRel(<, Nat)
<1>1. IsWellFoundedOn(R, Nat)
  BY NatLessThanWellFounded
<1>2. \A x, y \in Nat : <<x, y>> \in R <=> x < y
  BY DEF OpToRel
<1> HIDE DEF R
<1>3. PICK x \in T : \A y \in T : ~ (<<y, x>> \in R)
  BY <1>1, WFMin
<1>4. \A y \in T : x \in Nat /\ y \in Nat /\ ~ (y < x)
  BY <1>2, <1>3
<1> QED BY <1>4

LEMMA SetInduction ==
  ASSUME NEW S, 0 \in S, \A n \in Nat : n \in S => n + 1 \in S
  PROVE  Nat \subseteq S
<1> SUFFICES ASSUME Nat \ S # {} PROVE FALSE
  OBVIOUS
<1>1. PICK n \in Nat \ S : \A m \in Nat \ S : n <= m
  BY LeastNumber
<1>2. n # 0 /\ n - 1 \in Nat /\ n - 1 \in S
  BY <1>1
<1> QED BY <1>1, <1>2

\* A function of 0 .. n that starts at b and goes on by given steps exists.
Follows(f, b, step, n) == f[0] = b /\ \A j \in 1 .. n : f[j] = step[j][f[j - 1]]

LEMMA Iterated ==
  ASSUME NEW n \in Nat, NEW S, NEW b \in S, NEW step \in [1 .. n -> [S -> S]]
  PROVE  \E f \in [0 .. n -> S] : Follows(f, b, step, n)
<1> DEFINE K == {k \in Nat : k <= n => \E f \in [0 .. k -> S] : Follows(f, b, step, k)}
<1>1. 0 \in K
  <2> DEFINE f == [k \in 0 .. 0 |-> b]
  <2>1. f \in [0 .. 0 -> S] /\ Follows(f, b, step, 0)
    BY DEF Follows
  <2> QED BY <2>1
<1>2. ASSUME NEW k \in Nat, k \in K PROVE k + 1 \in K
  <2>0. SUFFICES ASSUME k + 1 <= n PROVE \E f \in [0 .. k + 1 -> S] : Follows(f, b, step, k + 1)
    OBVIOUS
  <2>1. PICK g \in [0 .. k -> S] : Follows(g, b, step, k)
    BY <1>2, <2>0
  <2> DEFINE v == step[k + 1][g[k]]
             f == [j \in 0 .. k + 1 |-> IF j = k + 1 THEN v ELSE g[j]]
  <2>2. v \in S
    BY <2>0
  <2>3. f \in [0 .. k + 1 -> S]
    <3> HIDE DEF v
    <3>1. ASSUME NEW j \in 0 .. k + 1 PROVE (IF j = k + 1 THEN v ELSE g[j]) \in S
      <4>1. j = k + 1 \/ j \in 0 .. k
        OBVIOUS
      <4> QED BY <2>2, <4>1
    <3> QED BY <3>1
  <2>4. f[k + 1] = v /\ \A j \in 0 .. k : f[j] = g[j]
    OBVIOUS
  <2> HIDE DEF f
  <2>5. f[0] = b
    BY <2>1, <2>4 DEF Follows
  <2>6. ASSUME NEW j \in 1 .. k + 1 PROVE f[j] = step[j][f[j - 1]]
    <3>1. CASE j = k + 1
      <4>1. j - 1 = k /\ k \in 0 .. k
        BY <3>1
      <4>2. f[j - 1] = g[k]
        BY <4>1, <2>4
      <4> QED BY <3>1, <4>2, <2>4
    <3>2. CASE j # k + 1
      <4>1. j \in 1 .. k /\ j - 1 \in 0 .. k /\ j \in 0 .. k
        BY <3>2
      <4> QED BY <4>1, <2>4, <2>1 DEF Follows
    <3> QED BY <3>1, <3>2
  <2> QED BY <2>3, <2>5, <2>6 DEF Follows
<1>3. n \in K
  <2> HIDE DEF K
  <2>1. Nat \subseteq K
    BY <1>1, <1>2, SetInduction
  <2> QED BY <2>1
<1> QED BY <1>3

=============================================================================
