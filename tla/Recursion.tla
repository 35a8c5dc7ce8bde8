------------------------------ MODULE Recursion ------------------------------
(***************************************************************************)
(* Induction up to a number, and functions defined by recursion up to a    *)
(* number, stated of sets and functions.                                   *)
(***************************************************************************)
EXTENDS Integers, WellFoundedInduction, TLAPS

\* Every set of numbers that is not empty has a least element.
LEMMA LeastNumber ==
  ASSUME NEW S \in SUBSET Nat, S # {}
  PROVE  \E x \in S : \A y \in S : x <= y
<1> DEFINE less == {p \in Nat \X Nat : p[1] < p[2]}
<1>1. IsWellFoundedOn(less, Nat)
  <2>1. less = OpToRel(<, Nat)
    BY Zenon DEF OpToRel
  <2> QED
    BY <2>1, NatLessThanWellFounded
<1>2. PICK x \in S : \A y \in S : ~(<<y, x>> \in less)
  BY <1>1, WFMin
<1>3. \A y, z \in Nat : y < z => <<y, z>> \in less
  OBVIOUS
<1> HIDE DEF less
<1>4. \A y \in S : ~(y < x) /\ x \in Nat /\ y \in Nat
  BY <1>2, <1>3
<1> QED
  BY <1>4

\* A set that has 0, and with each number up to n the next, has all up to n.
LEMMA UpTo ==
  ASSUME NEW n \in Nat, NEW S, 0 \in S,
         \A i \in 1..n : i - 1 \in S => i \in S
  PROVE  \A i \in 0..n : i \in S
<1> SUFFICES ASSUME NEW i \in 0..n, i \notin S
             PROVE  FALSE
  OBVIOUS
<1> DEFINE M == {j \in 0..n : j \notin S}
<1>1. PICK x \in M : \A y \in M : x <= y
  <2>1. M \in SUBSET Nat /\ M # {}
    OBVIOUS
  <2> HIDE DEF M
  <2> QED
    BY <2>1, LeastNumber
<1>2. x # 0 /\ x \in 1..n
  OBVIOUS
<1>3. x - 1 \in 0..n /\ x - 1 \notin M
  BY <1>1, <1>2
<1> QED
  BY <1>2, <1>3

\* The functions that give for a value of T and each number up to n the next value.
Steppers(n, T) == [T -> [1..n -> T]]

\* The values of n steps from b.
IsRun(g, n, T, b, step) ==
  g \in [0..n -> T] /\ g[0] = b /\ \A i \in 1..n : g[i] = step[g[i - 1]][i]

\* From a value of T, a step from T to T can be taken n times.
LEMMA Steps ==
  ASSUME NEW n \in Nat, NEW T, NEW b \in T, NEW step \in Steppers(n, T)
  PROVE  \E g : IsRun(g, n, T, b, step)
<1> DEFINE S == {m \in 0..n : \E g : IsRun(g, m, T, b, step)}
<1>1. 0 \in S
  <2>1. IsRun([i \in 0..0 |-> b], 0, T, b, step)
    BY DEF IsRun
  <2> QED
    BY <2>1
<1>2. ASSUME NEW m \in 1..n, m - 1 \in S
      PROVE  m \in S
  <2>1. PICK g : IsRun(g, m - 1, T, b, step)
    BY <1>2
  <2> DEFINE h == [i \in 0..m |-> IF i = m THEN step[g[m - 1]][m] ELSE g[i]]
  <2>2. m - 1 \in 0..(m - 1) /\ g[m - 1] \in T
    BY <2>1 DEF IsRun
  <2>3. h \in [0..m -> T]
    BY <2>1, <2>2 DEF IsRun, Steppers
  <2>4. h[0] = b
    BY <2>1 DEF IsRun
  <2>5. ASSUME NEW i \in 1..m
        PROVE  h[i] = step[h[i - 1]][i]
    <3>1. i - 1 \in 0..m /\ i - 1 # m /\ h[i - 1] = g[i - 1]
      OBVIOUS
    <3>2. CASE i = m
      BY <3>1, <3>2
    <3>3. CASE i # m
      <4>1. i \in 1..(m - 1) /\ h[i] = g[i]
        BY <3>3
      <4> QED
        BY <2>1, <3>1, <4>1 DEF IsRun
    <3> QED
      BY <3>2, <3>3
  <2> HIDE DEF h
  <2>6. IsRun(h, m, T, b, step)
    BY <2>3, <2>4, <2>5 DEF IsRun
  <2> QED
    BY <2>6
<1>3. n \in S
  <2> HIDE DEF S
  <2>1. \A i \in 0..n : i \in S
    BY <1>1, <1>2, UpTo
  <2> QED
    BY <2>1
<1> QED
  BY <1>3
=============================================================================
