----------------------------- MODULE ItemsProofs -----------------------------
(***************************************************************************)
(* Items.tla for any types of ammunition, any sizes of stacks and of the   *)
(* backpack, and any weights: nothing is doubled, nothing is lost but      *)
(* where the backpack is full, and only an exchange overfills it.          *)
(*                                                                         *)
(* Each operator is shown to keep what an account holds, up to what it is  *)
(* given or takes, from the sums of a sequence through the cylinders and   *)
(* the loops over stacks to the calls.  A loop is a recursive function,    *)
(* and its invariant is carried along it with the lemmas of Recursion.     *)
(***************************************************************************)
EXTENDS Items, Recursion, SequenceTheorems

-----------------------------------------------------------------------------
(* Sums of sequences *)

\* The sums of the first i numbers, whatever they are the sums of.
IsSum(s, g) == g[0] = 0 /\ \A i \in 1..Len(s) : g[i] = g[i - 1] + s[i]

\* The recursive function in SumOf is there.
LEMMA SumsExist ==
  ASSUME NEW s \in Seq(Nat)
  PROVE  \E f : /\ f[0] = 0 /\ SumOf(s) = f[Len(s)] /\ f[Len(s)] \in Nat
                /\ \A i \in 1..Len(s) :
                     s[i] \in Nat /\ f[i - 1] \in Nat /\ f[i] \in Nat /\ f[i] = f[i - 1] + s[i]
<1> DEFINE n == Len(s)
           step == [x \in Nat |-> [i \in 1..n |-> x + s[i]]]
           Sums(g) == g = [i \in 0..n |-> IF i = 0 THEN 0 ELSE g[i - 1] + s[i]]
<1>1. n \in Nat /\ \A i \in 1..n : s[i] \in Nat
  OBVIOUS
<1>2. step \in Steppers(n, Nat)
  BY <1>1 DEF Steppers
<1>3. \A x \in Nat, i \in 1..n : step[x][i] = x + s[i]
  OBVIOUS
<1>4. PICK f : f = CHOOSE g : Sums(g)
  OBVIOUS
<1>5. SumOf(s) = f[n]
  BY <1>4 DEF SumOf
<1> HIDE DEF n, step
<1>6. PICK g : IsRun(g, n, Nat, 0, step)
  BY <1>1, <1>2, Steps
<1>7. Sums(g)
  <2>1. ASSUME NEW i \in 1..n
        PROVE  g[i] = g[i - 1] + s[i]
    <3>1. i - 1 \in 0..n
      BY <1>1
    <3>2. g[i - 1] \in Nat
      BY <1>6, <3>1 DEF IsRun
    <3> QED
      BY <1>3, <1>6, <3>2 DEF IsRun
  <2> QED
    BY <1>6, <2>1 DEF IsRun
<1>8. Sums(f)
  <2> HIDE DEF Sums
  <2> QED
    BY <1>4, <1>7
<1>9. f[0] = 0 /\ \A i \in 1..n : f[i] = f[i - 1] + s[i]
  BY <1>1, <1>8
<1> DEFINE S == {j \in 0..n : f[j] \in Nat}
<1>10. \A i \in 0..n : i \in S
  <2>1. 0 \in S
    BY <1>1, <1>9
  <2>2. ASSUME NEW i \in 1..n, i - 1 \in S
        PROVE  i \in S
    BY <1>1, <1>9, <2>2
  <2> HIDE DEF S
  <2> QED
    BY <1>1, <2>1, <2>2, UpTo
<1>11. \A i \in 0..n : f[i] \in Nat
  BY <1>10
<1> HIDE DEF Sums, S
<1>12. \A i \in 1..n : s[i] \in Nat /\ f[i - 1] \in Nat /\ f[i] \in Nat
  <2> SUFFICES ASSUME NEW i \in 1..n
               PROVE  s[i] \in Nat /\ f[i - 1] \in Nat /\ f[i] \in Nat
    OBVIOUS
  <2>1. i \in 0..n /\ i - 1 \in 0..n
    BY <1>1
  <2> QED
    BY <1>1, <1>11, <2>1
<1>13. f[n] \in Nat
  BY <1>1, <1>11
<1> QED
  BY <1>5, <1>9, <1>12, <1>13 DEF n

\* A sum of natural numbers is one.
LEMMA SumNat ==
  ASSUME NEW s \in Seq(Nat)
  PROVE  SumOf(s) \in Nat
  BY SumsExist

\* Whatever adds up s has its sum at the end.
LEMMA SumIs ==
  ASSUME NEW s \in Seq(Nat), NEW g, IsSum(s, g)
  PROVE  SumOf(s) = g[Len(s)]
<1>1. PICK f : /\ f[0] = 0 /\ SumOf(s) = f[Len(s)] /\ f[Len(s)] \in Nat
               /\ \A i \in 1..Len(s) :
                    s[i] \in Nat /\ f[i - 1] \in Nat /\ f[i] \in Nat /\ f[i] = f[i - 1] + s[i]
  BY SumsExist
<1> DEFINE S == {i \in 0..Len(s) : f[i] = g[i]}
<1>2. Len(s) \in Nat
  OBVIOUS
<1>3. 0 \in S
  BY <1>1 DEF IsSum
<1>4. ASSUME NEW i \in 1..Len(s), i - 1 \in S
      PROVE  i \in S
  BY <1>1, <1>4 DEF IsSum
<1>5. \A i \in 0..Len(s) : i \in S
  <2> HIDE DEF S
  <2> QED
    BY <1>2, <1>3, <1>4, UpTo
<1>6. f[Len(s)] = g[Len(s)]
  BY <1>2, <1>5
<1> QED
  BY <1>1, <1>6

\* Nothing sums to nothing.
LEMMA SumEmpty == SumOf(<<>>) = 0
<1>1. <<>> \in Seq(Nat) /\ Len(<<>>) = 0 /\ IsSum(<<>>, [i \in 0..0 |-> 0])
  BY DEF IsSum
<1>2. [i \in 0..0 |-> 0][0] = 0
  OBVIOUS
<1> QED
  BY <1>1, <1>2, SumIs

\* A number in front.
LEMMA SumCons ==
  ASSUME NEW s \in Seq(Nat), NEW v \in Nat, NEW t \in Seq(Nat),
         Len(t) = Len(s) + 1, t[1] = v, \A i \in 1..Len(s) : t[i + 1] = s[i]
  PROVE  SumOf(t) = v + SumOf(s)
<1>1. PICK f : /\ f[0] = 0 /\ SumOf(s) = f[Len(s)] /\ f[Len(s)] \in Nat
               /\ \A i \in 1..Len(s) :
                    s[i] \in Nat /\ f[i - 1] \in Nat /\ f[i] \in Nat /\ f[i] = f[i - 1] + s[i]
  BY SumsExist
<1> DEFINE g == [i \in 0..Len(t) |-> IF i = 0 THEN 0 ELSE v + f[i - 1]]
<1>2. Len(s) \in Nat /\ Len(t) \in Nat
  OBVIOUS
<1>3. g[0] = 0 /\ \A i \in 1..Len(t) : g[i] = v + f[i - 1]
  BY <1>2
<1> HIDE DEF g
<1>4. ASSUME NEW i \in 1..Len(t)
      PROVE  g[i] = g[i - 1] + t[i]
  <2>1. CASE i = 1
    BY <1>1, <1>3, <2>1
  <2>2. CASE i # 1
    <3> DEFINE j == i - 1
    <3>1. j \in 1..Len(s) /\ j \in 1..Len(t) /\ i = j + 1
      BY <1>2, <2>2
    <3> HIDE DEF j
    <3>2. t[i] = s[j] /\ g[i] = v + f[j] /\ g[j] = v + f[j - 1]
      BY <1>3, <3>1
    <3>3. f[j] = f[j - 1] + s[j] /\ f[j - 1] \in Nat /\ s[j] \in Nat
      BY <1>1, <3>1
    <3> QED
      BY <3>1, <3>2, <3>3, SMTT(30)
  <2> QED
    BY <2>1, <2>2
<1>5. SumOf(t) = g[Len(t)]
  BY <1>3, <1>4, SumIs DEF IsSum
<1>6. Len(t) \in 1..Len(t) /\ Len(t) - 1 = Len(s)
  BY <1>2
<1> QED
  BY <1>1, <1>3, <1>5, <1>6

\* A number that changes.
LEMMA SumChange ==
  ASSUME NEW s \in Seq(Nat), NEW t \in Seq(Nat), NEW i \in 1..Len(s),
         Len(t) = Len(s), \A j \in 1..Len(s) : j # i => t[j] = s[j]
  PROVE  SumOf(t) = SumOf(s) - s[i] + t[i]
<1>1. PICK f : /\ f[0] = 0 /\ SumOf(s) = f[Len(s)] /\ f[Len(s)] \in Nat
               /\ \A j \in 1..Len(s) :
                    s[j] \in Nat /\ f[j - 1] \in Nat /\ f[j] \in Nat /\ f[j] = f[j - 1] + s[j]
  BY SumsExist
<1> DEFINE g == [j \in 0..Len(t) |-> IF j < i THEN f[j] ELSE f[j] - s[i] + t[i]]
<1>2. Len(t) \in Nat /\ s[i] \in Nat /\ t[i] \in Nat
  OBVIOUS
<1>3. \A j \in 0..Len(t) : g[j] = IF j < i THEN f[j] ELSE f[j] - s[i] + t[i]
  OBVIOUS
<1> HIDE DEF g
<1>4. ASSUME NEW j \in 1..Len(t)
      PROVE  g[j] = g[j - 1] + t[j]
  <2>1. f[j] = f[j - 1] + s[j] /\ f[j - 1] \in Nat /\ s[j] \in Nat
    BY <1>1
  <2>2. /\ g[j] = IF j < i THEN f[j] ELSE f[j] - s[i] + t[i]
        /\ g[j - 1] = IF j - 1 < i THEN f[j - 1] ELSE f[j - 1] - s[i] + t[i]
    BY <1>2, <1>3
  <2>3. j # i => t[j] = s[j]
    OBVIOUS
  <2>4. CASE j < i
    <3>1. g[j] = f[j] /\ g[j - 1] = f[j - 1] /\ t[j] = s[j]
      BY <2>2, <2>3, <2>4
    <3> QED
      BY <2>1, <3>1
  <2>5. CASE j = i
    <3>1. g[j] = f[j] - s[j] + t[j] /\ g[j - 1] = f[j - 1]
      BY <2>2, <2>5
    <3> QED
      BY <1>2, <2>1, <2>5, <3>1
  <2>6. CASE j > i
    <3>1. g[j] = f[j] - s[i] + t[i] /\ g[j - 1] = f[j - 1] - s[i] + t[i] /\ t[j] = s[j]
      BY <2>2, <2>3, <2>6
    <3> QED
      BY <1>2, <2>1, <3>1, SMTT(30)
  <2> QED
    BY <2>4, <2>5, <2>6
<1>5. g[0] = 0
  BY <1>1, <1>2, <1>3
<1>6. SumOf(t) = g[Len(t)]
  BY <1>4, <1>5, SumIs DEF IsSum
<1>7. g[Len(t)] = f[Len(s)] - s[i] + t[i]
  BY <1>2, <1>3, SMTT(30)
<1> QED
  BY <1>1, <1>6, <1>7

\* g follows f up to i, and then the rest of it less s[i].
Shift(f, g, s, t, i, j) ==
  /\ s[i] \in Nat /\ s[j] \in Nat /\ s[j + 1] \in Nat /\ f[j - 1] \in Nat /\ f[j] \in Nat
  /\ f[j] = f[j - 1] + s[j] /\ f[j + 1] = f[j] + s[j + 1]
  /\ g[j] = IF j < i THEN f[j] ELSE f[j + 1] - s[i]
  /\ g[j - 1] = IF j - 1 < i THEN f[j - 1] ELSE f[j] - s[i]
  /\ t[j] = IF j < i THEN s[j] ELSE s[j + 1]

\* Shift leaves out the first number.
LEMMA Shifted ==
  ASSUME NEW i \in Nat, NEW j \in Nat, NEW f, NEW g, NEW s, NEW t, Shift(f, g, s, t, i, j)
  PROVE  g[j] = g[j - 1] + t[j]
<1> USE DEF Shift
<1>1. CASE j < i
  BY <1>1
<1>2. CASE j = i
  BY <1>2
<1>3. CASE j > i
  BY <1>3
<1> QED
  BY <1>1, <1>2, <1>3

\* A number that is taken out.
LEMMA SumDrop ==
  ASSUME NEW s \in Seq(Nat), NEW t \in Seq(Nat), NEW i \in 1..Len(s),
         Len(t) = Len(s) - 1,
         \A j \in 1..Len(t) : t[j] = IF j < i THEN s[j] ELSE s[j + 1]
  PROVE  SumOf(t) = SumOf(s) - s[i]
<1>1. PICK f : /\ f[0] = 0 /\ SumOf(s) = f[Len(s)] /\ f[Len(s)] \in Nat
               /\ \A j \in 1..Len(s) :
                    s[j] \in Nat /\ f[j - 1] \in Nat /\ f[j] \in Nat /\ f[j] = f[j - 1] + s[j]
  BY SumsExist
<1> DEFINE g == [j \in 0..Len(t) |-> IF j < i THEN f[j] ELSE f[j + 1] - s[i]]
<1>2. Len(t) \in Nat /\ Len(s) \in Nat /\ s[i] \in Nat
  OBVIOUS
<1>3. \A j \in 0..Len(t) : g[j] = IF j < i THEN f[j] ELSE f[j + 1] - s[i]
  OBVIOUS
<1> HIDE DEF g
<1>4. ASSUME NEW j \in 1..Len(t)
      PROVE  g[j] = g[j - 1] + t[j]
  <2>1. j \in 1..Len(s) /\ j + 1 \in 1..Len(s) /\ (j + 1) - 1 = j
    BY <1>2
  <2>2. f[j] = f[j - 1] + s[j] /\ f[j - 1] \in Nat /\ s[j] \in Nat
    BY <1>1, <2>1
  <2>3. f[j + 1] = f[j] + s[j + 1] /\ f[j] \in Nat /\ s[j + 1] \in Nat /\ f[j + 1] \in Nat
    BY <1>1, <2>1
  <2>4. /\ g[j] = IF j < i THEN f[j] ELSE f[j + 1] - s[i]
        /\ g[j - 1] = IF j - 1 < i THEN f[j - 1] ELSE f[j] - s[i]
    BY <1>2, <1>3
  <2>5. t[j] = IF j < i THEN s[j] ELSE s[j + 1]
    OBVIOUS
  <2>6. i \in Nat /\ j \in Nat
    OBVIOUS
  <2> QED
    <3>1. Shift(f, g, s, t, i, j)
      BY <1>2, <2>2, <2>3, <2>4, <2>5 DEF Shift
    <3> QED
      BY <2>6, <3>1, Shifted
<1>5. g[0] = 0
  BY <1>1, <1>2, <1>3
<1>6. SumOf(t) = g[Len(t)]
  BY <1>4, <1>5, SumIs DEF IsSum
<1>7. g[Len(t)] = IF Len(t) < i THEN f[Len(t)] ELSE f[Len(t) + 1] - s[i]
  BY <1>2, <1>3, SMTT(30)
<1>8. Len(t) + 1 = Len(s) /\ Len(s) - 1 = Len(t) /\ Len(s) \in 1..Len(s)
  BY <1>2
<1>9. f[Len(s)] = f[Len(t)] + s[Len(s)] /\ f[Len(t)] \in Nat
  BY <1>1, <1>8
<1> QED
  BY <1>1, <1>2, <1>6, <1>7, <1>8, <1>9

\* What is not nothing has a part that is not nothing.
LEMMA SumHasPart ==
  ASSUME NEW s \in Seq(Nat), SumOf(s) # 0
  PROVE  \E i \in 1..Len(s) : s[i] # 0
<1> SUFFICES ASSUME \A i \in 1..Len(s) : s[i] = 0
             PROVE  FALSE
  OBVIOUS
<1> DEFINE g == [i \in 0..Len(s) |-> 0]
<1>1. g[0] = 0 /\ g[Len(s)] = 0 /\ \A i \in 1..Len(s) : g[i] = g[i - 1] + s[i]
  OBVIOUS
<1> HIDE DEF g
<1>2. SumOf(s) = g[Len(s)]
  BY <1>1, SumIs DEF IsSum
<1> QED
  BY <1>1, <1>2

-----------------------------------------------------------------------------
(* Sequences of stacks *)

\* RemoveAt leaves out one element and keeps the order of the others.
LEMMA RemoveAtIs ==
  ASSUME NEW T, NEW s \in Seq(T), NEW i \in 1..Len(s)
  PROVE  /\ RemoveAt(s, i) \in Seq(T)
         /\ Len(RemoveAt(s, i)) = Len(s) - 1
         /\ \A j \in 1..(Len(s) - 1) : RemoveAt(s, i)[j] = IF j < i THEN s[j] ELSE s[j + 1]
<1> DEFINE front == SubSeq(s, 1, i - 1)
           back == SubSeq(s, i + 1, Len(s))
<1>1. front \in Seq(T) /\ Len(front) = i - 1 /\ \A j \in 1..(i - 1) : front[j] = s[j]
  OBVIOUS
<1>2. /\ back \in Seq(T) /\ Len(back) = Len(s) - i
      /\ \A j \in 1..(Len(s) - i) : back[j] = s[i + j]
  OBVIOUS
<1>3. RemoveAt(s, i) = front \o back
  BY DEF RemoveAt
<1> HIDE DEF front, back
<1>4. /\ front \o back \in Seq(T) /\ Len(front \o back) = Len(front) + Len(back)
      /\ \A j \in 1..(Len(front) + Len(back)) :
           (front \o back)[j] = IF j <= Len(front) THEN front[j] ELSE back[j - Len(front)]
  BY <1>1, <1>2, ConcatProperties
<1>5. Len(s) \in Nat /\ i \in Nat /\ Len(front) + Len(back) = Len(s) - 1
  BY <1>1, <1>2
<1>6. ASSUME NEW j \in 1..(Len(s) - 1)
      PROVE  (front \o back)[j] = IF j < i THEN s[j] ELSE s[j + 1]
  <2>1. (front \o back)[j] = IF j <= i - 1 THEN front[j] ELSE back[j - (i - 1)]
    BY <1>1, <1>4, <1>5
  <2>2. CASE j < i
    <3>1. j \in 1..(i - 1) /\ j <= i - 1
      BY <1>5, <2>2
    <3> QED
      BY <1>1, <2>1, <2>2, <3>1
  <2>3. CASE ~(j < i)
    <3> DEFINE h == j - (i - 1)
    <3>1. h \in 1..(Len(s) - i) /\ ~(j <= i - 1) /\ i + h = j + 1
      BY <1>5, <2>3
    <3> HIDE DEF h
    <3>2. back[h] = s[j + 1]
      BY <1>2, <3>1
    <3> QED
      BY <2>1, <2>3, <3>1, <3>2 DEF h
  <2> QED
    BY <2>2, <2>3
<1> QED
  BY <1>3, <1>4, <1>5, <1>6

\* The count of k items of type t.
Counts(t, k, a) == Value(Of(t, k), a)

\* What the assumptions say of types, worths and sizes.
LEMMA Types ==
  /\ \A t \in Type : t \in Ammo \/ t = Gold \/ t = Platinum
  /\ Coin = {Gold, Platinum} /\ Ammo \subseteq Type /\ Coin \subseteq Type
  /\ Gold \notin Ammo /\ Platinum \notin Ammo /\ Gold # Platinum
  /\ Account = Ammo \cup {Gold}
  /\ \A t \in Type : Worth(t) \in Nat \ {0} /\ Worth(t) <= StackMax
  /\ StackMax \in Nat \ {0, 1} /\ Capacity \in Nat \ {0}
  BY ItemsAssumption DEF Type, Coin, Account, Worth

\* Multiplication distributes, and stays among the natural numbers.
LEMMA Distributes ==
  ASSUME NEW a \in Nat, NEW b \in Nat, NEW c \in Nat
  PROVE  /\ (a + b) * c = a * c + b * c
         /\ a * c \in Nat
  OBVIOUS

\* Coins count in gold by their worth, ammunition in its own account.
LEMMA CountsOf ==
  ASSUME NEW t \in Type, NEW a, NEW k \in Nat
  PROVE  /\ t \in Coin => Counts(t, k, a) = IF a = Gold THEN k * Worth(t) ELSE 0
         /\ t \in Ammo => Counts(t, k, a) = IF a = t THEN k ELSE 0
         /\ Counts(t, k, a) \in Nat
<1>1. k * Worth(t) \in Nat
  BY Types, Distributes
<1> QED
  BY <1>1, Types DEF Counts, Value, Of

\* Two parts of a stack count for as much as the whole.
LEMMA CountsSum ==
  ASSUME NEW t \in Type, NEW a, NEW k \in Nat, NEW m \in Nat
  PROVE  Counts(t, k + m, a) = Counts(t, k, a) + Counts(t, m, a)
<1>1. (k + m) * Worth(t) = k * Worth(t) + m * Worth(t)
  BY Types, Distributes
<1>2. k + m \in Nat
  OBVIOUS
<1>3. CASE t \in Coin
  BY <1>1, <1>2, <1>3, CountsOf
<1>4. CASE t \in Ammo
  BY <1>2, <1>4, CountsOf
<1> QED
  BY <1>3, <1>4, Types

\* No items count for nothing.
LEMMA CountsZero ==
  ASSUME NEW t \in Type, NEW a
  PROVE  Counts(t, 0, a) = 0
<1>1. 0 * Worth(t) = 0
  BY Types
<1> QED
  BY <1>1, Types DEF Counts, Value, Of

\* A stack counts for as many items as it has.
LEMMA ValueCounts ==
  ASSUME NEW x \in Stack, NEW a
  PROVE  /\ Value(x, a) = Counts(x.id, x.n, a) /\ Value(x, a) \in Nat
         /\ x.id \in Type /\ x.n \in Nat /\ x.n \in 1..StackMax
<1>1. x.id \in Type /\ x.n \in 1..StackMax /\ x.n \in Nat
  BY Types DEF Stack
<1>2. Value(x, a) = Counts(x.id, x.n, a)
  BY DEF Counts, Value, Of
<1> QED
  BY <1>1, <1>2, CountsOf

\* The counts of the stacks of s.
Values(s, a) == [i \in DOMAIN s |-> Value(s[i], a)]

\* The amount of a cylinder is the sum of the values of its stacks.
LEMMA ValuesSeq ==
  ASSUME NEW s \in Seq(Stack), NEW a
  PROVE  /\ Values(s, a) \in Seq(Nat) /\ Len(Values(s, a)) = Len(s)
         /\ \A i \in 1..Len(s) : Values(s, a)[i] = Value(s[i], a) /\ s[i] \in Stack
         /\ Amount(s, a) = SumOf(Values(s, a)) /\ Amount(s, a) \in Nat
<1>1. \A i \in 1..Len(s) : s[i] \in Stack
  OBVIOUS
<1>2. \A i \in 1..Len(s) : Value(s[i], a) \in Nat
  BY <1>1, ValueCounts
<1>3. DOMAIN s = 1..Len(s) /\ Len(s) \in Nat
  OBVIOUS
<1>4. Values(s, a) \in Seq(Nat) /\ Len(Values(s, a)) = Len(s)
  BY <1>2, <1>3 DEF Values
<1>5. \A i \in 1..Len(s) : Values(s, a)[i] = Value(s[i], a)
  BY <1>3 DEF Values
<1>6. Amount(s, a) = SumOf(Values(s, a))
  BY DEF Amount, Values
<1> QED
  BY <1>1, <1>4, <1>5, <1>6, SumNat

\* An empty cylinder has nothing.
LEMMA AmountEmpty ==
  ASSUME NEW a
  PROVE  Amount(<<>>, a) = 0
<1>1. [i \in DOMAIN <<>> |-> Value(<<>>[i], a)] = <<>>
  OBVIOUS
<1> QED
  BY <1>1, SumEmpty DEF Amount

\* A stack put in front adds its value.
LEMMA AmountCons ==
  ASSUME NEW s \in Seq(Stack), NEW x \in Stack, NEW a
  PROVE  /\ <<x>> \o s \in Seq(Stack) /\ Len(<<x>> \o s) = Len(s) + 1
         /\ (<<x>> \o s)[1] = x /\ \A i \in 1..Len(s) : (<<x>> \o s)[i + 1] = s[i]
         /\ Amount(<<x>> \o s, a) = Amount(s, a) + Value(x, a)
<1> DEFINE t == <<x>> \o s
<1>1. t \in Seq(Stack) /\ Len(t) = Len(s) + 1 /\ t[1] = x /\ Len(s) \in Nat
  OBVIOUS
<1>2. \A i \in 1..Len(s) : t[i + 1] = s[i]
  OBVIOUS
<1> HIDE DEF t
<1>3. /\ Len(Values(t, a)) = Len(Values(s, a)) + 1 /\ Values(t, a)[1] = Value(x, a)
      /\ Values(t, a) \in Seq(Nat) /\ Values(s, a) \in Seq(Nat)
  BY <1>1, ValuesSeq
<1>4. ASSUME NEW i \in 1..Len(Values(s, a))
      PROVE  Values(t, a)[i + 1] = Values(s, a)[i]
  <2>1. i \in 1..Len(s) /\ i + 1 \in 1..Len(t)
    BY <1>1, ValuesSeq
  <2>2. Values(s, a)[i] = Value(s[i], a)
    BY <2>1, ValuesSeq
  <2>3. Values(t, a)[i + 1] = Value(t[i + 1], a)
    BY <1>1, <2>1, ValuesSeq
  <2> QED
    BY <1>2, <2>1, <2>2, <2>3
<1>5. SumOf(Values(t, a)) = Value(x, a) + SumOf(Values(s, a))
  BY <1>3, <1>4, SumCons, ValueCounts
<1>6. Amount(t, a) = Amount(s, a) + Value(x, a)
  BY <1>1, <1>5, ValuesSeq, ValueCounts
<1> QED
  BY <1>1, <1>2, <1>6 DEF t

\* The rest of a cylinder has all but the first stack.
LEMMA AmountTail ==
  ASSUME NEW s \in Seq(Stack), s # <<>>, NEW a
  PROVE  /\ Tail(s) \in Seq(Stack) /\ Head(s) \in Stack
         /\ Amount(s, a) = Amount(Tail(s), a) + Value(Head(s), a)
<1>1. Tail(s) \in Seq(Stack) /\ Head(s) \in Stack
  OBVIOUS
<1>2. s = <<Head(s)>> \o Tail(s)
  OBVIOUS
<1> DEFINE h == Head(s)
           r == Tail(s)
<1>3. Amount(<<h>> \o r, a) = Amount(r, a) + Value(h, a)
  <2>1. h \in Stack /\ r \in Seq(Stack)
    BY <1>1
  <2> HIDE DEF h, r
  <2> QED
    BY <2>1, AmountCons
<1> QED
  BY <1>1, <1>2, <1>3

\* A stack removed takes its value with it.
LEMMA AmountDrop ==
  ASSUME NEW s \in Seq(Stack), NEW i \in 1..Len(s), NEW a
  PROVE  Amount(s, a) = Amount(RemoveAt(s, i), a) + Value(s[i], a)
<1> DEFINE t == RemoveAt(s, i)
<1>1. /\ t \in Seq(Stack) /\ Len(t) = Len(s) - 1 /\ Len(s) \in Nat
      /\ \A j \in 1..(Len(s) - 1) : t[j] = IF j < i THEN s[j] ELSE s[j + 1]
  <2>1. /\ t \in Seq(Stack)
        /\ Len(t) = Len(s) - 1
        /\ \A j \in 1..(Len(s) - 1) : t[j] = IF j < i THEN s[j] ELSE s[j + 1]
    BY RemoveAtIs, Zenon
  <2>2. Len(s) \in Nat
    OBVIOUS
  <2> QED
    BY <2>1, <2>2
<1> HIDE DEF t
<1>2. /\ Values(t, a) \in Seq(Nat) /\ Values(s, a) \in Seq(Nat)
      /\ Len(Values(s, a)) = Len(s) /\ Len(Values(t, a)) = Len(s) - 1
      /\ Values(s, a)[i] = Value(s[i], a) /\ s[i] \in Stack
  BY <1>1, ValuesSeq
<1>3. ASSUME NEW j \in 1..Len(Values(t, a))
      PROVE  Values(t, a)[j] = IF j < i THEN Values(s, a)[j] ELSE Values(s, a)[j + 1]
  <2>1. j \in 1..Len(t) /\ j \in 1..Len(s) /\ j + 1 \in 1..Len(s) /\ j \in 1..(Len(s) - 1)
    BY <1>1, <1>2
  <2>2. /\ Values(t, a)[j] = Value(t[j], a) /\ Values(s, a)[j] = Value(s[j], a)
        /\ Values(s, a)[j + 1] = Value(s[j + 1], a)
    BY <1>1, <2>1, ValuesSeq
  <2>3. t[j] = IF j < i THEN s[j] ELSE s[j + 1]
    BY <1>1, <2>1
  <2> QED
    BY <2>2, <2>3
<1>4. SumOf(Values(t, a)) = SumOf(Values(s, a)) - Values(s, a)[i]
  BY <1>2, <1>3, SumDrop
<1>5. /\ Amount(t, a) = SumOf(Values(t, a)) /\ Amount(s, a) = SumOf(Values(s, a))
      /\ Amount(t, a) \in Nat /\ Amount(s, a) \in Nat /\ Value(s[i], a) \in Nat
  BY <1>1, <1>2, ValuesSeq, ValueCounts
<1> QED
  BY <1>2, <1>4, <1>5 DEF t

\* A stack that is replaced by another one.
LEMMA AmountChange ==
  ASSUME NEW s \in Seq(Stack), NEW t \in Seq(Stack), NEW i \in 1..Len(s), NEW a,
         Len(t) = Len(s), \A j \in 1..Len(s) : j # i => t[j] = s[j]
  PROVE  Amount(t, a) + Value(s[i], a) = Amount(s, a) + Value(t[i], a)
<1>1. /\ Values(t, a) \in Seq(Nat) /\ Values(s, a) \in Seq(Nat)
      /\ Len(Values(s, a)) = Len(s) /\ Len(Values(t, a)) = Len(s)
      /\ Values(s, a)[i] = Value(s[i], a) /\ s[i] \in Stack
      /\ Values(t, a)[i] = Value(t[i], a) /\ t[i] \in Stack
  BY ValuesSeq
<1>2. ASSUME NEW j \in 1..Len(Values(s, a)), j # i
      PROVE  Values(t, a)[j] = Values(s, a)[j]
  BY <1>1, <1>2, ValuesSeq
<1>3. SumOf(Values(t, a)) = SumOf(Values(s, a)) - Values(s, a)[i] + Values(t, a)[i]
  BY <1>1, <1>2, SumChange
<1>4. /\ Amount(t, a) = SumOf(Values(t, a)) /\ Amount(s, a) = SumOf(Values(s, a))
      /\ Amount(t, a) \in Nat /\ Amount(s, a) \in Nat
      /\ Value(s[i], a) \in Nat /\ Value(t[i], a) \in Nat
  BY <1>1, ValuesSeq, ValueCounts
<1> QED
  BY <1>1, <1>3, <1>4, SMTT(30)

-----------------------------------------------------------------------------
(* States, and what the cylinders do to them *)

FitsSlot(s) == Len(s) <= 1 /\ \A i \in 1..Len(s) : s[i].id \in Ammo

State == {S \in [Cylinder -> Seq(Stack)] : FitsSlot(S["slot"])}

\* What there is in a state: a sequence of stacks in each cylinder.
LEMMA StateParts ==
  ASSUME NEW S \in State
  PROVE  /\ S["slot"] \in Seq(Stack) /\ S["bag"] \in Seq(Stack) /\ S["tile"] \in Seq(Stack)
         /\ \A c \in Cylinder : S[c] \in Seq(Stack) /\ Len(S[c]) \in Nat /\ DOMAIN S[c] = 1..Len(S[c])
         /\ FitsSlot(S["slot"]) /\ S \in [Cylinder -> Seq(Stack)]
<1>1. S \in [Cylinder -> Seq(Stack)] /\ FitsSlot(S["slot"])
  BY DEF State
<1>2. S["slot"] \in Seq(Stack) /\ S["bag"] \in Seq(Stack) /\ S["tile"] \in Seq(Stack)
  BY <1>1 DEF Cylinder
<1>3. ASSUME NEW c \in Cylinder
      PROVE  S[c] \in Seq(Stack) /\ Len(S[c]) \in Nat /\ DOMAIN S[c] = 1..Len(S[c])
  <2>1. S[c] \in Seq(Stack)
    BY <1>1
  <2> QED
    BY <2>1
<1> QED
  BY <1>1, <1>2, <1>3

\* What is held of an account is the sum over the three cylinders.
LEMMA HeldNat ==
  ASSUME NEW S \in State, NEW a
  PROVE  /\ Held(S, a) = Amount(S["slot"], a) + Amount(S["bag"], a) + Amount(S["tile"], a)
         /\ Amount(S["slot"], a) \in Nat /\ Amount(S["bag"], a) \in Nat
         /\ Amount(S["tile"], a) \in Nat /\ Held(S, a) \in Nat
<1>1. /\ Amount(S["slot"], a) \in Nat /\ Amount(S["bag"], a) \in Nat
      /\ Amount(S["tile"], a) \in Nat
  BY StateParts, ValuesSeq
<1>2. Held(S, a) = Amount(S["slot"], a) + Amount(S["bag"], a) + Amount(S["tile"], a)
  BY DEF Held
<1> QED
  BY <1>1, <1>2

\* T is S but for what lies in c.
Elsewhere(S, T, c) == \A d \in Cylinder : d # c => T[d] = S[d]

Replaced(S, c, s) == [S EXCEPT ![c] = s]

\* One cylinder replaced changes what is held by the difference of the two.
LEMMA StateChange ==
  ASSUME NEW S \in State, NEW c \in Cylinder, NEW s \in Seq(Stack),
         c = "slot" => FitsSlot(s)
  PROVE  /\ Replaced(S, c, s) \in State /\ Replaced(S, c, s)[c] = s
         /\ Elsewhere(S, Replaced(S, c, s), c)
         /\ \A a : Held(Replaced(S, c, s), a) + Amount(S[c], a) = Held(S, a) + Amount(s, a)
<1> DEFINE T == Replaced(S, c, s)
<1> USE DEF Replaced
<1>1. S \in [Cylinder -> Seq(Stack)] /\ FitsSlot(S["slot"])
  BY StateParts
<1>2. T \in [Cylinder -> Seq(Stack)] /\ T[c] = s /\ Elsewhere(S, T, c)
  BY <1>1 DEF Elsewhere
<1>3. T \in State
  <2>1. "slot" \in Cylinder
    BY DEF Cylinder
  <2>2. FitsSlot(T["slot"])
    BY <1>1, <1>2, <2>1 DEF Elsewhere
  <2> QED
    BY <1>2, <2>2 DEF State
<1>4. ASSUME NEW a
      PROVE  Held(T, a) + Amount(S[c], a) = Held(S, a) + Amount(s, a)
  <2>1. Held(T, a) = Amount(T["slot"], a) + Amount(T["bag"], a) + Amount(T["tile"], a)
    BY DEF Held
  <2>2. Held(S, a) = Amount(S["slot"], a) + Amount(S["bag"], a) + Amount(S["tile"], a)
    BY DEF Held
  <2>3. /\ Amount(S["slot"], a) \in Nat /\ Amount(S["bag"], a) \in Nat
        /\ Amount(S["tile"], a) \in Nat /\ Amount(s, a) \in Nat
    BY HeldNat, ValuesSeq
  <2>4. CASE c = "slot"
    <3>1. T["slot"] = s /\ T["bag"] = S["bag"] /\ T["tile"] = S["tile"]
      BY <1>2, <2>4 DEF Elsewhere, Cylinder
    <3> QED
      BY <2>1, <2>2, <2>3, <2>4, <3>1
  <2>5. CASE c = "bag"
    <3>1. T["bag"] = s /\ T["slot"] = S["slot"] /\ T["tile"] = S["tile"]
      BY <1>2, <2>5 DEF Elsewhere, Cylinder
    <3> QED
      BY <2>1, <2>2, <2>3, <2>5, <3>1
  <2>6. CASE c = "tile"
    <3>1. T["tile"] = s /\ T["bag"] = S["bag"] /\ T["slot"] = S["slot"]
      BY <1>2, <2>6 DEF Elsewhere, Cylinder
    <3> QED
      BY <2>1, <2>2, <2>3, <2>6, <3>1
  <2> QED
    BY <2>4, <2>5, <2>6 DEF Cylinder
<1> QED
  BY <1>2, <1>3, <1>4

\* addThing adds the stack and moves the others one place back.
LEMMA PutIs ==
  ASSUME NEW S \in State, NEW c \in Cylinder, NEW x \in Stack,
         c = "slot" => S["slot"] = <<>> /\ x.id \in Ammo
  PROVE  /\ Put(S, c, x) \in State /\ Elsewhere(S, Put(S, c, x), c)
         /\ Put(S, c, x)[c] = <<x>> \o S[c] /\ Len(Put(S, c, x)[c]) = Len(S[c]) + 1 /\ Put(S, c, x)[c][1] = x
         /\ \A i \in 1..Len(S[c]) : Put(S, c, x)[c][i + 1] = S[c][i]
         /\ \A a : Held(Put(S, c, x), a) = Held(S, a) + Value(x, a)
<1> DEFINE T == Put(S, c, x)
<1>1. S[c] \in Seq(Stack) /\ S \in [Cylinder -> Seq(Stack)] /\ Len(S[c]) \in Nat
  BY StateParts
<1> DEFINE s == <<x>> \o S[c]
<1>2. /\ s \in Seq(Stack) /\ Len(s) = Len(S[c]) + 1 /\ s[1] = x
      /\ \A i \in 1..Len(S[c]) : s[i + 1] = S[c][i]
  BY <1>1, AmountCons
<1>3. \A a : Amount(s, a) = Amount(S[c], a) + Value(x, a)
  BY <1>1, AmountCons
<1>4. T = Replaced(S, c, s)
  BY <1>1 DEF Put, Replaced
<1> HIDE DEF s
<1>5. c = "slot" => FitsSlot(s)
  <2> SUFFICES ASSUME c = "slot"
               PROVE  FitsSlot(s)
    OBVIOUS
  <2>1. Len(S[c]) = 0 /\ x.id \in Ammo
    OBVIOUS
  <2>2. Len(s) = 1 /\ s[1].id \in Ammo
    BY <1>2, <2>1
  <2> QED
    BY <2>2 DEF FitsSlot
<1>6. /\ T \in State /\ T[c] = s /\ Elsewhere(S, T, c)
      /\ \A a : Held(T, a) + Amount(S[c], a) = Held(S, a) + Amount(s, a)
  BY <1>2, <1>4, <1>5, StateChange
<1>7. ASSUME NEW a
      PROVE  Held(T, a) = Held(S, a) + Value(x, a)
  <2>1. Held(T, a) \in Nat /\ Held(S, a) \in Nat /\ Amount(S[c], a) \in Nat /\ Value(x, a) \in Nat
    BY <1>1, <1>6, HeldNat, ValuesSeq, ValueCounts
  <2>2. Held(T, a) + Amount(S[c], a) = Held(S, a) + (Amount(S[c], a) + Value(x, a))
    BY <1>3, <1>6
  <2> QED
    BY <2>1, <2>2
<1> QED
  BY <1>2, <1>6, <1>7 DEF s

Resized(s, i, m) == [s EXCEPT ![i].n = m]

\* A stack that gets another count stays in its place, of its type.
LEMMA StackChange ==
  ASSUME NEW s \in Seq(Stack), NEW i \in 1..Len(s), NEW m \in 1..StackMax
  PROVE  /\ Resized(s, i, m) \in Seq(Stack) /\ Len(Resized(s, i, m)) = Len(s) /\ Resized(s, i, m)[i].id = s[i].id /\ Resized(s, i, m)[i].n = m
         /\ \A j \in 1..Len(s) : j # i => Resized(s, i, m)[j] = s[j]
<1> DEFINE t == Resized(s, i, m)
<1>1. s[i] \in Stack
  OBVIOUS
<1> DEFINE x == [s[i] EXCEPT !.n = m]
<1>2. x \in Stack /\ x.id = s[i].id /\ x.n = m
  BY <1>1 DEF Stack
<1>3. t = [s EXCEPT ![i] = x]
  BY DEF Resized
<1> HIDE DEF x
<1>4. /\ [s EXCEPT ![i] = x] \in Seq(Stack) /\ Len([s EXCEPT ![i] = x]) = Len(s)
      /\ \A j \in 1..Len(s) : [s EXCEPT ![i] = x][j] = IF j = i THEN x ELSE s[j]
  BY <1>2, ExceptSeq
<1> QED
  BY <1>2, <1>3, <1>4

\* updateThing adds the items to one stack, and changes no other.
LEMMA GrowIs ==
  ASSUME NEW S \in State, NEW c \in Cylinder, NEW i \in 1..Len(S[c]), NEW k \in Nat,
         S[c][i].n + k <= StackMax
  PROVE  /\ Grow(S, c, i, k) \in State /\ Elsewhere(S, Grow(S, c, i, k), c) /\ Len(Grow(S, c, i, k)[c]) = Len(S[c])
         /\ Grow(S, c, i, k)[c][i].id = S[c][i].id /\ Grow(S, c, i, k)[c][i].n = S[c][i].n + k
         /\ \A j \in 1..Len(S[c]) : j # i => Grow(S, c, i, k)[c][j] = S[c][j]
         /\ \A a : Held(Grow(S, c, i, k), a) = Held(S, a) + Counts(S[c][i].id, k, a)
<1> DEFINE T == Grow(S, c, i, k)
<1>1. S[c] \in Seq(Stack) /\ S \in [Cylinder -> Seq(Stack)] /\ S[c][i] \in Stack
  BY StateParts
<1>2. S[c][i].id \in Type /\ S[c][i].n \in 1..StackMax /\ StackMax \in Nat
  BY <1>1, ValueCounts, Types
<1> DEFINE m == S[c][i].n + k
           s == Resized(S[c], i, m)
<1>3. m \in 1..StackMax
  BY <1>2
<1>4. T = Replaced(S, c, s)
  BY <1>1 DEF Grow, Replaced, Resized
<1>5. /\ s \in Seq(Stack) /\ Len(s) = Len(S[c]) /\ s[i].id = S[c][i].id /\ s[i].n = m
      /\ \A j \in 1..Len(S[c]) : j # i => s[j] = S[c][j]
  <2> HIDE DEF m
  <2> QED
    BY <1>1, <1>3, StackChange
<1> HIDE DEF s
<1>6. c = "slot" => FitsSlot(s)
  <2> SUFFICES ASSUME c = "slot"
               PROVE  FitsSlot(s)
    OBVIOUS
  <2>1. FitsSlot(S[c])
    BY StateParts
  <2> QED
    BY <1>5, <2>1 DEF FitsSlot
<1>7. /\ T \in State /\ T[c] = s /\ Elsewhere(S, T, c)
      /\ \A a : Held(T, a) + Amount(S[c], a) = Held(S, a) + Amount(s, a)
  BY <1>4, <1>5, <1>6, StateChange
<1>8. ASSUME NEW a
      PROVE  Held(T, a) = Held(S, a) + Counts(S[c][i].id, k, a)
  <2>1. Amount(s, a) + Value(S[c][i], a) = Amount(S[c], a) + Value(s[i], a)
    BY <1>1, <1>5, AmountChange
  <2>2. s[i] \in Stack
    BY <1>5
  <2>3. /\ Value(s[i], a) = Counts(S[c][i].id, S[c][i].n + k, a)
        /\ Value(S[c][i], a) = Counts(S[c][i].id, S[c][i].n, a)
    BY <1>1, <1>5, <2>2, ValueCounts
  <2>4. /\ Counts(S[c][i].id, S[c][i].n + k, a)
            = Counts(S[c][i].id, S[c][i].n, a) + Counts(S[c][i].id, k, a)
        /\ Counts(S[c][i].id, S[c][i].n, a) \in Nat /\ Counts(S[c][i].id, k, a) \in Nat
    <3> DEFINE u == S[c][i].id
               v == S[c][i].n
    <3>1. u \in Type /\ v \in Nat /\ k \in Nat
      BY <1>2
    <3> HIDE DEF u, v
    <3>2. /\ Counts(u, v + k, a) = Counts(u, v, a) + Counts(u, k, a)
          /\ Counts(u, v, a) \in Nat /\ Counts(u, k, a) \in Nat
      BY <3>1, CountsSum, CountsOf
    <3> QED
      BY <3>2 DEF u, v
  <2>5. Held(T, a) \in Nat /\ Held(S, a) \in Nat /\ Amount(S[c], a) \in Nat /\ Amount(s, a) \in Nat
    BY <1>1, <1>5, <1>7, HeldNat, ValuesSeq
  <2>6. Held(T, a) + Amount(S[c], a) = Held(S, a) + Amount(s, a)
    BY <1>7
  <2>7. Amount(s, a) = Amount(S[c], a) + Counts(S[c][i].id, k, a)
    BY <2>1, <2>3, <2>4, <2>5, SMTT(30)
  <2>8. Counts(S[c][i].id, k, a) \in Nat
    BY <2>4
  <2> DEFINE h1 == Held(S, a)
             h2 == Held(T, a)
             r == Amount(S[c], a)
             w == Counts(S[c][i].id, k, a)
  <2>9. h1 \in Nat /\ h2 \in Nat /\ r \in Nat /\ w \in Nat /\ h2 + r = h1 + (r + w)
    BY <2>5, <2>6, <2>7, <2>8
  <2> HIDE DEF h1, h2, r, w
  <2>10. h2 = h1 + w
    BY <2>9
  <2> QED
    BY <2>10 DEF h1, h2, w
<1> QED
  BY <1>5, <1>7, <1>8

\* removeThing takes the items, with the stack if they are all of it.
LEMMA TakeIs ==
  ASSUME NEW S \in State, NEW c \in Cylinder, NEW i \in 1..Len(S[c]), NEW k \in 1..S[c][i].n
  PROVE  /\ Take(S, c, i, k) \in State /\ Elsewhere(S, Take(S, c, i, k), c)
         /\ Len(Take(S, c, i, k)[c]) = IF S[c][i].n = k THEN Len(S[c]) - 1 ELSE Len(S[c])
         /\ \A a : Held(S, a) = Held(Take(S, c, i, k), a) + Counts(S[c][i].id, k, a)
<1> DEFINE T == Take(S, c, i, k)
<1>1. S[c] \in Seq(Stack) /\ S \in [Cylinder -> Seq(Stack)] /\ S[c][i] \in Stack
  BY StateParts
<1>2. S[c][i].id \in Type /\ S[c][i].n \in 1..StackMax /\ StackMax \in Nat /\ k \in Nat /\ Len(S[c]) \in Nat
  BY <1>1, ValueCounts, Types
<1>3. CASE S[c][i].n = k
  <2> DEFINE s == RemoveAt(S[c], i)
  <2>1. T = Replaced(S, c, s)
    BY <1>1, <1>3 DEF Take, Replaced
  <2>2. /\ s \in Seq(Stack) /\ Len(s) = Len(S[c]) - 1
        /\ \A j \in 1..(Len(S[c]) - 1) : s[j] = IF j < i THEN S[c][j] ELSE S[c][j + 1]
    BY <1>1, RemoveAtIs
  <2>3. \A a : Amount(S[c], a) = Amount(s, a) + Value(S[c][i], a)
    BY <1>1, AmountDrop
  <2> HIDE DEF s
  <2>4. c = "slot" => FitsSlot(s)
    <3> SUFFICES ASSUME c = "slot"
                 PROVE  FitsSlot(s)
      OBVIOUS
    <3>1. Len(S[c]) <= 1
      BY StateParts DEF FitsSlot
    <3>2. Len(s) = 0
      <4>1. Len(S[c]) \in Nat /\ Len(S[c]) # 0 /\ Len(S[c]) - 1 = Len(s)
        BY <1>2, <2>2
      <4> QED
        BY <3>1, <4>1
    <3> QED
      BY <3>2 DEF FitsSlot
  <2>5. /\ T \in State /\ T[c] = s /\ Elsewhere(S, T, c)
        /\ \A a : Held(T, a) + Amount(S[c], a) = Held(S, a) + Amount(s, a)
    BY <2>1, <2>2, <2>4, StateChange
  <2>6. ASSUME NEW a
        PROVE  Held(S, a) = Held(T, a) + Counts(S[c][i].id, k, a)
    <3>1. Value(S[c][i], a) = Counts(S[c][i].id, k, a) /\ Counts(S[c][i].id, k, a) \in Nat
      BY <1>1, <1>3, ValueCounts
    <3>2. Held(T, a) \in Nat /\ Held(S, a) \in Nat /\ Amount(S[c], a) \in Nat /\ Amount(s, a) \in Nat
      BY <1>1, <2>2, <2>5, HeldNat, ValuesSeq
    <3>3. /\ Held(T, a) + Amount(S[c], a) = Held(S, a) + Amount(s, a)
          /\ Amount(S[c], a) = Amount(s, a) + Value(S[c][i], a)
      BY <2>3, <2>5
    <3> QED
      BY <3>1, <3>2, <3>3, SMTT(30)
  <2> QED
    BY <1>3, <2>2, <2>5, <2>6
<1>4. CASE S[c][i].n # k
  <2> DEFINE m == S[c][i].n - k
             s == Resized(S[c], i, m)
  <2>1. m \in 1..StackMax /\ m \in Nat /\ m + k = S[c][i].n
    BY <1>2, <1>4
  <2>2. T = Replaced(S, c, s)
    BY <1>1, <1>4 DEF Take, Replaced, Resized
  <2> HIDE DEF m
  <2>3. /\ s \in Seq(Stack) /\ Len(s) = Len(S[c]) /\ s[i].id = S[c][i].id /\ s[i].n = m
        /\ \A j \in 1..Len(S[c]) : j # i => s[j] = S[c][j]
    BY <1>1, <2>1, StackChange
  <2> HIDE DEF s
  <2>4. c = "slot" => FitsSlot(s)
    <3> SUFFICES ASSUME c = "slot"
                 PROVE  FitsSlot(s)
      OBVIOUS
    <3>1. FitsSlot(S[c])
      BY StateParts
    <3> QED
      BY <2>3, <3>1 DEF FitsSlot
  <2>5. /\ T \in State /\ T[c] = s /\ Elsewhere(S, T, c)
        /\ \A a : Held(T, a) + Amount(S[c], a) = Held(S, a) + Amount(s, a)
    BY <2>2, <2>3, <2>4, StateChange
  <2>6. ASSUME NEW a
        PROVE  Held(S, a) = Held(T, a) + Counts(S[c][i].id, k, a)
    <3>1. Amount(s, a) + Value(S[c][i], a) = Amount(S[c], a) + Value(s[i], a)
      BY <1>1, <2>3, AmountChange
    <3>2. s[i] \in Stack
      BY <2>3
    <3>3. /\ Value(s[i], a) = Counts(S[c][i].id, m, a)
          /\ Value(S[c][i], a) = Counts(S[c][i].id, m + k, a)
      BY <1>1, <2>1, <2>3, <3>2, ValueCounts
    <3>4. /\ Counts(S[c][i].id, m + k, a) = Counts(S[c][i].id, m, a) + Counts(S[c][i].id, k, a)
          /\ Counts(S[c][i].id, m, a) \in Nat /\ Counts(S[c][i].id, k, a) \in Nat
      <4> DEFINE u == S[c][i].id
                 v == m
      <4>1. u \in Type /\ v \in Nat /\ k \in Nat
        BY <1>2, <2>1
      <4> HIDE DEF u, v
      <4>2. /\ Counts(u, v + k, a) = Counts(u, v, a) + Counts(u, k, a)
            /\ Counts(u, v, a) \in Nat /\ Counts(u, k, a) \in Nat
        BY <4>1, CountsSum, CountsOf
      <4> QED
        BY <4>2 DEF u, v
    <3>5. Held(T, a) \in Nat /\ Held(S, a) \in Nat /\ Amount(S[c], a) \in Nat /\ Amount(s, a) \in Nat
      BY <1>1, <2>3, <2>5, HeldNat, ValuesSeq
    <3>6. Held(T, a) + Amount(S[c], a) = Held(S, a) + Amount(s, a)
      BY <2>5
    <3> QED
      BY <3>1, <3>3, <3>4, <3>5, <3>6, SMTT(30)
  <2> QED
    BY <1>4, <2>3, <2>5, <2>6
<1> QED
  BY <1>3, <1>4

-----------------------------------------------------------------------------
(* Room *)

\* A set of positions has a first one.
LEMMA MinIs ==
  ASSUME NEW P \in SUBSET Nat, P # {}
  PROVE  Min(P) \in P /\ \A y \in P : Min(P) <= y
<1>1. \E x \in P : \A y \in P : x <= y
  BY LeastNumber
<1> QED
  BY <1>1 DEF Min

\* Partial stacks are stacks of the type with room; there is a first one if
\* any.
LEMMA PartialIs ==
  ASSUME NEW s \in Seq(Stack), NEW t
  PROVE  /\ Partial(s, t) \in SUBSET Nat
         /\ \A i \in Partial(s, t) : /\ i \in 1..Len(s) /\ s[i] \in Stack /\ s[i].id = t
                                     /\ s[i].n \in 1..StackMax /\ s[i].n < StackMax
         /\ Partial(s, t) # {} => Min(Partial(s, t)) \in Partial(s, t)
<1>1. Partial(s, t) \in SUBSET Nat
  BY DEF Partial
<1>2. ASSUME NEW i \in Partial(s, t)
      PROVE  /\ i \in 1..Len(s) /\ s[i] \in Stack /\ s[i].id = t
             /\ s[i].n \in 1..StackMax /\ s[i].n < StackMax
  <2>1. i \in 1..Len(s) /\ s[i].id = t /\ s[i].n < StackMax
    BY DEF Partial
  <2>2. s[i] \in Stack
    BY <2>1
  <2> QED
    BY <2>1, <2>2, ValueCounts
<1> QED
  BY <1>1, <1>2, MinIs

\* The room at a position is what a stack of the type lacks of the largest.
LEMMA RoomAtIs ==
  ASSUME NEW s \in Seq(Stack), NEW t, NEW i
  PROVE  /\ RoomAt(s, t, i) \in 0..StackMax
         /\ RoomAt(s, t, i) # 0 =>
              i \in 1..Len(s) /\ s[i].id = t /\ s[i].n \in 1..StackMax /\ s[i].n + RoomAt(s, t, i) = StackMax
         /\ i \notin 1..Len(s) => RoomAt(s, t, i) = 0
<1>1. StackMax \in Nat
  BY Types
<1>2. CASE i \in Partial(s, t)
  <2>1. i \in 1..Len(s) /\ s[i].id = t /\ s[i].n \in 1..StackMax /\ s[i].n < StackMax
    BY <1>2, PartialIs
  <2>2. RoomAt(s, t, i) = StackMax - s[i].n
    BY <1>2 DEF RoomAt
  <2> DEFINE m == s[i].n
             q == RoomAt(s, t, i)
  <2>3. m \in 1..StackMax /\ m < StackMax /\ q = StackMax - m
    BY <2>1, <2>2
  <2> HIDE DEF m, q
  <2>4. q \in 0..StackMax /\ m + q = StackMax
    BY <1>1, <2>3
  <2> QED
    BY <2>1, <2>4 DEF m, q
<1>3. CASE i \notin Partial(s, t)
  <2>1. RoomAt(s, t, i) = 0
    BY <1>3 DEF RoomAt
  <2> QED
    BY <1>1, <2>1
<1> QED
  BY <1>2, <1>3

\* The room of the stacks together is a natural number.
LEMMA RoomInNat ==
  ASSUME NEW s \in Seq(Stack), NEW t, NEW I
  PROVE  RoomIn(s, t, I) \in Nat
<1> DEFINE r == [i \in DOMAIN s |-> IF i \in I THEN RoomAt(s, t, i) ELSE 0]
<1>1. \A i \in DOMAIN s : RoomAt(s, t, i) \in Nat
  BY RoomAtIs, Types
<1>2. r \in Seq(Nat)
  <2>1. DOMAIN s = 1..Len(s) /\ Len(s) \in Nat
    OBVIOUS
  <2>2. \A i \in 1..Len(s) : (IF i \in I THEN RoomAt(s, t, i) ELSE 0) \in Nat
    BY <1>1, <2>1
  <2> QED
    BY <2>1, <2>2
<1> HIDE DEF r
<1>3. SumOf(r) \in Nat
  BY <1>2, SumNat
<1> QED
  BY <1>3 DEF r, RoomIn

\* A multiple is not less.
LEMMA Multiple ==
  ASSUME NEW a \in Nat \ {0}, NEW b \in Nat
  PROVE  a * b >= b /\ a * b \in Nat
<1>1. a - 1 \in Nat /\ a = (a - 1) + 1
  OBVIOUS
<1>2. ((a - 1) + 1) * b = (a - 1) * b + 1 * b /\ (a - 1) * b \in Nat
  BY <1>1, Distributes
<1>3. 1 * b = b
  OBVIOUS
<1> DEFINE m == (a - 1) * b
<1>4. a * b = m + b /\ m \in Nat
  BY <1>1, <1>2, <1>3
<1> HIDE DEF m
<1> QED
  BY <1>4

\* There are free slots when the backpack has fewer stacks than its capacity.
LEMMA FreeSlotsIs ==
  ASSUME NEW S \in State
  PROVE  /\ FreeSlots(S) \in Nat
         /\ FreeSlots(S) = 0 <=> Len(S["bag"]) >= Capacity
         /\ FreeSlots(S) > 0 <=> Len(S["bag"]) < Capacity
         /\ FreeSlots(S) > 0 <=> FreeSlots(S) # 0
<1>1. Len(S["bag"]) \in Nat /\ Capacity \in Nat
  BY StateParts, Types
<1> QED
  BY <1>1 DEF FreeSlots

\* A free slot of the backpack is room for a whole stack.
LEMMA BagRoomIs ==
  ASSUME NEW S \in State, NEW t, NEW I
  PROVE  /\ BagRoom(S, t, I) \in Nat
         /\ FreeSlots(S) # 0 => BagRoom(S, t, I) >= StackMax
<1>1. RoomIn(S["bag"], t, I) \in Nat /\ FreeSlots(S) \in Nat /\ StackMax \in Nat
  BY FreeSlotsIs, RoomInNat, StateParts, Types
<1> DEFINE f == FreeSlots(S)
           m == f * StackMax
           q == RoomIn(S["bag"], t, I)
<1>2. BagRoom(S, t, I) = m + q
  BY DEF BagRoom
<1>3. m \in Nat /\ (f # 0 => m >= StackMax)
  <2>1. f \in Nat
    BY <1>1
  <2> HIDE DEF f
  <2>2. CASE f = 0
    <3>1. 0 * StackMax = 0
      BY <1>1
    <3> QED
      BY <2>2, <3>1
  <2>3. CASE f # 0
    <3>1. f \in Nat \ {0}
      BY <2>1, <2>3
    <3> QED
      BY <1>1, <3>1, Multiple
  <2> QED
    BY <2>2, <2>3
<1>4. q \in Nat
  BY <1>1
<1> HIDE DEF m, q
<1> QED
  BY <1>1, <1>2, <1>3, <1>4 DEF f

\* A free slot of the backpack is room with the player for a whole stack.
LEMMA PlayerRoomIs ==
  ASSUME NEW S \in State, NEW t, NEW k, NEW light \in Int
  PROVE  /\ PlayerRoom(S, t, k, light) \in Nat
         /\ FreeSlots(S) # 0 => PlayerRoom(S, t, k, light) >= StackMax
<1> DEFINE I == IF k <= light THEN DOMAIN S["bag"] ELSE {}
           left == RoomAt(S["slot"], t, 1)
           own == IF t \notin Ammo THEN 0
                  ELSE IF S["slot"] = <<>> THEN (IF k <= light THEN StackMax ELSE 0)
                  ELSE IF left <= light THEN left ELSE 0
           q == BagRoom(S, t, I)
<1>1. left \in Nat /\ StackMax \in Nat
  BY RoomAtIs, StateParts, Types
<1>2. own \in Nat
  BY <1>1
<1>3. q \in Nat /\ (FreeSlots(S) # 0 => q >= StackMax)
  BY BagRoomIs
<1>4. PlayerRoom(S, t, k, light) = own + q
  BY DEF PlayerRoom
<1> HIDE DEF own, q
<1> QED
  BY <1>1, <1>2, <1>3, <1>4

-----------------------------------------------------------------------------
(* Adding to the tile *)

\* The smaller of two numbers.
LEMMA AtMostIs ==
  ASSUME NEW a \in Nat, NEW b \in Nat
  PROVE  /\ AtMost(a, b) \in Nat /\ AtMost(a, b) <= a /\ AtMost(a, b) <= b
         /\ AtMost(a, b) = a \/ AtMost(a, b) = b
         /\ a <= b => AtMost(a, b) = a
  BY DEF AtMost

\* A new stack has the type and the count it is made with.
LEMMA OfIs ==
  ASSUME NEW t \in Type, NEW k \in 1..StackMax
  PROVE  /\ Of(t, k) \in Stack /\ Of(t, k).id = t /\ Of(t, k).n = k
         /\ \A a : Value(Of(t, k), a) = Counts(t, k, a)
  BY DEF Of, Stack, Counts

\* The tile takes all that is added: what the top stack does not take is a
\* new one.
LEMMA TileAddIs ==
  ASSUME NEW S \in State, NEW t \in Type, NEW k \in 1..StackMax
  PROVE  /\ TileAdd(S, t, k) \in State /\ Elsewhere(S, TileAdd(S, t, k), "tile")
         /\ \A a : Held(TileAdd(S, t, k), a) = Held(S, a) + Counts(t, k, a)
<1> DEFINE q == RoomAt(S["tile"], t, 1)
           n == AtMost(k, q)
           G == IF n = 0 THEN S ELSE Grow(S, "tile", 1, n)
           T == TileAdd(S, t, k)
<1>1. k \in Nat /\ StackMax \in Nat
  BY Types
<1>2. /\ q \in Nat
      /\ q # 0 => /\ 1 \in 1..Len(S["tile"]) /\ S["tile"][1].id = t
                  /\ S["tile"][1].n \in 1..StackMax /\ S["tile"][1].n + q = StackMax
  BY RoomAtIs, StateParts, Types
<1>3. T = IF n = k THEN G ELSE Put(G, "tile", Of(t, k - n))
  BY DEF TileAdd
<1>4. n \in Nat /\ n <= k /\ n <= q
  <2> HIDE DEF q
  <2> QED
    BY <1>1, <1>2, AtMostIs
<1> HIDE DEF n
<1>5. /\ G \in State /\ Elsewhere(S, G, "tile")
      /\ \A a : Held(G, a) = Held(S, a) + Counts(t, n, a)
  <2>1. CASE n = 0
    <3>1. \A a : Held(S, a) + 0 = Held(S, a)
      BY HeldNat
    <3> QED
      BY <2>1, <3>1, CountsZero DEF Elsewhere
  <2>2. CASE n # 0
    <3>1. q # 0
      BY <1>2, <1>4, <2>2
    <3>2. 1 \in 1..Len(S["tile"]) /\ S["tile"][1].id = t /\ S["tile"][1].n + n <= StackMax
      <4> DEFINE m == S["tile"][1].n
      <4>1. m \in 1..StackMax /\ m + q = StackMax
        BY <1>2, <3>1
      <4> HIDE DEF m, q
      <4>2. m + n <= StackMax
        BY <1>1, <1>2, <1>4, <4>1
      <4> QED
        BY <1>2, <3>1, <4>2 DEF m, q
    <3>3. "tile" \in Cylinder
      BY DEF Cylinder
    <3> QED
      BY <1>4, <2>2, <3>2, <3>3, GrowIs
  <2> QED
    BY <2>1, <2>2
<1> HIDE DEF G
<1>6. CASE n = k
  BY <1>3, <1>5, <1>6
<1>7. CASE n # k
  <2>1. k - n \in 1..StackMax /\ k - n \in Nat /\ n + (k - n) = k
    BY <1>1, <1>4, <1>7
  <2>2. Of(t, k - n) \in Stack /\ \A a : Value(Of(t, k - n), a) = Counts(t, k - n, a)
    BY <2>1, OfIs
  <2>3. /\ Put(G, "tile", Of(t, k - n)) \in State /\ Elsewhere(G, Put(G, "tile", Of(t, k - n)), "tile")
        /\ \A a : Held(Put(G, "tile", Of(t, k - n)), a) = Held(G, a) + Value(Of(t, k - n), a)
    BY <1>5, <2>2, PutIs DEF Cylinder
  <2>4. T = Put(G, "tile", Of(t, k - n))
    BY <1>3, <1>7
  <2>5. ASSUME NEW a
        PROVE  Held(T, a) = Held(S, a) + Counts(t, k, a)
    <3>1. Held(T, a) = (Held(S, a) + Counts(t, n, a)) + Counts(t, k - n, a)
      BY <1>5, <2>2, <2>3, <2>4
    <3>2. Counts(t, n + (k - n), a) = Counts(t, n, a) + Counts(t, k - n, a)
      BY <1>4, <2>1, CountsSum
    <3>3. Counts(t, n, a) \in Nat /\ Counts(t, k - n, a) \in Nat /\ Held(S, a) \in Nat
      BY <1>4, <2>1, CountsOf, HeldNat
    <3> QED
      BY <2>1, <3>1, <3>2, <3>3
  <2> QED
    BY <1>5, <2>3, <2>4, <2>5 DEF Elsewhere
<1> QED
  BY <1>6, <1>7

-----------------------------------------------------------------------------
(* Adding to the player *)

\* The stacks of s are still there in t, behind the new ones, and none is smaller.
Grown(s, t) ==
  /\ Len(s) <= Len(t)
  /\ \A i \in 1..Len(s) : /\ t[i + Len(t) - Len(s)].id = s[i].id
                          /\ s[i].n <= t[i + Len(t) - Len(s)].n

\* A backpack nobody touches has grown by nothing.
LEMMA GrownSelf ==
  ASSUME NEW s \in Seq(Stack)
  PROVE  Grown(s, s)
<1>1. ASSUME NEW i \in 1..Len(s)
      PROVE  i + Len(s) - Len(s) = i /\ s[i].n <= s[i].n
  <2>1. s[i] \in Stack /\ Len(s) \in Nat
    OBVIOUS
  <2>2. s[i].n \in Nat
    BY <2>1, ValueCounts
  <2> QED
    BY <2>1, <2>2
<1>2. Len(s) \in Nat
  OBVIOUS
<1> QED
  BY <1>1, <1>2 DEF Grown

\* A backpack grows by a stack in front,
LEMMA GrownPut ==
  ASSUME NEW s \in Seq(Stack), NEW x \in Stack, NEW t \in Seq(Stack), Len(t) = Len(s) + 1,
         \A i \in 1..Len(s) : t[i + 1] = s[i]
  PROVE  Grown(s, t)
<1>1. ASSUME NEW i \in 1..Len(s)
      PROVE  /\ t[i + Len(t) - Len(s)].id = s[i].id
             /\ s[i].n <= t[i + Len(t) - Len(s)].n
  <2>1. s[i] \in Stack /\ Len(s) \in Nat /\ Len(t) \in Nat
    OBVIOUS
  <2>2. i + Len(t) - Len(s) = i + 1
    BY <2>1
  <2>3. t[i + 1] = s[i] /\ s[i].n \in Nat
    BY <2>1, ValueCounts
  <2> QED
    BY <2>2, <2>3
<1>2. Len(s) <= Len(t)
  OBVIOUS
<1> QED
  BY <1>1, <1>2 DEF Grown

\* by more items in one of its stacks,
LEMMA GrownMore ==
  ASSUME NEW s \in Seq(Stack), NEW t \in Seq(Stack), NEW j \in 1..Len(s), Len(t) = Len(s),
         t[j].id = s[j].id, s[j].n <= t[j].n, \A i \in 1..Len(s) : i # j => t[i] = s[i]
  PROVE  Grown(s, t)
<1>1. ASSUME NEW i \in 1..Len(s)
      PROVE  /\ t[i + Len(t) - Len(s)].id = s[i].id
             /\ s[i].n <= t[i + Len(t) - Len(s)].n
  <2>1. s[i] \in Stack /\ Len(s) \in Nat /\ Len(t) \in Nat
    OBVIOUS
  <2>2. i + Len(t) - Len(s) = i
    BY <2>1
  <2>3. s[i].n \in Nat
    BY <2>1, ValueCounts
  <2>4. t[i].id = s[i].id /\ s[i].n <= t[i].n
    <3>1. CASE i = j
      BY <3>1
    <3>2. CASE i # j
      <4>1. t[i] = s[i]
        BY <3>2
      <4> QED
        BY <2>3, <4>1
    <3> QED
      BY <3>1, <3>2
  <2> QED
    BY <2>2, <2>4
<1>2. Len(s) <= Len(t)
  OBVIOUS
<1> QED
  BY <1>1, <1>2 DEF Grown

\* and by one growth after another.
LEMMA GrownGrown ==
  ASSUME NEW s \in Seq(Stack), NEW t \in Seq(Stack), NEW u \in Seq(Stack), Grown(s, t), Grown(t, u)
  PROVE  Grown(s, u)
<1>1. Len(s) \in Nat /\ Len(t) \in Nat /\ Len(u) \in Nat /\ Len(s) <= Len(t) /\ Len(t) <= Len(u)
  BY DEF Grown
<1>2. ASSUME NEW i \in 1..Len(s)
      PROVE  /\ u[i + Len(u) - Len(s)].id = s[i].id
             /\ s[i].n <= u[i + Len(u) - Len(s)].n
  <2> DEFINE j == i + Len(t) - Len(s)
             h == i + Len(u) - Len(s)
  <2>1. j \in 1..Len(t) /\ j + Len(u) - Len(t) = h /\ h \in 1..Len(u)
    BY <1>1
  <2>2. t[j].id = s[i].id /\ s[i].n <= t[j].n
    BY DEF Grown
  <2> HIDE DEF j, h
  <2>3. u[h].id = t[j].id /\ t[j].n <= u[h].n
    BY <2>1 DEF Grown
  <2>4. s[i] \in Stack /\ t[j] \in Stack /\ u[h] \in Stack
    BY <2>1
  <2>5. s[i].n \in Nat /\ t[j].n \in Nat /\ u[h].n \in Nat
    BY <2>4, ValueCounts
  <2>6. u[h].id = s[i].id /\ s[i].n <= u[h].n
    BY <2>2, <2>3, <2>5
  <2> QED
    BY <2>6 DEF h
<1>3. Len(s) <= Len(u)
  BY <1>1
<1> QED
  BY <1>2, <1>3 DEF Grown

\* What adding does to the backpack: it keeps its stacks and gets no more of
\* them than it has slots.
Added(S, T) ==
  /\ Grown(S["bag"], T["bag"])
  /\ Len(S["bag"]) <= Len(T["bag"])
  /\ Len(T["bag"]) > Len(S["bag"]) => Len(T["bag"]) <= Capacity

\* Where nothing is done nothing is added.
LEMMA AddedSelf ==
  ASSUME NEW S \in State
  PROVE  Added(S, S)
<1>1. Grown(S["bag"], S["bag"]) /\ Len(S["bag"]) \in Nat
  BY GrownSelf, StateParts
<1> QED
  BY <1>1 DEF Added

\* An addition after another is an addition.
LEMMA AddedAdded ==
  ASSUME NEW S \in State, NEW T \in State, NEW U \in State, Added(S, T), Added(T, U)
  PROVE  Added(S, U)
<1>1. Grown(S["bag"], U["bag"])
  BY GrownGrown, StateParts DEF Added
<1>2. Len(S["bag"]) \in Nat /\ Len(T["bag"]) \in Nat /\ Len(U["bag"]) \in Nat /\ Capacity \in Nat
  BY StateParts, Types
<1> QED
  BY <1>1, <1>2 DEF Added

\* A new stack in the slot, or in a backpack with a free slot, is an
\* addition.
LEMMA PutAdded ==
  ASSUME NEW S \in State, NEW c \in {"slot", "bag"}, NEW x \in Stack,
         c = "slot" => S["slot"] = <<>> /\ x.id \in Ammo,
         c = "bag" => Len(S["bag"]) < Capacity
  PROVE  Added(S, Put(S, c, x))
<1> DEFINE T == Put(S, c, x)
<1>1. c \in Cylinder
  BY DEF Cylinder
<1>2. /\ T \in State /\ Elsewhere(S, T, c) /\ Len(T[c]) = Len(S[c]) + 1
      /\ \A i \in 1..Len(S[c]) : T[c][i + 1] = S[c][i]
  BY <1>1, PutIs, ZenonT(60)
<1> HIDE DEF T
<1>4. CASE c = "slot"
  <2>1. T["bag"] = S["bag"]
    BY <1>2, <1>4 DEF Elsewhere, Cylinder
  <2>2. Grown(S["bag"], S["bag"]) /\ Len(S["bag"]) \in Nat
    BY GrownSelf, StateParts
  <2>3. Added(S, T)
    BY <2>1, <2>2 DEF Added
  <2> QED
    BY <2>3 DEF T
<1>5. CASE c = "bag"
  <2>1. Grown(S["bag"], T["bag"])
    BY <1>2, <1>5, GrownPut, StateParts
  <2>2. Len(S["bag"]) \in Nat /\ Capacity \in Nat /\ Len(T["bag"]) = Len(S["bag"]) + 1
    BY <1>2, <1>5, StateParts, Types
  <2>3. Added(S, T)
    BY <1>5, <2>1, <2>2 DEF Added
  <2> QED
    BY <2>3 DEF T
<1> QED
  BY <1>4, <1>5

\* More items in a stack are an addition, with as many stacks as before.
LEMMA GrowAdded ==
  ASSUME NEW S \in State, NEW c \in {"slot", "bag"}, NEW i \in 1..Len(S[c]), NEW k \in Nat,
         S[c][i].n + k <= StackMax
  PROVE  Added(S, Grow(S, c, i, k)) /\ Len(Grow(S, c, i, k)["bag"]) = Len(S["bag"])
<1> DEFINE T == Grow(S, c, i, k)
<1>1. c \in Cylinder
  BY DEF Cylinder
<1>2. /\ T \in State /\ Elsewhere(S, T, c) /\ Len(T[c]) = Len(S[c])
      /\ T[c][i].id = S[c][i].id /\ T[c][i].n = S[c][i].n + k
      /\ \A j \in 1..Len(S[c]) : j # i => T[c][j] = S[c][j]
  BY <1>1, GrowIs
<1> HIDE DEF T
<1>4. CASE c = "slot"
  <2>1. T["bag"] = S["bag"]
    BY <1>2, <1>4 DEF Elsewhere, Cylinder
  <2>2. Grown(S["bag"], S["bag"]) /\ Len(S["bag"]) \in Nat
    BY GrownSelf, StateParts
  <2>3. Added(S, T) /\ Len(T["bag"]) = Len(S["bag"])
    BY <2>1, <2>2 DEF Added
  <2> QED
    BY <2>3 DEF T
<1>5. CASE c = "bag"
  <2>1. S[c][i] \in Stack /\ S["bag"] \in Seq(Stack) /\ T["bag"] \in Seq(Stack)
    BY <1>1, <1>2, <1>5, StateParts
  <2>2. S[c][i].n \in Nat
    BY <2>1, ValueCounts
  <2>3. S[c][i].n <= T[c][i].n
    BY <1>2, <2>2
  <2>4. Grown(S["bag"], T["bag"])
    BY <1>2, <1>5, <2>1, <2>3, GrownMore
  <2>5. Len(S["bag"]) \in Nat /\ Capacity \in Nat /\ Len(T["bag"]) = Len(S["bag"])
    BY <1>2, <1>5, StateParts, Types
  <2>6. Added(S, T) /\ Len(T["bag"]) = Len(S["bag"])
    BY <1>5, <2>4, <2>5 DEF Added
  <2> QED
    BY <2>6 DEF T
<1> QED
  BY <1>4, <1>5

\* queryDestination finds the slot only for ammunition that fits there, the
\* backpack only with room, and nothing only for what is too heavy or without
\* a free slot.
LEMMA DestinationIs ==
  ASSUME NEW S \in State, NEW t \in Type, NEW k \in Nat, NEW light \in Int
  PROVE  /\ Destination(S, t, k, light) \in {"slot", "bag", "nowhere"}
         /\ Destination(S, t, k, light) = "slot" =>
              t \in Ammo /\ (S["slot"] = <<>> \/ Partial(S["slot"], t) # {})
         /\ Destination(S, t, k, light) = "bag" =>
              Partial(S["bag"], t) # {} \/ FreeSlots(S) > 0
         /\ Destination(S, t, k, light) = "nowhere" => ~(k <= light /\ FreeSlots(S) > 0)
  BY DEF Destination

\* What is left of k items when S has become T, in the account a.
Balance(S, k, T, m, t, a) == Held(T, a) + Counts(t, m, a) = Held(S, a) + Counts(t, k, a)
NoMore(S, k, T, m, t, a) == Held(T, a) + Counts(t, m, a) <= Held(S, a) + Counts(t, k, a)

Adding == [state : State, left : 0..StackMax]

\* What a round does: q is what is left of r.
Rounded(r, q, t, light) ==
  /\ q \in Adding
  /\ q = r \/ q.left < r.left
  /\ \A a : NoMore(r.state, r.left, q.state, q.left, t, a)
  /\ FreeSlots(r.state) > 0 => \A a : Balance(r.state, r.left, q.state, q.left, t, a)
  /\ Added(r.state, q.state)
  /\ q.left # 0 => Len(q.state["bag"]) = Len(r.state["bag"])
  /\ r.left # 0 /\ q = r => r.left > light \/ FreeSlots(r.state) = 0
  /\ q # r => r.left <= light /\ r.left # 0

\* One internalAddItem gives up on all that is left, or adds some and leaves
\* the rest; with a free slot it loses nothing.
LEMMA AddRoundIs ==
  ASSUME NEW r \in Adding, NEW t \in Type, NEW light \in Int
  PROVE  Rounded(r, AddRound(r, t, light), t, light)
<1> DEFINE q == AddRound(r, t, light)
           S == r.state
           k == r.left
           c == Destination(S, t, k, light)
           room == PlayerRoom(S, t, k, light)
           i == Min(Partial(S[c], t))
           m == AtMost(k, room)
           n == AtMost(m, StackMax - S[c][i].n)
           refused == k = 0 \/ k > light \/ (c = "bag" /\ room < k)
<1>1. S \in State /\ k \in 0..StackMax /\ k \in Nat /\ k <= StackMax /\ StackMax \in Nat
      /\ r = [state |-> S, left |-> k]
  BY Types DEF Adding
<1>2. /\ c \in {"slot", "bag", "nowhere"}
      /\ c = "slot" => t \in Ammo /\ (S["slot"] = <<>> \/ Partial(S["slot"], t) # {})
      /\ c = "bag" => Partial(S["bag"], t) # {} \/ FreeSlots(S) > 0
      /\ c = "nowhere" => ~(k <= light /\ FreeSlots(S) > 0)
  <2> HIDE DEF S, k
  <2> QED
    BY <1>1, DestinationIs
<1>3. room \in Nat /\ (FreeSlots(S) # 0 => room >= StackMax)
  <2> HIDE DEF S, k
  <2> QED
    BY <1>1, PlayerRoomIs
<1>4. q = IF refused THEN r
          ELSE IF c = "nowhere" THEN [state |-> S, left |-> 0]
          ELSE IF Partial(S[c], t) = {} THEN [state |-> Put(S, c, Of(t, k)), left |-> 0]
          ELSE [state |-> Grow(S, c, i, n), left |-> m - n]
  BY DEF AddRound
<1>5. /\ FreeSlots(S) \in Nat
      /\ FreeSlots(S) > 0 <=> Len(S["bag"]) < Capacity
      /\ FreeSlots(S) > 0 <=> FreeSlots(S) # 0
  <2> HIDE DEF S
  <2> QED
    BY <1>1, FreeSlotsIs
<1>6. \A a : Held(S, a) \in Nat /\ Counts(t, k, a) \in Nat
  <2> HIDE DEF S, k
  <2> QED
    BY <1>1, HeldNat, CountsOf
<1>7. light \in Int
  OBVIOUS
<1> HIDE DEF q, S, k, c, room, refused
<1>8. ASSUME refused
      PROVE  Rounded(r, q, t, light)
  <2>1. q = r /\ q.state = S /\ q.left = k
    BY <1>1, <1>4, <1>8
  <2>2. \A a : NoMore(S, k, S, k, t, a) /\ Balance(S, k, S, k, t, a)
    BY <1>6 DEF NoMore, Balance
  <2>3. Added(S, S)
    BY <1>1, AddedSelf
  <2>4. k # 0 => k > light \/ FreeSlots(S) = 0
    BY <1>1, <1>3, <1>5, <1>8 DEF refused
  <2> QED
    BY <2>1, <2>2, <2>3, <2>4 DEF Rounded, S, k
<1>9. ASSUME ~refused /\ c = "nowhere"
      PROVE  Rounded(r, q, t, light)
  <2>1. q.state = S /\ q.left = 0 /\ q = [state |-> S, left |-> 0]
    BY <1>4, <1>9
  <2>2. k # 0 /\ k <= light
    BY <1>1, <1>7, <1>9 DEF refused
  <2>3. FreeSlots(S) = 0
    BY <1>2, <1>5, <1>9, <2>2
  <2>4. q \in Adding /\ q.left < k /\ q # r
    BY <1>1, <2>1, <2>2 DEF Adding
  <2>5. ASSUME NEW a
        PROVE  NoMore(S, k, S, 0, t, a)
    <3>1. Counts(t, 0, a) = 0
      BY CountsZero
    <3> QED
      BY <1>6, <3>1 DEF NoMore
  <2>6. Added(S, S)
    BY <1>1, AddedSelf
  <2> QED
    BY <2>1, <2>2, <2>3, <2>4, <2>5, <2>6 DEF Rounded, S, k
<1>10. ASSUME ~refused /\ c # "nowhere" /\ Partial(S[c], t) = {}
      PROVE  Rounded(r, q, t, light)
  <2>1. q.state = Put(S, c, Of(t, k)) /\ q.left = 0 /\ q = [state |-> Put(S, c, Of(t, k)), left |-> 0]
    BY <1>4, <1>10
  <2>2. k # 0 /\ k <= light /\ k \in 1..StackMax
    BY <1>1, <1>7, <1>10 DEF refused
  <2>3. c \in {"slot", "bag"} /\ c \in Cylinder
    BY <1>2, <1>10 DEF Cylinder
  <2>4. c = "slot" => S["slot"] = <<>> /\ Of(t, k).id \in Ammo
    BY <1>2, <1>10, <2>2, OfIs
  <2>5. c = "bag" => Len(S["bag"]) < Capacity
    BY <1>2, <1>5, <1>10
  <2>6. Of(t, k) \in Stack /\ \A a : Value(Of(t, k), a) = Counts(t, k, a)
    BY <2>2, OfIs
  <2>7. /\ Put(S, c, Of(t, k)) \in State
        /\ \A a : Held(Put(S, c, Of(t, k)), a) = Held(S, a) + Value(Of(t, k), a)
    BY <1>1, <2>3, <2>4, <2>6, PutIs
  <2>8. Added(S, Put(S, c, Of(t, k)))
    BY <1>1, <2>3, <2>4, <2>5, <2>6, PutAdded
  <2>9. q \in Adding /\ q.left < k /\ q # r
    BY <1>1, <2>1, <2>2, <2>7 DEF Adding
  <2>10. ASSUME NEW a
         PROVE  NoMore(S, k, q.state, 0, t, a) /\ Balance(S, k, q.state, 0, t, a)
    <3>1. Counts(t, 0, a) = 0
      BY CountsZero
    <3>2. Held(q.state, a) = Held(S, a) + Counts(t, k, a)
      BY <2>1, <2>6, <2>7
    <3> QED
      BY <1>6, <3>1, <3>2 DEF NoMore, Balance
  <2> QED
    BY <2>1, <2>2, <2>8, <2>9, <2>10 DEF Rounded, S, k
<1>11. ASSUME ~refused /\ c # "nowhere" /\ Partial(S[c], t) # {}
      PROVE  Rounded(r, q, t, light)
  <2>1. q = [state |-> Grow(S, c, i, n), left |-> m - n]
    BY <1>4, <1>11
  <2>2. k # 0 /\ k <= light /\ k \in 1..StackMax
    BY <1>1, <1>7, <1>11 DEF refused
  <2>3. c \in {"slot", "bag"} /\ c \in Cylinder
    BY <1>2, <1>11 DEF Cylinder
  <2>4. /\ i \in 1..Len(S[c]) /\ S[c][i].id = t
        /\ S[c][i].n \in 1..StackMax /\ S[c][i].n < StackMax
    <3>1. S[c] \in Seq(Stack)
      BY <1>1, <2>3, StateParts
    <3> QED
      BY <1>11, <3>1, PartialIs
  <2>5. m \in Nat /\ m <= k /\ (FreeSlots(S) > 0 => m = k)
    <3>1. m \in Nat /\ m <= k /\ (k <= room => m = k)
      BY <1>1, <1>3, AtMostIs
    <3> QED
      BY <1>1, <1>3, <1>5, <3>1
  <2> DEFINE p == S[c][i].n
  <2> HIDE DEF i, m, p
  <2>6. n \in Nat /\ n <= m /\ p + n <= StackMax /\ (n = 0 => m = 0)
    <3>1. p \in 1..StackMax /\ p < StackMax
      BY <2>4 DEF p
    <3>2. StackMax - p \in Nat /\ StackMax - p # 0
      BY <1>1, <3>1
    <3>3. n = AtMost(m, StackMax - p)
      BY DEF p
    <3>4. n \in Nat /\ n <= m /\ n <= StackMax - p /\ (n = m \/ n = StackMax - p)
      BY <2>5, <3>2, <3>3, AtMostIs
    <3> QED
      BY <1>1, <2>5, <3>1, <3>2, <3>4
  <2> HIDE DEF n
  <2>7. /\ Grow(S, c, i, n) \in State
        /\ \A a : Held(Grow(S, c, i, n), a) = Held(S, a) + Counts(t, n, a)
    BY <1>1, <2>3, <2>4, <2>6, GrowIs DEF p
  <2>8. Added(S, Grow(S, c, i, n)) /\ Len(Grow(S, c, i, n)["bag"]) = Len(S["bag"])
    BY <1>1, <2>3, <2>4, <2>6, GrowAdded DEF p
  <2>9. q.state = Grow(S, c, i, n) /\ q.left = m - n
    BY <2>1
  <2>10. m - n \in 0..StackMax /\ m - n < k /\ m - n \in Nat
    BY <1>1, <2>2, <2>5, <2>6
  <2>11. q \in Adding /\ q.left < k /\ q # r
    BY <1>1, <2>1, <2>7, <2>10 DEF Adding
  <2>12. ASSUME NEW a
         PROVE  /\ NoMore(S, k, q.state, q.left, t, a)
                /\ FreeSlots(S) > 0 => Balance(S, k, q.state, q.left, t, a)
    <3> DEFINE w == k - m
    <3>1. w \in Nat /\ m + w = k /\ n + (m - n) = m /\ (FreeSlots(S) > 0 => w = 0)
      BY <1>1, <2>5, <2>6
    <3> HIDE DEF w
    <3>2. Counts(t, m + w, a) = Counts(t, m, a) + Counts(t, w, a) /\ Counts(t, w, a) \in Nat
      BY <2>5, <3>1, CountsSum, CountsOf
    <3>3. Counts(t, n + (m - n), a) = Counts(t, n, a) + Counts(t, m - n, a)
      BY <2>6, <2>10, CountsSum
    <3>4. Counts(t, n, a) \in Nat /\ Counts(t, m - n, a) \in Nat /\ Counts(t, m, a) \in Nat
      BY <2>5, <2>6, <2>10, CountsOf
    <3>5. FreeSlots(S) > 0 => Counts(t, w, a) = 0
      BY <3>1, CountsZero
    <3>6. Held(q.state, a) + Counts(t, q.left, a) = Held(S, a) + (Counts(t, n, a) + Counts(t, m - n, a))
      BY <1>6, <2>7, <2>9, <3>4
    <3>7. Counts(t, k, a) = (Counts(t, n, a) + Counts(t, m - n, a)) + Counts(t, w, a)
      BY <3>1, <3>2, <3>3
    <3> DEFINE x == Counts(t, n, a) + Counts(t, m - n, a)
               y == Counts(t, w, a)
               z == Counts(t, k, a)
    <3>8. x \in Nat /\ y \in Nat /\ z = x + y /\ (FreeSlots(S) > 0 => y = 0)
      BY <3>2, <3>4, <3>5, <3>7
    <3>9. Held(q.state, a) + Counts(t, q.left, a) = Held(S, a) + x
      BY <3>6
    <3> HIDE DEF x, y
    <3>10. Held(S, a) + x <= Held(S, a) + (x + y)
      BY <1>6, <3>8
    <3>11. FreeSlots(S) > 0 => Held(S, a) + x = Held(S, a) + (x + y)
      BY <1>6, <3>8
    <3> QED
      BY <3>8, <3>9, <3>10, <3>11 DEF NoMore, Balance
  <2>13. Added(S, q.state) /\ Len(q.state["bag"]) = Len(S["bag"])
    BY <2>8, <2>9
  <2> QED
    BY <2>2, <2>11, <2>12, <2>13 DEF Rounded, S, k
<1>12. Rounded(r, q, t, light)
  BY <1>8, <1>9, <1>10, <1>11
<1> QED
  BY <1>12 DEF q

\* The rounds of PlayerAdd are there.
LEMMA AddRuns ==
  ASSUME NEW S \in State, NEW t \in Type, NEW k \in 0..StackMax, NEW light \in Int
  PROVE  \E add :
           /\ add[0] = [state |-> S, left |-> k] /\ add[0] \in Adding /\ add[k] \in Adding
           /\ \A j \in 1..k : add[j - 1] \in Adding /\ add[j] = AddRound(add[j - 1], t, light)
           /\ \A index :
                PlayerAdd(S, t, k, light, index) =
                  IF index # -1 /\ Destination(S, t, k, light) = "nowhere" THEN add[0]
                  ELSE [add[k] EXCEPT !.left = IF add[k] = add[1] THEN add[k].left ELSE 0]
<1> DEFINE b == [state |-> S, left |-> k]
           step == [r \in Adding |-> [i \in 1..k |-> AddRound(r, t, light)]]
           Rounds(g) == g = [j \in 0..k |-> IF j = 0 THEN b ELSE AddRound(g[j - 1], t, light)]
<1>1. k \in Nat /\ b \in Adding
  BY Types DEF Adding
<1>2. \A r \in Adding : AddRound(r, t, light) \in Adding
  BY AddRoundIs DEF Rounded
<1>3. step \in Steppers(k, Adding)
  BY <1>2 DEF Steppers
<1>4. \A r \in Adding, i \in 1..k : step[r][i] = AddRound(r, t, light)
  OBVIOUS
<1>5. PICK f : f = CHOOSE g : Rounds(g)
  OBVIOUS
<1>6. \A index :
        PlayerAdd(S, t, k, light, index) =
          IF index # -1 /\ Destination(S, t, k, light) = "nowhere" THEN f[0]
          ELSE [f[k] EXCEPT !.left = IF f[k] = f[1] THEN f[k].left ELSE 0]
  BY <1>5 DEF PlayerAdd
<1> HIDE DEF b, step
<1>7. PICK g : IsRun(g, k, Adding, b, step)
  BY <1>1, <1>3, Steps
<1>8. g \in [0..k -> Adding] /\ g[0] = b /\ \A i \in 1..k : g[i] = step[g[i - 1]][i]
  BY <1>7 DEF IsRun
<1>9. \A i \in 1..k : g[i] = AddRound(g[i - 1], t, light)
  <2> SUFFICES ASSUME NEW i \in 1..k
               PROVE  g[i] = AddRound(g[i - 1], t, light)
    OBVIOUS
  <2>1. i - 1 \in 0..k
    BY <1>1
  <2>2. g[i - 1] \in Adding
    BY <1>8, <2>1
  <2> QED
    BY <1>4, <1>8, <2>2
<1>10. Rounds(g)
  BY <1>1, <1>8, <1>9
<1>11. Rounds(f)
  <2> HIDE DEF Rounds
  <2> QED
    BY <1>5, <1>10
<1>12. f[0] = b /\ \A i \in 1..k : f[i] = AddRound(f[i - 1], t, light)
  BY <1>1, <1>11
<1> HIDE DEF Rounds
<1> DEFINE W == {j \in 0..k : f[j] \in Adding}
<1>13. \A i \in 0..k : i \in W
  <2>1. 0 \in W
    BY <1>1, <1>12
  <2>2. ASSUME NEW i \in 1..k, i - 1 \in W
        PROVE  i \in W
    <3>1. f[i - 1] \in Adding /\ i \in 0..k
      BY <1>1, <2>2
    <3>2. f[i] \in Adding
      BY <1>2, <1>12, <3>1
    <3> QED
      BY <3>1, <3>2
  <2> HIDE DEF W
  <2> QED
    BY <1>1, <2>1, <2>2, UpTo
<1>14. \A i \in 0..k : f[i] \in Adding
  BY <1>13
<1> HIDE DEF W
<1>15. \A i \in 1..k : f[i - 1] \in Adding
  BY <1>1, <1>14
<1>16. f[0] \in Adding /\ f[k] \in Adding
  BY <1>1, <1>14
<1> QED
  BY <1>6, <1>12, <1>15, <1>16 DEF b

\* The free slots depend on the number of stacks only.
LEMMA SameFreeSlots ==
  ASSUME NEW S, NEW T, Len(S["bag"]) = Len(T["bag"])
  PROVE  FreeSlots(S) = FreeSlots(T)
  BY DEF FreeSlots

\* What has come of k items after j rounds, r, where the first one left "first".
AddedSoFar(S, k, r, j, first, t, light) ==
  /\ r \in Adding /\ r.left <= k
  /\ \A a : NoMore(S, k, r.state, r.left, t, a)
  /\ FreeSlots(S) > 0 => \A a : Balance(S, k, r.state, r.left, t, a)
  /\ Added(S, r.state)
  /\ r.left # 0 => Len(r.state["bag"]) = Len(S["bag"])
  /\ r.left + j <= k \/ AddRound(r, t, light) = r
  /\ r.left = k => r.state = S
  /\ r.left < k => k <= light
  /\ j # 0 => r.left <= first

\* A call further in keeps the invariant of the calls.
LEMMA AddedOneMore ==
  ASSUME NEW S \in State, NEW t \in Type, NEW k \in 0..StackMax, NEW light \in Int,
         NEW j \in 1..k, NEW first \in Nat, NEW r, NEW q, q = AddRound(r, t, light),
         AddedSoFar(S, k, r, j - 1, first, t, light), j = 1 => q.left = first
  PROVE  AddedSoFar(S, k, q, j, first, t, light)
<1>1. r \in Adding /\ r.state \in State /\ r.left \in Nat /\ k \in Nat /\ r.left <= k
  BY Types DEF AddedSoFar, Adding
<1>2. Rounded(r, q, t, light)
  BY <1>1, AddRoundIs
<1>3. q \in Adding /\ q.state \in State /\ q.left \in Nat /\ (q = r \/ q.left < r.left)
  BY <1>2, Types DEF Rounded, Adding
<1>4. q.left <= r.left /\ q.left <= k
  BY <1>1, <1>3
<1>5. \A a : NoMore(S, k, q.state, q.left, t, a)
  <2> SUFFICES ASSUME NEW a
               PROVE  NoMore(S, k, q.state, q.left, t, a)
    OBVIOUS
  <2>1. NoMore(S, k, r.state, r.left, t, a) /\ NoMore(r.state, r.left, q.state, q.left, t, a)
    BY <1>2 DEF AddedSoFar, Rounded
  <2>2. /\ Held(S, a) \in Nat /\ Held(r.state, a) \in Nat /\ Held(q.state, a) \in Nat
        /\ Counts(t, k, a) \in Nat /\ Counts(t, r.left, a) \in Nat /\ Counts(t, q.left, a) \in Nat
    BY <1>1, <1>3, HeldNat, CountsOf
  <2> QED
    BY <2>1, <2>2 DEF NoMore
<1>6. FreeSlots(S) > 0 => \A a : Balance(S, k, q.state, q.left, t, a)
  <2> SUFFICES ASSUME FreeSlots(S) > 0, NEW a
               PROVE  Balance(S, k, q.state, q.left, t, a)
    OBVIOUS
  <2>1. Balance(S, k, r.state, r.left, t, a)
    BY DEF AddedSoFar
  <2>2. CASE q = r
    BY <2>1, <2>2
  <2>3. CASE q # r
    <3>1. FreeSlots(r.state) = FreeSlots(S)
      BY <1>2, <2>3, SameFreeSlots DEF AddedSoFar, Rounded
    <3>2. Balance(r.state, r.left, q.state, q.left, t, a)
      BY <1>2, <3>1 DEF Rounded
    <3> QED
      BY <2>1, <3>2 DEF Balance
  <2> QED
    BY <2>2, <2>3
<1>7. Added(S, q.state)
  BY <1>1, <1>2, <1>3, AddedAdded DEF AddedSoFar, Rounded
<1>8. q.left # 0 => Len(q.state["bag"]) = Len(S["bag"])
  <2> SUFFICES ASSUME q.left # 0
               PROVE  Len(q.state["bag"]) = Len(S["bag"])
    OBVIOUS
  <2>1. r.left # 0
    BY <1>1, <1>3, <1>4
  <2> QED
    BY <1>2, <2>1 DEF AddedSoFar, Rounded
<1>9. q.left + j <= k \/ AddRound(q, t, light) = q
  <2>1. CASE q = r
    BY <2>1
  <2>2. CASE q # r
    <3>1. r.left + (j - 1) <= k /\ q.left < r.left
      BY <1>3, <2>2 DEF AddedSoFar
    <3> QED
      BY <1>1, <1>3, <3>1
  <2> QED
    BY <2>1, <2>2
<1>10. q.left = k => q.state = S
  <2> SUFFICES ASSUME q.left = k
               PROVE  q.state = S
    OBVIOUS
  <2>1. q = r
    BY <1>1, <1>3
  <2> QED
    BY <2>1 DEF AddedSoFar
<1>11. q.left < k => k <= light
  <2> SUFFICES ASSUME q.left < k
               PROVE  k <= light
    OBVIOUS
  <2>1. CASE r.left < k
    BY <2>1 DEF AddedSoFar
  <2>2. CASE r.left = k
    <3>1. q # r
      BY <1>1, <2>2
    <3> QED
      BY <1>2, <2>2, <3>1 DEF Rounded
  <2> QED
    BY <1>1, <2>1, <2>2
<1>12. q.left <= first
  <2>1. CASE j = 1
    BY <1>3, <2>1
  <2>2. CASE j # 1
    <3>1. j - 1 # 0
      BY <2>2
    <3>2. r.left <= first
      BY <3>1 DEF AddedSoFar
    <3>3. r.left \in Nat /\ q.left \in Nat
      BY <1>1, <1>3
    <3> QED
      BY <1>4, <3>2, <3>3
  <2> QED
    BY <2>1, <2>2
<1> QED
  BY <1>3, <1>4, <1>5, <1>6, <1>7, <1>8, <1>9, <1>10, <1>11, <1>12 DEF AddedSoFar

\* What PlayerAdd does with k items: R is what has come of them.
PlayerAdded(S, k, R, t) ==
  /\ R.state \in State /\ R.left \in 0..k
  /\ \A a : NoMore(S, k, R.state, R.left, t, a)
  /\ FreeSlots(S) > 0 => \A a : Balance(S, k, R.state, R.left, t, a)
  /\ Added(S, R.state)
  /\ R.left = k => R.state = S
  /\ R.left # 0 /\ R.left # k => FreeSlots(S) = 0

\* What internalAddItem adds and what it leaves are together no more than was
\* to be added, and exactly that where the backpack had a free slot.
LEMMA PlayerAddIs ==
  ASSUME NEW S \in State, NEW t \in Type, NEW k \in 0..StackMax, NEW light \in Int, NEW index
  PROVE  PlayerAdded(S, k, PlayerAdd(S, t, k, light, index), t)
<1>1. PICK add :
        /\ add[0] = [state |-> S, left |-> k] /\ add[0] \in Adding /\ add[k] \in Adding
        /\ \A j \in 1..k : add[j - 1] \in Adding /\ add[j] = AddRound(add[j - 1], t, light)
        /\ PlayerAdd(S, t, k, light, index) =
             IF index # -1 /\ Destination(S, t, k, light) = "nowhere" THEN add[0]
             ELSE [add[k] EXCEPT !.left = IF add[k] = add[1] THEN add[k].left ELSE 0]
  <2>1. PICK f :
          /\ f[0] = [state |-> S, left |-> k] /\ f[0] \in Adding /\ f[k] \in Adding
          /\ \A j \in 1..k : f[j - 1] \in Adding /\ f[j] = AddRound(f[j - 1], t, light)
          /\ \A x :
               PlayerAdd(S, t, k, light, x) =
                 IF x # -1 /\ Destination(S, t, k, light) = "nowhere" THEN f[0]
                 ELSE [f[k] EXCEPT !.left = IF f[k] = f[1] THEN f[k].left ELSE 0]
    BY AddRuns
  <2> QED
    BY <2>1
<1>2. k \in Nat /\ StackMax \in Nat
  BY Types
<1> DEFINE first == add[1].left
           So(r, j) == AddedSoFar(S, k, r, j, first, t, light)
           R == PlayerAdd(S, t, k, light, index)
           W == {j \in 0..k : So(add[j], j)}
<1>3. \A a : NoMore(S, k, S, k, t, a) /\ Balance(S, k, S, k, t, a)
  <2> SUFFICES ASSUME NEW a
               PROVE  NoMore(S, k, S, k, t, a) /\ Balance(S, k, S, k, t, a)
    OBVIOUS
  <2>1. Held(S, a) \in Nat /\ Counts(t, k, a) \in Nat
    BY <1>2, HeldNat, CountsOf
  <2> QED
    BY <2>1 DEF NoMore, Balance
<1>4. Added(S, S)
  BY AddedSelf
<1>5. So(add[0], 0)
  <2>1. add[0].state = S /\ add[0].left = k
    BY <1>1
  <2> QED
    BY <1>1, <1>2, <1>3, <1>4, <2>1 DEF AddedSoFar
<1>6. \A j \in 0..k : j \in W
  <2>1. 0 \in W
    BY <1>2, <1>5
  <2>2. ASSUME NEW j \in 1..k, j - 1 \in W
        PROVE  j \in W
    <3>1. So(add[j - 1], j - 1) /\ j \in 0..k
      BY <1>2, <2>2
    <3>2. add[j] = AddRound(add[j - 1], t, light) /\ (j = 1 => add[j].left = first)
      BY <1>1
    <3>3. first \in Nat
      <4>1. 1 \in 1..k /\ 1 - 1 = 0
        BY <1>2
      <4>2. AddRound(add[0], t, light) = add[1]
        BY <1>1, <4>1
      <4>3. add[1] \in Adding
        BY <1>1, <4>2, AddRoundIs DEF Rounded
      <4> QED
        BY <4>3, Types DEF Adding
    <3>4. So(add[j], j)
      <4> HIDE DEF first
      <4> QED
        BY <3>1, <3>2, <3>3, AddedOneMore
    <3> QED
      BY <3>1, <3>4
  <2> HIDE DEF W
  <2> QED
    BY <1>2, <2>1, <2>2, UpTo
<1>7. So(add[k], k)
  <2>1. k \in 0..k
    BY <1>2
  <2>2. k \in W
    BY <1>6, <2>1
  <2> QED
    BY <2>2
<1> HIDE DEF W, first, R
<1> DEFINE r == add[k]
<1>8. /\ r.state \in State /\ r.left \in Nat /\ r.left <= k
      /\ r = [state |-> r.state, left |-> r.left]
  BY <1>7, <1>2 DEF AddedSoFar, Adding
<1>9. r.left # 0 /\ r.left # k => FreeSlots(S) = 0
  <2> SUFFICES ASSUME r.left # 0, r.left # k
               PROVE  FreeSlots(S) = 0
    OBVIOUS
  <2>1. AddRound(r, t, light) = r
    BY <1>2, <1>7, <1>8 DEF AddedSoFar
  <2>2. Rounded(r, r, t, light)
    BY <1>1, <2>1, AddRoundIs
  <2>3. r.left <= light
    BY <1>2, <1>7, <1>8 DEF AddedSoFar
  <2>4. FreeSlots(r.state) = 0
    BY <1>8, <2>2, <2>3 DEF Rounded
  <2> QED
    BY <1>7, <2>4, SameFreeSlots DEF AddedSoFar
<1>10. CASE R = add[0]
  <2>1. R.state = S /\ R.left = k /\ k \in 0..k
    BY <1>1, <1>2, <1>10
  <2> QED
    BY <1>3, <1>4, <2>1 DEF PlayerAdded, R
<1>11. ASSUME R.state = r.state, R.left = r.left
       PROVE  PlayerAdded(S, k, R, t)
  <2>1. R.left \in 0..k
    BY <1>2, <1>8, <1>11
  <2> QED
    BY <1>7, <1>8, <1>9, <1>11, <2>1 DEF PlayerAdded, AddedSoFar
<1>12. CASE /\ R = [add[k] EXCEPT !.left = IF add[k] = add[1] THEN add[k].left ELSE 0]
            /\ add[k] = add[1]
  <2>1. R.state = r.state /\ R.left = r.left
    BY <1>8, <1>12
  <2> QED
    BY <1>11, <2>1 DEF R
<1>13. CASE /\ R = [add[k] EXCEPT !.left = IF add[k] = add[1] THEN add[k].left ELSE 0]
            /\ add[k] # add[1]
  <2>1. R.state = r.state /\ R.left = 0
    BY <1>8, <1>13
  <2>2. CASE r.left = 0
    BY <1>11, <2>1, <2>2 DEF R
  <2>3. CASE r.left # 0
    <3>1. k # 0 /\ 1 \in 1..k /\ 1 - 1 = 0
      BY <1>2, <1>8, <2>3
    <3>2. add[1] = AddRound(add[0], t, light)
      BY <1>1, <3>1
    <3>3. Rounded(add[0], add[1], t, light)
      BY <1>1, <3>2, AddRoundIs
    <3>4. first \in Nat /\ (add[1] = add[0] \/ first < k)
      BY <1>1, <3>3, Types DEF Rounded, Adding, first
    <3>5. r.left <= first
      BY <1>7, <3>1 DEF AddedSoFar
    <3>6. r.left # k
      <4> SUFFICES ASSUME r.left = k
                   PROVE  FALSE
        OBVIOUS
      <4>1. r.state = S
        BY <1>7 DEF AddedSoFar
      <4>2. r = add[0]
        BY <1>1, <1>8, <4>1
      <4>3. add[1] = add[0]
        BY <1>2, <3>4, <3>5
      <4> QED
        BY <1>13, <4>2, <4>3
    <3>7. FreeSlots(S) = 0
      BY <1>9, <2>3, <3>6
    <3>8. \A a : NoMore(S, k, R.state, R.left, t, a)
      <4> SUFFICES ASSUME NEW a
                   PROVE  NoMore(S, k, R.state, R.left, t, a)
        OBVIOUS
      <4>1. NoMore(S, k, r.state, r.left, t, a)
        BY <1>7 DEF AddedSoFar
      <4>2. /\ Held(S, a) \in Nat /\ Held(r.state, a) \in Nat /\ Counts(t, 0, a) = 0
            /\ Counts(t, k, a) \in Nat /\ Counts(t, r.left, a) \in Nat
        BY <1>2, <1>8, HeldNat, CountsOf, CountsZero
      <4> QED
        BY <2>1, <4>1, <4>2 DEF NoMore
    <3>9. Added(S, R.state) /\ R.state \in State /\ R.left \in 0..k
      BY <1>2, <1>7, <1>8, <2>1 DEF AddedSoFar
    <3>10. R.left = 0 /\ R.left # k /\ ~(FreeSlots(S) > 0)
      BY <2>1, <3>1, <3>7
    <3> QED
      BY <3>8, <3>9, <3>10 DEF PlayerAdded, R
  <2> QED
    BY <2>2, <2>3
<1> QED
  BY <1>1, <1>10, <1>12, <1>13 DEF R

-----------------------------------------------------------------------------
(* Adding coins *)

\* Quotient and remainder.
LEMMA Division ==
  ASSUME NEW a \in Nat, NEW b \in Nat \ {0}
  PROVE  /\ a \div b \in Nat /\ a % b \in Nat /\ a % b < b
         /\ a = ((a \div b) * b) + (a % b)
  OBVIOUS

\* Multiplication is monotone.
LEMMA Products ==
  ASSUME NEW a \in Nat, NEW b \in Nat, NEW c \in Nat, a <= b
  PROVE  a * c <= b * c /\ a * c \in Nat /\ b * c \in Nat
<1> DEFINE d == b - a
<1>1. d \in Nat /\ b = a + d
  OBVIOUS
<1> HIDE DEF d
<1>2. b * c = a * c + d * c /\ a * c \in Nat /\ d * c \in Nat /\ b * c \in Nat
  BY <1>1, Distributes
<1> DEFINE x == a * c
           y == d * c
           z == b * c
<1>3. z = x + y /\ x \in Nat /\ y \in Nat /\ z \in Nat
  BY <1>2
<1> HIDE DEF x, y, z
<1>4. x <= z
  BY <1>3
<1> QED
  BY <1>3, <1>4 DEF x, z

\* A number less than a multiple has a quotient less than the factor.
LEMMA DivisionLess ==
  ASSUME NEW a \in Nat, NEW b \in Nat \ {0}, NEW c \in Nat, a < c * b
  PROVE  a \div b < c
<1> DEFINE q == a \div b
           x == q * b
           y == c * b
<1>1. q \in Nat /\ a % b \in Nat /\ a = x + (a % b)
  BY Division
<1>2. ~(c <= q)
  <2> SUFFICES ASSUME c <= q
               PROVE  FALSE
    OBVIOUS
  <2> HIDE DEF q
  <2>1. y <= x /\ x \in Nat /\ y \in Nat
    BY <1>1, Products
  <2>2. a < y
    OBVIOUS
  <2> HIDE DEF x, y
  <2> QED
    BY <1>1, <2>1, <2>2
<1> HIDE DEF q
<1>3. q < c
  BY <1>1, <1>2
<1> QED
  BY <1>3 DEF q

\* Money in an account.
Money(m, a) == IF a = Gold THEN m ELSE 0

\* Gold is worth one, platinum a stack of gold.
LEMMA CoinTypes ==
  /\ Gold \in Type /\ Platinum \in Type /\ Gold \in Coin /\ Platinum \in Coin
  /\ Worth(Gold) = 1 /\ Worth(Platinum) = StackMax
  BY Types DEF Worth

\* AddCoin, the backpack as in "Added".
CoinAdded(S, k, T, t) ==
  /\ T \in State
  /\ \A a : Held(T, a) <= Held(S, a) + Counts(t, k, a)
  /\ FreeSlots(S) > 0 => \A a : Held(T, a) = Held(S, a) + Counts(t, k, a)
  /\ Added(S, T)

\* Coins of one type are all added, on the tile if need be, where the
\* backpack had a free slot.
LEMMA AddCoinIs ==
  ASSUME NEW S \in State, NEW t \in Type, NEW k \in 0..StackMax, NEW light \in Int
  PROVE  /\ CoinAdded(S, k, AddCoin(S, t, k, light), t)
         /\ k = 0 => AddCoin(S, t, k, light) = S
<1> DEFINE T == AddCoin(S, t, k, light)
           R == PlayerAdd(S, t, k, light, -1)
<1>1. T = IF k = 0 THEN S ELSE IF R.left < k THEN R.state ELSE TileAdd(S, t, k)
  BY DEF AddCoin
<1>2. PlayerAdded(S, k, R, t)
  BY PlayerAddIs
<1>3. k \in Nat /\ StackMax \in Nat
  BY Types
<1> HIDE DEF T, R
<1>4. CASE k = 0
  <2>1. T = S
    BY <1>1, <1>4
  <2>2. \A a : Counts(t, k, a) = 0 /\ Held(S, a) \in Nat
    BY <1>4, CountsZero, HeldNat
  <2>3. Added(S, S)
    BY AddedSelf
  <2>4. CoinAdded(S, k, T, t)
    BY <2>1, <2>2, <2>3 DEF CoinAdded
  <2> QED
    BY <2>1, <2>4 DEF T
<1>5. CASE k # 0 /\ R.left < k
  <2>1. T = R.state
    BY <1>1, <1>5
  <2>2. R.state \in State /\ R.left \in 0..k /\ R.left \in Nat /\ R.left # k
    BY <1>2, <1>3, <1>5 DEF PlayerAdded
  <2>3. ASSUME NEW a
        PROVE  Held(T, a) <= Held(S, a) + Counts(t, k, a)
    <3>1. NoMore(S, k, R.state, R.left, t, a)
      BY <1>2 DEF PlayerAdded
    <3>2. /\ Held(S, a) \in Nat /\ Held(R.state, a) \in Nat
          /\ Counts(t, k, a) \in Nat /\ Counts(t, R.left, a) \in Nat
      BY <1>3, <2>2, HeldNat, CountsOf
    <3> QED
      BY <2>1, <3>1, <3>2 DEF NoMore
  <2>4. ASSUME NEW a, FreeSlots(S) > 0
        PROVE  Held(T, a) = Held(S, a) + Counts(t, k, a)
    <3>1. Balance(S, k, R.state, R.left, t, a)
      BY <1>2, <2>4 DEF PlayerAdded
    <3>2. R.left = 0
      <4>1. FreeSlots(S) # 0
        BY <2>4
      <4> QED
        BY <1>2, <2>2, <4>1 DEF PlayerAdded
    <3>3. Counts(t, R.left, a) = 0 /\ Held(R.state, a) \in Nat
      BY <2>2, <3>2, CountsZero, HeldNat
    <3> QED
      BY <2>1, <3>1, <3>3 DEF Balance
  <2>5. Added(S, T)
    BY <1>2, <2>1 DEF PlayerAdded
  <2>6. CoinAdded(S, k, T, t)
    BY <2>1, <2>2, <2>3, <2>4, <2>5 DEF CoinAdded
  <2> QED
    BY <1>5, <2>6 DEF T
<1>6. CASE k # 0 /\ ~(R.left < k)
  <2>1. T = TileAdd(S, t, k)
    BY <1>1, <1>6
  <2>2. k \in 1..StackMax
    BY <1>3, <1>6
  <2>3. /\ T \in State /\ Elsewhere(S, T, "tile")
        /\ \A a : Held(T, a) = Held(S, a) + Counts(t, k, a)
    BY <2>1, <2>2, TileAddIs
  <2>4. T["bag"] = S["bag"]
    BY <2>3 DEF Elsewhere, Cylinder
  <2>5. Added(S, T)
    <3>1. Added(S, S)
      BY AddedSelf
    <3> QED
      BY <2>4, <3>1 DEF Added
  <2>6. \A a : Held(T, a) <= Held(S, a) + Counts(t, k, a)
    <3>1. \A a : Held(T, a) \in Nat
      BY <2>3, HeldNat
    <3> QED
      BY <2>3, <3>1
  <2>7. CoinAdded(S, k, T, t)
    BY <2>3, <2>5, <2>6 DEF CoinAdded
  <2> QED
    BY <1>6, <2>7 DEF T
<1> QED
  BY <1>4, <1>5, <1>6

\* AddMoney: what has come of the money.
MoneyAdded(S, money, T) ==
  /\ T \in State
  /\ \A a : Held(T, a) <= Held(S, a) + Money(money, a)
  /\ FreeSlots(S) > 0 /\ (FreeSlots(T) > 0 \/ money < StackMax)
       => \A a : Held(T, a) = Held(S, a) + Money(money, a)
  /\ Added(S, T)

\* addMoney adds the money; some may be lost only where the backpack is or
\* gets full.
LEMMA AddMoneyIs ==
  ASSUME NEW S \in State, NEW money \in Nat, money < StackMax * StackMax, NEW light \in Nat
  PROVE  MoneyAdded(S, money, AddMoney(S, money, light))
<1> DEFINE p == money \div StackMax
           g == money % StackMax
           R == PlayerAdd(S, Platinum, p, light, -1)
           added == IF p = 0 THEN 0 ELSE p - R.left
           U == AddCoin(S, Platinum, p, light)
           T == AddCoin(U, Gold, g, light - added)
<1>1. AddMoney(S, money, light) = T
  BY DEF AddMoney
<1>2. StackMax \in Nat \ {0}
  BY Types
<1>3. p \in Nat /\ g \in Nat /\ g < StackMax /\ money = p * StackMax + g /\ p < StackMax
  BY <1>2, Division, DivisionLess
<1>4. money < StackMax => p = 0
  <2> SUFFICES ASSUME money < StackMax
               PROVE  p = 0
    OBVIOUS
  <2>1. money < 1 * StackMax /\ 1 \in Nat
    BY <1>2
  <2>2. p < 1
    BY <1>2, <2>1, DivisionLess
  <2> QED
    BY <1>3, <2>2
<1> HIDE DEF p, g
<1>5. p \in 0..StackMax /\ g \in 0..StackMax
  BY <1>2, <1>3
<1>6. CoinAdded(S, p, U, Platinum) /\ (p = 0 => U = S)
  BY <1>5, CoinTypes, AddCoinIs
<1> HIDE DEF R
<1>16. light - added \in Int
  <2>1. R.left \in Nat
    BY <1>5, CoinTypes, PlayerAddIs DEF R, PlayerAdded
  <2> QED
    BY <1>3, <2>1
<1> HIDE DEF added
<1>7. U \in State
  BY <1>6 DEF CoinAdded
<1> HIDE DEF U
<1>8. CoinAdded(U, g, T, Gold)
  BY <1>5, <1>7, <1>16, CoinTypes, AddCoinIs
<1>9. T \in State
  BY <1>8 DEF CoinAdded
<1> HIDE DEF T
<1>10. Added(S, T)
  BY <1>6, <1>7, <1>8, <1>9, AddedAdded DEF CoinAdded
<1>11. ASSUME NEW a
       PROVE  /\ Counts(Platinum, p, a) + Counts(Gold, g, a) = Money(money, a)
              /\ Counts(Platinum, p, a) \in Nat /\ Counts(Gold, g, a) \in Nat
  <2>1. /\ Counts(Platinum, p, a) = IF a = Gold THEN p * StackMax ELSE 0
        /\ Counts(Gold, g, a) = IF a = Gold THEN g * 1 ELSE 0
        /\ Counts(Platinum, p, a) \in Nat /\ Counts(Gold, g, a) \in Nat
    BY <1>3, CoinTypes, CountsOf
  <2>2. g * 1 = g
    BY <1>3
  <2> QED
    BY <1>3, <2>1, <2>2 DEF Money
<1>12. \A a : Held(S, a) \in Nat /\ Held(U, a) \in Nat /\ Held(T, a) \in Nat
  BY <1>7, <1>9, HeldNat
<1>13. ASSUME NEW a
       PROVE  Held(T, a) <= Held(S, a) + Money(money, a)
  <2>1. Held(U, a) <= Held(S, a) + Counts(Platinum, p, a) /\ Held(T, a) <= Held(U, a) + Counts(Gold, g, a)
    BY <1>6, <1>8 DEF CoinAdded
  <2> QED
    BY <1>11, <1>12, <2>1
<1>14. ASSUME NEW a, FreeSlots(S) > 0, FreeSlots(T) > 0 \/ money < StackMax
       PROVE  Held(T, a) = Held(S, a) + Money(money, a)
  <2>1. Held(U, a) = Held(S, a) + Counts(Platinum, p, a)
    BY <1>6, <1>14 DEF CoinAdded
  <2>2. FreeSlots(U) > 0
    <3>1. CASE FreeSlots(T) > 0
      <4>1. Len(T["bag"]) < Capacity /\ Len(U["bag"]) <= Len(T["bag"])
        BY <1>8, <1>9, <3>1, FreeSlotsIs DEF CoinAdded, Added
      <4>2. Len(U["bag"]) \in Nat /\ Len(T["bag"]) \in Nat /\ Capacity \in Nat
        BY <1>7, <1>9, StateParts, Types
      <4>3. Len(U["bag"]) < Capacity
        BY <4>1, <4>2
      <4> QED
        BY <1>7, <4>3, FreeSlotsIs
    <3>2. CASE money < StackMax
      BY <1>4, <1>6, <1>14, <3>2
    <3> QED
      BY <1>14, <3>1, <3>2
  <2>3. Held(T, a) = Held(U, a) + Counts(Gold, g, a)
    BY <1>8, <2>2 DEF CoinAdded
  <2> QED
    BY <1>11, <1>12, <2>1, <2>3
<1>15. MoneyAdded(S, money, T)
  BY <1>9, <1>10, <1>13, <1>14 DEF MoneyAdded
<1> QED
  BY <1>1, <1>15

-----------------------------------------------------------------------------
(* Taking *)

\* Where there is some of an account there is a stack of it.
LEMMA AmountHas ==
  ASSUME NEW s \in Seq(Stack), NEW a \in Account, Amount(s, a) # 0
  PROVE  \E i \in 1..Len(s) : IF a = Gold THEN s[i].id \in Coin ELSE s[i].id = a
<1>1. /\ Values(s, a) \in Seq(Nat) /\ Len(Values(s, a)) = Len(s)
      /\ \A i \in 1..Len(s) : Values(s, a)[i] = Value(s[i], a) /\ s[i] \in Stack
      /\ Amount(s, a) = SumOf(Values(s, a))
  BY ValuesSeq
<1>2. PICK i \in 1..Len(s) : Values(s, a)[i] # 0
  BY <1>1, SumHasPart
<1>3. Value(s[i], a) # 0
  BY <1>1, <1>2
<1>4. IF a = Gold THEN s[i].id \in Coin ELSE s[i].id = a
  BY <1>3, Types DEF Value
<1> QED
  BY <1>4

\* What is taken from a cylinder is gone from its amount.
LEMMA TakeAmount ==
  ASSUME NEW S \in State, NEW c \in {"slot", "bag"}, NEW i \in 1..Len(S[c]), NEW k \in 1..S[c][i].n,
         NEW a
  PROVE  /\ Amount(S[c], a) = Amount(Take(S, c, i, k)[c], a) + Counts(S[c][i].id, k, a)
         /\ c = "slot" => Take(S, c, i, k)["bag"] = S["bag"]
         /\ c = "bag" => Take(S, c, i, k)["slot"] = S["slot"]
<1> DEFINE T == Take(S, c, i, k)
           w == Counts(S[c][i].id, k, a)
<1>1. c \in Cylinder
  BY DEF Cylinder
<1>2. T \in State /\ Elsewhere(S, T, c) /\ Held(S, a) = Held(T, a) + w
  BY <1>1, TakeIs
<1>3. w \in Nat
  <2>1. S[c] \in Seq(Stack)
    BY <1>1, StateParts
  <2>2. S[c][i] \in Stack
    BY <2>1
  <2>3. S[c][i].id \in Type /\ S[c][i].n \in Nat
    BY <2>2, ValueCounts
  <2>4. k \in Nat
    BY <2>3
  <2> QED
    BY <2>3, <2>4, CountsOf
<1> HIDE DEF T, w
<1>4. /\ Held(S, a) = Amount(S["slot"], a) + Amount(S["bag"], a) + Amount(S["tile"], a)
      /\ Held(T, a) = Amount(T["slot"], a) + Amount(T["bag"], a) + Amount(T["tile"], a)
      /\ Amount(S["slot"], a) \in Nat /\ Amount(S["bag"], a) \in Nat /\ Amount(S["tile"], a) \in Nat
      /\ Amount(T["slot"], a) \in Nat /\ Amount(T["bag"], a) \in Nat /\ Amount(T["tile"], a) \in Nat
  BY <1>2, HeldNat
<1>5. CASE c = "slot"
  <2>1. T["bag"] = S["bag"] /\ T["tile"] = S["tile"]
    BY <1>2, <1>5 DEF Elsewhere, Cylinder
  <2>2. Amount(S["slot"], a) = Amount(T["slot"], a) + w
    BY <1>2, <1>3, <1>4, <2>1, SMTT(30)
  <2> QED
    BY <1>5, <2>1, <2>2 DEF T, w
<1>6. CASE c = "bag"
  <2>1. T["slot"] = S["slot"] /\ T["tile"] = S["tile"]
    BY <1>2, <1>6 DEF Elsewhere, Cylinder
  <2>2. Amount(T["slot"], a) = Amount(S["slot"], a) /\ Amount(T["tile"], a) = Amount(S["tile"], a)
    BY <2>1
  <2>3. Amount(S["bag"], a) = Amount(T["bag"], a) + w
    <3> DEFINE x == Amount(S["slot"], a)
               y == Amount(S["bag"], a)
               z == Amount(S["tile"], a)
               v == Amount(T["bag"], a)
    <3>1. x \in Nat /\ y \in Nat /\ z \in Nat /\ v \in Nat /\ x + y + z = x + v + z + w
      BY <1>2, <1>4, <2>2
    <3> HIDE DEF x, y, z, v
    <3>2. y = v + w
      BY <1>3, <3>1
    <3> QED
      BY <3>2 DEF y, v
  <2> QED
    BY <1>6, <2>1, <2>3 DEF T, w
<1> QED
  BY <1>5, <1>6

\* As much as is to be taken is carried.
Taking(t, ignore) ==
  {r \in [state : State, left : Nat] : r.left <= Carried(r.state, t, ignore)}

Taken(r, q, t) ==
  /\ r.left # 0 => q.left < r.left
  /\ \A a : Held(r.state, a) + Counts(t, q.left, a) = Held(q.state, a) + Counts(t, r.left, a)
  /\ Len(q.state["bag"]) <= Len(r.state["bag"])

\* A round of internalRemoveItems takes some of what is left to take, and
\* there is still enough.
LEMMA TakeRoundIs ==
  ASSUME NEW t \in Ammo, NEW ignore \in BOOLEAN, NEW r \in Taking(t, ignore)
  PROVE  TakeRound(r, t) \in Taking(t, ignore) /\ Taken(r, TakeRound(r, t), t)
<1> DEFINE q == TakeRound(r, t)
           S == r.state
           k == r.left
           c == IF \E i \in DOMAIN S["bag"] : S["bag"][i].id = t THEN "bag" ELSE "slot"
           I == {j \in DOMAIN S[c] : S[c][j].id = t}
           i == Min(I)
           n == AtMost(k, S[c][i].n)
<1>1. S \in State /\ k \in Nat /\ k <= Carried(S, t, ignore) /\ r = [state |-> S, left |-> k]
  BY DEF Taking
<1>2. q = IF k = 0 THEN r ELSE [state |-> Take(S, c, i, n), left |-> k - n]
  BY DEF TakeRound
<1>3. c = "bag" \/ (c = "slot" /\ ~ \E j \in DOMAIN S["bag"] : S["bag"][j].id = t)
  OBVIOUS
<1>4. t \in Type /\ t \in Account /\ t # Gold
  BY Types
<1> HIDE DEF S, k, q
<1>5. /\ S["slot"] \in Seq(Stack) /\ S["bag"] \in Seq(Stack)
      /\ Amount(S["bag"], t) \in Nat /\ Amount(S["slot"], t) \in Nat
  BY <1>1, StateParts, HeldNat
<1>6. CASE k = 0
  <2>1. q = r
    BY <1>2, <1>6
  <2>2. \A a : Held(r.state, a) + Counts(t, r.left, a) = Held(r.state, a) + Counts(t, r.left, a)
    OBVIOUS
  <2>3. Len(r.state["bag"]) <= Len(r.state["bag"])
    BY <1>1, StateParts
  <2> QED
    BY <1>6, <2>1, <2>2, <2>3 DEF Taken, q, k
<1>7. CASE k # 0
  <2>1. I # {} /\ (c = "slot" => ~ignore /\ Amount(S["bag"], t) = 0)
    <3>1. CASE c = "bag"
      BY <3>1
    <3>2. CASE c # "bag"
      <4>1. c = "slot" /\ ~ \E j \in 1..Len(S["bag"]) : S["bag"][j].id = t
        BY <1>3, <1>5, <3>2
      <4>2. Amount(S["bag"], t) = 0
        BY <1>4, <1>5, <4>1, AmountHas
      <4>3. ~ignore /\ k <= Amount(S["slot"], t)
        BY <1>1, <1>5, <1>7, <4>2 DEF Carried
      <4>4. Amount(S["slot"], t) # 0
        BY <1>1, <1>5, <1>7, <4>3
      <4>5. \E j \in 1..Len(S["slot"]) : S["slot"][j].id = t
        BY <1>4, <1>5, <4>4, AmountHas
      <4>6. I # {}
        BY <1>5, <4>1, <4>5
      <4> QED
        BY <4>1, <4>2, <4>3, <4>6
    <3> QED
      BY <3>1, <3>2
  <2>2. c \in {"slot", "bag"} /\ c \in Cylinder
    BY <1>3 DEF Cylinder
  <2>3. S[c] \in Seq(Stack) /\ DOMAIN S[c] = 1..Len(S[c])
    BY <1>1, <2>2, StateParts
  <2> HIDE DEF c
  <2>4. i \in 1..Len(S[c]) /\ S[c][i].id = t
    <3>1. I \in SUBSET Nat
      BY <2>3
    <3>2. i \in I
      BY <2>1, <3>1, MinIs
    <3> QED
      BY <2>3, <3>2
  <2> HIDE DEF I, i
  <2>5. S[c][i] \in Stack
    BY <2>3, <2>4
  <2>6. S[c][i].n \in 1..StackMax /\ S[c][i].n \in Nat
    BY <2>5, ValueCounts
  <2>7. n \in Nat /\ n <= k /\ n \in 1..S[c][i].n
    <3> DEFINE p == S[c][i].n
    <3>1. p \in Nat /\ p # 0
      BY <2>6
    <3> HIDE DEF p
    <3>2. AtMost(k, p) \in Nat /\ AtMost(k, p) <= k /\ AtMost(k, p) <= p
          /\ (AtMost(k, p) = k \/ AtMost(k, p) = p)
      BY <1>1, <3>1, AtMostIs
    <3>3. AtMost(k, p) \in 1..p
      BY <1>1, <1>7, <3>1, <3>2
    <3> QED
      BY <3>2, <3>3 DEF p
  <2> HIDE DEF n
  <2> DEFINE T == Take(S, c, i, n)
             m == k - n
  <2>8. T \in State /\ Elsewhere(S, T, c)
        /\ Len(T[c]) = (IF S[c][i].n = n THEN Len(S[c]) - 1 ELSE Len(S[c]))
        /\ \A a : Held(S, a) = Held(T, a) + Counts(t, n, a)
    BY <1>1, <2>2, <2>4, <2>7, TakeIs
  <2>9. /\ Amount(S[c], t) = Amount(T[c], t) + Counts(t, n, t)
        /\ c = "slot" => T["bag"] = S["bag"]
        /\ c = "bag" => T["slot"] = S["slot"]
    BY <1>1, <2>2, <2>4, <2>7, TakeAmount
  <2>10. q = [state |-> T, left |-> m]
    BY <1>2, <1>7
  <2>11. q.state = T /\ q.left = m
    BY <2>10
  <2>12. m \in Nat /\ m < k /\ n + m = k
    BY <1>1, <2>7
  <2> HIDE DEF T, m
  <2>13. Counts(t, n, t) = n
    BY <1>4, <2>7, CountsOf
  <2>14. m <= Carried(T, t, ignore)
    <3>1. Amount(T["slot"], t) \in Nat /\ Amount(T["bag"], t) \in Nat
      BY <2>8, HeldNat
    <3>2. CASE c = "bag"
      <4>1. /\ Amount(S["bag"], t) = Amount(T["bag"], t) + n
            /\ Amount(T["slot"], t) = Amount(S["slot"], t)
        BY <2>9, <2>13, <3>2
      <4>2. CASE ignore
        BY <1>1, <1>5, <2>7, <2>12, <3>1, <4>1, <4>2 DEF Carried
      <4>3. CASE ~ignore
        BY <1>1, <1>5, <2>7, <2>12, <3>1, <4>1, <4>3 DEF Carried
      <4> QED
        BY <4>2, <4>3
    <3>3. CASE c = "slot"
      <4>1. /\ Amount(S["slot"], t) = Amount(T["slot"], t) + n
            /\ Amount(T["bag"], t) = Amount(S["bag"], t) /\ ~ignore
        BY <2>1, <2>9, <2>13, <3>3
      <4> QED
        BY <1>1, <1>5, <2>7, <2>12, <3>1, <4>1 DEF Carried
    <3> QED
      BY <2>2, <3>2, <3>3
  <2>15. q \in Taking(t, ignore)
    BY <2>8, <2>10, <2>11, <2>12, <2>14 DEF Taking
  <2>16. ASSUME NEW a
         PROVE  Held(S, a) + Counts(t, m, a) = Held(T, a) + Counts(t, k, a)
    <3>1. Counts(t, n + m, a) = Counts(t, n, a) + Counts(t, m, a)
      BY <1>4, <2>7, <2>12, CountsSum
    <3>2. Counts(t, n, a) \in Nat /\ Counts(t, m, a) \in Nat /\ Held(T, a) \in Nat
      BY <1>4, <2>7, <2>8, <2>12, CountsOf, HeldNat
    <3>3. Held(S, a) = Held(T, a) + Counts(t, n, a) /\ Counts(t, k, a) = Counts(t, n, a) + Counts(t, m, a)
      BY <2>8, <2>12, <3>1
    <3> QED
      BY <3>2, <3>3
  <2>17. Len(T["bag"]) <= Len(S["bag"])
    <3>1. Len(S["bag"]) \in Nat
      BY <1>1, StateParts
    <3>2. CASE c = "bag"
      <4>1. Len(T["bag"]) = Len(S["bag"]) - 1 \/ Len(T["bag"]) = Len(S["bag"])
        BY <2>8, <3>2
      <4> QED
        BY <3>1, <4>1
    <3>3. CASE c = "slot"
      BY <2>9, <3>1, <3>3
    <3> QED
      BY <2>2, <3>2, <3>3
  <2> QED
    BY <2>11, <2>12, <2>15, <2>16, <2>17 DEF Taken, q, S, k
<1> QED
  BY <1>6, <1>7

\* The rounds of TakeItems are there.
LEMMA TakeRuns ==
  ASSUME NEW t \in Ammo, NEW ignore \in BOOLEAN, NEW S \in State, NEW k \in Nat,
         k <= Carried(S, t, ignore)
  PROVE  \E f :
           /\ f[0] = [state |-> S, left |-> k] /\ TakeItems(S, t, k) = f[k].state
           /\ \A j \in 0..k : f[j] \in Taking(t, ignore)
           /\ \A j \in 1..k : f[j] = TakeRound(f[j - 1], t)
<1> DEFINE T == Taking(t, ignore)
           b == [state |-> S, left |-> k]
           step == [r \in T |-> [i \in 1..k |-> TakeRound(r, t)]]
           Rounds(g) == g = [j \in 0..k |-> IF j = 0 THEN b ELSE TakeRound(g[j - 1], t)]
<1>1. b \in T
  BY DEF Taking
<1>2. \A r \in T : TakeRound(r, t) \in T
  BY TakeRoundIs
<1>3. PICK f : f = CHOOSE g : Rounds(g)
  OBVIOUS
<1>4. TakeItems(S, t, k) = f[k].state
  BY <1>3 DEF TakeItems
<1> HIDE DEF T, b
<1>5. step \in Steppers(k, T)
  BY <1>2 DEF Steppers
<1>6. \A r \in T, i \in 1..k : step[r][i] = TakeRound(r, t)
  OBVIOUS
<1> HIDE DEF step
<1>7. PICK g : IsRun(g, k, T, b, step)
  BY <1>1, <1>5, Steps
<1>8. g \in [0..k -> T] /\ g[0] = b /\ \A i \in 1..k : g[i] = step[g[i - 1]][i]
  BY <1>7 DEF IsRun
<1>9. \A i \in 1..k : g[i] = TakeRound(g[i - 1], t)
  <2> SUFFICES ASSUME NEW i \in 1..k
               PROVE  g[i] = TakeRound(g[i - 1], t)
    OBVIOUS
  <2>1. i - 1 \in 0..k
    OBVIOUS
  <2>2. g[i - 1] \in T
    BY <1>8, <2>1
  <2> QED
    BY <1>6, <1>8, <2>2
<1>10. Rounds(g)
  BY <1>8, <1>9
<1>11. Rounds(f)
  <2> HIDE DEF Rounds
  <2> QED
    BY <1>3, <1>10
<1>12. f[0] = b /\ \A i \in 1..k : f[i] = TakeRound(f[i - 1], t)
  BY <1>11
<1> HIDE DEF Rounds
<1> DEFINE W == {j \in 0..k : f[j] \in T}
<1>13. \A i \in 0..k : i \in W
  <2>1. 0 \in W
    BY <1>1, <1>12
  <2>2. ASSUME NEW i \in 1..k, i - 1 \in W
        PROVE  i \in W
    <3>1. f[i - 1] \in T /\ i \in 0..k
      BY <2>2
    <3>2. f[i] \in T
      BY <1>2, <1>12, <3>1
    <3> QED
      BY <3>1, <3>2
  <2> HIDE DEF W
  <2> QED
    BY <2>1, <2>2, UpTo
<1>14. \A i \in 0..k : f[i] \in T
  BY <1>13
<1> QED
  BY <1>4, <1>12, <1>14 DEF b, T

\* After j rounds with r.left still to be taken.
TakenSoFar(S, k, r, j, t) ==
  /\ r.left + j <= k \/ r.left = 0
  /\ \A a : Held(S, a) + Counts(t, r.left, a) = Held(r.state, a) + Counts(t, k, a)
  /\ Len(r.state["bag"]) <= Len(S["bag"])

\* internalRemoveItems takes exactly what it is asked to.
LEMMA TakeItemsIs ==
  ASSUME NEW t \in Ammo, NEW ignore \in BOOLEAN, NEW S \in State, NEW k \in Nat,
         k <= Carried(S, t, ignore)
  PROVE  /\ TakeItems(S, t, k) \in State
         /\ \A a : Held(S, a) = Held(TakeItems(S, t, k), a) + Counts(t, k, a)
         /\ Len(TakeItems(S, t, k)["bag"]) <= Len(S["bag"])
<1>1. PICK f :
        /\ f[0] = [state |-> S, left |-> k] /\ TakeItems(S, t, k) = f[k].state
        /\ \A j \in 0..k : f[j] \in Taking(t, ignore)
        /\ \A j \in 1..k : f[j] = TakeRound(f[j - 1], t)
  BY TakeRuns
<1>2. t \in Type
  BY Types
<1>3. \A j \in 0..k : f[j].state \in State /\ f[j].left \in Nat
  <2> SUFFICES ASSUME NEW j \in 0..k
               PROVE  f[j].state \in State /\ f[j].left \in Nat
    OBVIOUS
  <2>1. f[j] \in Taking(t, ignore)
    BY <1>1
  <2> QED
    BY <2>1 DEF Taking
<1> DEFINE W == {j \in 0..k : TakenSoFar(S, k, f[j], j, t)}
<1>4. \A j \in 0..k : j \in W
  <2>1. 0 \in W
    <3>1. f[0].state = S /\ f[0].left = k
      BY <1>1
    <3>2. Len(S["bag"]) \in Nat
      BY StateParts
    <3> QED
      BY <3>1, <3>2 DEF TakenSoFar
  <2>2. ASSUME NEW j \in 1..k, j - 1 \in W
        PROVE  j \in W
    <3> DEFINE r == f[j - 1]
               q == f[j]
    <3>1. TakenSoFar(S, k, r, j - 1, t) /\ j \in 0..k /\ j - 1 \in 0..k
      BY <2>2
    <3>2. Taken(r, q, t)
      <4>1. r \in Taking(t, ignore) /\ q = TakeRound(r, t)
        BY <1>1, <3>1
      <4> QED
        BY <4>1, TakeRoundIs
    <3>3. r.state \in State /\ r.left \in Nat /\ q.state \in State /\ q.left \in Nat
      BY <1>3, <3>1
    <3>4. r.left = 0 => q.left = 0
      <4>1. r.left = 0 => q = r
        BY <1>1 DEF TakeRound
      <4> QED
        BY <4>1
    <3> HIDE DEF r, q
    <3>5. q.left + j <= k \/ q.left = 0
      BY <3>1, <3>2, <3>3, <3>4 DEF Taken, TakenSoFar
    <3>6. ASSUME NEW a
          PROVE  Held(S, a) + Counts(t, q.left, a) = Held(q.state, a) + Counts(t, k, a)
      <4>1. /\ Held(S, a) + Counts(t, r.left, a) = Held(r.state, a) + Counts(t, k, a)
            /\ Held(r.state, a) + Counts(t, q.left, a) = Held(q.state, a) + Counts(t, r.left, a)
        BY <3>1, <3>2 DEF Taken, TakenSoFar
      <4>2. /\ Held(S, a) \in Nat /\ Held(r.state, a) \in Nat /\ Held(q.state, a) \in Nat
            /\ Counts(t, k, a) \in Nat /\ Counts(t, r.left, a) \in Nat /\ Counts(t, q.left, a) \in Nat
        BY <1>2, <3>3, CountsOf, HeldNat
      <4> QED
        BY <4>1, <4>2
    <3>7. Len(q.state["bag"]) <= Len(S["bag"])
      <4>1. Len(q.state["bag"]) <= Len(r.state["bag"]) /\ Len(r.state["bag"]) <= Len(S["bag"])
        BY <3>1, <3>2 DEF Taken, TakenSoFar
      <4>2. Len(q.state["bag"]) \in Nat /\ Len(r.state["bag"]) \in Nat /\ Len(S["bag"]) \in Nat
        BY <3>3, StateParts
      <4> QED
        BY <4>1, <4>2
    <3>8. TakenSoFar(S, k, q, j, t)
      BY <3>5, <3>6, <3>7 DEF TakenSoFar
    <3> QED
      BY <3>1, <3>8 DEF q
  <2> HIDE DEF W
  <2> QED
    BY <2>1, <2>2, UpTo
<1>5. k \in 0..k
  OBVIOUS
<1>6. TakenSoFar(S, k, f[k], k, t)
  BY <1>4, <1>5
<1> DEFINE r == f[k]
<1>7. r.state \in State /\ r.left \in Nat
  BY <1>3, <1>5
<1> HIDE DEF r
<1>8. r.left = 0
  BY <1>6, <1>7 DEF TakenSoFar, r
<1>9. ASSUME NEW a
      PROVE  Held(S, a) = Held(r.state, a) + Counts(t, k, a)
  <2>1. Held(S, a) + Counts(t, r.left, a) = Held(r.state, a) + Counts(t, k, a)
    BY <1>6 DEF TakenSoFar, r
  <2>2. Counts(t, r.left, a) = 0 /\ Held(S, a) \in Nat
    BY <1>2, <1>8, CountsZero, HeldNat
  <2> QED
    BY <2>1, <2>2
<1>10. Len(r.state["bag"]) <= Len(S["bag"])
  BY <1>6 DEF TakenSoFar, r
<1>11. TakeItems(S, t, k) = r.state
  BY <1>1 DEF r
<1> QED
  BY <1>7, <1>9, <1>10, <1>11

-----------------------------------------------------------------------------
(* Paying *)

\* With money in the backpack there is a stack of coins worth least.
LEMMA LeastIs ==
  ASSUME NEW S \in State, Amount(S["bag"], Gold) # 0
  PROVE  /\ Least(S) \in 1..Len(S["bag"])
         /\ S["bag"][Least(S)] \in Stack /\ S["bag"][Least(S)].id \in Coin
<1> DEFINE V == {Value(S["bag"][i], Gold) : i \in Purse(S)}
           L == {i \in Purse(S) :
                   \A j \in Purse(S) : Value(S["bag"][i], Gold) <= Value(S["bag"][j], Gold)}
<1>1. S["bag"] \in Seq(Stack) /\ DOMAIN S["bag"] = 1..Len(S["bag"])
  BY StateParts, Zenon DEF Cylinder
<1>2. \A i \in 1..Len(S["bag"]) : S["bag"][i] \in Stack /\ Value(S["bag"][i], Gold) \in Nat
  <2> SUFFICES ASSUME NEW i \in 1..Len(S["bag"])
               PROVE  S["bag"][i] \in Stack /\ Value(S["bag"][i], Gold) \in Nat
    OBVIOUS
  <2>1. S["bag"][i] \in Stack
    BY <1>1
  <2> QED
    BY <2>1, ValueCounts
<1>3. Purse(S) \subseteq 1..Len(S["bag"]) /\ \A i \in Purse(S) : S["bag"][i].id \in Coin
  BY <1>1 DEF Purse
<1>4. Purse(S) # {}
  <2>1. Gold \in Account
    BY Types
  <2>2. \E i \in 1..Len(S["bag"]) : S["bag"][i].id \in Coin
    BY <1>1, <2>1, AmountHas
  <2> QED
    BY <1>1, <2>2 DEF Purse
<1>5. V \in SUBSET Nat /\ V # {}
  BY <1>2, <1>3, <1>4
<1>6. PICK v \in V : \A y \in V : v <= y
  <2> HIDE DEF V
  <2> QED
    BY <1>5, LeastNumber
<1>7. PICK i \in Purse(S) : v = Value(S["bag"][i], Gold)
  OBVIOUS
<1>8. i \in L
  BY <1>6, <1>7
<1>9. L \in SUBSET Nat
  BY <1>3
<1>10. Min(L) \in L
  <2> HIDE DEF L
  <2> QED
    BY <1>8, <1>9, MinIs
<1>11. Least(S) \in Purse(S)
  <2>1. Least(S) = Min(L)
    BY DEF Least
  <2> HIDE DEF L
  <2>2. L \subseteq Purse(S)
    BY DEF L
  <2> QED
    BY <1>10, <2>1, <2>2
<1> QED
  BY <1>2, <1>3, <1>11

\* As much as is to be paid is in the backpack.
Paying == {r \in [state : State, left : Nat] : r.left <= Amount(r.state["bag"], Gold)}

\* A payment: left is to be paid from S, and m of it is still to be paid from T.
Paid(S, left, T, m) ==
  /\ m = 0 \/ Len(T["bag"]) < Len(S["bag"])
  /\ \A a : Held(T, a) + Money(left, a) <= Held(S, a) + Money(m, a)
  /\ FreeSlots(S) > 0 => \A a : Held(T, a) + Money(left, a) = Held(S, a) + Money(m, a)
  /\ Len(T["bag"]) > Len(S["bag"]) => Len(T["bag"]) <= Capacity

\* The coins for what is left, when one stack is worth more than that: enough
\* of them, and not one too many.
LEMMA ChangeIs ==
  ASSUME NEW left \in Nat \ {0}, NEW w \in Nat \ {0}, NEW n \in Nat, left < n * w
  PROVE  LET taken == (left + w - 1) \div w IN
           /\ taken \in 1..n
           /\ w * taken - left \in Nat /\ w * taken - left < w
           /\ taken * w = left + (w * taken - left)
<1> DEFINE b == left + w - 1
           taken == b \div w
           m == taken * w
<1>1. b \in Nat /\ n + 1 \in Nat
  OBVIOUS
<1>2. b < (n + 1) * w
  <2>1. (n + 1) * w = n * w + 1 * w /\ n * w \in Nat /\ 1 * w = w
    BY Distributes
  <2> DEFINE x == n * w
             y == (n + 1) * w
  <2>2. y = x + w /\ x \in Nat /\ left < x
    BY <2>1
  <2> HIDE DEF x, y
  <2>3. b < y
    BY <2>2
  <2> QED
    BY <2>3 DEF y
<1>3. taken \in Nat /\ b % w \in Nat /\ b % w < w /\ b = m + (b % w)
  <2> HIDE DEF b
  <2> QED
    BY <1>1, Division
<1>4. taken < n + 1
  <2> HIDE DEF b
  <2> QED
    BY <1>1, <1>2, DivisionLess
<1>5. w * taken = m
  <2> HIDE DEF taken
  <2> QED
    BY <1>3 DEF m
<1>6. m \in Nat /\ m - left \in Nat /\ m - left < w
  <2> DEFINE c == b % w
  <2>1. m \in Nat
    <3> HIDE DEF taken
    <3> QED
      BY <1>3, Distributes DEF m
  <2>2. c \in Nat /\ c < w /\ left + w - 1 = m + c
    BY <1>3
  <2> HIDE DEF c, m
  <2> QED
    BY <2>1, <2>2
<1>7. taken # 0
  <2> SUFFICES ASSUME taken = 0
               PROVE  FALSE
    OBVIOUS
  <2>1. m = 0
    <3>1. 0 * w = 0
      OBVIOUS
    <3> HIDE DEF taken
    <3> QED
      BY <3>1 DEF m
  <2> HIDE DEF m
  <2> QED
    BY <1>6, <2>1
<1> HIDE DEF taken, m, b
<1>8. taken \in 1..n
  BY <1>3, <1>4, <1>7
<1>9. m = left + (m - left)
  BY <1>6
<1>10. w * taken - left = m - left /\ taken * w = m
  BY <1>5 DEF m
<1> QED
  BY <1>6, <1>8, <1>9, <1>10 DEF taken, b

\* Money is counted in natural numbers.
LEMMA MoneyNat ==
  ASSUME NEW m \in Nat, NEW a
  PROVE  Money(m, a) \in Nat
  BY DEF Money

\* A stack of coins is money.
LEMMA CoinCounts ==
  ASSUME NEW t \in Coin, NEW k \in Nat, NEW a
  PROVE  Counts(t, k, a) = Money(k * Worth(t), a) /\ k * Worth(t) \in Nat
<1>1. t \in Type /\ Worth(t) \in Nat
  BY Types
<1> QED
  BY <1>1, CountsOf, Distributes DEF Money

\* A stack of coins that is worth no more than what is left.
LEMMA WholeStackPaid ==
  ASSUME NEW S \in State, NEW left \in Nat, left <= Amount(S["bag"], Gold),
         NEW i \in 1..Len(S["bag"]), NEW x \in Stack, x = S["bag"][i], x.id \in Coin,
         Value(x, Gold) <= left
  PROVE  /\ Take(S, "bag", i, x.n) \in State /\ left - Value(x, Gold) \in Nat
         /\ left - Value(x, Gold) <= Amount(Take(S, "bag", i, x.n)["bag"], Gold)
         /\ Paid(S, left, Take(S, "bag", i, x.n), left - Value(x, Gold))
<1> DEFINE v == Value(x, Gold)
           T == Take(S, "bag", i, x.n)
           m == left - v
<1>1. x.id \in Type /\ x.n \in Nat /\ x.n \in 1..x.n /\ v = Counts(x.id, x.n, Gold)
  <2>1. x.id \in Type /\ x.n \in 1..StackMax /\ x.n \in Nat /\ v = Counts(x.id, x.n, Gold)
    BY ValueCounts
  <2> QED
    BY <2>1
<1>2. \A a : Counts(x.id, x.n, a) = Money(v, a)
  <2>1. \A a : Counts(x.id, x.n, a) = Money(x.n * Worth(x.id), a)
    BY <1>1, CoinCounts
  <2>2. v = x.n * Worth(x.id)
    BY <1>1, <2>1 DEF Money
  <2> QED
    BY <2>1, <2>2
<1>3. v \in Nat /\ v <= left
  BY <1>1, ValueCounts
<1>4. "bag" \in Cylinder /\ "bag" \in {"slot", "bag"}
  BY DEF Cylinder
<1>5. /\ T \in State /\ Len(T["bag"]) = Len(S["bag"]) - 1
      /\ \A a : Held(S, a) = Held(T, a) + Counts(x.id, x.n, a)
  BY <1>1, <1>4, TakeIs
<1>6. Amount(S["bag"], Gold) = Amount(T["bag"], Gold) + v
  <2>1. Amount(S["bag"], Gold) = Amount(T["bag"], Gold) + Counts(S["bag"][i].id, x.n, Gold)
    BY <1>1, <1>4, TakeAmount
  <2> QED
    BY <1>1, <2>1
<1>7. m \in Nat /\ left = m + v
  <2> HIDE DEF v
  <2> QED
    BY <1>3
<1> HIDE DEF T, m, v
<1>8. m <= Amount(T["bag"], Gold)
  <2>1. Amount(T["bag"], Gold) \in Nat
    BY <1>5, HeldNat
  <2> QED
    BY <1>3, <1>6, <1>7, <2>1
<1>9. ASSUME NEW a
      PROVE  /\ Held(T, a) + Money(left, a) = Held(S, a) + Money(m, a)
             /\ Held(T, a) + Money(left, a) \in Nat
  <2>1. Held(S, a) = Held(T, a) + Money(v, a) /\ Held(T, a) \in Nat
    BY <1>2, <1>5, HeldNat
  <2>2. Money(left, a) = Money(m, a) + Money(v, a) /\ Money(m, a) \in Nat /\ Money(v, a) \in Nat
    BY <1>3, <1>7 DEF Money
  <2> QED
    BY <2>1, <2>2
<1>10. \A a : Held(T, a) + Money(left, a) <= Held(S, a) + Money(m, a)
  BY <1>9
<1>11. Len(S["bag"]) \in Nat
  BY StateParts
<1>12. Len(T["bag"]) < Len(S["bag"]) /\ ~(Len(T["bag"]) > Len(S["bag"]))
  BY <1>5, <1>11
<1>13. Paid(S, left, T, m)
  BY <1>9, <1>10, <1>12 DEF Paid
<1> QED
  BY <1>5, <1>7, <1>8, <1>13 DEF T, m, v

\* The change for taken coins, the state with it, and the stack there.
Change(x, left, taken) == Worth(x.id) * taken - left
Behind(S, A, i) == i + Len(A["bag"]) - Len(S["bag"])

\* T is what is left of S.
TookAway(S, c, i, k, T) ==
  /\ T \in State
  /\ Len(T[c]) = IF S[c][i].n = k THEN Len(S[c]) - 1 ELSE Len(S[c])
  /\ \A a : Held(S, a) = Held(T, a) + Counts(S[c][i].id, k, a)

\* removeThing leaves the rest.
LEMMA TakesAway ==
  ASSUME NEW S \in State, NEW c \in Cylinder, NEW i \in 1..Len(S[c]), NEW k \in 1..S[c][i].n
  PROVE  TookAway(S, c, i, k, Take(S, c, i, k))
  BY TakeIs DEF TookAway

\* A stack of coins that is worth more, for which there is change.
LEMMA PartStackPaid ==
  ASSUME NEW S \in State, NEW left \in Nat \ {0}, NEW light \in Nat,
         NEW i \in 1..Len(S["bag"]), NEW x \in Stack, x = S["bag"][i], x.id \in Coin,
         ~(Value(x, Gold) <= left),
         NEW taken, taken = (left + Worth(x.id) - 1) \div Worth(x.id),
         NEW A, A = AddMoney(S, Change(x, left, taken), light)
  PROVE  /\ Take(A, "bag", Behind(S, A, i), taken) \in State
         /\ Paid(S, left, Take(A, "bag", Behind(S, A, i), taken), 0)
<1> DEFINE w == Worth(x.id)
           n == x.n
           change == Change(x, left, taken)
           h == Behind(S, A, i)
           T == Take(A, "bag", h, taken)
<1>1. w \in Nat \ {0} /\ w <= StackMax /\ StackMax \in Nat \ {0, 1} /\ x.id \in Type
  BY Types
<1>2. n \in Nat /\ Value(x, Gold) = n * w /\ n * w \in Nat
  <2>1. n \in Nat /\ Value(x, Gold) = Counts(x.id, n, Gold)
    BY ValueCounts
  <2>2. Counts(x.id, n, Gold) = Money(n * w, Gold) /\ n * w \in Nat
    BY <2>1, CoinCounts
  <2> QED
    BY <2>1, <2>2 DEF Money
<1>3. left < n * w
  <2> DEFINE v == n * w
  <2>1. v \in Nat /\ ~(v <= left)
    BY <1>2
  <2> HIDE DEF v
  <2>2. left < v
    BY <2>1
  <2> QED
    BY <2>2 DEF v
<1>4. taken = (left + w - 1) \div w /\ change = w * taken - left
  BY DEF Change
<1> HIDE DEF w, n, change, h, T
<1>5. /\ taken \in 1..n
      /\ change \in Nat /\ change < w
      /\ taken * w = left + change
  BY <1>1, <1>2, <1>3, <1>4, ChangeIs
<1>6. change < StackMax
  BY <1>1, <1>5
<1>7. change < StackMax * StackMax
  <2> DEFINE y == StackMax * StackMax
  <2>1. y >= StackMax /\ y \in Nat
    BY <1>1, Multiple
  <2> HIDE DEF y
  <2>2. change < y
    BY <1>1, <1>5, <1>6, <2>1
  <2> QED
    BY <2>2 DEF y
<1>8. MoneyAdded(S, change, A)
  <2>1. A = AddMoney(S, change, light)
    BY DEF change
  <2> QED
    BY <1>5, <1>7, <2>1, AddMoneyIs
<1>9. A \in State /\ Added(S, A)
  BY <1>8 DEF MoneyAdded
<1>10. /\ Len(S["bag"]) \in Nat /\ Len(A["bag"]) \in Nat /\ Capacity \in Nat
       /\ A["bag"] \in Seq(Stack)
  BY <1>9, StateParts, Types
<1>11. Len(S["bag"]) <= Len(A["bag"]) /\ Grown(S["bag"], A["bag"])
  BY <1>9 DEF Added
<1>12. h \in 1..Len(A["bag"])
  <2> DEFINE ls == Len(S["bag"])
             la == Len(A["bag"])
  <2>1. ls \in Nat /\ la \in Nat /\ ls <= la /\ i \in 1..ls /\ h = i + la - ls
    BY <1>10, <1>11 DEF h, Behind
  <2> HIDE DEF ls, la
  <2>2. h \in 1..la
    BY <2>1
  <2> QED
    BY <2>2 DEF la
<1>13. A["bag"][h].id = x.id /\ n <= A["bag"][h].n
  BY <1>11 DEF Grown, h, Behind, n
<1>14. A["bag"][h] \in Stack
  BY <1>10, <1>12, SMTT(30)
<1>15. taken \in 1..A["bag"][h].n /\ taken \in Nat
  <2>1. A["bag"][h].n \in Nat
    BY <1>14, ValueCounts
  <2> DEFINE p == A["bag"][h].n
  <2>2. p \in Nat /\ n <= p
    BY <1>13, <2>1
  <2> HIDE DEF p
  <2>3. taken \in 1..p /\ taken \in Nat
    BY <1>2, <1>5, <2>2
  <2> QED
    BY <2>3 DEF p
<1>16. /\ T \in State
       /\ Len(T["bag"]) = IF A["bag"][h].n = taken THEN Len(A["bag"]) - 1 ELSE Len(A["bag"])
       /\ \A a : Held(A, a) = Held(T, a) + Counts(x.id, taken, a)
  <2>1. "bag" \in Cylinder
    BY DEF Cylinder
  <2>2. /\ T \in State
        /\ Len(T["bag"]) = IF A["bag"][h].n = taken THEN Len(A["bag"]) - 1 ELSE Len(A["bag"])
        /\ \A a : Held(A, a) = Held(T, a) + Counts(A["bag"][h].id, taken, a)
    <3> DEFINE U == Take(A, "bag", h, taken)
    <3>1. TookAway(A, "bag", h, taken, U)
      BY <1>9, <1>12, <1>15, <2>1, TakesAway, ZenonT(60)
    <3> HIDE DEF U
    <3>2. /\ U \in State
          /\ Len(U["bag"]) = IF A["bag"][h].n = taken THEN Len(A["bag"]) - 1 ELSE Len(A["bag"])
          /\ \A a : Held(A, a) = Held(U, a) + Counts(A["bag"][h].id, taken, a)
      BY <3>1 DEF TookAway
    <3> QED
      BY <3>2 DEF T, U
  <2> QED
    BY <1>13, <2>2
<1>17. \A a : Counts(x.id, taken, a) = Money(left + change, a)
  <2>1. \A a : Counts(x.id, taken, a) = Money(taken * Worth(x.id), a)
    BY <1>15, CoinCounts
  <2> QED
    BY <1>5, <2>1 DEF w
<1>18. ASSUME NEW a
       PROVE  /\ Held(T, a) + Money(left, a) <= Held(S, a) + Money(0, a)
              /\ FreeSlots(S) > 0 => Held(T, a) + Money(left, a) = Held(S, a) + Money(0, a)
  <2>1. Held(A, a) = Held(T, a) + Money(left + change, a)
    BY <1>16, <1>17
  <2>2. /\ Money(left + change, a) = Money(left, a) + Money(change, a)
        /\ Money(left, a) \in Nat /\ Money(change, a) \in Nat /\ Money(0, a) = 0
    BY <1>5 DEF Money
  <2>3. Held(A, a) \in Nat /\ Held(T, a) \in Nat /\ Held(S, a) \in Nat
    BY <1>9, <1>16, HeldNat
  <2>4. /\ Held(A, a) <= Held(S, a) + Money(change, a)
        /\ FreeSlots(S) > 0 => Held(A, a) = Held(S, a) + Money(change, a)
    BY <1>6, <1>8 DEF MoneyAdded
  <2>5. CASE FreeSlots(S) > 0
    BY <2>1, <2>2, <2>3, <2>4, <2>5, SMTT(30)
  <2>6. CASE ~(FreeSlots(S) > 0)
    BY <2>1, <2>2, <2>3, <2>4, <2>6
  <2> QED
    BY <2>5, <2>6
<1>19. Len(T["bag"]) > Len(S["bag"]) => Len(T["bag"]) <= Capacity
  <2>1. Len(A["bag"]) > Len(S["bag"]) => Len(A["bag"]) <= Capacity
    BY <1>9 DEF Added
  <2>2. Len(T["bag"]) = Len(A["bag"]) - 1 \/ Len(T["bag"]) = Len(A["bag"])
    BY <1>16
  <2> QED
    BY <1>10, <2>1, <2>2, SMTT(30)
<1>20. Paid(S, left, T, 0)
  BY <1>18, <1>19 DEF Paid
<1> QED
  BY <1>16, <1>20 DEF T, h

\* A round of removeMoney pays some of what is left, or all of it with the
\* change given back.
LEMMA PayRoundIs ==
  ASSUME NEW r \in Paying, NEW light \in Nat
  PROVE  /\ PayRound(r, light) \in Paying
         /\ r.left = 0 => PayRound(r, light) = r
         /\ r.left # 0 => Paid(r.state, r.left, PayRound(r, light).state, PayRound(r, light).left)
<1> DEFINE q == PayRound(r, light)
           S == r.state
           left == r.left
           i == Least(S)
           x == S["bag"][i]
           taken == (left + Worth(x.id) - 1) \div Worth(x.id)
           A == AddMoney(S, Change(x, left, taken), light)
<1>1. q = IF left = 0 THEN r
          ELSE IF Value(x, Gold) <= left
            THEN [state |-> Take(S, "bag", i, x.n), left |-> left - Value(x, Gold)]
          ELSE [state |-> Take(A, "bag", Behind(S, A, i), taken), left |-> 0]
  BY DEF PayRound, Behind, Change
<1> HIDE DEF q
<1>2. CASE left = 0
  BY <1>1, <1>2 DEF q
<1>3. S \in State /\ left \in Nat /\ left <= Amount(S["bag"], Gold)
  BY DEF Paying
<1> HIDE DEF S, left
<1>4. ASSUME left # 0
      PROVE  q \in Paying /\ Paid(S, left, q.state, q.left)
  <2>1. i \in 1..Len(S["bag"]) /\ x \in Stack /\ x.id \in Coin
    <3>1. Amount(S["bag"], Gold) # 0
      <4>1. Amount(S["bag"], Gold) \in Nat
        BY <1>3, HeldNat
      <4> QED
        BY <1>3, <1>4, <4>1
    <3> QED
      BY <1>3, <3>1, LeastIs
  <2>2. CASE Value(x, Gold) <= left
    <3> DEFINE T == Take(S, "bag", i, x.n)
               m == left - Value(x, Gold)
    <3>1. q = [state |-> T, left |-> m]
      BY <1>1, <1>4, <2>2
    <3>2. T \in State /\ m \in Nat /\ m <= Amount(T["bag"], Gold) /\ Paid(S, left, T, m)
      <4>1. x = S["bag"][i]
        OBVIOUS
      <4> HIDE DEF i, x
      <4> QED
        BY <1>3, <2>1, <2>2, <4>1, WholeStackPaid
    <3> HIDE DEF T, m
    <3> QED
      BY <3>1, <3>2 DEF Paying
  <2>3. CASE ~(Value(x, Gold) <= left)
    <3> DEFINE T == Take(A, "bag", Behind(S, A, i), taken)
    <3>1. q = [state |-> T, left |-> 0]
      BY <1>1, <1>4, <2>3
    <3>2. T \in State /\ Paid(S, left, T, 0)
      <4>1. /\ x = S["bag"][i] /\ taken = (left + Worth(x.id) - 1) \div Worth(x.id)
            /\ A = AddMoney(S, Change(x, left, taken), light)
        OBVIOUS
      <4>2. left \in Nat \ {0}
        BY <1>3, <1>4
      <4> HIDE DEF i, x, taken, A
      <4> QED
        BY <1>3, <2>1, <2>3, <4>1, <4>2, PartStackPaid
    <3> HIDE DEF T
    <3>3. 0 <= Amount(T["bag"], Gold)
      BY <3>2, HeldNat
    <3> QED
      BY <3>1, <3>2, <3>3 DEF Paying
  <2> QED
    BY <2>2, <2>3
<1> QED
  BY <1>2, <1>4 DEF q, S, left

\* The rounds of TakeMoney are there.
LEMMA PayRuns ==
  ASSUME NEW S \in State, NEW money \in Nat, money <= Amount(S["bag"], Gold), NEW light \in Nat
  PROVE  \E f :
           /\ f[0] = [state |-> S, left |-> money]
           /\ TakeMoney(S, money, light) = f[Len(S["bag"])].state
           /\ \A j \in 0..Len(S["bag"]) : f[j] \in Paying
           /\ \A j \in 1..Len(S["bag"]) : f[j] = PayRound(f[j - 1], light)
<1> DEFINE n == Len(S["bag"])
           b == [state |-> S, left |-> money]
           step == [r \in Paying |-> [i \in 1..n |-> PayRound(r, light)]]
           Rounds(g) == g = [j \in 0..n |-> IF j = 0 THEN b ELSE PayRound(g[j - 1], light)]
<1>1. b \in Paying
  BY DEF Paying
<1>2. \A r \in Paying : PayRound(r, light) \in Paying
  BY PayRoundIs
<1>3. PICK f : f = CHOOSE g : Rounds(g)
  OBVIOUS
<1>4. TakeMoney(S, money, light) = f[n].state
  BY <1>3 DEF TakeMoney
<1>5. n \in Nat
  BY StateParts
<1> HIDE DEF b, n
<1>6. step \in Steppers(n, Paying)
  BY <1>2 DEF Steppers
<1>7. \A r \in Paying, i \in 1..n : step[r][i] = PayRound(r, light)
  OBVIOUS
<1> HIDE DEF step
<1>8. PICK g : IsRun(g, n, Paying, b, step)
  BY <1>1, <1>5, <1>6, Steps
<1>9. g \in [0..n -> Paying] /\ g[0] = b /\ \A i \in 1..n : g[i] = step[g[i - 1]][i]
  BY <1>8 DEF IsRun
<1>10. \A i \in 1..n : g[i] = PayRound(g[i - 1], light)
  <2> SUFFICES ASSUME NEW i \in 1..n
               PROVE  g[i] = PayRound(g[i - 1], light)
    OBVIOUS
  <2>1. i - 1 \in 0..n
    BY <1>5
  <2>2. g[i - 1] \in Paying
    BY <1>9, <2>1
  <2> QED
    BY <1>7, <1>9, <2>2
<1>11. Rounds(g)
  BY <1>5, <1>9, <1>10
<1>12. Rounds(f)
  <2> HIDE DEF Rounds
  <2> QED
    BY <1>3, <1>11
<1>13. f[0] = b /\ \A i \in 1..n : f[i] = PayRound(f[i - 1], light)
  BY <1>5, <1>12
<1> HIDE DEF Rounds
<1> DEFINE W == {j \in 0..n : f[j] \in Paying}
<1>14. \A i \in 0..n : i \in W
  <2>1. 0 \in W
    BY <1>1, <1>5, <1>13
  <2>2. ASSUME NEW i \in 1..n, i - 1 \in W
        PROVE  i \in W
    <3>1. f[i - 1] \in Paying /\ i \in 0..n
      BY <1>5, <2>2
    <3>2. f[i] \in Paying
      BY <1>2, <1>13, <3>1
    <3> QED
      BY <3>1, <3>2
  <2> HIDE DEF W
  <2> QED
    BY <1>5, <2>1, <2>2, UpTo
<1>15. \A i \in 0..n : f[i] \in Paying
  BY <1>14
<1> QED
  BY <1>4, <1>13, <1>15 DEF b, n

\* After j rounds left is still to be paid from T.
PaidSoFar(S, money, T, left, j) ==
  /\ Len(T["bag"]) + j <= Len(S["bag"]) \/ left = 0
  /\ left # 0 => Len(T["bag"]) <= Len(S["bag"])
  /\ \A a : Held(T, a) + Money(money, a) <= Held(S, a) + Money(left, a)
  /\ FreeSlots(S) > 0 => \A a : Held(T, a) + Money(money, a) = Held(S, a) + Money(left, a)
  /\ Len(T["bag"]) > Len(S["bag"]) => Len(T["bag"]) <= Capacity

\* A round keeps the invariant of the loop of removeMoney.
LEMMA PaidOneMore ==
  ASSUME NEW S \in State, NEW money \in Nat, NEW T \in State, NEW left \in Nat \ {0},
         NEW j \in Nat, NEW U \in State, NEW m \in Nat,
         PaidSoFar(S, money, T, left, j), Paid(T, left, U, m)
  PROVE  PaidSoFar(S, money, U, m, j + 1)
<1> DEFINE ls == Len(S["bag"])
           lt == Len(T["bag"])
           lu == Len(U["bag"])
<1>1. ls \in Nat /\ lt \in Nat /\ lu \in Nat /\ Capacity \in Nat
  BY StateParts, Types
<1>2. lt + j <= ls /\ lt <= ls
  BY DEF PaidSoFar
<1>3. (m = 0 \/ lu < lt) /\ (lu > lt => lu <= Capacity)
  BY DEF Paid
<1>4. FreeSlots(S) > 0 => FreeSlots(T) > 0
  <2> SUFFICES ASSUME FreeSlots(S) > 0
               PROVE  FreeSlots(T) > 0
    OBVIOUS
  <2>1. ls < Capacity
    BY FreeSlotsIs
  <2> HIDE DEF ls, lt
  <2>2. lt < Capacity
    BY <1>1, <1>2, <2>1
  <2> QED
    BY <2>2, FreeSlotsIs DEF lt
<1>5. ASSUME NEW a
      PROVE  Held(U, a) + Money(money, a) <= Held(S, a) + Money(m, a)
  <2>1. /\ Held(T, a) + Money(money, a) <= Held(S, a) + Money(left, a)
        /\ Held(U, a) + Money(left, a) <= Held(T, a) + Money(m, a)
    BY DEF Paid, PaidSoFar
  <2>2. /\ Held(S, a) \in Nat /\ Held(T, a) \in Nat /\ Held(U, a) \in Nat
        /\ Money(money, a) \in Nat /\ Money(left, a) \in Nat /\ Money(m, a) \in Nat
    BY HeldNat, MoneyNat
  <2> QED
    BY <2>1, <2>2
<1>6. ASSUME NEW a, FreeSlots(S) > 0
      PROVE  Held(U, a) + Money(money, a) = Held(S, a) + Money(m, a)
  <2>1. /\ Held(T, a) + Money(money, a) = Held(S, a) + Money(left, a)
        /\ Held(U, a) + Money(left, a) = Held(T, a) + Money(m, a)
    BY <1>4, <1>6 DEF Paid, PaidSoFar
  <2>2. /\ Held(S, a) \in Nat /\ Held(T, a) \in Nat /\ Held(U, a) \in Nat
        /\ Money(money, a) \in Nat /\ Money(left, a) \in Nat /\ Money(m, a) \in Nat
    BY HeldNat, MoneyNat
  <2> QED
    BY <2>1, <2>2
<1> HIDE DEF ls, lt, lu
<1>7. /\ lu + (j + 1) <= ls \/ m = 0
      /\ m # 0 => lu <= ls
      /\ lu > ls => lu <= Capacity
  BY <1>1, <1>2, <1>3
<1> QED
  BY <1>5, <1>6, <1>7 DEF PaidSoFar, lu, ls

\* removeMoney takes the price, neither less nor, with a free slot in the
\* backpack, more.
LEMMA TakeMoneyIs ==
  ASSUME NEW S \in State, NEW money \in Nat, money <= Amount(S["bag"], Gold), NEW light \in Nat
  PROVE  LET T == TakeMoney(S, money, light) IN
           /\ T \in State
           /\ \A a : Held(T, a) + Money(money, a) <= Held(S, a)
           /\ FreeSlots(S) > 0 => \A a : Held(T, a) + Money(money, a) = Held(S, a)
           /\ Len(T["bag"]) > Len(S["bag"]) => Len(T["bag"]) <= Capacity
<1> DEFINE n == Len(S["bag"])
<1>1. PICK f :
        /\ f[0] = [state |-> S, left |-> money] /\ TakeMoney(S, money, light) = f[n].state
        /\ \A j \in 0..n : f[j] \in Paying
        /\ \A j \in 1..n : f[j] = PayRound(f[j - 1], light)
  BY PayRuns
<1>2. n \in Nat
  BY StateParts
<1>3. \A j \in 0..n : /\ f[j].state \in State /\ f[j].left \in Nat
                      /\ f[j].left <= Amount(f[j].state["bag"], Gold)
  <2> SUFFICES ASSUME NEW j \in 0..n
               PROVE  /\ f[j].state \in State /\ f[j].left \in Nat
                      /\ f[j].left <= Amount(f[j].state["bag"], Gold)
    OBVIOUS
  <2>1. f[j] \in Paying
    BY <1>1
  <2> QED
    BY <2>1 DEF Paying
<1> DEFINE So(j) == PaidSoFar(S, money, f[j].state, f[j].left, j)
           W == {j \in 0..n : So(j)}
<1>4. \A j \in 0..n : j \in W
  <2>1. 0 \in W
    <3>1. f[0].state = S /\ f[0].left = money
      BY <1>1
    <3>2. /\ n + 0 <= n /\ n <= n /\ ~(n > n) /\ 0 \in 0..n
      BY <1>2
    <3>3. \A a : Held(S, a) + Money(money, a) \in Nat
      BY HeldNat, MoneyNat
    <3>4. \A a : Held(S, a) + Money(money, a) <= Held(S, a) + Money(money, a)
      BY <3>3
    <3>5. PaidSoFar(S, money, S, money, 0)
      BY <3>2, <3>4 DEF PaidSoFar
    <3> QED
      BY <3>1, <3>2, <3>5
  <2>2. ASSUME NEW j \in 1..n, j - 1 \in W
        PROVE  j \in W
    <3> DEFINE i == j - 1
               r == f[i]
               q == f[j]
    <3>1. So(i) /\ j \in 0..n /\ i \in 0..n /\ i \in Nat /\ j = i + 1
      BY <1>2, <2>2
    <3>2. r \in Paying /\ q = PayRound(r, light)
      BY <1>1, <3>1
    <3>3. r.state \in State /\ r.left \in Nat /\ q.state \in State /\ q.left \in Nat
      BY <1>3, <3>1
    <3>4. PaidSoFar(S, money, r.state, r.left, i)
      BY <3>1
    <3> HIDE DEF i, r, q
    <3>5. PaidSoFar(S, money, q.state, q.left, i + 1)
      <4>1. CASE r.left = 0
        <5>1. q = r
          BY <3>2, <4>1, PayRoundIs
        <5> QED
          BY <3>4, <4>1, <5>1 DEF PaidSoFar
      <4>2. CASE r.left # 0
        <5>1. Paid(r.state, r.left, q.state, q.left)
          BY <3>2, <4>2, PayRoundIs
        <5>2. r.left \in Nat \ {0}
          BY <3>3, <4>2
        <5> QED
          BY <3>1, <3>3, <3>4, <5>1, <5>2, PaidOneMore
      <4> QED
        BY <4>1, <4>2
    <3>6. PaidSoFar(S, money, q.state, q.left, j)
      BY <3>1, <3>5
    <3> QED
      BY <3>1, <3>6 DEF q
  <2> HIDE DEF W, n
  <2> QED
    BY <1>2, <2>1, <2>2, UpTo
<1>5. n \in 0..n
  BY <1>2
<1>6. So(n)
  BY <1>4, <1>5
<1> DEFINE T == f[n].state
           left == f[n].left
<1>7. T \in State /\ left \in Nat /\ left <= Amount(T["bag"], Gold)
  BY <1>3, <1>5
<1>8. PaidSoFar(S, money, T, left, n)
  BY <1>6
<1>9. TakeMoney(S, money, light) = T
  BY <1>1
<1> HIDE DEF T, left
<1>10. left = 0
  <2> SUFFICES ASSUME left # 0
               PROVE  FALSE
    OBVIOUS
  <2>1. Len(T["bag"]) + n <= n /\ Len(T["bag"]) \in Nat
    <3>1. Len(T["bag"]) \in Nat
      BY <1>7, StateParts
    <3>2. Len(T["bag"]) + n <= Len(S["bag"])
      <4> HIDE DEF n
      <4> QED
        BY <1>8 DEF PaidSoFar
    <3> QED
      BY <3>1, <3>2
  <2>2. T["bag"] \in Seq(Stack)
    BY <1>7, StateParts
  <2>3. Len(T["bag"]) = 0
    <3> DEFINE l == Len(T["bag"])
    <3> HIDE DEF n, l
    <3>1. l = 0
      BY <1>2, <2>1 DEF l
    <3> QED
      BY <3>1 DEF l
  <2>4. T["bag"] = <<>>
    BY <2>2, <2>3
  <2>5. Amount(T["bag"], Gold) = 0
    BY <2>4, AmountEmpty
  <2> QED
    BY <1>7, <2>5
<1>11. \A a : Money(left, a) = 0 /\ Held(S, a) \in Nat
  BY <1>10, HeldNat DEF Money
<1>12. \A a : Held(T, a) + Money(money, a) <= Held(S, a) + Money(left, a)
  BY <1>8 DEF PaidSoFar
<1>13. \A a : Held(S, a) + Money(left, a) = Held(S, a)
  BY <1>11
<1>14. \A a : Held(T, a) + Money(money, a) <= Held(S, a)
  BY <1>12, <1>13
<1>15. FreeSlots(S) > 0 => \A a : Held(T, a) + Money(money, a) = Held(S, a)
  BY <1>8, <1>13 DEF PaidSoFar
<1>16. Len(T["bag"]) > Len(S["bag"]) => Len(T["bag"]) <= Capacity
  BY <1>8 DEF PaidSoFar
<1> QED
  BY <1>7, <1>9, <1>14, <1>15, <1>16

-----------------------------------------------------------------------------
(* Moving *)

\* A destination in S.
IsTarget(S, D) ==
  /\ D.cyl \in Cylinder \cup {"nowhere"} /\ D.item \in Nat
  /\ D.item # 0 => D.cyl \in Cylinder /\ D.item \in 1..Len(S[D.cyl])
  /\ D.cyl = "slot" /\ D.item = 0 => S["slot"] = <<>>

\* The backpack gives a destination in itself.
LEMMA BagTargetIs ==
  ASSUME NEW S \in State, NEW c, NEW i, NEW j
  PROVE  IsTarget(S, BagTarget(S, c, i, j)) /\ BagTarget(S, c, i, j).cyl = "bag"
<1> DEFINE P == Partial(S["bag"], S[c][i].id)
           D == BagTarget(S, c, i, j)
<1>1. D = IF c # "bag" /\ P # {} THEN At("bag", Min(P), Min(P))
          ELSE IF j \notin 1..Capacity THEN At("bag", 0, 0)
          ELSE At("bag", j, IF j <= Len(S["bag"]) THEN j ELSE 0)
  BY DEF BagTarget
<1>2. S["bag"] \in Seq(Stack) /\ Len(S["bag"]) \in Nat
  BY StateParts
<1>3. P # {} => Min(P) \in 1..Len(S["bag"])
  <2> SUFFICES ASSUME P # {}
               PROVE  Min(P) \in 1..Len(S["bag"])
    OBVIOUS
  <2>1. Min(P) \in P
    BY <1>2, PartialIs
  <2>2. \A x \in P : x \in 1..Len(S["bag"])
    BY <1>2, PartialIs
  <2> HIDE DEF P
  <2> QED
    BY <2>1, <2>2
<1>4. \A index, item : /\ At("bag", index, item).cyl = "bag" /\ At("bag", index, item).item = item
  BY DEF At
<1>5. "bag" \in Cylinder
  BY DEF Cylinder
<1>6. Capacity \in Nat
  BY Types
<1> DEFINE l == Len(S["bag"])
           p == Min(P)
<1>7. \A y \in 1..l : y \in Nat /\ y # 0
  BY <1>2
<1> HIDE DEF P, D, l, p
<1>8. D.cyl = "bag"
  BY <1>1, <1>4
<1>9. D.item = 0 \/ D.item \in 1..l
  <2>1. CASE c # "bag" /\ P # {}
    <3>1. D = At("bag", Min(P), Min(P))
      BY <1>1, <2>1
    <3> QED
      BY <1>3, <1>4, <2>1, <3>1 DEF l
  <2>2. CASE ~(c # "bag" /\ P # {}) /\ j \notin 1..Capacity
    <3>1. D = At("bag", 0, 0)
      BY <1>1, <2>2
    <3> QED
      BY <1>4, <3>1
  <2>3. CASE ~(c # "bag" /\ P # {}) /\ j \in 1..Capacity
    <3>1. D = At("bag", j, IF j <= Len(S["bag"]) THEN j ELSE 0)
      BY <1>1, <2>3
    <3>2. D.item = IF j <= Len(S["bag"]) THEN j ELSE 0
      BY <1>4, <3>1
    <3>3. j <= Len(S["bag"]) => j \in 1..Len(S["bag"])
      BY <1>2, <1>6, <2>3
    <3> QED
      BY <3>2, <3>3 DEF l
  <2> QED
    BY <2>1, <2>2, <2>3
<1>10. IsTarget(S, D)
  BY <1>5, <1>7, <1>8, <1>9 DEF IsTarget, l
<1> QED
  BY <1>8, <1>10 DEF D

\* The player finds no destination only with a full backpack, or for a heap
\* on the tile that is too heavy.
LEMMA PlayerTargetIs ==
  ASSUME NEW S \in State, NEW c \in Cylinder, NEW i \in Nat, NEW light
  PROVE  LET D == PlayerTarget(S, c, i, light) IN
           /\ IsTarget(S, D)
           /\ D.cyl = "nowhere" =>
                D.item = 0 /\ (Len(S["bag"]) >= Capacity \/ (c = "tile" /\ ~(S[c][i].n <= light)))
<1> DEFINE D == PlayerTarget(S, c, i, light)
           x == S[c][i]
           fits == c # "tile" \/ x.n <= light
           P == Partial(S["bag"], x.id) \ (IF c = "bag" THEN {i} ELSE {})
           own == IF c = "bag" THEN 1 ELSE 0
           counted == Len(S["bag"]) - own
           first == /\ c # "slot" /\ fits /\ x.id \in Ammo
                    /\ S["slot"] = <<>> \/ Partial(S["slot"], x.id) # {}
           behind == IF c = "bag" /\ i < Min(P) THEN Min(P) - 1 ELSE Min(P)
<1>1. D = IF first THEN At("slot", 1, Len(S["slot"]))
          ELSE IF P # {} THEN BagTarget(S, c, i, behind)
          ELSE IF counted < Capacity /\ fits THEN BagTarget(S, c, i, counted + 1)
          ELSE At("nowhere", 0, 0)
  BY DEF PlayerTarget
<1>2. counted < Capacity \/ Len(S["bag"]) >= Capacity
  <2> DEFINE l == Len(S["bag"])
  <2>1. l \in Nat /\ Capacity \in Nat
    BY StateParts, Types
  <2> HIDE DEF l
  <2>2. l - own < Capacity \/ l >= Capacity
    BY <2>1
  <2> QED
    BY <2>2 DEF l
<1>3. ~fits => c = "tile" /\ ~(S[c][i].n <= light)
  OBVIOUS
<1> HIDE DEF D, first, P, behind, counted, fits
<1>4. CASE first
  <2>1. D = At("slot", 1, Len(S["slot"]))
    BY <1>1, <1>4
  <2>2. D.cyl = "slot" /\ D.item = Len(S["slot"])
    BY <2>1 DEF At
  <2>3. Len(S["slot"]) \in Nat /\ S["slot"] \in Seq(Stack)
    BY StateParts
  <2>4. Len(S["slot"]) = 0 => S["slot"] = <<>>
    BY <2>3
  <2>5. IsTarget(S, D)
    <3> DEFINE l == Len(S["slot"])
    <3>1. l \in Nat /\ (l # 0 => l \in 1..l)
      BY <2>3
    <3> HIDE DEF l
    <3>2. "slot" \in Cylinder
      BY DEF Cylinder
    <3>3. D.item = l
      BY <2>2 DEF l
    <3> QED
      BY <2>2, <2>4, <3>1, <3>2, <3>3 DEF IsTarget, l
  <2> QED
    BY <2>2, <2>5 DEF D
<1>5. CASE ~first /\ P # {}
  <2>1. D = BagTarget(S, c, i, behind)
    BY <1>1, <1>5
  <2>2. IsTarget(S, D) /\ D.cyl = "bag"
    BY <2>1, BagTargetIs
  <2> QED
    BY <2>2 DEF D
<1>6. CASE ~first /\ P = {} /\ counted < Capacity /\ fits
  <2>1. D = BagTarget(S, c, i, counted + 1)
    BY <1>1, <1>6
  <2>2. IsTarget(S, D) /\ D.cyl = "bag"
    BY <2>1, BagTargetIs
  <2> QED
    BY <2>2 DEF D
<1>7. CASE ~first /\ P = {} /\ ~(counted < Capacity /\ fits)
  <2>1. D = At("nowhere", 0, 0)
    BY <1>1, <1>7
  <2>2. D.cyl = "nowhere" /\ D.item = 0
    BY <2>1 DEF At
  <2>3. IsTarget(S, D)
    BY <2>2 DEF IsTarget
  <2>4. Len(S["bag"]) >= Capacity \/ (c = "tile" /\ ~(S[c][i].n <= light))
    BY <1>2, <1>3, <1>7
  <2> QED
    BY <2>2, <2>3, <2>4 DEF D
<1> QED
  BY <1>4, <1>5, <1>6, <1>7

\* So does whatever the stack is moved to.
LEMMA TargetIs ==
  ASSUME NEW S \in State, NEW c \in Cylinder, NEW i \in Nat, NEW to \in Place, NEW light
  PROVE  LET D == Target(S, c, i, to, light) IN
           /\ IsTarget(S, D)
           /\ D.cyl = "nowhere" =>
                D.item = 0 /\ (Len(S["bag"]) >= Capacity \/ (c = "tile" /\ ~(S[c][i].n <= light)))
<1> DEFINE D == Target(S, c, i, to, light)
<1>1. to.cyl \in {"player", "slot", "tile", "bag"}
  BY DEF Place
<1>2. CASE to.cyl = "player"
  <2>1. D = PlayerTarget(S, c, i, light)
    BY <1>2 DEF Target
  <2> QED
    BY <2>1, PlayerTargetIs
<1>3. CASE to.cyl = "bag"
  <2>1. D = BagTarget(S, c, i, to.index)
    BY <1>3 DEF Target
  <2> HIDE DEF D
  <2>2. IsTarget(S, D) /\ D.cyl = "bag"
    BY <2>1, BagTargetIs
  <2> QED
    BY <2>2 DEF D
<1>4. CASE to.cyl \in {"slot", "tile"}
  <2>1. D = At(to.cyl, 1, AtMost(1, Len(S[to.cyl])))
    BY <1>4 DEF Target
  <2> HIDE DEF D
  <2>2. D.cyl = to.cyl /\ D.item = AtMost(1, Len(S[to.cyl]))
    BY <2>1 DEF At
  <2>3. to.cyl \in Cylinder
    BY <1>4 DEF Cylinder
  <2>4. S[to.cyl] \in Seq(Stack) /\ Len(S[to.cyl]) \in Nat
    BY <2>3, StateParts
  <2> DEFINE l == Len(S[to.cyl])
             e == AtMost(1, l)
  <2>5. e \in Nat /\ (e # 0 => e \in 1..l) /\ (e = 0 => l = 0)
    <3>1. l \in Nat
      BY <2>4
    <3> HIDE DEF l
    <3> QED
      BY <3>1 DEF AtMost
  <2>6. l = 0 => S[to.cyl] = <<>>
    BY <2>4
  <2>7. D.item = e
    BY <2>2
  <2> HIDE DEF e
  <2>8. IsTarget(S, D)
    BY <2>2, <2>3, <2>5, <2>6, <2>7 DEF IsTarget
  <2>9. D.cyl # "nowhere"
    BY <1>4, <2>2
  <2> QED
    BY <2>8, <2>9 DEF D
<1> QED
  BY <1>1, <1>2, <1>3, <1>4

\* queryMaxCount gives a natural number.
LEMMA MaxCountNat ==
  ASSUME NEW S \in State, NEW c \in Cylinder, NEW i, NEW D, IsTarget(S, D), NEW k \in Nat, NEW light
  PROVE  MaxCount(S, c, i, D, k, light) \in Nat
<1> DEFINE t == S[c][i].id
           merge == IF D.item = 0 THEN 0 ELSE RoomAt(S[D.cyl], t, D.item)
           I == IF c # "tile" \/ k <= light THEN DOMAIN S["bag"] ELSE {}
           J == I \ (IF c = "bag" THEN {i} ELSE {})
<1>1. MaxCount(S, c, i, D, k, light) =
        CASE D.cyl = "tile" -> k
          [] D.cyl = "nowhere" -> StackMax
          [] D.cyl = "slot" -> IF D.item = 0 THEN StackMax ELSE merge
          [] D.cyl = "bag" /\ D.index = 0 -> BagRoom(S, t, J)
          [] OTHER -> FreeSlots(S) * StackMax + merge
  BY DEF MaxCount
<1>2. merge \in Nat
  <2>1. CASE D.item = 0
    BY <2>1
  <2>2. CASE D.item # 0
    <3>1. S[D.cyl] \in Seq(Stack)
      BY <2>2, StateParts DEF IsTarget
    <3>2. RoomAt(S[D.cyl], t, D.item) \in 0..StackMax
      BY <3>1, RoomAtIs
    <3> QED
      BY <2>2, <3>2, Types
  <2> QED
    BY <2>1, <2>2
<1>3. BagRoom(S, t, J) \in Nat
  BY BagRoomIs
<1>4. FreeSlots(S) * StackMax \in Nat
  BY FreeSlotsIs, Types, Distributes
<1>5. StackMax \in Nat
  BY Types
<1> DEFINE b == BagRoom(S, t, J)
           f == FreeSlots(S) * StackMax
<1> HIDE DEF merge, b, f
<1>6. MaxCount(S, c, i, D, k, light) \in {k, StackMax, merge, b, f + merge}
  BY <1>1 DEF b, f
<1>7. f + merge \in Nat
  BY <1>2, <1>4 DEF f
<1> QED
  BY <1>2, <1>3, <1>5, <1>6, <1>7 DEF b

\* The first half of a move: n of what is moved fills the stack at p of d.
FilledUp(S, d, p, n) == IF n = 0 THEN S ELSE Grow(S, d, p, n)

\* Filling a stack adds to it, and leaves the one that is moved as it is.
LEMMA FilledUpIs ==
  ASSUME NEW S \in State, NEW c \in Cylinder, NEW i \in 1..Len(S[c]), NEW d, NEW p, NEW n \in Nat,
         n # 0 => /\ d \in Cylinder /\ p \in 1..Len(S[d]) /\ S[d][p].id = S[c][i].id
                  /\ S[d][p].n + n <= StackMax /\ ~(d = c /\ p = i)
  PROVE  LET G == FilledUp(S, d, p, n) IN
           /\ G \in State /\ i \in 1..Len(G[c]) /\ G[c][i].id = S[c][i].id /\ G[c][i].n = S[c][i].n
           /\ \A x \in Cylinder : Len(G[x]) = Len(S[x])
           /\ \A a : Held(G, a) = Held(S, a) + Counts(S[c][i].id, n, a)
<1> DEFINE G == FilledUp(S, d, p, n)
<1>0. S[c] \in Seq(Stack) /\ S[c][i] \in Stack
  BY StateParts
<1>00. S[c][i].id \in Type
  BY <1>0, ValueCounts
<1>1. CASE n = 0
  <2>1. G = S
    BY <1>1 DEF FilledUp
  <2>2. \A a : Held(S, a) = Held(S, a) + Counts(S[c][i].id, n, a)
    BY <1>00, <1>1, CountsZero, HeldNat
  <2> QED
    BY <2>1, <2>2
<1>2. CASE n # 0
  <2>1. G = Grow(S, d, p, n)
    BY <1>2 DEF FilledUp
  <2>2. /\ G \in State /\ Elsewhere(S, G, d) /\ Len(G[d]) = Len(S[d])
        /\ \A j \in 1..Len(S[d]) : j # p => G[d][j] = S[d][j]
        /\ \A a : Held(G, a) = Held(S, a) + Counts(S[d][p].id, n, a)
    BY <1>2, <2>1, GrowIs
  <2> HIDE DEF G
  <2>3. \A x \in Cylinder : Len(G[x]) = Len(S[x])
    BY <2>2 DEF Elsewhere
  <2>4. G[c][i] = S[c][i]
    <3>1. CASE d = c
      BY <1>2, <2>2, <3>1
    <3>2. CASE d # c
      BY <2>2, <3>2 DEF Elsewhere
    <3> QED
      BY <3>1, <3>2
  <2>5. i \in 1..Len(G[c])
    BY <2>3
  <2> QED
    BY <1>2, <2>2, <2>3, <2>4, <2>5 DEF G
<1> QED
  BY <1>1, <1>2

\* What queryAdd has ruled out by the time the stack is moved.
MayMove(S, c, i, D) ==
  /\ IsTarget(S, D) /\ ~(D.cyl = c /\ D.item = i)
  /\ D.cyl = "slot" => S[c][i].id \in Ammo
  /\ D.cyl = "slot" /\ D.item # 0 => S["slot"][D.item].id = S[c][i].id
  /\ D.cyl = "bag" /\ D.index = 0 => Len(S["bag"]) < Capacity

\* A move that keeps all there is.
Kept(S, T) ==
  /\ T \in State
  /\ \A a : Held(T, a) = Held(S, a)
  /\ Len(T["bag"]) > Len(S["bag"]) => Len(T["bag"]) <= Capacity

\* A move of k from the stack at i of c that may lose them.
Dropped(S, c, i, k, T) ==
  /\ T \in State /\ Elsewhere(S, T, c)
  /\ \A a : Held(T, a) <= Held(S, a)
  /\ Len(T[c]) <= Len(S[c])
  /\ k < S[c][i].n => Len(T[c]) = Len(S[c])

\* A call that does nothing keeps all there is.
LEMMA KeptSelf ==
  ASSUME NEW S \in State
  PROVE  Kept(S, S)
<1>1. Len(S["bag"]) \in Nat
  BY StateParts
<1>2. ~(Len(S["bag"]) > Len(S["bag"]))
  BY <1>1
<1> QED
  BY <1>2 DEF Kept

\* The second half of a move: m are taken and the n that filled a stack are
\* there already; the rest is a stack of its own.
LEMMA RestMoved ==
  ASSUME NEW S \in State, NEW c \in Cylinder, NEW i \in 1..Len(S[c]), NEW t, t = S[c][i].id,
         NEW d \in Cylinder, NEW p, NEW m \in 1..S[c][i].n, NEW n \in 0..m,
         n # 0 => /\ p \in 1..Len(S[d]) /\ S[d][p].id = t
                  /\ S[d][p].n + n <= StackMax /\ ~(d = c /\ p = i),
         m # n /\ d = "slot" => n = 0 /\ S["slot"] = <<>> /\ t \in Ammo,
         m # n /\ d = "bag" => Len(S["bag"]) < Capacity,
         NEW R, R = Take(FilledUp(S, d, p, n), c, i, m)
  PROVE  Kept(S, IF m = n THEN R ELSE Put(R, d, Of(t, m - n)))
<1> DEFINE G == FilledUp(S, d, p, n)
<1>0. /\ S[c] \in Seq(Stack) /\ S[c][i] \in Stack /\ Len(S[c]) \in Nat
      /\ Len(S["bag"]) \in Nat /\ Capacity \in Nat
  BY StateParts, Types
<1>00. t \in Type /\ S[c][i].n \in 1..StackMax /\ StackMax \in Nat
  BY <1>0, ValueCounts, Types
<1>000. m \in Nat /\ n \in Nat /\ (m # n => m - n \in 1..StackMax)
  <2> DEFINE x == S[c][i].n
  <2>1. x \in Nat /\ x <= StackMax
    BY <1>00
  <2> HIDE DEF x
  <2> QED
    BY <1>00, <2>1 DEF x
<1>1. /\ G \in State /\ i \in 1..Len(G[c]) /\ G[c][i].id = t /\ G[c][i].n = S[c][i].n
      /\ \A x \in Cylinder : Len(G[x]) = Len(S[x])
      /\ \A a : Held(G, a) = Held(S, a) + Counts(t, n, a)
  BY <1>000, FilledUpIs
<1> HIDE DEF G
<1>2. R = Take(G, c, i, m)
  BY DEF G
<1>3. /\ R \in State /\ Elsewhere(G, R, c)
      /\ Len(R[c]) = IF G[c][i].n = m THEN Len(G[c]) - 1 ELSE Len(G[c])
      /\ \A a : Held(G, a) = Held(R, a) + Counts(t, m, a)
  BY <1>1, <1>2, TakeIs
<1>4. \A a : Counts(t, m, a) \in Nat /\ Counts(t, n, a) \in Nat
  BY <1>00, <1>000, CountsOf
<1>5. \A a : Held(S, a) \in Nat /\ Held(R, a) \in Nat
  BY <1>3, HeldNat
<1>6. Len(R["bag"]) <= Len(S["bag"]) /\ Len(R["bag"]) \in Nat
  <2>1. "bag" \in Cylinder
    BY DEF Cylinder
  <2>2. Len(G["bag"]) = Len(S["bag"])
    BY <1>1, <2>1
  <2>3. Len(R["bag"]) = Len(S["bag"]) \/ Len(R["bag"]) = Len(S["bag"]) - 1
    <3>1. CASE c = "bag"
      BY <1>3, <2>2, <3>1
    <3>2. CASE c # "bag"
      BY <1>3, <2>1, <2>2, <3>2 DEF Elsewhere
    <3> QED
      BY <3>1, <3>2
  <2>4. Len(R["bag"]) \in Nat
    BY <1>3, StateParts
  <2> QED
    BY <1>0, <2>3, <2>4
<1>7. CASE m = n
  <2>1. \A a : Held(R, a) = Held(S, a)
    BY <1>1, <1>3, <1>4, <1>5, <1>7
  <2>2. ~(Len(R["bag"]) > Len(S["bag"]))
    BY <1>0, <1>6
  <2> QED
    BY <1>3, <1>7, <2>1, <2>2 DEF Kept
<1>8. CASE m # n
  <2> DEFINE x == Of(t, m - n)
             T == Put(R, d, x)
  <2>1. x \in Stack /\ x.id = t /\ \A a : Value(x, a) = Counts(t, m - n, a)
    BY <1>00, <1>000, <1>8, OfIs
  <2> HIDE DEF x
  <2>2. d = "slot" => R["slot"] = <<>> /\ x.id \in Ammo
    <3> SUFFICES ASSUME d = "slot"
                 PROVE  R["slot"] = <<>> /\ x.id \in Ammo
      OBVIOUS
    <3>1. G = S
      BY <1>8 DEF G, FilledUp
    <3>2. c # "slot"
      BY <1>8
    <3>3. R["slot"] = S["slot"]
      BY <1>3, <3>1, <3>2 DEF Elsewhere, Cylinder
    <3> QED
      BY <1>8, <2>1, <3>3
  <2>3. /\ T \in State /\ Elsewhere(R, T, d)
        /\ Len(T[d]) = Len(R[d]) + 1
        /\ \A a : Held(T, a) = Held(R, a) + Value(x, a)
    BY <1>3, <2>1, <2>2, PutIs, ZenonT(60)
  <2> HIDE DEF T
  <2>4. \A a : Held(T, a) = Held(S, a)
    <3>1. TAKE a
    <3>2. m = (m - n) + n /\ m - n \in Nat
      BY <1>000
    <3>3. Counts(t, m, a) = Counts(t, m - n, a) + Counts(t, n, a)
      BY <1>00, <1>000, <3>2, CountsSum
    <3>4. Counts(t, m - n, a) \in Nat
      BY <1>00, <3>2, CountsOf
    <3> DEFINE g == Held(G, a)
               s == Held(S, a)
               q == Held(R, a)
               all == Counts(t, m, a)
               part == Counts(t, n, a)
               rest == Counts(t, m - n, a)
    <3>5. g = s + part /\ g = q + all /\ all = rest + part
      BY <1>1, <1>3, <3>3
    <3>6. s \in Nat /\ q \in Nat /\ part \in Nat /\ rest \in Nat
      BY <1>4, <1>5, <3>4
    <3>7. Held(T, a) = q + rest
      BY <2>1, <2>3
    <3> HIDE DEF g, s, q, all, part, rest
    <3>8. q + rest = s
      BY <3>5, <3>6
    <3> QED
      BY <3>7, <3>8 DEF s
  <2>5. Len(T["bag"]) > Len(S["bag"]) => Len(T["bag"]) <= Capacity
    <3>1. "bag" \in Cylinder
      BY DEF Cylinder
    <3>2. CASE d = "bag"
      <4>1. Len(S["bag"]) < Capacity
        BY <1>8, <3>2
      <4>2. Len(T["bag"]) = Len(R["bag"]) + 1
        BY <2>3, <3>2
      <4> QED
        BY <1>0, <1>6, <4>1, <4>2
    <3>3. CASE d # "bag"
      <4>1. T["bag"] = R["bag"]
        BY <2>3, <3>1, <3>3 DEF Elsewhere
      <4> QED
        BY <1>0, <1>6, <4>1
    <3> QED
      BY <3>2, <3>3
  <2>6. Kept(S, T)
    BY <2>3, <2>4, <2>5 DEF Kept
  <2> QED
    BY <1>8, <2>6 DEF T, x
<1> QED
  BY <1>7, <1>8

\* internalMoveItem keeps all there is, unless there is no destination: then
\* what is moved is gone.
LEMMA MovedIs ==
  ASSUME NEW S \in State, NEW c \in Cylinder, NEW i \in 1..Len(S[c]), NEW D, MayMove(S, c, i, D),
         NEW k \in 1..S[c][i].n, NEW light
  PROVE  LET T == Moved(S, c, i, D, k, light) IN
           /\ D.cyl # "nowhere" => Kept(S, T)
           /\ D.cyl = "nowhere" => Dropped(S, c, i, k, T)
<1> DEFINE t == S[c][i].id
           max == MaxCount(S, c, i, D, k, light)
           m == AtMost(k, max)
           room == RoomAt(S[D.cyl], t, D.item)
           n == IF D.item = 0 THEN 0 ELSE AtMost(m, room)
           G == IF n = 0 THEN S ELSE Grow(S, D.cyl, D.item, n)
           R == Take(G, c, i, m)
           T == Moved(S, c, i, D, k, light)
<1>1. T = IF m = 0 THEN S
          ELSE IF m = n \/ D.cyl = "nowhere" THEN R
          ELSE Put(R, D.cyl, Of(t, m - n))
  BY DEF Moved
<1>2. R = Take(FilledUp(S, D.cyl, D.item, n), c, i, m)
  BY DEF FilledUp
<1>3. IsTarget(S, D)
  BY DEF MayMove
<1>4. /\ S[c] \in Seq(Stack) /\ S[c][i] \in Stack /\ Len(S[c]) \in Nat
      /\ Len(S["bag"]) \in Nat /\ Capacity \in Nat /\ StackMax \in Nat
  BY StateParts, Types
<1>5. t \in Type /\ S[c][i].n \in 1..StackMax /\ S[c][i].n \in Nat
  BY <1>4, ValueCounts
<1>6. k \in Nat /\ k # 0 /\ k <= S[c][i].n
  BY <1>5
<1>7. max \in Nat
  BY <1>3, <1>6, MaxCountNat
<1>8. m \in Nat /\ m <= k /\ (m # 0 => m \in 1..S[c][i].n)
  <2> DEFINE x == S[c][i].n
  <2>1. x \in Nat /\ k <= x
    BY <1>5, <1>6
  <2> HIDE DEF max, x
  <2>2. m \in Nat /\ m <= k
    BY <1>6, <1>7, AtMostIs
  <2> HIDE DEF m
  <2>3. m # 0 => m \in 1..x
    BY <1>6, <2>1, <2>2
  <2> QED
    BY <2>2, <2>3 DEF x
<1>9. D.item # 0 => /\ D.cyl \in Cylinder /\ D.item \in 1..Len(S[D.cyl]) /\ S[D.cyl] \in Seq(Stack)
                    /\ room \in Nat
                    /\ room # 0 => S[D.cyl][D.item].id = t /\ S[D.cyl][D.item].n \in Nat
                                   /\ S[D.cyl][D.item].n + room = StackMax
  <2> SUFFICES ASSUME D.item # 0
               PROVE  /\ D.cyl \in Cylinder /\ D.item \in 1..Len(S[D.cyl]) /\ S[D.cyl] \in Seq(Stack)
                      /\ room \in Nat
                      /\ room # 0 => S[D.cyl][D.item].id = t /\ S[D.cyl][D.item].n \in Nat
                                     /\ S[D.cyl][D.item].n + room = StackMax
    OBVIOUS
  <2>1. D.cyl \in Cylinder /\ D.item \in 1..Len(S[D.cyl])
    BY <1>3 DEF IsTarget
  <2>2. S[D.cyl] \in Seq(Stack)
    BY <2>1, StateParts
  <2>3. /\ room \in 0..StackMax
        /\ room # 0 => S[D.cyl][D.item].id = t /\ S[D.cyl][D.item].n \in 1..StackMax
                       /\ S[D.cyl][D.item].n + room = StackMax
    BY <2>2, RoomAtIs
  <2>4. \A y \in 0..StackMax : y \in Nat
    BY <1>4
  <2>5. \A y \in 1..StackMax : y \in Nat
    BY <1>4
  <2> HIDE DEF room, t
  <2> QED
    BY <2>1, <2>2, <2>3, <2>4, <2>5
<1> HIDE DEF max, m, room
<1>10. /\ n \in Nat /\ n <= m
       /\ n # 0 => D.item # 0 /\ n <= room /\ room # 0
       /\ D.item # 0 => n = AtMost(m, room)
  <2>1. CASE D.item = 0
    BY <1>8, <2>1
  <2>2. CASE D.item # 0
    <3>1. n = AtMost(m, room)
      BY <2>2
    <3>2. n \in Nat /\ n <= m /\ n <= room
      BY <1>8, <1>9, <2>2, <3>1, AtMostIs
    <3> HIDE DEF n
    <3> QED
      BY <1>9, <2>2, <3>1, <3>2
  <2> QED
    BY <2>1, <2>2
<1>11. n # 0 => /\ D.cyl \in Cylinder /\ D.item \in 1..Len(S[D.cyl]) /\ S[D.cyl][D.item].id = t
                /\ S[D.cyl][D.item].n + n <= StackMax /\ ~(D.cyl = c /\ D.item = i)
  <2> SUFFICES ASSUME n # 0
               PROVE  /\ D.cyl \in Cylinder /\ D.item \in 1..Len(S[D.cyl])
                      /\ S[D.cyl][D.item].id = t
                      /\ S[D.cyl][D.item].n + n <= StackMax /\ ~(D.cyl = c /\ D.item = i)
    OBVIOUS
  <2> HIDE DEF n
  <2>1. D.item # 0 /\ n <= room /\ room # 0 /\ n \in Nat
    BY <1>10
  <2> DEFINE y == S[D.cyl][D.item].n
  <2>2. y \in Nat /\ y + room = StackMax /\ room \in Nat
    BY <1>9, <2>1
  <2> HIDE DEF y
  <2>3. y + n <= StackMax
    BY <2>1, <2>2
  <2> QED
    BY <1>9, <2>1, <2>3 DEF MayMove, y
<1> HIDE DEF n, T, R
<1>12. CASE m = 0
  <2>1. T = S
    BY <1>1, <1>12
  <2>2. Dropped(S, c, i, k, S)
    <3>1. \A a : Held(S, a) <= Held(S, a)
      BY HeldNat
    <3> QED
      BY <1>4, <3>1 DEF Dropped, Elsewhere
  <2> QED
    BY <2>1, <2>2, KeptSelf DEF T
<1>13. CASE m # 0 /\ D.cyl = "nowhere"
  <2>1. T = R
    BY <1>1, <1>13
  <2>2. n = 0
    BY <1>3, <1>10, <1>13 DEF IsTarget, Cylinder
  <2>3. R = Take(S, c, i, m)
    BY <1>2, <2>2 DEF FilledUp
  <2>4. m \in 1..S[c][i].n
    BY <1>8, <1>13
  <2>5. /\ R \in State /\ Elsewhere(S, R, c)
        /\ Len(R[c]) = IF S[c][i].n = m THEN Len(S[c]) - 1 ELSE Len(S[c])
        /\ \A a : Held(S, a) = Held(R, a) + Counts(t, m, a)
    BY <2>3, <2>4, TakeIs
  <2>6. \A a : Held(R, a) <= Held(S, a)
    <3>1. TAKE a
    <3>2. Counts(t, m, a) \in Nat /\ Held(R, a) \in Nat
      BY <1>5, <1>8, <2>5, CountsOf, HeldNat
    <3> QED
      BY <2>5, <3>2
  <2>7. Len(R[c]) <= Len(S[c])
    BY <1>4, <2>5
  <2>8. k < S[c][i].n => Len(R[c]) = Len(S[c])
    BY <1>5, <1>6, <1>8, <2>5
  <2>9. Dropped(S, c, i, k, R)
    BY <2>5, <2>6, <2>7, <2>8 DEF Dropped
  <2> QED
    BY <1>13, <2>1, <2>9 DEF T
<1>14. CASE m # 0 /\ D.cyl # "nowhere"
  <2>1. D.cyl \in Cylinder
    BY <1>3, <1>14 DEF IsTarget
  <2>2. m # n /\ D.cyl = "slot" => n = 0 /\ S["slot"] = <<>> /\ t \in Ammo
    <3> SUFFICES ASSUME m # n, D.cyl = "slot"
                 PROVE  n = 0 /\ S["slot"] = <<>> /\ t \in Ammo
      OBVIOUS
    <3>1. D.item = 0
      <4> SUFFICES ASSUME D.item # 0
                   PROVE  FALSE
        OBVIOUS
      <4>1. max = room
        BY DEF MaxCount, max, room
      <4>2. m <= room
        BY <1>6, <1>7, <4>1, AtMostIs DEF m
      <4>3. n = m
        BY <1>8, <1>9, <1>10, <4>2, AtMostIs
      <4> QED
        BY <4>3
    <3> QED
      BY <1>3, <1>10, <3>1 DEF IsTarget, MayMove
  <2>3. m # n /\ D.cyl = "bag" => Len(S["bag"]) < Capacity
    <3> SUFFICES ASSUME m # n, D.cyl = "bag", ~(Len(S["bag"]) < Capacity)
                 PROVE  FALSE
      OBVIOUS
    <3>1. FreeSlots(S) = 0
      BY <1>4, FreeSlotsIs
    <3>2. D.index # 0
      BY DEF MayMove
    <3>3. max = FreeSlots(S) * StackMax + (IF D.item = 0 THEN 0 ELSE room)
      BY <3>2 DEF MaxCount, max, room
    <3>4. CASE D.item = 0
      <4>1. max = 0
        BY <1>4, <3>1, <3>3, <3>4
      <4> QED
        BY <1>6, <1>14, <4>1, AtMostIs, <1>8 DEF m
    <3>5. CASE D.item # 0
      <4>1. max = room
        BY <1>4, <1>9, <3>1, <3>3, <3>5
      <4>2. m <= room
        BY <1>6, <1>7, <4>1, AtMostIs DEF m
      <4>3. n = m
        BY <1>8, <1>9, <1>10, <3>5, <4>2, AtMostIs
      <4> QED
        BY <4>3
    <3> QED
      BY <3>4, <3>5
  <2>4. m \in 1..S[c][i].n /\ n \in 0..m
    BY <1>8, <1>10, <1>14
  <2>5. Kept(S, IF m = n THEN R ELSE Put(R, D.cyl, Of(t, m - n)))
    BY <1>2, <1>11, <2>1, <2>2, <2>3, <2>4, RestMoved
  <2> QED
    BY <1>1, <1>14, <2>5 DEF T
<1> QED
  BY <1>12, <1>13, <1>14

\* What an exchange with the slot comes to.
Swapped(S, T) ==
  /\ T \in State
  /\ \A a : Held(T, a) = Held(S, a)
  /\ S["slot"] # <<>> /\ T["slot"] # <<>> /\ S["slot"][1].id # T["slot"][1].id

\* The stack of the slot, at the front of the backpack.
Unequipped(S) == Put(Replaced(S, "slot", <<>>), "bag", S["slot"][1])

\* The stack of the slot is put in front of the backpack, and nothing else
\* changes.
LEMMA UnequippedIs ==
  ASSUME NEW S \in State, S["slot"] # <<>>
  PROVE  LET E == Unequipped(S) IN
           /\ E \in State /\ E["slot"] = <<>>
           /\ Len(E["bag"]) = Len(S["bag"]) + 1
           /\ \A j \in 1..Len(S["bag"]) : E["bag"][j + 1] = S["bag"][j]
           /\ \A a : Held(E, a) = Held(S, a)
<1> DEFINE s == S["slot"]
           old == s[1]
           F == Replaced(S, "slot", <<>>)
           E == Put(F, "bag", old)
<1>1. s \in Seq(Stack) /\ FitsSlot(s) /\ S["bag"] \in Seq(Stack)
  BY StateParts
<1>2. "slot" \in Cylinder /\ "bag" \in Cylinder
  BY DEF Cylinder
<1>3. Len(s) = 1 /\ old \in Stack
  <2>1. Len(s) \in Nat /\ Len(s) # 0 /\ Len(s) <= 1
    BY <1>1 DEF FitsSlot
  <2>2. Len(s) = 1
    <3> DEFINE l == Len(s)
    <3>1. l \in Nat /\ l # 0 /\ l <= 1
      BY <2>1
    <3> HIDE DEF l
    <3>2. l = 1
      BY <3>1
    <3> QED
      BY <3>2 DEF l
  <2> QED
    BY <1>1, <2>2
<1>4. s = <<old>> \o <<>>
  BY <1>1, <1>3
<1>5. <<>> \in Seq(Stack) /\ FitsSlot(<<>>)
  BY DEF FitsSlot
<1>6. \A a : Amount(s, a) = Value(old, a)
  <2>1. TAKE a
  <2>2. Amount(<<>>, a) = 0
    BY AmountEmpty
  <2> DEFINE empty == <<>>
  <2>3. Amount(<<old>> \o empty, a) = Amount(empty, a) + Value(old, a)
    <3>1. empty \in Seq(Stack)
      BY <1>5
    <3> HIDE DEF empty, old
    <3> QED
      BY <1>3, <3>1, AmountCons
  <2>4. Value(old, a) \in Nat
    BY <1>3, ValueCounts
  <2> QED
    BY <1>4, <2>2, <2>3, <2>4
<1> HIDE DEF old, s
<1>7. /\ F \in State /\ F["slot"] = <<>> /\ Elsewhere(S, F, "slot")
      /\ \A a : Held(F, a) + Amount(s, a) = Held(S, a) + Amount(<<>>, a)
  BY <1>2, <1>5, StateChange DEF s
<1> HIDE DEF F
<1>8. /\ E \in State /\ Elsewhere(F, E, "bag") /\ Len(E["bag"]) = Len(F["bag"]) + 1
      /\ \A j \in 1..Len(F["bag"]) : E["bag"][j + 1] = F["bag"][j]
      /\ \A a : Held(E, a) = Held(F, a) + Value(old, a)
  BY <1>2, <1>3, <1>7, PutIs, ZenonT(60)
<1> HIDE DEF E
<1>9. F["bag"] = S["bag"]
  BY <1>2, <1>7 DEF Elsewhere
<1>10. E["slot"] = <<>>
  BY <1>2, <1>7, <1>8 DEF Elsewhere
<1>11. \A a : Held(E, a) = Held(S, a)
  <2>1. TAKE a
  <2>2. Amount(<<>>, a) = 0
    BY AmountEmpty
  <2>3. Held(S, a) \in Nat /\ Held(F, a) \in Nat /\ Value(old, a) \in Nat
    BY <1>3, <1>7, HeldNat, ValueCounts
  <2>4. Held(F, a) + Value(old, a) = Held(S, a) + 0
    BY <1>6, <1>7, <2>2
  <2> QED
    BY <1>8, <2>3, <2>4
<1>12. Unequipped(S) = E
  BY DEF Unequipped, E, F, old, s
<1> QED
  BY <1>8, <1>9, <1>10, <1>11, <1>12

\* An exchange with the slot keeps all there is.
LEMMA ExchangedIs ==
  ASSUME NEW S \in State, S["slot"] # <<>>, NEW i \in 1..Len(S["bag"]), NEW k \in 1..S["bag"][i].n,
         S["bag"][i].id \in Ammo, S["slot"][1].id # S["bag"][i].id, NEW light
  PROVE  LET T == Exchanged(S, i, k, light) IN Swapped(S, T) \/ T = S
<1> DEFINE old == S["slot"][1]
           E == Put([S EXCEPT !["slot"] = <<>>], "bag", old)
           D == At("slot", 1, 0)
           T == Exchanged(S, i, k, light)
           room == BagRoom(S, old.id, DOMAIN S["bag"])
<1>1. T = IF room = 0 THEN S ELSE Moved(E, "bag", i + 1, D, k, light)
  BY DEF Exchanged
<1>2. E = Unequipped(S)
  BY DEF Unequipped, Replaced
<1> HIDE DEF T, E, room
<1>3. /\ E \in State /\ E["slot"] = <<>> /\ Len(E["bag"]) = Len(S["bag"]) + 1
      /\ \A j \in 1..Len(S["bag"]) : E["bag"][j + 1] = S["bag"][j]
      /\ \A a : Held(E, a) = Held(S, a)
  BY <1>2, UnequippedIs
<1>4. /\ S["bag"] \in Seq(Stack) /\ Len(S["bag"]) \in Nat /\ StackMax \in Nat
      /\ S["bag"][i] \in Stack
  BY StateParts, Types
<1> DEFINE t == S["bag"][i].id
<1>5. t \in Type /\ S["bag"][i].n \in 1..StackMax
  BY <1>4, ValueCounts
<1>6. E["bag"][i + 1] = S["bag"][i] /\ i + 1 \in 1..Len(E["bag"])
  BY <1>3, <1>4
<1>7. k \in Nat /\ k # 0 /\ k <= StackMax /\ k \in 1..StackMax
  <2> DEFINE x == S["bag"][i].n
  <2>1. x \in Nat /\ x <= StackMax
    BY <1>4, <1>5
  <2> HIDE DEF x
  <2> QED
    BY <1>4, <2>1 DEF x
<1>8. D.cyl = "slot" /\ D.item = 0 /\ D.index = 1
  BY DEF At
<1> HIDE DEF D
<1> DEFINE R == Take(E, "bag", i + 1, k)
           x == Of(t, k)
<1>9. Moved(E, "bag", i + 1, D, k, light) = Put(R, "slot", x)
  <2>1. MaxCount(E, "bag", i + 1, D, k, light) = StackMax
    BY <1>8 DEF MaxCount
  <2>2. AtMost(k, StackMax) = k
    BY <1>4, <1>7, AtMostIs
  <2>3. k - 0 = k
    BY <1>7
  <2> QED
    BY <1>6, <1>7, <1>8, <2>1, <2>2, <2>3 DEF Moved
<1>10. x \in Stack /\ x.id = t /\ \A a : Value(x, a) = Counts(t, k, a)
  BY <1>5, <1>7, OfIs
<1>11. /\ R \in State /\ Elsewhere(E, R, "bag")
       /\ \A a : Held(E, a) = Held(R, a) + Counts(t, k, a)
  <2>1. "bag" \in Cylinder
    BY DEF Cylinder
  <2>2. k \in 1..E["bag"][i + 1].n
    BY <1>6
  <2> QED
    BY <1>3, <1>6, <2>1, <2>2, TakeIs
<1> HIDE DEF R, x
<1>12. "slot" \in Cylinder /\ R["slot"] = <<>>
  BY <1>3, <1>11 DEF Elsewhere, Cylinder
<1> DEFINE U == Put(R, "slot", x)
<1>13. U \in State /\ U["slot"][1] = x /\ Len(U["slot"]) = Len(R["slot"]) + 1
       /\ \A a : Held(U, a) = Held(R, a) + Value(x, a)
  BY <1>10, <1>11, <1>12, PutIs, ZenonT(60)
<1> HIDE DEF U
<1>14. \A a : Held(U, a) = Held(S, a)
  BY <1>3, <1>10, <1>11, <1>13
<1>15. U["slot"] # <<>>
  <2>1. Len(U["slot"]) # 0
    BY <1>12, <1>13
  <2> QED
    BY <2>1
<1>16. Swapped(S, U)
  BY <1>10, <1>13, <1>14, <1>15 DEF Swapped
<1> QED
  BY <1>1, <1>9, <1>16 DEF U, T

\* A move keeps all there is, with or without an exchange, or drops a part of
\* a heap on the tile.
LEMMA MoveItemIs ==
  ASSUME NEW S \in State, NEW c \in Cylinder, NEW i \in 1..Len(S[c]), NEW to \in Place,
         NEW k \in 1..S[c][i].n, NEW light \in Nat
  PROVE  LET T == MoveItem(S, c, i, to, k, light) IN
           \/ Kept(S, T)
           \/ Swapped(S, T)
           \/ c = "tile" /\ Dropped(S, c, i, k, T) /\ k < S[c][i].n
<1> DEFINE D == Target(S, c, i, to, light)
           stays == (D.cyl = c /\ D.item = i) \/ ~CanAdd(S, c, i, D, k, light)
           swap == D.cyl = "slot" /\ D.item = 1 /\ S["slot"][1].id # S[c][i].id
           T == MoveItem(S, c, i, to, k, light)
<1>1. T = IF stays THEN S
          ELSE IF swap THEN (IF c = "bag" THEN Exchanged(S, i, k, light) ELSE S)
          ELSE Moved(S, c, i, D, k, light)
  BY DEF MoveItem
<1>2. /\ S[c] \in Seq(Stack) /\ S[c][i] \in Stack /\ Len(S[c]) \in Nat /\ i \in Nat
      /\ S["slot"] \in Seq(Stack) /\ FitsSlot(S["slot"])
      /\ Len(S["bag"]) \in Nat /\ Capacity \in Nat /\ StackMax \in Nat
  BY StateParts, Types
<1>3. S[c][i].n \in Nat
  BY <1>2, ValueCounts
<1>4. /\ IsTarget(S, D)
      /\ D.cyl = "nowhere" =>
           D.item = 0 /\ (Len(S["bag"]) >= Capacity \/ (c = "tile" /\ ~(S[c][i].n <= light)))
  BY <1>2, TargetIs
<1> HIDE DEF D, T
<1>5. CASE stays \/ (swap /\ c # "bag")
  <2>1. T = S
    BY <1>1, <1>5
  <2> QED
    BY <2>1, KeptSelf DEF T
<1>6. CASE ~stays /\ swap /\ c = "bag"
  <2>1. T = Exchanged(S, i, k, light)
    BY <1>1, <1>6
  <2>2. S["bag"][i].id \in Ammo
    BY <1>6 DEF CanAdd
  <2>3. S["slot"] # <<>>
    <3>1. 1 \in 1..Len(S["slot"])
      BY <1>4, <1>6 DEF IsTarget
    <3>2. Len(S["slot"]) # 0
      BY <3>1
    <3> QED
      BY <3>2
  <2>4. S["slot"][1].id # S["bag"][i].id
    BY <1>6
  <2>5. Swapped(S, T) \/ T = S
    BY <1>6, <2>1, <2>2, <2>3, <2>4, ExchangedIs
  <2> QED
    BY <2>5, KeptSelf DEF T
<1>7. CASE ~stays /\ ~swap
  <2>1. T = Moved(S, c, i, D, k, light)
    BY <1>1, <1>7
  <2>2. CanAdd(S, c, i, D, k, light) /\ ~(D.cyl = c /\ D.item = i)
    BY <1>7
  <2>3. D.cyl = "slot" => S[c][i].id \in Ammo
    BY <2>2 DEF CanAdd
  <2>4. D.cyl = "slot" /\ D.item # 0 => S["slot"][D.item].id = S[c][i].id
    <3> SUFFICES ASSUME D.cyl = "slot", D.item # 0
                 PROVE  S["slot"][D.item].id = S[c][i].id
      OBVIOUS
    <3>1. D.item \in 1..Len(S["slot"])
      BY <1>4 DEF IsTarget
    <3>2. Len(S["slot"]) \in Nat /\ Len(S["slot"]) <= 1
      BY <1>2 DEF FitsSlot
    <3> DEFINE l == Len(S["slot"])
    <3>3. l \in Nat /\ l <= 1 /\ D.item \in 1..l
      BY <3>1, <3>2
    <3> HIDE DEF l
    <3>4. D.item = 1
      BY <3>3
    <3> QED
      BY <1>7, <3>4
  <2>5. Len(S["bag"]) < Capacity - 1 => Len(S["bag"]) < Capacity /\ ~(Len(S["bag"]) >= Capacity)
    <3> DEFINE l == Len(S["bag"])
    <3>1. l \in Nat /\ Capacity \in Nat
      BY <1>2
    <3> HIDE DEF l
    <3>2. l < Capacity - 1 => l < Capacity /\ ~(l >= Capacity)
      BY <3>1
    <3> QED
      BY <3>2 DEF l
  <2>6. D.cyl = "bag" /\ D.index = 0 => Len(S["bag"]) < Capacity
    BY <2>2, <2>5 DEF CanAdd
  <2>7. MayMove(S, c, i, D)
    BY <1>4, <2>2, <2>3, <2>4, <2>6 DEF MayMove
  <2>8. /\ D.cyl # "nowhere" => Kept(S, T)
        /\ D.cyl = "nowhere" => Dropped(S, c, i, k, T)
    BY <2>1, <2>7, MovedIs
  <2>9. D.cyl = "nowhere" => c = "tile" /\ k < S[c][i].n
    <3> SUFFICES ASSUME D.cyl = "nowhere"
                 PROVE  c = "tile" /\ k < S[c][i].n
      OBVIOUS
    <3>1. c = "tile" /\ ~(S[c][i].n <= light)
      BY <1>4, <2>2, <2>5 DEF CanAdd
    <3>2. k <= light
      BY <2>2, <3>1 DEF CanAdd
    <3> DEFINE n == S[c][i].n
    <3>3. n \in Nat /\ k \in Nat /\ ~(n <= light) /\ k <= light
      BY <1>3, <3>1, <3>2
    <3> HIDE DEF n
    <3>4. k < n
      BY <3>3
    <3> QED
      BY <3>1, <3>4 DEF n
  <2> QED
    BY <2>8, <2>9 DEF T
<1> QED
  BY <1>5, <1>6, <1>7

-----------------------------------------------------------------------------
(* The calls *)

\* What every call keeps, from S and v owed to T and w owed: no account gains
\* more than it is owed, and the two action properties.
Fair(S, v, T, w) ==
  /\ T \in State /\ w \in [Account -> Nat]
  /\ \A a \in Account : Held(T, a) + v[a] <= Held(S, a) + w[a]
  /\ \/ \A a \in Account : Held(T, a) + v[a] = Held(S, a) + w[a]
     \/ FreeSlots(S) = 0
     \/ FreeSlots(T) = 0
     \/ /\ w = v /\ Len(T["tile"]) = Len(S["tile"])
        /\ T["slot"] = S["slot"] /\ T["bag"] = S["bag"]
  /\ Len(T["bag"]) > Len(S["bag"]) /\ Len(T["bag"]) > Capacity =>
       S["slot"] # <<>> /\ T["slot"] # <<>> /\ S["slot"][1].id # T["slot"][1].id

\* Everything that is there is owed.
Covered(S, v) == v \in [Account -> Nat] /\ \A a \in Account : Held(S, a) <= v[a]

\* The usual case: what is added, or taken, is due.
LEMMA FairWhen ==
  ASSUME NEW S \in State, NEW T \in State, NEW v \in [Account -> Nat], NEW w \in [Account -> Nat],
         \A a \in Account : Held(T, a) + v[a] <= Held(S, a) + w[a],
         \/ \A a \in Account : Held(T, a) + v[a] = Held(S, a) + w[a]
         \/ FreeSlots(S) = 0 \/ FreeSlots(T) = 0,
         Len(T["bag"]) > Len(S["bag"]) => Len(T["bag"]) <= Capacity
  PROVE  Fair(S, v, T, w)
<1>1. Len(T["bag"]) \in Nat /\ Capacity \in Nat
  BY StateParts, Types
<1>2. ~(Len(T["bag"]) > Len(S["bag"]) /\ Len(T["bag"]) > Capacity)
  BY <1>1
<1> QED
  BY <1>2 DEF Fair

\* What is owed changes in one account.
LEMMA OweIs ==
  ASSUME owed \in [Account -> Nat], NEW b \in Account, NEW k \in Int, owed[b] + k \in Nat, Owe(b, k)
  PROVE  /\ owed' \in [Account -> Nat]
         /\ \A a \in Account : owed'[a] = owed[a] + (IF a = b THEN k ELSE 0)
<1>1. owed' = [owed EXCEPT ![b] = @ + k]
  BY DEF Owe
<1>2. owed' \in [Account -> Nat]
  BY <1>1
<1>3. ASSUME NEW a \in Account
      PROVE  owed'[a] = owed[a] + (IF a = b THEN k ELSE 0)
  <2>1. owed[a] \in Nat
    OBVIOUS
  <2>2. CASE a = b
    BY <1>1, <2>2
  <2>3. CASE a # b
    BY <1>1, <2>1, <2>3
  <2> QED
    BY <2>2, <2>3
<1> QED
  BY <1>2, <1>3

\* playerMoveItem is fair.
LEMMA MoveStep ==
  ASSUME stacks \in State, Covered(stacks, owed),
         NEW c \in Cylinder, NEW i, NEW to \in Place, NEW k \in 1..StackMax, NEW light \in Light,
         Move(c, i, to, k, light)
  PROVE  Fair(stacks, owed, stacks', owed')
<1> DEFINE S == stacks
           T == MoveItem(stacks, c, i, to, k, light)
           v == owed
<1>1. stacks' = T /\ owed' = v
  BY DEF Move
<1>2. /\ i \in 1..Len(S[c]) /\ S[c] \in Seq(Stack) /\ S[c][i] \in Stack
      /\ Len(S["bag"]) \in Nat /\ Capacity \in Nat /\ StackMax \in Nat
  BY StateParts, Types DEF Move
<1>3. S[c][i].n \in Nat
  BY <1>2, ValueCounts
<1>4. k \in 1..S[c][i].n
  BY <1>2, <1>3 DEF Move
<1>5. light \in Nat
  BY <1>2 DEF Light
<1>6. v \in [Account -> Nat] /\ \A a \in Account : v[a] \in Nat /\ Held(S, a) \in Nat
  BY HeldNat DEF Covered
<1>7. \/ Kept(S, T)
      \/ Swapped(S, T)
      \/ c = "tile" /\ Dropped(S, c, i, k, T) /\ k < S[c][i].n
  BY <1>2, <1>4, <1>5, MoveItemIs
<1> HIDE DEF S, T, v
<1>8. ASSUME Kept(S, T) PROVE Fair(S, v, T, v)
  <2>1. /\ T \in State /\ \A a : Held(T, a) = Held(S, a)
        /\ Len(T["bag"]) > Len(S["bag"]) => Len(T["bag"]) <= Capacity
    BY <1>8 DEF Kept
  <2>2. \A a \in Account : /\ Held(T, a) + v[a] <= Held(S, a) + v[a]
                           /\ Held(T, a) + v[a] = Held(S, a) + v[a]
    BY <1>6, <2>1
  <2> QED
    BY <1>6, <2>1, <2>2, FairWhen DEF S
<1>9. ASSUME Swapped(S, T) PROVE Fair(S, v, T, v)
  <2>1. /\ T \in State /\ \A a : Held(T, a) = Held(S, a)
        /\ S["slot"] # <<>> /\ T["slot"] # <<>> /\ S["slot"][1].id # T["slot"][1].id
    BY <1>9 DEF Swapped
  <2>2. \A a \in Account : /\ Held(T, a) + v[a] <= Held(S, a) + v[a]
                           /\ Held(T, a) + v[a] = Held(S, a) + v[a]
    BY <1>6, <2>1
  <2> QED
    BY <1>6, <2>1, <2>2 DEF Fair
<1>10. ASSUME c = "tile", Dropped(S, c, i, k, T), k < S[c][i].n PROVE Fair(S, v, T, v)
  <2>1. /\ T \in State /\ \A a : Held(T, a) <= Held(S, a)
        /\ Len(T["tile"]) = Len(S["tile"]) /\ T["slot"] = S["slot"] /\ T["bag"] = S["bag"]
    BY <1>10 DEF Dropped, Elsewhere, Cylinder
  <2>2. \A a \in Account : Held(T, a) + v[a] <= Held(S, a) + v[a]
    <3>1. TAKE a \in Account
    <3>2. Held(T, a) \in Nat
      BY <2>1, HeldNat
    <3> QED
      BY <1>6, <2>1, <3>2
  <2>3. ~(Len(T["bag"]) > Len(S["bag"]))
    BY <1>2, <2>1
  <2> QED
    BY <1>6, <2>1, <2>2, <2>3 DEF Fair
<1> QED
  BY <1>1, <1>7, <1>8, <1>9, <1>10 DEF S, v

\* addMoney is fair.
LEMMA GiveMoneyStep ==
  ASSUME stacks \in State, Covered(stacks, owed),
         NEW money \in 1..(StackMax * StackMax - 1), NEW light \in Light, GiveMoney(money, light)
  PROVE  Fair(stacks, owed, stacks', owed')
<1> DEFINE S == stacks
           T == AddMoney(stacks, money, light)
<1>1. stacks' = T /\ Owe(Gold, money)
  BY DEF GiveMoney
<1>2. money \in Nat /\ money < StackMax * StackMax /\ light \in Nat
  <2>1. StackMax \in Nat
    BY Types
  <2>2. StackMax * StackMax \in Nat
    BY <2>1, Products
  <2> QED
    BY <2>1, <2>2 DEF Light
<1>3. owed \in [Account -> Nat] /\ Gold \in Account
  BY Types DEF Covered
<1>4. /\ owed' \in [Account -> Nat]
      /\ \A a \in Account : owed'[a] = owed[a] + (IF a = Gold THEN money ELSE 0)
  <2>1. owed[Gold] + money \in Nat
    BY <1>2, <1>3
  <2> QED
    BY <1>1, <1>2, <1>3, <2>1, OweIs
<1>5. MoneyAdded(S, money, T)
  BY <1>2, AddMoneyIs
<1> HIDE DEF T
<1>6. /\ T \in State /\ \A a : Held(T, a) <= Held(S, a) + Money(money, a)
      /\ FreeSlots(S) > 0 /\ (FreeSlots(T) > 0 \/ money < StackMax)
           => \A a : Held(T, a) = Held(S, a) + Money(money, a)
      /\ Len(T["bag"]) > Len(S["bag"]) => Len(T["bag"]) <= Capacity
  BY <1>5 DEF MoneyAdded, Added
<1> DEFINE v == owed
           w == owed'
<1>7. \A a \in Account : /\ Held(T, a) \in Nat /\ Held(S, a) \in Nat /\ v[a] \in Nat
                         /\ Money(money, a) \in Nat /\ w[a] = v[a] + Money(money, a)
  BY <1>2, <1>3, <1>4, <1>6, HeldNat, MoneyNat DEF Money
<1>8. v \in [Account -> Nat] /\ w \in [Account -> Nat]
  BY <1>3, <1>4
<1> HIDE DEF v, w, S
<1>9. \A a \in Account : Held(T, a) + v[a] <= Held(S, a) + w[a]
  BY <1>6, <1>7
<1>10. (\A a \in Account : Held(T, a) + v[a] = Held(S, a) + w[a]) \/ FreeSlots(S) = 0 \/ FreeSlots(T) = 0
  <2> SUFFICES ASSUME FreeSlots(S) # 0, FreeSlots(T) # 0, NEW a \in Account
               PROVE  Held(T, a) + v[a] = Held(S, a) + w[a]
    OBVIOUS
  <2>1. FreeSlots(S) > 0 /\ FreeSlots(T) > 0
    BY <1>6, FreeSlotsIs DEF S
  <2> QED
    BY <1>6, <1>7, <2>1
<1>11. Fair(S, v, T, w)
  BY <1>6, <1>8, <1>9, <1>10, FairWhen DEF S
<1> QED
  BY <1>1, <1>11 DEF S, v, w

\* internalPlayerAddItem, when S is what there is.
Given(S, t, k, light, drop) ==
  LET R == PlayerAdd(S, t, k, light, 0) IN
    IF R.left = 0 \/ (R.left = k /\ ~drop) THEN R.state ELSE TileAdd(R.state, t, R.left)

GivenDue(S, t, k, light, drop) ==
  IF PlayerAdd(S, t, k, light, 0).left < k \/ drop THEN k ELSE 0

\* internalPlayerAddItem adds what is due for it; it loses some only with a
\* full backpack.
LEMMA GivenIs ==
  ASSUME NEW S \in State, NEW t \in Type, NEW k \in 1..StackMax, NEW light \in Nat,
         NEW drop \in BOOLEAN
  PROVE  LET T == Given(S, t, k, light, drop)
             due == GivenDue(S, t, k, light, drop)
         IN /\ T \in State /\ due \in Nat
            /\ \A a : Held(T, a) <= Held(S, a) + Counts(t, due, a)
            /\ (\A a : Held(T, a) = Held(S, a) + Counts(t, due, a)) \/ FreeSlots(S) = 0
            /\ Len(T["bag"]) > Len(S["bag"]) => Len(T["bag"]) <= Capacity
<1> DEFINE R == PlayerAdd(S, t, k, light, 0)
           U == R.state
           left == R.left
           due == GivenDue(S, t, k, light, drop)
           T == Given(S, t, k, light, drop)
<1>0. StackMax \in Nat /\ Len(S["bag"]) \in Nat
  BY StateParts, Types
<1>1. T = IF left = 0 \/ (left = k /\ ~drop) THEN U ELSE TileAdd(U, t, left)
  BY DEF Given
<1>2. due = IF left < k \/ drop THEN k ELSE 0
  BY DEF GivenDue
<1>3. k \in Nat /\ k # 0 /\ k <= StackMax /\ k \in 0..StackMax
  BY <1>0
<1>4. PlayerAdded(S, k, R, t)
  BY <1>3, PlayerAddIs
<1> HIDE DEF R
<1>5. /\ U \in State /\ left \in 0..k
      /\ \A a : Held(U, a) + Counts(t, left, a) <= Held(S, a) + Counts(t, k, a)
      /\ FreeSlots(S) > 0 => \A a : Held(U, a) + Counts(t, left, a) = Held(S, a) + Counts(t, k, a)
      /\ Len(U["bag"]) > Len(S["bag"]) => Len(U["bag"]) <= Capacity
      /\ left = k => U = S
  BY <1>4 DEF PlayerAdded, NoMore, Balance, Added
<1> HIDE DEF U, left, due, T
<1>6. left \in Nat /\ left <= k /\ due \in Nat
  BY <1>2, <1>3, <1>5
<1>7. \A a : /\ Held(S, a) \in Nat /\ Held(U, a) \in Nat /\ Counts(t, left, a) \in Nat
             /\ Counts(t, k, a) \in Nat /\ Counts(t, due, a) \in Nat
  BY <1>3, <1>5, <1>6, CountsOf, HeldNat
<1>8. FreeSlots(S) # 0 => FreeSlots(S) > 0
  BY FreeSlotsIs
<1>9. CASE left = k /\ ~drop
  <2>1. T = S /\ due = 0
    BY <1>1, <1>2, <1>3, <1>5, <1>9
  <2>2. \A a : Counts(t, due, a) = 0
    BY <2>1, CountsZero
  <2>3. \A a : Held(T, a) = Held(S, a) + Counts(t, due, a) /\ Held(T, a) <= Held(S, a) + Counts(t, due, a)
    BY <1>7, <2>1, <2>2
  <2>4. ~(Len(T["bag"]) > Len(S["bag"]))
    BY <1>0, <2>1
  <2> QED
    BY <1>6, <2>1, <2>3, <2>4 DEF T, due
<1>10. CASE left = 0
  <2>1. T = U /\ due = k
    BY <1>1, <1>2, <1>3, <1>10
  <2>2. \A a : Counts(t, left, a) = 0
    BY <1>10, CountsZero
  <2>3. \A a : Held(T, a) <= Held(S, a) + Counts(t, due, a)
    BY <1>5, <1>7, <2>1, <2>2
  <2>4. (\A a : Held(T, a) = Held(S, a) + Counts(t, due, a)) \/ FreeSlots(S) = 0
    BY <1>5, <1>7, <1>8, <2>1, <2>2
  <2> QED
    BY <1>5, <1>6, <2>1, <2>3, <2>4 DEF T, due
<1>11. CASE left # 0 /\ ~(left = k /\ ~drop)
  <2>1. T = TileAdd(U, t, left) /\ due = k
    BY <1>1, <1>2, <1>6, <1>11
  <2>2. left \in 1..StackMax
    BY <1>0, <1>3, <1>6, <1>11
  <2>3. /\ T \in State /\ Elsewhere(U, T, "tile")
        /\ \A a : Held(T, a) = Held(U, a) + Counts(t, left, a)
    BY <1>5, <2>1, <2>2, TileAddIs
  <2>4. T["bag"] = U["bag"]
    BY <2>3 DEF Elsewhere, Cylinder
  <2>5. \A a : Held(T, a) <= Held(S, a) + Counts(t, due, a)
    BY <1>5, <1>7, <2>1, <2>3
  <2>6. (\A a : Held(T, a) = Held(S, a) + Counts(t, due, a)) \/ FreeSlots(S) = 0
    BY <1>5, <1>7, <1>8, <2>1, <2>3
  <2> QED
    BY <1>5, <1>6, <2>3, <2>4, <2>5, <2>6 DEF T, due
<1> QED
  BY <1>9, <1>10, <1>11

\* A call that changes the account b by k, and what is held by as much, or by
\* less where the backpack is full.
LEMMA FairCall ==
  ASSUME stacks \in State, stacks' \in State, Covered(stacks, owed),
         NEW b \in Account, NEW k \in Int, owed[b] + k \in Nat, Owe(b, k),
         \A a \in Account : Held(stacks', a) <= Held(stacks, a) + (IF a = b THEN k ELSE 0),
         \/ \A a \in Account : Held(stacks', a) = Held(stacks, a) + (IF a = b THEN k ELSE 0)
         \/ FreeSlots(stacks) = 0 \/ FreeSlots(stacks') = 0,
         Len(stacks'["bag"]) > Len(stacks["bag"]) => Len(stacks'["bag"]) <= Capacity
  PROVE  Fair(stacks, owed, stacks', owed')
<1> DEFINE S == stacks
           T == stacks'
           v == owed
           w == owed'
<1>1. v \in [Account -> Nat]
  BY DEF Covered
<1>2. w \in [Account -> Nat] /\ \A a \in Account : w[a] = v[a] + (IF a = b THEN k ELSE 0)
  BY <1>1, OweIs
<1>3. \A a \in Account : Held(T, a) \in Nat /\ Held(S, a) \in Nat /\ v[a] \in Nat
  BY <1>1, HeldNat
<1>4. /\ \A a \in Account : Held(T, a) <= Held(S, a) + (IF a = b THEN k ELSE 0)
      /\ \/ \A a \in Account : Held(T, a) = Held(S, a) + (IF a = b THEN k ELSE 0)
         \/ FreeSlots(S) = 0 \/ FreeSlots(T) = 0
  OBVIOUS
<1>5. S \in State /\ T \in State /\ (Len(T["bag"]) > Len(S["bag"]) => Len(T["bag"]) <= Capacity)
  OBVIOUS
<1> HIDE DEF S, T, v, w
<1>6. \A a \in Account : Held(T, a) + v[a] <= Held(S, a) + w[a]
  BY <1>2, <1>3, <1>4, SMTT(30)
<1>7. (\A a \in Account : Held(T, a) + v[a] = Held(S, a) + w[a]) \/ FreeSlots(S) = 0 \/ FreeSlots(T) = 0
  BY <1>2, <1>3, <1>4, SMTT(30)
<1>8. Fair(S, v, T, w)
  BY <1>1, <1>2, <1>5, <1>6, <1>7, FairWhen
<1> QED
  BY <1>8 DEF S, T, v, w

\* internalPlayerAddItem is fair.
LEMMA GiveItemStep ==
  ASSUME stacks \in State, Covered(stacks, owed), NEW t \in Ammo, NEW k \in 1..StackMax,
         NEW light \in Light, NEW drop \in BOOLEAN, GiveItem(t, k, light, drop)
  PROVE  Fair(stacks, owed, stacks', owed')
<1> DEFINE T == Given(stacks, t, k, light, drop)
           due == GivenDue(stacks, t, k, light, drop)
<1>1. stacks' = T /\ Owe(t, due)
  BY DEF GiveItem, Given, GivenDue
<1>2. light \in Nat /\ t \in Type /\ t \in Account
  BY Types DEF Light
<1>3. /\ T \in State /\ due \in Nat
      /\ \A a : Held(T, a) <= Held(stacks, a) + Counts(t, due, a)
      /\ (\A a : Held(T, a) = Held(stacks, a) + Counts(t, due, a)) \/ FreeSlots(stacks) = 0
      /\ Len(T["bag"]) > Len(stacks["bag"]) => Len(T["bag"]) <= Capacity
  BY <1>2, GivenIs
<1> HIDE DEF T, due
<1>4. \A a : Counts(t, due, a) = IF a = t THEN due ELSE 0
  BY <1>2, <1>3, CountsOf
<1>5. owed[t] + due \in Nat
  BY <1>2, <1>3 DEF Covered
<1>6. /\ \A a \in Account : Held(T, a) <= Held(stacks, a) + (IF a = t THEN due ELSE 0)
      /\ \/ \A a \in Account : Held(T, a) = Held(stacks, a) + (IF a = t THEN due ELSE 0)
         \/ FreeSlots(stacks) = 0
  BY <1>3, <1>4
<1>7. due \in Int
  BY <1>3
<1> QED
  BY <1>1, <1>2, <1>3, <1>5, <1>6, <1>7, FairCall

\* removeMoney is fair.
LEMMA PayMoneyStep ==
  ASSUME stacks \in State, Covered(stacks, owed),
         NEW money \in 1..(StackMax * StackMax - 1), NEW light \in Light, PayMoney(money, light)
  PROVE  Fair(stacks, owed, stacks', owed')
<1> DEFINE T == TakeMoney(stacks, money, light)
           purse == Amount(stacks["bag"], Gold)
<1>1. stacks' = T /\ Owe(Gold, 0 - money) /\ money <= purse
  BY DEF PayMoney
<1>2. money \in Nat /\ light \in Nat /\ Gold \in Account
  BY Types DEF Light
<1>3. /\ T \in State
      /\ \A a : Held(T, a) + Money(money, a) <= Held(stacks, a)
      /\ FreeSlots(stacks) > 0 => \A a : Held(T, a) + Money(money, a) = Held(stacks, a)
      /\ Len(T["bag"]) > Len(stacks["bag"]) => Len(T["bag"]) <= Capacity
  BY <1>1, <1>2, TakeMoneyIs
<1> HIDE DEF T
<1>4. FreeSlots(stacks) = 0 \/ FreeSlots(stacks) > 0
  BY FreeSlotsIs
<1>5. \A a : Held(stacks, a) \in Nat /\ Held(T, a) \in Nat /\ Money(money, a) \in Nat
  BY <1>2, <1>3, HeldNat, MoneyNat
<1>6. ASSUME NEW a, NEW h \in Nat, NEW g \in Nat
      PROVE  /\ g + Money(money, a) <= h => g <= h + (IF a = Gold THEN 0 - money ELSE 0)
             /\ g + Money(money, a) = h => g = h + (IF a = Gold THEN 0 - money ELSE 0)
  BY <1>2 DEF Money
<1>7. owed[Gold] + (0 - money) \in Nat
  <2> DEFINE slot == Amount(stacks["slot"], Gold)
             tile == Amount(stacks["tile"], Gold)
             held == Held(stacks, Gold)
             o == owed[Gold]
  <2>1. o \in Nat /\ held <= o /\ held = slot + purse + tile /\ slot \in Nat /\ purse \in Nat /\ tile \in Nat
    BY <1>2, HeldNat DEF Covered
  <2>2. money <= purse
    BY <1>1
  <2> HIDE DEF slot, tile, held, o, purse
  <2>3. o + (0 - money) \in Nat
    BY <1>2, <2>1, <2>2
  <2> QED
    BY <2>3 DEF o
<1>8. \A a \in Account : Held(T, a) <= Held(stacks, a) + (IF a = Gold THEN 0 - money ELSE 0)
  BY <1>3, <1>5, <1>6
<1>9. (\A a \in Account : Held(T, a) = Held(stacks, a) + (IF a = Gold THEN 0 - money ELSE 0))
      \/ FreeSlots(stacks) = 0
  BY <1>3, <1>4, <1>5, <1>6
<1>10. 0 - money \in Int
  BY <1>2
<1> QED
  BY <1>1, <1>2, <1>3, <1>7, <1>8, <1>9, <1>10, FairCall

\* removeItemOfType is fair.
LEMMA SellItemsStep ==
  ASSUME stacks \in State, Covered(stacks, owed), NEW t \in Ammo, NEW k \in 1..(2 * StackMax),
         NEW ignore \in BOOLEAN, SellItems(t, k, ignore)
  PROVE  Fair(stacks, owed, stacks', owed')
<1> DEFINE T == TakeItems(stacks, t, k)
           slot == Amount(stacks["slot"], t)
           bag == Amount(stacks["bag"], t)
           tile == Amount(stacks["tile"], t)
           held == Held(stacks, t)
           o == owed[t]
<1>1. stacks' = T /\ Owe(t, 0 - k) /\ k <= Carried(stacks, t, ignore)
  BY DEF SellItems
<1>2. k \in Nat /\ t \in Account /\ t \in Type
  BY Types
<1>3. /\ T \in State
      /\ \A a : Held(stacks, a) = Held(T, a) + Counts(t, k, a)
      /\ Len(T["bag"]) <= Len(stacks["bag"])
  BY <1>1, <1>2, TakeItemsIs
<1> HIDE DEF T
<1>4. \A a : Held(stacks, a) \in Nat /\ Held(T, a) \in Nat
  BY <1>3, HeldNat
<1>5. \A a : Counts(t, k, a) = IF a = t THEN k ELSE 0
  BY <1>2, CountsOf
<1>6. o + (0 - k) \in Nat
  <2>1. o \in Nat /\ held <= o /\ held = slot + bag + tile /\ slot \in Nat /\ bag \in Nat /\ tile \in Nat
    BY <1>2, HeldNat DEF Covered
  <2>2. k <= bag + slot \/ k <= bag + 0
    BY <1>1 DEF Carried
  <2> HIDE DEF slot, bag, tile, held, o
  <2> QED
    BY <1>2, <2>1, <2>2
<1>7. \A a \in Account : Held(T, a) = Held(stacks, a) + (IF a = t THEN 0 - k ELSE 0)
  BY <1>2, <1>3, <1>4, <1>5
<1>8. \A a \in Account : Held(T, a) <= Held(stacks, a) + (IF a = t THEN 0 - k ELSE 0)
  BY <1>4, <1>7
<1>9. Len(T["bag"]) > Len(stacks["bag"]) => Len(T["bag"]) <= Capacity
  <2>1. Len(T["bag"]) \in Nat /\ Len(stacks["bag"]) \in Nat
    BY <1>3, StateParts
  <2> QED
    BY <1>3, <2>1
<1>10. 0 - k \in Int
  BY <1>2
<1> QED
  BY <1>1, <1>2, <1>3, <1>6, <1>7, <1>8, <1>9, <1>10, FairCall

\* What somebody else takes from the tile is no longer owed.
LEMMA TakeAwayStep ==
  ASSUME stacks \in State, Covered(stacks, owed), TakeAway
  PROVE  Fair(stacks, owed, stacks', owed')
<1> DEFINE S == stacks
           s == S["tile"]
           T == Replaced(S, "tile", Tail(s))
           v == owed
           w == owed'
<1>1. stacks' = T /\ s # <<>> /\ w = [a \in Account |-> v[a] - Value(Head(s), a)]
  BY DEF TakeAway, Replaced
<1>2. s \in Seq(Stack) /\ "tile" \in Cylinder /\ "bag" \in Cylinder
  BY StateParts DEF Cylinder
<1>3. Tail(s) \in Seq(Stack) /\ Head(s) \in Stack
  BY <1>1, <1>2, AmountTail
<1>4. /\ T \in State /\ Elsewhere(S, T, "tile")
      /\ \A a : Held(T, a) + Amount(s, a) = Held(S, a) + Amount(Tail(s), a)
  BY <1>2, <1>3, StateChange
<1>5. v \in [Account -> Nat] /\ \A a \in Account : v[a] \in Nat /\ Held(S, a) <= v[a]
  BY DEF Covered
<1>6. \A a : Amount(s, a) = Amount(Tail(s), a) + Value(Head(s), a)
  BY <1>1, <1>2, AmountTail
<1>7. S \in State
  OBVIOUS
<1> HIDE DEF T, v, w, S, s
<1>8. \A a : /\ Held(T, a) \in Nat /\ Held(S, a) \in Nat /\ Amount(s, a) \in Nat
             /\ Amount(Tail(s), a) \in Nat /\ Value(Head(s), a) \in Nat
  BY <1>2, <1>3, <1>4, <1>7, HeldNat, ValuesSeq, ValueCounts
<1>9. \A a : Held(S, a) = Held(T, a) + Value(Head(s), a)
  <2>1. TAKE a
  <2> DEFINE before == Held(S, a)
             after == Held(T, a)
             all == Amount(s, a)
             rest == Amount(Tail(s), a)
             top == Value(Head(s), a)
  <2>2. after + all = before + rest /\ all = rest + top
    BY <1>4, <1>6
  <2>3. before \in Nat /\ after \in Nat /\ rest \in Nat /\ top \in Nat
    BY <1>8
  <2> HIDE DEF before, after, all, rest, top
  <2>4. before = after + top
    BY <2>2, <2>3
  <2> QED
    BY <2>4 DEF before, after, top
<1>10. w \in [Account -> Nat] /\ \A a \in Account : w[a] = v[a] - Value(Head(s), a)
  <2>1. \A a \in Account : v[a] - Value(Head(s), a) \in Nat
    BY <1>5, <1>8, <1>9
  <2> QED
    BY <1>1, <2>1
<1>11. \A a \in Account : Held(T, a) + v[a] = Held(S, a) + w[a] /\ Held(T, a) + v[a] <= Held(S, a) + w[a]
  BY <1>5, <1>8, <1>9, <1>10
<1>12. T["bag"] = S["bag"] /\ Len(S["bag"]) \in Nat
  BY <1>2, <1>4, <1>7, StateParts DEF Elsewhere
<1>13. Len(T["bag"]) > Len(S["bag"]) => Len(T["bag"]) <= Capacity
  BY <1>12
<1>14. Fair(S, v, T, w)
  BY <1>4, <1>5, <1>7, <1>10, <1>11, <1>13, FairWhen
<1> QED
  BY <1>1, <1>14 DEF S, v, w

-----------------------------------------------------------------------------
(* The theorems *)

\* State is what the type invariant says of the stacks.
LEMMA StateOf ==
  ASSUME NEW S
  PROVE  S \in State <=>
           /\ S \in [Cylinder -> Seq(Stack)]
           /\ Len(S["slot"]) <= 1 /\ \A i \in DOMAIN S["slot"] : S["slot"][i].id \in Ammo
<1>1. S \in [Cylinder -> Seq(Stack)] => DOMAIN S["slot"] = 1..Len(S["slot"])
  BY DEF Cylinder
<1> QED
  BY <1>1 DEF State, FitsSlot

\* The invariant: only what is owed is there.
Accounted == stacks \in State /\ Covered(stacks, owed)

\* The invariant is the two that are checked, together.
LEMMA AccountedIs ==
  Accounted <=> ItemsTypeOK /\ NothingDoubled
  BY StateOf DEF Accounted, Covered, ItemsTypeOK, NothingDoubled

\* At the start nobody has or is owed anything.
LEMMA InitAccounted ==
  Init => Accounted
<1> SUFFICES ASSUME Init
             PROVE  Accounted
  OBVIOUS
<1>1. stacks \in [Cylinder -> Seq(Stack)] /\ \A c \in Cylinder : stacks[c] = <<>>
  BY DEF Init, Cylinder
<1>2. stacks \in State
  BY <1>1 DEF State, FitsSlot, Cylinder
<1>3. \A a : Held(stacks, a) = 0
  BY <1>1, AmountEmpty DEF Held, Cylinder
<1>4. Covered(stacks, owed)
  BY <1>3 DEF Covered, Init
<1> QED
  BY <1>2, <1>4 DEF Accounted

\* Every call is fair.
LEMMA FairNext ==
  ASSUME Accounted, Next
  PROVE  Fair(stacks, owed, stacks', owed')
<1>0. stacks \in State /\ Covered(stacks, owed)
  BY DEF Accounted
<1>1. ASSUME NEW light \in Light, NEW t \in Ammo, NEW k \in 1..StackMax, NEW drop \in BOOLEAN,
             GiveItem(t, k, light, drop)
      PROVE  Fair(stacks, owed, stacks', owed')
  BY <1>0, <1>1, GiveItemStep
<1>2. ASSUME NEW light \in Light, NEW money \in 1..(StackMax * StackMax - 1), GiveMoney(money, light)
      PROVE  Fair(stacks, owed, stacks', owed')
  BY <1>0, <1>2, GiveMoneyStep
<1>3. ASSUME NEW light \in Light, NEW money \in 1..(StackMax * StackMax - 1), PayMoney(money, light)
      PROVE  Fair(stacks, owed, stacks', owed')
  BY <1>0, <1>3, PayMoneyStep
<1>4. ASSUME NEW light \in Light, NEW c \in {"slot", "bag", "tile"}, NEW i \in 1..(Capacity + 1),
             NEW to \in Place, NEW k \in 1..StackMax, Move(c, i, to, k, light)
      PROVE  Fair(stacks, owed, stacks', owed')
  BY <1>0, <1>4, MoveStep DEF Cylinder
<1>5. ASSUME NEW t \in Ammo, NEW k \in 1..(2 * StackMax), NEW ignore \in BOOLEAN, SellItems(t, k, ignore)
      PROVE  Fair(stacks, owed, stacks', owed')
  BY <1>0, <1>5, SellItemsStep
<1>6. ASSUME TakeAway
      PROVE  Fair(stacks, owed, stacks', owed')
  BY <1>0, <1>6, TakeAwayStep
<1> QED
  BY <1>1, <1>2, <1>3, <1>4, <1>5, <1>6 DEF Next

\* The invariant is inductive: what a fair call adds is owed.
LEMMA NextAccounted ==
  Accounted /\ [Next]_vars => Accounted'
<1> SUFFICES ASSUME Accounted, [Next]_vars
             PROVE  Accounted'
  OBVIOUS
<1>1. CASE Next
  <2>1. Fair(stacks, owed, stacks', owed')
    BY <1>1, FairNext
  <2> DEFINE S == stacks
             T == stacks'
             v == owed
             w == owed'
  <2>2. /\ S \in State /\ T \in State /\ v \in [Account -> Nat] /\ w \in [Account -> Nat]
        /\ \A a \in Account : Held(S, a) <= v[a]
        /\ \A a \in Account : Held(T, a) + v[a] <= Held(S, a) + w[a]
    BY <2>1 DEF Fair, Accounted, Covered
  <2> HIDE DEF S, T, v, w
  <2>3. \A a \in Account : Held(S, a) \in Nat /\ Held(T, a) \in Nat /\ v[a] \in Nat /\ w[a] \in Nat
    BY <2>2, HeldNat
  <2>4. \A a \in Account : Held(T, a) <= w[a]
    BY <2>2, <2>3
  <2>5. Covered(T, w)
    BY <2>2, <2>4 DEF Covered
  <2>6. stacks' \in State /\ Covered(stacks', owed')
    BY <2>2, <2>5 DEF T, w
  <2> QED
    BY <2>6 DEF Accounted, Covered, Held
<1>2. CASE UNCHANGED vars
  BY <1>2 DEF vars, Accounted, Covered, Held
<1> QED
  BY <1>1, <1>2

\* The stacks are stacks, of one at most in the slot, whose types go there, and
\* what is owed is never negative: no call takes more than it was asked to.
THEOREM TypesKept ==
  Spec => []ItemsTypeOK
<1>1. Spec => []Accounted
  BY InitAccounted, NextAccounted, PTL DEF Spec
<1>2. Accounted => ItemsTypeOK
  BY AccountedIs
<1> QED
  BY <1>1, <1>2, PTL

\* Over all calls, with any backpack, any types and any weights, what the
\* player and the tile hold of an account is never more than was given: no
\* add that splits over stacks, no exchange, no change for a coin doubles any.
THEOREM NeverDoubled ==
  Spec => []NothingDoubled
<1>1. Spec => []Accounted
  BY InitAccounted, NextAccounted, PTL DEF Spec
<1>2. Accounted => NothingDoubled
  BY AccountedIs
<1> QED
  BY <1>1, <1>2, PTL

\* Only where the backpack is full before or after a call, or a part of a heap
\* that is too heavy is taken from the floor, does that call lose anything.
THEOREM NeverLost ==
  Spec => LostOnlyWhenFull
<1> DEFINE Loss ==
      \A a \in Account :
        Shortfall(a)' > Shortfall(a) =>
          \/ FreeSlots(stacks) = 0 \/ FreeSlots(stacks)' = 0
          \/ /\ owed' = owed /\ Len(stacks'["tile"]) = Len(stacks["tile"])
             /\ stacks'["slot"] = stacks["slot"] /\ stacks'["bag"] = stacks["bag"]
<1>1. Spec => []Accounted
  BY InitAccounted, NextAccounted, PTL DEF Spec
<1>2. Accounted /\ [Next]_vars => [Loss]_vars
  <2> SUFFICES ASSUME Accounted, Next
               PROVE  Loss
    OBVIOUS
  <2>1. Fair(stacks, owed, stacks', owed')
    BY FairNext
  <2> SUFFICES ASSUME NEW a \in Account, Shortfall(a)' > Shortfall(a), FreeSlots(stacks) # 0,
                      FreeSlots(stacks') # 0
               PROVE  /\ owed' = owed /\ Len(stacks'["tile"]) = Len(stacks["tile"])
                      /\ stacks'["slot"] = stacks["slot"] /\ stacks'["bag"] = stacks["bag"]
    BY DEF FreeSlots
  <2> DEFINE before == Held(stacks, a)
             after == Held(stacks', a)
             v == owed[a]
             w == owed'[a]
  <2>2. before \in Nat /\ after \in Nat /\ v \in Nat /\ w \in Nat
    BY <2>1, HeldNat DEF Fair, Accounted, Covered
  <2>3. w - after > v - before
    BY DEF Shortfall, Held
  <2>4. after + v # before + w
    <3> HIDE DEF before, after, v, w
    <3> QED
      BY <2>2, <2>3
  <2> QED
    BY <2>1, <2>4 DEF Fair
<1> QED
  BY <1>1, <1>2, PTL DEF Spec, LostOnlyWhenFull

\* The backpack takes more stacks than it has slots in one way only: a stack
\* of the slot is put there for one of another type.
THEOREM OverfullByExchange ==
  Spec => OverfullOnlyByExchange
<1> DEFINE Exchange ==
      Len(stacks'["bag"]) > Len(stacks["bag"]) /\ Len(stacks'["bag"]) > Capacity =>
        /\ stacks["slot"] # <<>> /\ stacks'["slot"] # <<>>
        /\ stacks["slot"][1].id # stacks'["slot"][1].id
<1>1. Spec => []Accounted
  BY InitAccounted, NextAccounted, PTL DEF Spec
<1>2. Accounted /\ [Next]_vars => [Exchange]_vars
  <2> SUFFICES ASSUME Accounted, Next
               PROVE  Exchange
    OBVIOUS
  <2>1. Fair(stacks, owed, stacks', owed')
    BY FairNext
  <2> QED
    BY <2>1 DEF Fair
<1> QED
  BY <1>1, <1>2, PTL DEF Spec, OverfullOnlyByExchange
=============================================================================
