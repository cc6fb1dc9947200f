---------------------------- MODULE NumberLemmas ----------------------------
(***************************************************************************)
(* Facts about numbers that the proofs of several components need: how a   *)
(* sum changes when its sequence grows, and that a finite set of numbers   *)
(* has a greatest and a least member.                                      *)
(*                                                                         *)
(* Inductions are carried out by hand, from the fact that a set of natural *)
(* numbers has a least member.  For sums: the running total exists for     *)
(* every prefix, and two of them agree where both are defined.             *)
(***************************************************************************)
EXTENDS Sums, FiniteSets, FiniteSetsExt, FiniteSetTheorems, NaturalsInduction,
        WellFoundedInduction, TLAPS

\* total holds the sums of the prefixes of `numbers` up to length n.
Running(numbers, n, total) ==
    total = [i \in 0..n |-> IF i = 0 THEN 0 ELSE total[i - 1] + numbers[i]]

\* Every nonempty set of natural numbers has a least member.
LEMMA LeastNumber ==
    ASSUME NEW T \in SUBSET Nat, T # {}
    PROVE  \E n \in T : \A m \in T : n <= m
<1> DEFINE below == {pair \in Nat \X Nat : pair[1] < pair[2]}
<1>1. OpToRel(<, Nat) = below
  BY DEF OpToRel
<1>2. IsWellFoundedOn(below, Nat)
  BY <1>1, NatLessThanWellFounded
<1>3. PICK n \in T : \A m \in T : ~(<<m, n>> \in below)
  BY <1>2, WFMin
<1>4. ASSUME NEW m \in T PROVE n <= m
  <2>1. m \in Nat /\ n \in Nat /\ <<m, n>> \in Nat \X Nat
    OBVIOUS
  <2>2. ~(<<m, n>>[1] < <<m, n>>[2])
    BY <1>3, <2>1
  <2> QED BY <2>1, <2>2
<1> QED BY <1>4

\* Every prefix has its running total.
LEMMA RunningExists ==
    ASSUME NEW s \in Seq(Int), NEW k \in 0..Len(s)
    PROVE  \E total : Running(s, k, total)
<1> DEFINE T == {n \in 0..Len(s) : ~\E total : Running(s, n, total)}
<1> SUFFICES ASSUME T # {} PROVE FALSE
  OBVIOUS
<1>0. T \in SUBSET Nat
  OBVIOUS
<1> HIDE DEF T
<1>1. PICK n \in T : \A m \in T : n <= m
  BY <1>0, LeastNumber
<1> USE DEF T
<1>2. CASE n = 0
  <2> DEFINE f == [i \in 0..0 |-> 0]
  <2>1. Running(s, 0, f)
    BY DEF Running
  <2> QED BY <1>2, <2>1
<1>3. CASE n # 0
  <2>0. Len(s) \in Nat
    OBVIOUS
  <2>1. n \in 1..Len(s) /\ n - 1 \in 0..Len(s) /\ n - 1 \notin T
    BY <2>0, <1>1, <1>3
  <2>2. PICK g : Running(s, n - 1, g)
    BY <2>1
  <2> DEFINE f == [i \in 0..n |-> IF i = n THEN g[n - 1] + s[n] ELSE g[i]]
  <2>3. \A i \in 0..n : f[i] = IF i = 0 THEN 0 ELSE f[i - 1] + s[i]
    <3> SUFFICES ASSUME NEW i \in 0..n PROVE f[i] = IF i = 0 THEN 0 ELSE f[i - 1] + s[i]
      OBVIOUS
    <3>1. CASE i = n
      <4>1. f[n - 1] = g[n - 1]
        BY <2>1
      <4> QED BY <3>1, <4>1, <2>1
    <3>2. CASE i # n
      <4>1. i \in 0..(n - 1) /\ f[i] = g[i]
        BY <3>2, <2>1
      <4>2. g[i] = IF i = 0 THEN 0 ELSE g[i - 1] + s[i]
        BY <4>1, <2>2 DEF Running
      <4>3. i # 0 => f[i - 1] = g[i - 1]
        BY <4>1, <2>1
      <4> QED BY <4>1, <4>2, <4>3
    <3> QED BY <3>1, <3>2
  <2>4. Running(s, n, f)
    BY <2>3 DEF Running
  <2> QED BY <2>4, <1>1
<1> QED BY <1>2, <1>3

\* The running total of a whole sequence is the one SumOf chooses.
LEMMA SumIsRunning ==
    ASSUME NEW s \in Seq(Int)
    PROVE  \E total : Running(s, Len(s), total) /\ SumOf(s) = total[Len(s)]
<1> DEFINE total == CHOOSE total : Running(s, Len(s), total)
<1>1. Len(s) \in 0..Len(s)
  OBVIOUS
<1>2. Running(s, Len(s), total)
  BY <1>1, RunningExists
<1>3. SumOf(s) = total[Len(s)]
  BY DEF SumOf, Running
<1> QED BY <1>2, <1>3

\* What a running total holds at each place.
LEMMA RunningValue ==
    ASSUME NEW s, NEW n \in Nat, NEW f, Running(s, n, f), NEW i \in 0..n
    PROVE  f[i] = IF i = 0 THEN 0 ELSE f[i - 1] + s[i]
  BY DEF Running

\* Sequences that agree on a prefix have the same running totals there.
LEMMA RunningAgree ==
    ASSUME NEW s, NEW t, NEW n \in Nat, NEW k \in Nat, NEW f, NEW g,
           Running(s, n, f), Running(t, k, g),
           NEW m \in Nat, m <= n, m <= k, \A i \in 1..m : s[i] = t[i]
    PROVE  f[m] = g[m]
<1> DEFINE T == {i \in 0..m : f[i] # g[i]}
<1> SUFFICES ASSUME T # {} PROVE FALSE
  OBVIOUS
<1>0. T \in SUBSET Nat
  OBVIOUS
<1> HIDE DEF T
<1>1. PICK i \in T : \A j \in T : i <= j
  BY <1>0, LeastNumber
<1> USE DEF T
<1>2. CASE i = 0
  <2>1. f[0] = 0 /\ g[0] = 0
    BY RunningValue
  <2> QED BY <1>2, <2>1
<1>3. CASE i # 0
  <2>1. i \in 1..m /\ i - 1 \in 0..m /\ i - 1 \notin T
    BY <1>1, <1>3
  <2>2. f[i - 1] = g[i - 1]
    BY <2>1
  <2>3. f[i] = f[i - 1] + s[i] /\ g[i] = g[i - 1] + t[i]
    BY <2>1, RunningValue
  <2> QED BY <2>1, <2>2, <2>3, <1>1
<1> QED BY <1>2, <1>3

\* Running totals of numbers are numbers.
LEMMA RunningTyped ==
    ASSUME NEW s \in Seq(Int), NEW n \in 0..Len(s), NEW f, Running(s, n, f),
           NEW m \in 0..n
    PROVE  f[m] \in Int /\ (s \in Seq(Nat) => f[m] \in Nat)
<1> DEFINE T == {i \in 0..m : ~(f[i] \in Int /\ (s \in Seq(Nat) => f[i] \in Nat))}
<1> SUFFICES ASSUME T # {} PROVE FALSE
  OBVIOUS
<1>0. T \in SUBSET Nat /\ n \in Nat
  OBVIOUS
<1> HIDE DEF T
<1>1. PICK i \in T : \A j \in T : i <= j
  BY <1>0, LeastNumber
<1> USE DEF T
<1>2. CASE i = 0
  <2>1. f[0] = 0
    BY <1>0, RunningValue
  <2> QED BY <1>2, <2>1
<1>3. CASE i # 0
  <2>1. i \in 1..m /\ i - 1 \in 0..m /\ i - 1 \notin T /\ i \in 0..n /\ i \in 1..Len(s)
    BY <1>1, <1>3
  <2>2. f[i - 1] \in Int /\ (s \in Seq(Nat) => f[i - 1] \in Nat)
    BY <2>1
  <2>3. f[i] = f[i - 1] + s[i]
    BY <1>0, <2>1, RunningValue
  <2>4. s[i] \in Int /\ (s \in Seq(Nat) => s[i] \in Nat)
    BY <2>1
  <2>5. f[i] \in Int /\ (s \in Seq(Nat) => f[i] \in Nat)
    BY <2>2, <2>3, <2>4
  <2> QED BY <2>5
<1> QED BY <1>2, <1>3

-----------------------------------------------------------------------------
\* A sum of integers is an integer; of natural numbers, a natural number.
THEOREM SumTyped ==
    ASSUME NEW s \in Seq(Int)
    PROVE  SumOf(s) \in Int /\ (s \in Seq(Nat) => SumOf(s) \in Nat)
<1>1. PICK f : Running(s, Len(s), f) /\ SumOf(s) = f[Len(s)]
  BY SumIsRunning
<1>2. Len(s) \in 0..Len(s)
  OBVIOUS
<1> QED BY <1>1, <1>2, RunningTyped

\* Nothing sums to zero.
THEOREM SumEmpty == SumOf(<<>>) = 0
<1>1. <<>> \in Seq(Int) /\ Len(<<>>) = 0
  OBVIOUS
<1>2. PICK f : Running(<<>>, 0, f) /\ SumOf(<<>>) = f[0]
  BY <1>1, SumIsRunning
<1> QED BY <1>2, RunningValue

\* A number added at the end is added to the sum.
THEOREM SumAppend ==
    ASSUME NEW s \in Seq(Int), NEW x \in Int
    PROVE  SumOf(Append(s, x)) = SumOf(s) + x
<1> DEFINE t == Append(s, x)
           n == Len(s)
<1>1. /\ t \in Seq(Int) /\ Len(t) = n + 1 /\ n \in Nat /\ t[n + 1] = x
      /\ \A i \in 1..n : s[i] = t[i]
  OBVIOUS
<1> HIDE DEF t
<1>2. PICK f : Running(s, n, f) /\ SumOf(s) = f[n]
  BY SumIsRunning
<1>3. PICK g : Running(t, n + 1, g) /\ SumOf(t) = g[n + 1]
  BY <1>1, SumIsRunning
<1> HIDE DEF n
<1>4. g[n + 1] = g[n] + x
  <2>1. n + 1 \in Nat /\ n + 1 \in 0..(n + 1) /\ n + 1 # 0 /\ (n + 1) - 1 = n
    BY <1>1
  <2> QED BY <1>1, <1>3, <2>1, RunningValue
<1>5. f[n] = g[n]
  <2>1. n + 1 \in Nat /\ n <= n /\ n <= n + 1
    BY <1>1
  <2> QED BY <1>1, <1>2, <1>3, <2>1, RunningAgree
<1>6. SumOf(t) = SumOf(s) + x
  BY <1>2, <1>3, <1>4, <1>5
<1> QED BY <1>6 DEF t

\* Sequences of the same length with the same numbers are equal.
LEMMA SameNumbers ==
    ASSUME NEW s \in Seq(Int), NEW t \in Seq(Int), Len(s) = Len(t),
           \A i \in 1..Len(s) : s[i] = t[i]
    PROVE  s = t
<1>1. s \in [1..Len(s) -> Int] /\ t \in [1..Len(t) -> Int]
  OBVIOUS
<1> QED BY <1>1

\* A sum stays below any bound that grows at least as fast.
LEMMA SumBelow ==
    ASSUME NEW s \in Seq(Int), NEW c \in [0..Len(s) -> Int], 0 <= c[0],
           \A i \in 1..Len(s) : s[i] + c[i - 1] <= c[i]
    PROVE  SumOf(s) <= c[Len(s)]
<1>0. Len(s) \in Nat /\ Len(s) \in 0..Len(s)
  OBVIOUS
<1>1. PICK f : Running(s, Len(s), f) /\ SumOf(s) = f[Len(s)]
  BY SumIsRunning
<1> DEFINE T == {i \in 0..Len(s) : ~(f[i] <= c[i])}
<1> SUFFICES ASSUME T # {} PROVE FALSE
  BY <1>0, <1>1
<1>2. T \in SUBSET Nat
  BY <1>0
<1> HIDE DEF T
<1>3. PICK i \in T : \A j \in T : i <= j
  BY <1>2, LeastNumber
<1> USE DEF T
<1>4. CASE i = 0
  <2>1. f[0] = 0 /\ f[0] <= c[0]
    BY <1>0, <1>1, RunningValue
  <2>2. f[i] <= c[i]
    BY Zenon, <1>4, <2>1
  <2> QED BY Zenon, <1>3, <2>2
<1>5. CASE i # 0
  <2>a. i \in 0..Len(s)
    BY Zenon, <1>3
  <2>b. i \in 1..Len(s) /\ i - 1 \in 0..Len(s) /\ i - 1 \in Int /\ ~(i <= i - 1)
    BY <1>0, <1>5, <2>a
  <2>1. i \in 1..Len(s) /\ i - 1 \in 0..Len(s) /\ i - 1 \notin T
    BY Zenon, <1>3, <2>b
  <2>2. f[i - 1] <= c[i - 1] /\ f[i - 1] \in Int /\ f[i] \in Int
    BY <1>0, <1>1, <2>1, RunningTyped
  <2>c. s \in [1..Len(s) -> Int]
    OBVIOUS
  <2>3. s[i] \in Int /\ c[i] \in Int /\ c[i - 1] \in Int
    BY Zenon, <2>a, <2>1, <2>c
  <2>4. f[i] = f[i - 1] + s[i]
    <3>1. i \in 0..Len(s) /\ i # 0
      BY <1>0, <2>1
    <3> QED BY <1>0, <1>1, <3>1, RunningValue
  <2>5. s[i] + c[i - 1] <= c[i]
    BY Zenon, <2>1
  <2> DEFINE p == f[i - 1]  q == f[i]  u == c[i - 1]  v == c[i]  w == s[i]
  <2>6. /\ p \in Int /\ q \in Int /\ u \in Int /\ v \in Int /\ w \in Int
        /\ p <= u /\ q = p + w /\ w + u <= v
    BY Zenon, <2>2, <2>3, <2>4, <2>5
  <2> HIDE DEF p, q, u, v, w
  <2>7. q <= v
    BY <2>6
  <2>8. f[i] <= c[i]
    BY Zenon, <2>7 DEF q, v
  <2> QED BY Zenon, <1>3, <2>8
<1> QED BY <1>4, <1>5

\* Where one sequence exceeds another, its sum does by no more in total.
LEMMA SumWithin ==
    ASSUME NEW s \in Seq(Int), NEW t \in Seq(Int), Len(s) = Len(t),
           NEW d \in [0..Len(s) -> Int], 0 <= d[0],
           \A i \in 1..Len(s) : t[i] + d[i - 1] <= s[i] + d[i]
    PROVE  SumOf(t) <= SumOf(s) + d[Len(s)]
<1>0. Len(s) \in Nat /\ Len(s) \in 0..Len(s)
  OBVIOUS
<1>1. PICK f : Running(s, Len(s), f) /\ SumOf(s) = f[Len(s)]
  BY SumIsRunning
<1>2. \A i \in 0..Len(s) : f[i] \in Int
  BY <1>0, <1>1, RunningTyped
<1> DEFINE c == [i \in 0..Len(t) |-> f[i] + d[i]]
<1>3. c \in [0..Len(t) -> Int]
  BY <1>2
<1>4. 0 <= c[0]
  <2>1. f[0] = 0
    BY <1>0, <1>1, RunningValue
  <2>2. c[0] = f[0] + d[0] /\ d[0] \in Int
    BY <1>0
  <2> HIDE DEF c
  <2> QED BY <2>1, <2>2
<1>5. ASSUME NEW i \in 1..Len(t) PROVE t[i] + c[i - 1] <= c[i]
  <2>1. i \in 0..Len(s) /\ i - 1 \in 0..Len(s) /\ i # 0
    BY <1>0
  <2>2. f[i] = f[i - 1] + s[i] /\ f[i] \in Int /\ f[i - 1] \in Int
    BY <1>0, <1>1, <1>2, <2>1, RunningValue
  <2>3. s \in [1..Len(s) -> Int] /\ t \in [1..Len(t) -> Int]
    OBVIOUS
  <2>4. s[i] \in Int /\ t[i] \in Int /\ d[i] \in Int /\ d[i - 1] \in Int
    BY <2>1, <2>3
  <2>5. c[i] = f[i] + d[i] /\ c[i - 1] = f[i - 1] + d[i - 1]
    BY <2>1
  <2>6. t[i] + d[i - 1] <= s[i] + d[i]
    OBVIOUS
  <2> HIDE DEF c
  <2> DEFINE p == f[i - 1]  q == f[i]  a == s[i]  b == t[i]  u == d[i - 1]  v == d[i]
  <2>7. /\ p \in Int /\ q \in Int /\ a \in Int /\ b \in Int /\ u \in Int /\ v \in Int
        /\ q = p + a /\ b + u <= a + v
    BY Zenon, <2>2, <2>4, <2>6
  <2> HIDE DEF p, q, a, b, u, v
  <2>8. b + (p + u) <= q + v
    BY <2>7
  <2> QED BY Zenon, <2>5, <2>8 DEF p, q, b, u, v
<1>6. c[Len(t)] = SumOf(s) + d[Len(s)]
  BY <1>0, <1>1
<1> HIDE DEF c
<1>7. SumOf(t) <= c[Len(t)]
  BY <1>3, <1>4, <1>5, SumBelow
<1> QED BY <1>6, <1>7

\* Smaller numbers have a smaller sum.
THEOREM SumMonotone ==
    ASSUME NEW s \in Seq(Int), NEW t \in Seq(Int), Len(s) = Len(t),
           \A i \in 1..Len(s) : t[i] <= s[i]
    PROVE  SumOf(t) <= SumOf(s)
<1> DEFINE d == [i \in 0..Len(s) |-> 0]
<1>0. Len(s) \in Nat
  OBVIOUS
<1>1. d \in [0..Len(s) -> Int] /\ d[0] = 0 /\ d[Len(s)] = 0 /\ \A i \in 1..Len(s) : d[i] = 0 /\ d[i - 1] = 0
  BY <1>0
<1>2. \A i \in 1..Len(s) : s[i] \in Int /\ t[i] \in Int
  OBVIOUS
<1> HIDE DEF d
<1>3. \A i \in 1..Len(s) : t[i] + d[i - 1] <= s[i] + d[i]
  BY <1>1, <1>2
<1>4. SumOf(s) \in Int /\ 0 <= d[0]
  BY <1>1, SumTyped
<1>5. SumOf(t) <= SumOf(s) + d[Len(s)]
  BY <1>1, <1>3, <1>4, SumWithin
<1> QED BY <1>1, <1>4, <1>5

\* The sum changes by as much as one of its numbers.
THEOREM SumChange ==
    ASSUME NEW s \in Seq(Int), NEW t \in Seq(Int), Len(s) = Len(t),
           NEW k \in 1..Len(s), \A i \in 1..Len(s) : i # k => t[i] = s[i]
    PROVE  SumOf(t) = SumOf(s) + (t[k] - s[k])
<1>0. Len(s) \in Nat /\ s[k] \in Int /\ t[k] \in Int
  OBVIOUS
<1>1. ASSUME NEW a \in Seq(Int), NEW b \in Seq(Int), Len(a) = Len(s), Len(b) = Len(s),
             \A i \in 1..Len(s) : i # k => a[i] = b[i]
      PROVE  SumOf(b) <= SumOf(a) + (b[k] - a[k])
  <2> DEFINE d == [i \in 0..Len(a) |-> IF i < k THEN 0 ELSE b[k] - a[k]]
  <2>a. a \in [1..Len(a) -> Int] /\ b \in [1..Len(b) -> Int]
    OBVIOUS
  <2>0. /\ a \in [1..Len(s) -> Int] /\ b \in [1..Len(s) -> Int]
        /\ a[k] \in Int /\ b[k] \in Int
    BY Zenon, <1>1, <2>a
  <2> DEFINE x == b[k] - a[k]
  <2>x. x \in Int
    BY <2>0
  <2>d. d = [i \in 0..Len(a) |-> IF i < k THEN 0 ELSE x]
    OBVIOUS
  <2> HIDE DEF x, d
  <2>k. k \in Nat /\ k # 0 /\ k <= Len(a) /\ Len(a) \in Nat
    BY <1>0, <1>1
  <2>1. d \in [0..Len(a) -> Int] /\ 0 <= d[0] /\ d[Len(a)] = x
    BY <2>x, <2>d, <2>k
  <2>2. ASSUME NEW i \in 1..Len(a) PROVE b[i] + d[i - 1] <= a[i] + d[i]
    <3>1. /\ d[i] = IF i < k THEN 0 ELSE x
          /\ d[i - 1] = IF i - 1 < k THEN 0 ELSE x
      BY <2>d, <2>k
    <3>2. a[i] \in Int /\ b[i] \in Int /\ (i # k => a[i] = b[i])
      BY <1>1, <2>0
    <3> DEFINE p == a[i]  q == b[i]  u == d[i - 1]  v == d[i]
    <3>3. /\ p \in Int /\ q \in Int /\ (i # k => p = q) /\ (i = k => q - p = x)
          /\ v = (IF i < k THEN 0 ELSE x) /\ u = (IF i - 1 < k THEN 0 ELSE x)
      BY Zenon, <3>1, <3>2 DEF x
    <3> HIDE DEF p, q, u, v
    <3>4. i \in Int /\ k \in Int
      BY <2>k
    <3>5. CASE i < k
      <4>1. u = 0 /\ v = 0 /\ p = q
        BY <3>3, <3>4, <3>5
      <4>2. q + u <= p + v
        BY <3>3, <4>1
      <4> QED BY Zenon, <4>2 DEF p, q, u, v
    <3>6. CASE i = k
      <4>1. u = 0 /\ v = x /\ q - p = x
        BY <3>3, <3>4, <3>6
      <4>2. q + u <= p + v
        BY <2>x, <3>3, <4>1
      <4> QED BY Zenon, <4>2 DEF p, q, u, v
    <3>7. CASE i > k
      <4>1. u = x /\ v = x /\ p = q
        BY <3>3, <3>4, <3>7
      <4>2. q + u <= p + v
        BY <2>x, <3>3, <4>1
      <4> QED BY Zenon, <4>2 DEF p, q, u, v
    <3> QED BY <3>4, <3>5, <3>6, <3>7
  <2>3. SumOf(b) <= SumOf(a) + d[Len(a)]
    BY <1>1, <2>1, <2>2, SumWithin
  <2> QED BY Zenon, <2>1, <2>3 DEF x
<1>2. SumOf(t) <= SumOf(s) + (t[k] - s[k])
  BY <1>1
<1>3. SumOf(s) <= SumOf(t) + (s[k] - t[k])
  BY <1>1
<1>4. SumOf(s) \in Int /\ SumOf(t) \in Int
  BY SumTyped
<1>5. \A x, y, p, q \in Int : y <= x + (q - p) /\ x <= y + (p - q) => y = x + (q - p)
  OBVIOUS
<1> DEFINE x == SumOf(s)  y == SumOf(t)  p == s[k]  q == t[k]
<1>6. x \in Int /\ y \in Int /\ p \in Int /\ q \in Int /\ y <= x + (q - p) /\ x <= y + (p - q)
  BY <1>0, <1>2, <1>3, <1>4
<1> HIDE DEF x, y, p, q
<1>7. y = x + (q - p)
  BY <1>5, <1>6
<1> QED BY <1>7 DEF x, y, p, q

-----------------------------------------------------------------------------
\* A sequence has finitely many members.
LEMMA RangeFinite ==
    ASSUME NEW A, NEW s \in Seq(A)
    PROVE  Range(s) \in SUBSET A /\ IsFiniteSet(Range(s)) /\ Cardinality(Range(s)) <= Len(s)
<1>1. /\ Len(s) \in Nat /\ DOMAIN s = 1..Len(s) /\ s \in [1..Len(s) -> A]
  OBVIOUS
<1>2. s \in Surjection(1..Len(s), Range(s))
  BY <1>1 DEF Surjection, Range
<1>3. IsFiniteSet(1..Len(s)) /\ Cardinality(1..Len(s)) = Len(s)
  <2>1. /\ IsFiniteSet(1..Len(s))
        /\ Cardinality(1..Len(s)) = IF 1 > Len(s) THEN 0 ELSE Len(s) - 1 + 1
    BY <1>1, FS_Interval
  <2> QED BY <1>1, <2>1
<1>4. IsFiniteSet(Range(s)) /\ Cardinality(Range(s)) <= Len(s)
  BY <1>2, <1>3, FS_Surjection
<1> QED BY <1>1, <1>4 DEF Range

\* A finite nonempty set of integers has a greatest member.
LEMMA GreatestMember ==
    ASSUME NEW S \in SUBSET Int, IsFiniteSet(S), S # {}
    PROVE  \E x \in S : \A y \in S : y <= x
<1> DEFINE Bad(n) == \E R \in SUBSET S : /\ IsFiniteSet(R) /\ R # {} /\ Cardinality(R) = n
                                         /\ ~\E x \in R : \A y \in R : y <= x
           T == {n \in Nat : Bad(n)}
<1> SUFFICES ASSUME ~\E x \in S : \A y \in S : y <= x PROVE FALSE
  OBVIOUS
<1>1. T # {}
  <2>1. Cardinality(S) \in Nat
    BY FS_CardinalityType
  <2>2. Bad(Cardinality(S))
    OBVIOUS
  <2> QED BY <2>1, <2>2
<1>2. T \in SUBSET Nat
  OBVIOUS
<1> HIDE DEF T
<1>3. PICK n \in T : \A m \in T : n <= m
  BY <1>1, <1>2, LeastNumber
<1> USE DEF T
<1>4. PICK R \in SUBSET S : /\ IsFiniteSet(R) /\ R # {} /\ Cardinality(R) = n
                            /\ ~\E x \in R : \A y \in R : y <= x
  BY <1>3
<1>5. PICK x : x \in R
  BY <1>4
<1>6. IsFiniteSet(R \ {x}) /\ Cardinality(R \ {x}) = n - 1
  BY <1>4, <1>5, FS_RemoveElement
<1>7. R \ {x} # {}
  <2>1. CASE R = {x}
    BY <1>4, <2>1
  <2> QED BY <1>5, <2>1
<1>8. n - 1 \in Nat
  BY <1>6, FS_CardinalityType
<1>9. n - 1 \notin T
  BY <1>3, <1>8
<1>10. \E z \in R \ {x} : \A y \in R \ {x} : y <= z
  <2>1. R \ {x} \in SUBSET S
    OBVIOUS
  <2> QED BY <1>6, <1>7, <1>8, <1>9, <2>1
<1>11. PICK z \in R \ {x} : \A y \in R \ {x} : y <= z
  BY <1>10
<1>12. CASE x <= z
  BY <1>4, <1>11, <1>12
<1>13. CASE ~(x <= z)
  <2>1. \A y \in R : y <= x
    BY <1>5, <1>11, <1>13
  <2> QED BY <1>4, <1>5, <2>1
<1> QED BY <1>12, <1>13

\* Max finds it.
THEOREM MaxIsGreatest ==
    ASSUME NEW S \in SUBSET Int, IsFiniteSet(S), S # {}
    PROVE  Max(S) \in S /\ \A y \in S : y <= Max(S)
<1>1. \E x \in S : \A y \in S : x >= y
  BY GreatestMember
<1> QED BY <1>1 DEF Max

\* Min finds the least member, which exists because the greatest opposite does.
THEOREM MinIsLeast ==
    ASSUME NEW S \in SUBSET Int, IsFiniteSet(S), S # {}
    PROVE  Min(S) \in S /\ \A y \in S : Min(S) <= y
<1> DEFINE N == {-x : x \in S}
<1>1. N \in SUBSET Int /\ N # {}
  <2>1. PICK x \in S : TRUE
    OBVIOUS
  <2>2. -x \in N
    OBVIOUS
  <2>3. N \in SUBSET Int
    OBVIOUS
  <2> QED BY <2>2, <2>3
<1>2. IsFiniteSet(N)
  <2> DEFINE opposite == [x \in S |-> -x]
  <2>1. opposite \in [S -> N] /\ \A y \in N : \E x \in S : opposite[x] = y
    OBVIOUS
  <2> HIDE DEF opposite, N
  <2> QED BY <2>1, FS_Surjection DEF Surjection
<1> HIDE DEF N
<1>3. PICK z \in N : \A y \in N : y <= z
  BY <1>1, <1>2, GreatestMember
<1>4. \E x \in S : \A y \in S : x =< y
  BY <1>3 DEF N
<1> QED BY <1>4 DEF Min
=============================================================================
