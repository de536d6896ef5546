----------------------------- MODULE NatRecursion -----------------------------
(***************************************************************************)
(* Induction and recursion over the naturals without an operator as a      *)
(* parameter: a property is the set of the numbers that have it, a step is *)
(* a function.                                                             *)
(***************************************************************************)
EXTENDS Integers, WellFoundedInduction, TLAPS

(* A set of naturals that is not empty has a smallest member *)
LEMMA Smallest ==
  ASSUME NEW S, S \subseteq Nat, S # {}
  PROVE  \E i \in S : \A j \in S : i <= j
  <1>1. \E i \in S : \A j \in S : ~(<<j, i>> \in OpToRel(<, Nat))
    BY NatLessThanWellFounded, WFMin, Zenon
  <1>2. \A i, j \in Nat : ~(<<j, i>> \in OpToRel(<, Nat)) => i <= j
    BY DEF OpToRel
  <1> QED BY <1>1, <1>2

(* A set that has 0 and, with a natural, its successor has them all *)
LEMMA Induction ==
  ASSUME NEW S, 0 \in S, \A n \in Nat : n \in S => n + 1 \in S
  PROVE  Nat \subseteq S
  <1> DEFINE Rest == Nat \ S
  <1> SUFFICES ASSUME Rest # {} PROVE FALSE
    OBVIOUS
  <1>1. PICK i \in Rest : \A j \in Rest : i <= j
    BY Smallest
  <1>2. i # 0 /\ i - 1 \in Nat /\ i - 1 + 1 = i
    BY <1>1
  <1>3. i - 1 \in S
    BY <1>1, <1>2
  <1> QED BY <1>1, <1>2, <1>3

(* f is what recursion from base by step makes, as far as n *)
Recursive(f, base, step, n) ==
  f[0] = base /\ \A k \in 0..n - 1 : f[k + 1] = step[k][f[k]]

LEMMA RecursionUnique ==
  ASSUME NEW n \in Nat, NEW f, NEW g, NEW base, NEW step,
         Recursive(f, base, step, n), Recursive(g, base, step, n)
  PROVE  \A k \in 0..n : f[k] = g[k]
  <1> DEFINE S == {k \in Nat : k <= n => f[k] = g[k]}
  <1>1. 0 \in S
    BY DEF Recursive
  <1>2. ASSUME NEW k \in Nat, k \in S PROVE k + 1 \in S
    <2> SUFFICES ASSUME k + 1 <= n PROVE f[k + 1] = g[k + 1]
      OBVIOUS
    <2>1. k \in 0..n - 1 /\ f[k] = g[k]
      BY <1>2
    <2> QED BY <2>1 DEF Recursive
  <1> HIDE DEF S
  <1>3. Nat \subseteq S
    BY <1>1, <1>2, Induction
  <1> QED BY <1>3 DEF S

Steps(Values) == [Nat -> [Values -> Values]]

(* f is what recursion from base by step makes *)
Makes(f, Values, base, step) ==
  f \in [Nat -> Values] /\ f[0] = base /\ \A k \in Nat : f[k + 1] = step[k][f[k]]

(* Recursion makes something *)
LEMMA RecursionExists ==
  ASSUME NEW Values, NEW base \in Values, NEW step \in Steps(Values)
  PROVE  \E f : Makes(f, Values, base, step)
  <1> DEFINE S == {n \in Nat : \E f \in [0..n -> Values] : Recursive(f, base, step, n)}
  <1>1. 0 \in S
    <2>1. [k \in 0..0 |-> base] \in [0..0 -> Values] /\ Recursive([k \in 0..0 |-> base], base, step, 0)
      BY DEF Recursive
    <2> QED BY <2>1
  <1>2. ASSUME NEW n \in Nat, n \in S PROVE n + 1 \in S
    <2>1. PICK f \in [0..n -> Values] : Recursive(f, base, step, n)
      BY <1>2
    <2> DEFINE v == step[n][f[n]]
               g == [k \in 0..n + 1 |-> IF k = n + 1 THEN v ELSE f[k]]
    <2>2. v \in Values
      <3>1. n \in 0..n /\ f[n] \in Values
        OBVIOUS
      <3> QED BY <3>1 DEF Steps
    <2> HIDE DEF v
    <2>3. g \in [0..n + 1 -> Values]
      BY <2>2
    <2>4. Recursive(g, base, step, n + 1)
      <3>1. g[0] = base
        <4>1. 0 \in 0..n + 1 /\ 0 # n + 1
          OBVIOUS
        <4> QED BY <2>1, <4>1 DEF Recursive
      <3>2. ASSUME NEW k \in 0..n PROVE g[k + 1] = step[k][g[k]]
        <4>0. k \in 0..n + 1 /\ k # n + 1 /\ k + 1 \in 0..n + 1
          OBVIOUS
        <4>1. CASE k = n
          <5>1. g[k] = f[n] /\ g[k + 1] = v
            BY <4>0, <4>1
          <5> QED BY <4>1, <5>1 DEF v
        <4>2. CASE k # n
          <5>1. k \in 0..n - 1 /\ g[k] = f[k] /\ g[k + 1] = f[k + 1]
            BY <4>2
          <5> QED BY <2>1, <5>1 DEF Recursive
        <4> QED BY <4>1, <4>2
      <3>3. n + 1 - 1 = n
        OBVIOUS
      <3> HIDE DEF g
      <3> QED BY <3>1, <3>2, <3>3 DEF Recursive
    <2> QED BY <2>3, <2>4
  <1> HIDE DEF S
  <1>3. Nat \subseteq S
    BY <1>1, <1>2, Induction
  <1> DEFINE part == [n \in Nat |-> CHOOSE f \in [0..n -> Values] : Recursive(f, base, step, n)]
             whole == [n \in Nat |-> part[n][n]]
  <1>4. ASSUME NEW n \in Nat
        PROVE  part[n] \in [0..n -> Values] /\ Recursive(part[n], base, step, n)
    <2>1. \E f \in [0..n -> Values] : Recursive(f, base, step, n)
      BY <1>3 DEF S
    <2> QED BY <2>1
  <1> HIDE DEF part
  <1>5. whole \in [Nat -> Values]
    BY <1>4
  <1>6. whole[0] = base
    BY <1>4 DEF Recursive
  <1>7. ASSUME NEW n \in Nat PROVE whole[n + 1] = step[n][whole[n]]
    <2>1. Recursive(part[n + 1], base, step, n + 1) /\ Recursive(part[n], base, step, n)
      BY <1>4
    <2>2. Recursive(part[n + 1], base, step, n)
      BY <2>1 DEF Recursive
    <2>3. part[n + 1][n] = part[n][n]
      BY <2>1, <2>2, RecursionUnique
    <2>4. part[n + 1][n + 1] = step[n][part[n + 1][n]]
      BY <2>1 DEF Recursive
    <2> QED BY <2>3, <2>4
  <1> QED BY <1>5, <1>6, <1>7 DEF Makes

-----------------------------------------------------------------------------
(* Sums of the weights 1 to n *)

Adds(f, w, l) == f[0] = 0 /\ \A n \in 1..l : f[n] = f[n - 1] + w[n]

(* f has the sums of the first n weights, for each n up to l *)
Sums(f, w, l) == f \in [0..l -> Nat] /\ Adds(f, w, l)

SumOf(w, l) == (CHOOSE f : Sums(f, w, l))[l]

LEMMA SumsExist ==
  ASSUME NEW l \in Nat, NEW w \in [1..l -> Nat]
  PROVE  \E f : Sums(f, w, l)
  <1> DEFINE step == [k \in Nat |-> [v \in Nat |-> IF k + 1 \in 1..l THEN v + w[k + 1] ELSE 0]]
  <1>1. step \in Steps(Nat)
    BY DEF Steps
  <1>2. \A k, v \in Nat : k + 1 \in 1..l => step[k][v] = v + w[k + 1]
    OBVIOUS
  <1> HIDE DEF step
  <1>3. PICK g : Makes(g, Nat, 0, step)
    BY <1>1, RecursionExists
  <1>4. ASSUME NEW n \in 1..l PROVE g[n] = g[n - 1] + w[n]
    <2>1. n - 1 \in Nat /\ (n - 1) + 1 = n
      OBVIOUS
    <2>2. g[n] = step[n - 1][g[n - 1]] /\ g[n - 1] \in Nat
      BY <1>3, <2>1 DEF Makes
    <2> QED BY <1>2, <2>1, <2>2
  <1> DEFINE f == [n \in 0..l |-> g[n]]
  <1>5. f \in [0..l -> Nat] /\ f[0] = 0
    BY <1>3 DEF Makes
  <1>6. \A n \in 1..l : f[n] = g[n] /\ f[n - 1] = g[n - 1]
    OBVIOUS
  <1>7. Sums(f, w, l)
    BY <1>4, <1>5, <1>6 DEF Sums, Adds
  <1> QED BY <1>7

(* Whatever adds the weights up, in the way the modules write it, has them *)
LEMMA SumsAgree ==
  ASSUME NEW l \in Nat, NEW w, NEW f, Sums(f, w, l),
         NEW g, Adds(g, w, l)
  PROVE  g[l] = f[l]
  <1> DEFINE S == {n \in Nat : n <= l => g[n] = f[n]}
  <1>1. 0 \in S
    BY DEF Sums, Adds
  <1>2. ASSUME NEW n \in Nat, n \in S PROVE n + 1 \in S
    <2> SUFFICES ASSUME n + 1 <= l PROVE g[n + 1] = f[n + 1]
      OBVIOUS
    <2>1. n + 1 \in 1..l /\ (n + 1) - 1 = n /\ g[n] = f[n]
      BY <1>2
    <2> QED BY <2>1 DEF Sums, Adds
  <1> HIDE DEF S
  <1>3. l \in S
    BY <1>1, <1>2, Induction
  <1> QED BY <1>3 DEF S

LEMMA SumIs ==
  ASSUME NEW l \in Nat, NEW w, NEW f, Sums(f, w, l)
  PROVE  SumOf(w, l) = f[l] /\ f[l] \in Nat
  <1> DEFINE g == CHOOSE h : Sums(h, w, l)
  <1>1. Sums(g, w, l)
    OBVIOUS
  <1> HIDE DEF g
  <1>2. g[l] = f[l]
    <2>1. Adds(g, w, l)
      BY <1>1 DEF Sums
    <2> QED BY <2>1, SumsAgree
  <1> QED BY <1>2 DEF g, SumOf, Sums

LEMMA SumNothing ==
  ASSUME NEW w
  PROVE  SumOf(w, 0) = 0
  <1>1. Sums([n \in 0..0 |-> 0], w, 0)
    BY DEF Sums, Adds
  <1> QED BY <1>1, SumIs

LEMMA SumNat ==
  ASSUME NEW l \in Nat, NEW w \in [1..l -> Nat]
  PROVE  SumOf(w, l) \in Nat
  BY SumsExist, SumIs

(* The last weight, and the first, can be taken out *)
LEMMA SumLast ==
  ASSUME NEW l \in Nat \ {0}, NEW w \in [1..l -> Nat], NEW v,
         \A n \in 1..l - 1 : v[n] = w[n]
  PROVE  SumOf(w, l) = SumOf(v, l - 1) + w[l]
  <1>1. PICK f : Sums(f, w, l)
    BY SumsExist
  <1> DEFINE g == [n \in 0..l - 1 |-> f[n]]
  <1>2. Sums(g, v, l - 1)
    <2>1. g \in [0..l - 1 -> Nat] /\ g[0] = 0
      BY <1>1 DEF Sums, Adds
    <2>2. ASSUME NEW n \in 1..l - 1 PROVE g[n] = g[n - 1] + v[n]
      <3>1. g[n] = f[n] /\ g[n - 1] = f[n - 1] /\ n \in 1..l
        OBVIOUS
      <3> QED BY <1>1, <3>1 DEF Sums, Adds
    <2> QED BY <2>1, <2>2 DEF Sums, Adds
  <1>3. SumOf(v, l - 1) = g[l - 1] /\ g[l - 1] = f[l - 1]
    BY <1>2, SumIs
  <1>4. SumOf(w, l) = f[l]
    BY <1>1, SumIs
  <1>5. f[l] = f[l - 1] + w[l]
    BY <1>1 DEF Sums, Adds
  <1> QED BY <1>3, <1>4, <1>5

LEMMA SumFirst ==
  ASSUME NEW l \in Nat \ {0}, NEW w \in [1..l -> Nat], NEW v,
         \A n \in 1..l - 1 : v[n] = w[n + 1]
  PROVE  SumOf(w, l) = w[1] + SumOf(v, l - 1)
  <1>1. PICK f : Sums(f, w, l)
    BY SumsExist
  <1>0. f[0] = 0 /\ f[1] = w[1] /\ w[1] \in Nat /\ \A n \in 0..l : f[n] \in Nat
    <2>1. 1 \in 1..l /\ 1 - 1 = 0
      OBVIOUS
    <2> QED BY <1>1, <2>1 DEF Sums, Adds
  <1>a. ASSUME NEW n \in 1..l PROVE f[n] >= w[1]
    <2> DEFINE S == {k \in Nat : k + 1 <= l => f[k + 1] >= w[1]}
    <2>1. 0 \in S
      BY <1>0
    <2>2. ASSUME NEW k \in Nat, k \in S PROVE k + 1 \in S
      <3> SUFFICES ASSUME k + 1 + 1 <= l PROVE f[k + 1 + 1] >= w[1]
        OBVIOUS
      <3>1. f[k + 1] >= w[1] /\ k + 1 + 1 \in 1..l /\ k + 1 \in 0..l /\ (k + 1 + 1) - 1 = k + 1
        BY <2>2
      <3>2. f[k + 1 + 1] = f[k + 1] + w[k + 1 + 1] /\ w[k + 1 + 1] \in Nat
        BY <1>1, <3>1 DEF Sums, Adds
      <3> QED BY <1>0, <3>1, <3>2
    <2> HIDE DEF S
    <2>3. Nat \subseteq S
      BY <2>1, <2>2, Induction
    <2>4. n - 1 \in S
      BY <2>3
    <2> QED BY <2>4 DEF S
  <1> DEFINE g == [n \in 0..l - 1 |-> f[n + 1] - w[1]]
  <1>2. Sums(g, v, l - 1)
    <2>1. ASSUME NEW n \in 0..l - 1 PROVE f[n + 1] - w[1] \in Nat
      <3>1. n + 1 \in 1..l /\ n + 1 \in 0..l
        OBVIOUS
      <3> QED BY <1>0, <1>a, <3>1
    <2>2. g \in [0..l - 1 -> Nat] /\ g[0] = 0
      BY <1>0, <2>1
    <2>3. ASSUME NEW n \in 1..l - 1 PROVE g[n] = g[n - 1] + v[n]
      <3>1. g[n] = f[n + 1] - w[1] /\ g[n - 1] = f[n] - w[1] /\ n + 1 \in 1..l /\ (n + 1) - 1 = n
        OBVIOUS
      <3>2. f[n + 1] = f[n] + w[n + 1] /\ v[n] = w[n + 1] /\ w[n + 1] \in Nat
        BY <1>1, <3>1 DEF Sums, Adds
      <3>3. f[n] \in Nat /\ f[n + 1] \in Nat
        BY <1>0
      <3> QED BY <1>0, <3>1, <3>2, <3>3
    <2> QED BY <2>2, <2>3 DEF Sums, Adds
  <1>3. SumOf(v, l - 1) = g[l - 1] /\ g[l - 1] = f[l] - w[1]
    BY <1>2, SumIs
  <1>4. SumOf(w, l) = f[l] /\ f[l] \in Nat
    BY <1>1, SumIs
  <1> QED BY <1>0, <1>3, <1>4
=============================================================================
