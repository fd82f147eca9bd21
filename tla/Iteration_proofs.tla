--------------------------- MODULE Iteration_proofs ---------------------------
(***************************************************************************)
(* What a recursive function computes that repeats a step over sets: call  *)
(* graphs and control flow are followed as many times as there are         *)
(* functions or nodes.  That is enough, and yields the least closed set.   *)
(* The library states induction with an operator as a parameter; here it   *)
(* is stated of a set of numbers.                                          *)
(***************************************************************************)
EXTENDS Integers, FiniteSets, FiniteSetTheorems, WellFoundedInduction, TLAPS

\* Induction: a set that holds zero and each successor holds every number.
LEMMA NatSetInduction ==
  ASSUME NEW S, 0 \in S, \A n \in Nat : n \in S => n + 1 \in S
  PROVE  \A n \in Nat : n \in S
<1> DEFINE T == Nat \ S
<1>1. SUFFICES ASSUME T # {} PROVE FALSE
  OBVIOUS
<1>2. PICK x \in T : \A y \in T : ~ (<<y, x>> \in OpToRel(<, Nat))
  BY <1>1, WFMin, NatLessThanWellFounded, Zenon
<1>3. x \in Nat /\ x # 0
  OBVIOUS
<1>4. x - 1 \in Nat /\ x - 1 < x
  BY <1>3
<1>5. x - 1 \notin T
  BY <1>2, <1>3, <1>4 DEF OpToRel
<1>6. (x - 1) + 1 \in S
  BY <1>4, <1>5
<1> QED BY <1>3, <1>6

\* g repeats next, beginning with start, up to N times.
Iterates(g, next, start, N) ==
  /\ DOMAIN g = 0 .. N
  /\ g[0] = start
  /\ \A k \in 1 .. N : g[k] = next[g[k - 1]]

\* A step can be repeated any number of times.
LEMMA IterationExists ==
  ASSUME NEW S, NEW next \in [S -> S], NEW start \in S, NEW N \in Nat
  PROVE  \E g \in [0 .. N -> S] : Iterates(g, next, start, N)
<1> DEFINE Good == {n \in Nat : \E g \in [0 .. n -> S] : Iterates(g, next, start, n)}
<1>1. 0 \in Good
  <2>1. [k \in 0 .. 0 |-> start] \in [0 .. 0 -> S]
    OBVIOUS
  <2>2. Iterates([k \in 0 .. 0 |-> start], next, start, 0)
    BY DEF Iterates
  <2> QED BY <2>1, <2>2
<1>2. ASSUME NEW n \in Nat, n \in Good PROVE n + 1 \in Good
  <2>1. PICK g \in [0 .. n -> S] : Iterates(g, next, start, n)
    BY <1>2
  <2> DEFINE h == [k \in 0 .. n + 1 |-> IF k = n + 1 THEN next[g[n]] ELSE g[k]]
  <2>2. g[n] \in S /\ next[g[n]] \in S
    BY <2>1
  <2>3. ASSUME NEW k \in 0 .. n + 1 PROVE h[k] \in S
    <3>1. CASE k = n + 1
      BY <2>2, <3>1
    <3>2. CASE k # n + 1
      <4>1. k \in 0 .. n
        BY <3>2
      <4> QED BY <2>1, <3>2, <4>1
    <3> QED BY <3>1, <3>2
  <2>4. h \in [0 .. n + 1 -> S]
    BY <2>3
  <2>5. h[0] = start
    BY <2>1 DEF Iterates
  <2>6. ASSUME NEW k \in 1 .. n + 1 PROVE h[k] = next[h[k - 1]]
    <3>1. CASE k = n + 1
      BY <3>1
    <3>2. CASE k # n + 1
      <4>1. k \in 1 .. n /\ k - 1 \in 0 .. n /\ k - 1 # n + 1 /\ k - 1 \in 0 .. n + 1
        BY <3>2
      <4> QED BY <2>1, <3>2, <4>1 DEF Iterates
    <3> QED BY <3>1, <3>2
  <2>7. Iterates(h, next, start, n + 1)
    BY <2>4, <2>5, <2>6 DEF Iterates
  <2>8. n + 1 \in Nat
    OBVIOUS
  <2> HIDE DEF h
  <2> QED BY <2>4, <2>7, <2>8
<1> HIDE DEF Good
<1>3. \A n \in Nat : n \in Good
  BY <1>1, <1>2, NatSetInduction
<1> QED BY <1>3 DEF Good

\* What holds of the start and is kept by the step holds of every repetition.
LEMMA IterationKeeps ==
  ASSUME NEW S, NEW next, NEW start, NEW N \in Nat, NEW g, Iterates(g, next, start, N),
         start \in S, \A x \in S : next[x] \in S
  PROVE  \A k \in 0 .. N : g[k] \in S
<1> DEFINE Good == {n \in Nat : n \in 0 .. N => g[n] \in S}
<1>1. 0 \in Good
  BY DEF Iterates
<1>2. ASSUME NEW n \in Nat, n \in Good PROVE n + 1 \in Good
  <2>1. CASE n + 1 \in 0 .. N
    <3>1. n \in 0 .. N /\ n + 1 \in 1 .. N /\ (n + 1) - 1 = n
      BY <2>1
    <3>2. g[n] \in S
      BY <1>2, <3>1
    <3>3. g[n + 1] = next[g[n]]
      BY <3>1 DEF Iterates
    <3> QED BY <3>2, <3>3
  <2>2. CASE n + 1 \notin 0 .. N
    BY <2>2
  <2> QED BY <2>1, <2>2
<1> HIDE DEF Good
<1>3. \A n \in Nat : n \in Good
  BY <1>1, <1>2, NatSetInduction
<1> QED BY <1>3 DEF Good

\* A step that only adds elements of a finite set adds nothing after as many
\* repetitions as the set has elements.
LEMMA IterationEnds ==
  ASSUME NEW U, IsFiniteSet(U), NEW N \in Nat, N >= Cardinality(U),
         NEW next \in [SUBSET U -> SUBSET U], \A X \in SUBSET U : X \subseteq next[X],
         NEW start \in SUBSET U, NEW g, Iterates(g, next, start, N)
  PROVE  next[g[N]] = g[N]
<1>1. \A k \in 0 .. N : g[k] \in SUBSET U
  <2> DEFINE S == SUBSET U
  <2>1. start \in S /\ \A x \in S : next[x] \in S
    OBVIOUS
  <2>2. \A k \in 0 .. N : g[k] \in S
    <3> HIDE DEF S
    <3> QED BY <2>1, IterationKeeps, Zenon
  <2> QED BY <2>2
<1>2. \A k \in 0 .. N : IsFiniteSet(g[k]) /\ Cardinality(g[k]) \in Nat
  BY <1>1, FS_Subset, FS_CardinalityType
\* Once nothing is added nothing is added later.
<1>3. ASSUME NEW m \in 0 .. N, next[g[m]] = g[m] PROVE next[g[N]] = g[N]
  <2> DEFINE Good == {n \in Nat : m + n \in 0 .. N => g[m + n] = g[m]}
  <2>1. 0 \in Good
    OBVIOUS
  <2>2. ASSUME NEW n \in Nat, n \in Good PROVE n + 1 \in Good
    <3>1. CASE m + n + 1 \in 0 .. N
      <4>1. m + n \in 0 .. N /\ m + n + 1 \in 1 .. N /\ (m + n + 1) - 1 = m + n
        BY <3>1
      <4>2. g[m + n + 1] = next[g[m + n]]
        BY <4>1 DEF Iterates
      <4>3. g[m + n] = g[m]
        BY <2>2, <4>1
      <4>4. m + (n + 1) = m + n + 1
        OBVIOUS
      <4> QED BY <1>3, <4>2, <4>3, <4>4
    <3>2. CASE m + n + 1 \notin 0 .. N
      BY <3>2
    <3> QED BY <3>1, <3>2
  <2> HIDE DEF Good
  <2>3. \A n \in Nat : n \in Good
    BY <2>1, <2>2, NatSetInduction
  <2>4. N - m \in Nat /\ m + (N - m) \in 0 .. N /\ m + (N - m) = N
    OBVIOUS
  <2>5. g[m + (N - m)] = g[m]
    BY <2>3, <2>4 DEF Good
  <2> QED BY <1>3, <2>4, <2>5
\* Otherwise each repetition adds an element.
<1>4. ASSUME \A m \in 0 .. N : next[g[m]] # g[m] PROVE FALSE
  <2> DEFINE Good == {n \in Nat : n \in 0 .. N => Cardinality(g[n]) >= n}
  <2>1. 0 \in Good
    BY <1>2
  <2>2. ASSUME NEW n \in Nat, n \in Good PROVE n + 1 \in Good
    <3>1. CASE n + 1 \in 0 .. N
      <4>1. n \in 0 .. N /\ n + 1 \in 1 .. N /\ (n + 1) - 1 = n
        BY <3>1
      <4>2. g[n + 1] = next[g[n]]
        BY <4>1 DEF Iterates
      <4>3. g[n] \in SUBSET g[n + 1] /\ g[n] # g[n + 1]
        BY <1>1, <1>4, <4>1, <4>2
      <4>4. Cardinality(g[n]) <= Cardinality(g[n + 1])
            /\ Cardinality(g[n + 1]) # Cardinality(g[n])
        BY <1>2, <3>1, <4>3, FS_Subset
      <4>5. Cardinality(g[n]) >= n /\ Cardinality(g[n]) \in Nat /\ Cardinality(g[n + 1]) \in Nat
        BY <1>2, <2>2, <3>1, <4>1
      <4> QED BY <4>4, <4>5
    <3>2. CASE n + 1 \notin 0 .. N
      BY <3>2
    <3> QED BY <3>1, <3>2
  <2> HIDE DEF Good
  <2>3. \A n \in Nat : n \in Good
    BY <2>1, <2>2, NatSetInduction
  <2>4. N \in 0 .. N
    OBVIOUS
  <2>5. Cardinality(g[N]) >= N
    BY <2>3, <2>4 DEF Good
  <2>6. g[N] \in SUBSET U /\ Cardinality(g[N]) <= Cardinality(U)
        /\ (Cardinality(U) = Cardinality(g[N]) => U = g[N])
    BY <1>1, <2>4, FS_Subset
  <2>7. Cardinality(g[N]) \in Nat /\ Cardinality(U) \in Nat
    BY <1>2, <2>4, FS_CardinalityType
  <2>8. g[N] = U
    BY <2>5, <2>6, <2>7
  <2>9. next[g[N]] \in SUBSET U /\ g[N] \subseteq next[g[N]]
    BY <2>6
  <2>10. next[g[N]] = g[N]
    BY <2>8, <2>9
  <2> QED BY <1>4, <2>4, <2>10
<1> QED BY <1>3, <1>4

\* What is reached is in every set that holds the start and is closed under the step.
LEMMA IterationLeast ==
  ASSUME NEW U, NEW N \in Nat, NEW next \in [SUBSET U -> SUBSET U],
         NEW start \in SUBSET U, NEW g, Iterates(g, next, start, N),
         NEW X, start \subseteq X,
         \A Y \in SUBSET U : Y \subseteq X => next[Y] \subseteq X
  PROVE  g[N] \subseteq X
<1> DEFINE S == {Y \in SUBSET U : Y \subseteq X}
<1>1. start \in S /\ \A Y \in S : next[Y] \in S
  OBVIOUS
<1>2. \A k \in 0 .. N : g[k] \in S
  <2> HIDE DEF S
  <2> QED BY <1>1, IterationKeeps, Zenon
<1> QED BY <1>2

\* Nothing of the start is lost.
LEMMA IterationGrows ==
  ASSUME NEW U, NEW N \in Nat, NEW next \in [SUBSET U -> SUBSET U],
         \A X \in SUBSET U : X \subseteq next[X],
         NEW start \in SUBSET U, NEW g, Iterates(g, next, start, N)
  PROVE  start \subseteq g[N] /\ g[N] \in SUBSET U
<1> DEFINE S == {Y \in SUBSET U : start \subseteq Y}
<1>1. start \in S /\ \A Y \in S : next[Y] \in S
  OBVIOUS
<1>2. \A k \in 0 .. N : g[k] \in S
  <2> HIDE DEF S
  <2> QED BY <1>1, IterationKeeps, Zenon
<1> QED BY <1>2

\* A function that begins and goes on like an iteration is one.
LEMMA Repeats ==
  ASSUME NEW S, NEW next \in [S -> S], NEW start \in S, NEW N \in Nat, NEW r,
         DOMAIN r = 0 .. N, r[0] = start, \A k \in 1 .. N : r[k - 1] \in S => r[k] = next[r[k - 1]]
  PROVE  Iterates(r, next, start, N) /\ \A k \in 0 .. N : r[k] \in S
<1> DEFINE Good == {n \in Nat : n \in 0 .. N => r[n] \in S}
<1>1. 0 \in Good
  OBVIOUS
<1>2. ASSUME NEW n \in Nat, n \in Good PROVE n + 1 \in Good
  <2>1. CASE n + 1 \in 0 .. N
    <3>1. n \in 0 .. N /\ n + 1 \in 1 .. N /\ (n + 1) - 1 = n
      BY <2>1
    <3>2. r[n] \in S
      BY <1>2, <3>1
    <3>3. r[n + 1] = next[r[n]]
      BY <3>1, <3>2
    <3> QED BY <3>2, <3>3
  <2>2. CASE n + 1 \notin 0 .. N
    BY <2>2
  <2> QED BY <2>1, <2>2
<1> HIDE DEF Good
<1>3. \A n \in Nat : n \in Good
  BY <1>1, <1>2, NatSetInduction
<1>4. \A k \in 0 .. N : r[k] \in S
  BY <1>3 DEF Good
<1>5. \A k \in 1 .. N : k - 1 \in 0 .. N
  OBVIOUS
<1> QED BY <1>4, <1>5 DEF Iterates

\* A step that each time adds to a number that has a bound changes nothing any more
\* after as many repetitions as the bound says.
LEMMA IterationSettles ==
  ASSUME NEW S, NEW next \in [S -> S], NEW start \in S, NEW N \in Nat, NEW g,
         Iterates(g, next, start, N),
         NEW size \in [S -> 0 .. N], \A x \in S : next[x] # x => size[next[x]] > size[x]
  PROVE  next[g[N]] = g[N]
<1>1. \A k \in 0 .. N : g[k] \in S
  BY IterationKeeps, Zenon
<1> DEFINE Good == {n \in Nat : n \in 0 .. N => next[g[n]] = g[n] \/ size[g[n]] >= n}
<1>2. 0 \in Good
  <2>1. g[0] \in S
    BY <1>1
  <2>2. size[g[0]] \in 0 .. N
    BY <2>1
  <2> QED BY <2>2
<1>3. ASSUME NEW n \in Nat, n \in Good PROVE n + 1 \in Good
  <2>1. CASE n + 1 \in 0 .. N
    <3>1. n \in 0 .. N /\ n + 1 \in 1 .. N /\ (n + 1) - 1 = n
      BY <2>1
    <3>2. g[n + 1] = next[g[n]] /\ g[n] \in S /\ g[n + 1] \in S
      BY <1>1, <2>1, <3>1 DEF Iterates
    <3>3. size[g[n]] \in 0 .. N /\ size[g[n + 1]] \in 0 .. N
      BY <3>2
    <3>4. CASE next[g[n]] = g[n]
      BY <3>2, <3>4
    <3>5. CASE next[g[n]] # g[n]
      <4>1. size[g[n]] >= n /\ size[g[n + 1]] > size[g[n]]
        BY <1>3, <3>1, <3>2, <3>5
      <4> QED BY <3>3, <4>1
    <3> QED BY <3>4, <3>5
  <2>2. CASE n + 1 \notin 0 .. N
    BY <2>2
  <2> QED BY <2>1, <2>2
<1> HIDE DEF Good
<1>4. \A n \in Nat : n \in Good
  BY <1>2, <1>3, NatSetInduction
<1>5. N \in 0 .. N /\ g[N] \in S
  BY <1>1
<1>6. next[g[N]] = g[N] \/ size[g[N]] >= N
  BY <1>4, <1>5 DEF Good
<1>7. next[g[N]] \in S /\ size[g[N]] \in 0 .. N /\ size[next[g[N]]] \in 0 .. N
  BY <1>5
<1> QED BY <1>5, <1>6, <1>7

\* A set of integers with an upper bound has a greatest element.
LEMMA GreatestExists ==
  ASSUME NEW n \in Nat, NEW S \in SUBSET (1 .. n), S # {}
  PROVE  \E m \in S : \A k \in S : m >= k
<1> DEFINE T == {j \in Nat : n - j \in S}
<1>1. PICK k \in S : TRUE
  OBVIOUS
<1>2. n - k \in T
  BY <1>1
<1>3. PICK x \in T : \A y \in T : ~ (<<y, x>> \in OpToRel(<, Nat))
  BY <1>2, WFMin, NatLessThanWellFounded, Zenon
<1>4. \A y \in T : ~ (y < x)
  BY <1>3 DEF OpToRel
<1>5. ASSUME NEW j \in S PROVE n - x >= j
  <2>1. n - j \in T /\ n - (n - j) = j
    OBVIOUS
  <2>2. ~ (n - j < x) /\ n - j \in Nat /\ x \in Nat /\ j \in Int
    BY <1>4, <2>1
  <2> QED BY <2>2
<1> QED BY <1>3, <1>5

=============================================================================
