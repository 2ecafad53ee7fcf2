---------------------------- MODULE NaturalFacts -----------------------------
(***************************************************************************)
(* Natural numbers, for the proofs of the other modules: least and greatest *)
(* elements, induction over a set, iteration, multiples, powers of two.    *)
(***************************************************************************)
EXTENDS Integers, TLAPS, WellFoundedInduction

-----------------------------------------------------------------------------
(* Sets of natural numbers.                                                *)

\* A set of natural numbers that is not empty has a least element.
LEMMA LeastNat ==
  ASSUME NEW S \in SUBSET Nat, S # {}
  PROVE  \E x \in S : \A y \in S : x <= y
<1>1. PICK x \in S : \A y \in S : ~ (<<y, x>> \in OpToRel(<, Nat))
  BY NatLessThanWellFounded, WFMin
<1>2. \A y \in S : ~ (y < x)
  BY <1>1 DEF OpToRel
<1>3. \A y \in S : x <= y
  BY <1>2
<1> QED
  BY <1>3

\* Induction, for a set of natural numbers.
LEMMA Induction ==
  ASSUME NEW S \in SUBSET Nat, 0 \in S, \A n \in S : n + 1 \in S
  PROVE  S = Nat
<1> SUFFICES ASSUME Nat \ S # {} PROVE FALSE
  OBVIOUS
<1>1. PICK x \in Nat \ S : \A y \in Nat \ S : x <= y
  <2> DEFINE R == Nat \ S
  <2>1. R \in SUBSET Nat /\ R # {}
    OBVIOUS
  <2> HIDE DEF R
  <2>2. \E x \in R : \A y \in R : x <= y
    BY <2>1, LeastNat
  <2> QED
    BY <2>2 DEF R
<1>2. x # 0 /\ x - 1 \in Nat /\ x - 1 + 1 = x
  BY <1>1
<1>3. x - 1 \in S
  BY <1>1, <1>2
<1> QED
  BY <1>1, <1>2, <1>3

\* A set of natural numbers up to N has a greatest element.
LEMMA GreatestNat ==
  ASSUME NEW N \in Nat, NEW S \in SUBSET (0 .. N), S # {}
  PROVE  \E x \in S : \A y \in S : y <= x
<1> DEFINE U == {N - x : x \in S}
<1>1. U \in SUBSET Nat /\ U # {}
  <2>1. \A x \in S : x \in 0 .. N /\ N - x \in Nat
    OBVIOUS
  <2> QED
    BY <2>1
<1> HIDE DEF U
<1>2. PICK u \in U : \A y \in U : u <= y
  BY <1>1, LeastNat
<1>3. PICK x \in S : u = N - x
  BY DEF U
<1>4. \A y \in S : N - x <= N - y
  BY <1>2, <1>3 DEF U
<1>5. \A y \in S : y <= x
  BY <1>4
<1> QED
  BY <1>5

-----------------------------------------------------------------------------
(* Iterating a function.                                                   *)

\* g iterates F from x for n steps.
Iterates(F, T, x, n, g) ==
  /\ g \in [0 .. n -> T] /\ g[0] = x
  /\ \A k \in 0 .. n - 1 : g[k + 1] = F[g[k]]

\* There are iterations of every length.
LEMMA IterationExists ==
  ASSUME NEW T, NEW F \in [T -> T], NEW x \in T, NEW n \in Nat
  PROVE  \E g : Iterates(F, T, x, n, g)
<1> DEFINE S == {k \in Nat : \E g : Iterates(F, T, x, k, g)}
<1>1. 0 \in S
  <2>1. Iterates(F, T, x, 0, [k \in 0 .. 0 |-> x])
    BY DEF Iterates
  <2> QED
    BY <2>1
<1>2. ASSUME NEW k \in S PROVE k + 1 \in S
  <2>1. PICK g : Iterates(F, T, x, k, g)
    OBVIOUS
  <2> DEFINE h == [i \in 0 .. k + 1 |-> IF i <= k THEN g[i] ELSE F[g[k]]]
  <2>2. k \in Nat /\ k \in 0 .. k
    OBVIOUS
  <2>3. g \in [0 .. k -> T] /\ F[g[k]] \in T
    BY <2>1, <2>2 DEF Iterates
  <2>4. h \in [0 .. k + 1 -> T] /\ h[0] = x
    BY <2>1, <2>2, <2>3 DEF Iterates
  <2>5. \A i \in 0 .. k + 1 - 1 : h[i + 1] = F[h[i]]
    <3> SUFFICES ASSUME NEW i \in 0 .. k PROVE h[i + 1] = F[h[i]]
      BY <2>2
    <3>1. CASE i = k
      BY <2>2, <3>1
    <3>2. CASE i # k
      <4>1. i \in 0 .. k - 1 /\ i + 1 <= k
        BY <2>2, <3>2
      <4> QED
        BY <2>1, <2>2, <4>1 DEF Iterates
    <3> QED
      BY <3>1, <3>2
  <2> HIDE DEF h
  <2>6. Iterates(F, T, x, k + 1, h)
    BY <2>4, <2>5 DEF Iterates
  <2> QED
    BY <2>2, <2>6
<1>3. S \in SUBSET Nat
  OBVIOUS
<1> HIDE DEF S
<1>4. S = Nat
  BY <1>1, <1>2, <1>3, Induction
<1> QED
  BY <1>4 DEF S

\* Two iterations agree as far as both go.
LEMMA IterationsAgree ==
  ASSUME NEW T, NEW F \in [T -> T], NEW x \in T,
         NEW n \in Nat, NEW g, Iterates(F, T, x, n, g),
         NEW l \in Nat, NEW h, Iterates(F, T, x, l, h), n <= l
  PROVE  g[n] = h[n]
<1> DEFINE S == {k \in Nat : k <= n => g[k] = h[k]}
<1>1. 0 \in S
  BY DEF Iterates
<1>2. ASSUME NEW k \in S PROVE k + 1 \in S
  <2>1. ASSUME k + 1 <= n PROVE g[k + 1] = h[k + 1]
    <3>1. k \in 0 .. n - 1 /\ k \in 0 .. l - 1 /\ k <= n
      BY <2>1
    <3> QED
      BY <3>1 DEF Iterates
  <2> QED
    BY <2>1
<1>3. S \in SUBSET Nat
  OBVIOUS
<1> HIDE DEF S
<1>4. S = Nat
  BY <1>1, <1>2, <1>3, Induction
<1>5. n \in S
  BY <1>4
<1> QED
  BY <1>5 DEF S

\* F can be iterated for ever from x.
HasIteration(F, T, x) ==
  \E f \in [Nat -> T] : f[0] = x /\ \A n \in Nat : f[n + 1] = F[f[n]]

\* A function on a set can be iterated from any of its elements.
LEMMA Iteration ==
  ASSUME NEW T, NEW F \in [T -> T], NEW x \in T
  PROVE  HasIteration(F, T, x)
<1> DEFINE it(n) == CHOOSE g : Iterates(F, T, x, n, g)
           f     == [n \in Nat |-> it(n)[n]]
<1>1. \A n \in Nat : Iterates(F, T, x, n, it(n))
  BY IterationExists
<1> HIDE DEF it
<1>2. \A n \in Nat : it(n)[n] \in T
  BY <1>1 DEF Iterates
<1>3. f \in [Nat -> T]
  BY <1>2
<1>4. f[0] = x
  BY <1>1 DEF Iterates
<1>5. ASSUME NEW n \in Nat PROVE f[n + 1] = F[f[n]]
  <2>1. n + 1 \in Nat /\ n <= n + 1 /\ n \in 0 .. n + 1 - 1
    OBVIOUS
  <2>2. Iterates(F, T, x, n, it(n)) /\ Iterates(F, T, x, n + 1, it(n + 1))
    BY <1>1, <2>1
  <2>3. it(n)[n] = it(n + 1)[n]
    BY <2>1, <2>2, IterationsAgree
  <2>4. it(n + 1)[n + 1] = F[it(n + 1)[n]]
    BY <2>1, <2>2 DEF Iterates
  <2> QED
    BY <2>1, <2>3, <2>4
<1> HIDE DEF f
<1> QED
  BY <1>3, <1>4, <1>5 DEF HasIteration

-----------------------------------------------------------------------------
(* Multiples.                                                              *)

Multiple(v, d) == \E c \in Nat : v = c * d

\* What leaves no remainder is a multiple.
LEMMA MultipleMod ==
  ASSUME NEW v \in Nat, NEW d \in Nat \ {0}
  PROVE  v % d = 0 <=> Multiple(v, d)
<1>1. v % d \in 0 .. d - 1 /\ v \div d \in Int /\ v = d * (v \div d) + (v % d)
  OBVIOUS
<1> DEFINE q == v \div d
           r == v % d
<1>2. q \in Int /\ r \in 0 .. d - 1 /\ v = d * q + r
  BY <1>1
<1> HIDE DEF q, r
<1>3. ASSUME r = 0 PROVE Multiple(v, d)
  <2>1. q \in Nat
    BY <1>2, <1>3
  <2> QED
    BY <1>2, <1>3, <2>1 DEF Multiple
<1>4. ASSUME NEW c \in Nat, v = c * d PROVE r = 0
  <2>1. d * (c - q) = r
    BY <1>2, <1>4
  <2>2. CASE c - q >= 1
    <3>1. d * (c - q) >= d
      BY <1>2, <2>2
    <3> QED
      BY <1>2, <2>1, <3>1
  <2>3. CASE c - q <= -1
    <3>1. d * (c - q) <= 0 - d
      BY <1>2, <2>3
    <3> QED
      BY <1>2, <2>1, <3>1
  <2> QED
    BY <1>2, <2>1, <2>2, <2>3
<1> QED
  BY <1>3, <1>4 DEF Multiple, r

\* Sums and differences of multiples are multiples; 0 and the number itself are.
LEMMA MultipleSum ==
  ASSUME NEW d \in Nat \ {0}, NEW u \in Nat, NEW v \in Nat, Multiple(u, d), Multiple(v, d)
  PROVE  /\ Multiple(u + v, d)
         /\ u <= v => Multiple(v - u, d)
         /\ Multiple(0, d) /\ Multiple(d, d)
         /\ u < v => u + d <= v
<1>1. PICK a \in Nat : u = a * d
  BY DEF Multiple
<1>2. PICK b \in Nat : v = b * d
  BY DEF Multiple
<1>3. u + v = (a + b) * d /\ v - u = (b - a) * d /\ 0 = 0 * d /\ d = 1 * d
  BY <1>1, <1>2
<1>4. ASSUME b < a PROVE v < u
  <2>1. (a - b) * d >= d
    BY <1>4
  <2> QED
    BY <1>1, <1>2, <2>1
<1>5. ASSUME u <= v PROVE b - a \in Nat
  BY <1>4, <1>5
<1>6. ASSUME u < v PROVE u + d <= v
  <2>1. b - a >= 1
    <3>1. b # a
      BY <1>1, <1>2, <1>6
    <3> QED
      BY <1>5, <1>6, <3>1
  <2>2. (b - a) * d >= d
    BY <2>1
  <2> QED
    BY <1>3, <2>2
<1>7. a + b \in Nat /\ 0 \in Nat /\ 1 \in Nat
  OBVIOUS
<1>8. Multiple(u + v, d) /\ Multiple(0, d) /\ Multiple(d, d)
  BY <1>3, <1>7, Zenon DEF Multiple
<1>9. u <= v => Multiple(v - u, d)
  BY <1>3, <1>5, Zenon DEF Multiple
<1> QED
  BY <1>6, <1>8, <1>9

\* A multiple of a multiple is one.
LEMMA MultipleTrans ==
  ASSUME NEW v, NEW d \in Nat, NEW e \in Nat, Multiple(v, d), Multiple(d, e)
  PROVE  Multiple(v, e)
<1>1. PICK a \in Nat : v = a * d
  BY DEF Multiple
<1>2. PICK b \in Nat : d = b * e
  BY DEF Multiple
<1>3. a * b \in Nat
  OBVIOUS
<1>4. a * (b * e) = (a * b) * e
  OBVIOUS
<1>5. v = (a * b) * e
  BY <1>1, <1>2, <1>4
<1> QED
  BY <1>3, <1>5 DEF Multiple

-----------------------------------------------------------------------------
(* Powers of two.                                                          *)

\* What the recursive definition of the powers of two says of f.
Doubled(f) == [k \in Nat |-> IF k = 0 THEN 1 ELSE 2 * f[k - 1]]

\* There is a function that the recursive definition of the powers of two defines.
LEMMA DoubledExists == \E f : f = Doubled(f)
<1> DEFINE T    == Nat \ {0}
           F    == [y \in T |-> 2 * y]
<1>1. F \in [T -> T] /\ 1 \in T
  OBVIOUS
<1>2. \A y \in T : F[y] = 2 * y
  OBVIOUS
<1> HIDE DEF T, F
<1>3. PICK g \in [Nat -> T] : g[0] = 1 /\ \A n \in Nat : g[n + 1] = F[g[n]]
  <2>1. HasIteration(F, T, 1)
    BY <1>1, Iteration
  <2> QED
    BY <2>1 DEF HasIteration
<1>4. \A n \in Nat : g[n] = Doubled(g)[n]
  <2> SUFFICES ASSUME NEW n \in Nat PROVE g[n] = Doubled(g)[n]
    OBVIOUS
  <2>1. CASE n = 0
    BY <1>3, <2>1 DEF Doubled
  <2>2. CASE n # 0
    <3>1. n - 1 \in Nat /\ n - 1 + 1 = n
      BY <2>2
    <3>2. g[n] = F[g[n - 1]] /\ g[n - 1] \in T
      BY <1>3, <3>1
    <3> QED
      BY <1>2, <2>2, <3>2 DEF Doubled
  <2> QED
    BY <2>1, <2>2
<1>5. g = Doubled(g)
  <2> DEFINE d == Doubled(g)
  <2>1. d = [n \in Nat |-> d[n]] /\ g = [n \in Nat |-> g[n]]
    BY <1>3 DEF Doubled
  <2>2. \A n \in Nat : g[n] = d[n]
    BY <1>4
  <2> HIDE DEF d
  <2>3. g = d
    BY <2>1, <2>2
  <2> QED
    BY <2>3 DEF d
<1> QED
  BY <1>5

\* The powers of two are positive, and each is twice the one before it.
LEMMA DoubledGrows ==
  ASSUME NEW f, f = Doubled(f)
  PROVE  f \in [Nat -> Nat \ {0}] /\ f[0] = 1 /\ \A n \in Nat : f[n + 1] = 2 * f[n]
<1>1. f[0] = 1 /\ \A n \in Nat : n # 0 => f[n] = 2 * f[n - 1]
  BY DEF Doubled
<1> DEFINE S == {n \in Nat : f[n] \in Nat \ {0}}
<1>2. 0 \in S
  BY <1>1
<1>3. ASSUME NEW n \in S PROVE n + 1 \in S
  <2>1. n + 1 \in Nat /\ n + 1 # 0 /\ n + 1 - 1 = n
    OBVIOUS
  <2>2. f[n + 1] = 2 * f[n]
    BY <1>1, <2>1
  <2> QED
    BY <2>1, <2>2
<1>4. S = Nat
  <2>1. S \in SUBSET Nat
    OBVIOUS
  <2> HIDE DEF S
  <2> QED
    BY <1>2, <1>3, <2>1, Induction
<1>5. \A n \in Nat : f[n] \in Nat \ {0}
  BY <1>4
<1>6. f = [n \in Nat |-> f[n]]
  <2> DEFINE d == Doubled(f)
  <2>1. d = [n \in Nat |-> d[n]]
    BY DEF Doubled
  <2> HIDE DEF d
  <2>2. f = d
    BY DEF d
  <2> QED
    BY <2>1, <2>2
<1> QED
  BY <1>1, <1>5, <1>6
=============================================================================
