------------------------ MODULE CoveringRegion_proofs ------------------------
(***************************************************************************)
(* largest_covering_MPU_region finds the largest region, for every width   *)
(* of the address space, every memory and every block: proofs about        *)
(* CoveringRegion.                                                         *)
(***************************************************************************)
EXTENDS CoveringRegion, NaturalFacts

-----------------------------------------------------------------------------
(* Powers of two.                                                          *)

\* Shifting 1 by k bits.
LEMMA Powers ==
  /\ Pow2 \in [Nat -> Nat \ {0}] /\ Pow2[0] = 1
  /\ \A n \in Nat : Pow2[n + 1] = 2 * Pow2[n]
<1>1. Pow2 = Doubled(Pow2)
  BY DoubledExists DEF Pow2, Doubled
<1> QED
  BY <1>1, DoubledGrows

\* A larger power is a multiple of a smaller one, and at least twice as large.
LEMMA PowersNest ==
  ASSUME NEW j \in Nat, NEW k \in Nat, j <= k
  PROVE  /\ Multiple(Pow2[k], Pow2[j]) /\ Pow2[j] <= Pow2[k]
         /\ j < k => 2 * Pow2[j] <= Pow2[k]
<1> DEFINE S == {n \in Nat : Multiple(Pow2[j + n], Pow2[j])}
<1>1. \A n \in Nat : Pow2[n] \in Nat \ {0} /\ Pow2[n + 1] = 2 * Pow2[n]
  BY Powers
<1>2. 0 \in S
  <2>1. Pow2[j + 0] = 1 * Pow2[j]
    BY <1>1
  <2> QED
    BY <2>1 DEF Multiple
<1>3. ASSUME NEW n \in S PROVE n + 1 \in S
  <2>1. /\ j + n \in Nat /\ j + (n + 1) = j + n + 1
        /\ Pow2[j + n] \in Nat /\ Pow2[j] \in Nat
    BY <1>1
  <2>2. Multiple(Pow2[j + n], Pow2[j])
    OBVIOUS
  <2>3. Pow2[j + (n + 1)] = 2 * Pow2[j + n]
    BY <1>1, <2>1
  <2>4. Multiple(Pow2[j + (n + 1)], Pow2[j + n])
    BY <2>3 DEF Multiple
  <2>5. Multiple(Pow2[j + (n + 1)], Pow2[j])
    BY <2>1, <2>2, <2>4, MultipleTrans
  <2> QED
    BY <2>5
<1>4. S = Nat
  <2>1. S \in SUBSET Nat
    OBVIOUS
  <2> HIDE DEF S
  <2> QED
    BY <1>2, <1>3, <2>1, Induction
<1>5. \A n \in Nat : Multiple(Pow2[j + n], Pow2[j])
  BY <1>4
<1>6. \A n \in Nat : Pow2[j] <= Pow2[j + n]
  <2> SUFFICES ASSUME NEW n \in Nat PROVE Pow2[j] <= Pow2[j + n]
    OBVIOUS
  <2>1. PICK c \in Nat : Pow2[j + n] = c * Pow2[j]
    BY <1>5 DEF Multiple
  <2>2. Pow2[j + n] # 0 /\ Pow2[j] \in Nat
    BY <1>1
  <2>3. c # 0
    BY <2>1, <2>2
  <2> QED
    BY <2>1, <2>2, <2>3
<1>7. k - j \in Nat /\ j + (k - j) = k
  OBVIOUS
<1>8. ASSUME j < k PROVE 2 * Pow2[j] <= Pow2[k]
  <2> DEFINE n == k - j - 1
  <2>1. n \in Nat /\ j + n \in Nat /\ j + n + 1 = k
    BY <1>8
  <2> HIDE DEF n
  <2>2. Pow2[k] = 2 * Pow2[j + n] /\ Pow2[j] <= Pow2[j + n]
    BY <1>1, <1>6, <2>1
  <2> QED
    BY <1>1, <2>1, <2>2
<1> QED
  BY <1>5, <1>6, <1>7, <1>8

\* Among powers of two, the smaller one has the smaller exponent.
LEMMA PowersOrder ==
  ASSUME NEW j \in Nat, NEW k \in Nat, Pow2[j] <= Pow2[k]
  PROVE  j <= k
<1>1. Pow2[j] \in Nat \ {0} /\ Pow2[k] \in Nat \ {0}
  BY Powers
<1>2. k < j => 2 * Pow2[k] <= Pow2[j]
  BY PowersNest
<1> QED
  BY <1>1, <1>2

\* There are less than 2^k numbers up to k.
LEMMA PowersLarge == \A k \in Nat : k < Pow2[k]
<1> DEFINE S == {n \in Nat : n < Pow2[n]}
<1>1. 0 \in S /\ \A n \in S : n + 1 \in S
  BY Powers
<1>2. S = Nat
  <2>1. S \in SUBSET Nat
    OBVIOUS
  <2> HIDE DEF S
  <2> QED
    BY <1>1, <2>1, Induction
<1> QED
  BY <1>2

\* What divides by a power of two divides by the smaller ones.
LEMMA Coarser ==
  ASSUME NEW v, NEW j \in Nat, NEW k \in Nat, j <= k, Multiple(v, Pow2[k])
  PROVE  Multiple(v, Pow2[j])
<1>1. Multiple(Pow2[k], Pow2[j]) /\ Pow2[j] \in Nat /\ Pow2[k] \in Nat
  BY PowersNest, Powers
<1> QED
  BY <1>1, MultipleTrans

\* An odd multiple of 2^j and 2^j more is an even one.
LEMMA OddStep ==
  ASSUME NEW v, NEW j \in Nat, Multiple(v, Pow2[j]), ~ Multiple(v, Pow2[j + 1])
  PROVE  Multiple(v + Pow2[j], Pow2[j + 1])
<1>1. Pow2[j] \in Nat /\ Pow2[j + 1] = 2 * Pow2[j]
  BY Powers
<1>2. PICK c \in Nat : v = c * Pow2[j]
  BY DEF Multiple
<1>3. ASSUME NEW b \in Nat, c = 2 * b PROVE FALSE
  <2>1. v = b * Pow2[j + 1]
    BY <1>1, <1>2, <1>3
  <2> QED
    BY <2>1 DEF Multiple
<1>4. PICK b \in Nat : c = 2 * b + 1
  <2>1. PICK b \in Nat : c = 2 * b \/ c = 2 * b + 1
    <3>1. c = 2 * (c \div 2) \/ c = 2 * (c \div 2) + 1
      OBVIOUS
    <3>2. c \div 2 \in Nat
      OBVIOUS
    <3> QED
      BY <3>1, <3>2
  <2> QED
    BY <1>3, <2>1
<1>5. v + Pow2[j] = (b + 1) * Pow2[j + 1] /\ b + 1 \in Nat
  BY <1>1, <1>2, <1>4
<1> QED
  BY <1>5 DEF Multiple

\* 0 is a multiple of every number.
LEMMA ZeroMultiple == \A d \in Nat : Multiple(0, d)
<1>1. \A d \in Nat : 0 = 0 * d
  OBVIOUS
<1> QED
  BY <1>1 DEF Multiple

-----------------------------------------------------------------------------
(* Regions.                                                                *)

\* A region of 2^j units.
Piece(b, t, j) == b \in Nat /\ j \in Nat /\ Multiple(b, Pow2[j]) /\ t = b + Pow2[j]

\* Bits of v below the lowest that is set, for the addresses the search meets.
LEMMA AlignmentOf ==
  ASSUME NEW v \in Nat \ {0}, v < Pow2[W]
  PROVE  LET k == max_powlog2_alignment(v)
         IN  k \in 0 .. W /\ Multiple(v, Pow2[k]) /\ ~ Multiple(v, Pow2[k + 1]) /\ Pow2[k] <= v
<1> DEFINE S == {n \in 0 .. v : Multiple(v, Pow2[n])}
<1>0. W \in Nat /\ \A n \in Nat : Pow2[n] \in Nat \ {0}
  BY WidthAssumption, Powers
<1>1. ASSUME NEW n \in Nat, Multiple(v, Pow2[n]) PROVE Pow2[n] <= v /\ n \in 0 .. v
  <2>1. Pow2[n] \in Nat \ {0} /\ 0 \in Nat /\ Multiple(0, Pow2[n])
    <3>1. 0 = 0 * Pow2[n]
      BY <1>0
    <3> QED
      BY <1>0, <3>1 DEF Multiple
  <2>2. 0 + Pow2[n] <= v
    BY <1>1, <2>1, MultipleSum
  <2>3. n < Pow2[n]
    BY PowersLarge
  <2> QED
    BY <2>1, <2>2, <2>3
<1>2. 0 \in S
  <2>1. v = v * Pow2[0]
    BY Powers
  <2> QED
    BY <2>1 DEF Multiple
<1>3. PICK x \in S : \A y \in S : y <= x
  <2>1. S \in SUBSET (0 .. v) /\ S # {}
    BY <1>2
  <2> HIDE DEF S
  <2> QED
    BY <2>1, GreatestNat
<1>4. x \in Nat /\ Multiple(v, Pow2[x])
  OBVIOUS
<1>5. ~ Multiple(v, Pow2[x + 1])
  <2>1. x + 1 \in Nat /\ ~ (x + 1 <= x)
    BY <1>4
  <2> QED
    BY <1>1, <1>3, <2>1
<1>6. x \in 0 .. W
  <2>1. Pow2[x] <= Pow2[W]
    BY <1>0, <1>1, <1>4
  <2> QED
    BY <1>0, <1>4, <2>1, PowersOrder
<1> HIDE DEF S
<1>7. \A n \in 0 .. W : v % Pow2[n] = 0 /\ v % Pow2[n + 1] # 0
                        <=> Multiple(v, Pow2[n]) /\ ~ Multiple(v, Pow2[n + 1])
  <2> SUFFICES ASSUME NEW n \in 0 .. W
               PROVE  /\ v % Pow2[n] = 0 <=> Multiple(v, Pow2[n])
                      /\ v % Pow2[n + 1] = 0 <=> Multiple(v, Pow2[n + 1])
    OBVIOUS
  <2>1. n + 1 \in Nat /\ Pow2[n] \in Nat \ {0} /\ Pow2[n + 1] \in Nat \ {0}
    BY <1>0
  <2> QED
    BY <2>1, MultipleMod
<1> DEFINE k == max_powlog2_alignment(v)
<1>8. k \in 0 .. W /\ Multiple(v, Pow2[k]) /\ ~ Multiple(v, Pow2[k + 1])
  <2>1. k = CHOOSE n \in 0 .. W : v % Pow2[n] = 0 /\ v % Pow2[n + 1] # 0
    BY DEF max_powlog2_alignment
  <2>2. k \in 0 .. W /\ v % Pow2[k] = 0 /\ v % Pow2[k + 1] # 0
    BY <1>4, <1>5, <1>6, <1>7, <2>1
  <2> HIDE DEF k
  <2> QED
    BY <1>7, <2>2
<1> HIDE DEF k
<1>9. Pow2[k] <= v
  <2>1. k \in Nat
    BY <1>0, <1>8
  <2> QED
    BY <1>1, <1>8, <2>1
<1> QED
  BY <1>8, <1>9 DEF k

\* The region of 2^k units around an address.
LEMMA AroundIs ==
  ASSUME NEW a \in Nat, NEW k \in Nat
  PROVE  LET b == a - (a % Pow2[k])
         IN  Piece(b, b + Pow2[k], k) /\ b <= a /\ a < b + Pow2[k]
<1> DEFINE d == Pow2[k]
<1>1. d \in Nat \ {0}
  BY Powers
<1> HIDE DEF d
<1>2. a % d \in 0 .. d - 1 /\ a \div d \in Nat /\ a = d * (a \div d) + (a % d)
  BY <1>1
<1>3. a - (a % d) = (a \div d) * d /\ a - (a % d) \in Nat
  BY <1>1, <1>2
<1>4. Multiple(a - (a % d), d)
  BY <1>2, <1>3 DEF Multiple
<1>5. a - (a % d) <= a /\ a < a - (a % d) + d
  BY <1>1, <1>2
<1> QED
  BY <1>3, <1>4, <1>5 DEF Piece, d

\* Of two regions around an address, the larger contains the smaller.
LEMMA Nested ==
  ASSUME NEW a \in Nat, NEW b, NEW t, NEW j, Piece(b, t, j), b <= a, a < t,
         NEW c, NEW u, NEW k, Piece(c, u, k), c <= a, a < u, j <= k
  PROVE  c <= b /\ t <= u
<1>1. /\ b \in Nat /\ c \in Nat /\ j \in Nat /\ k \in Nat
      /\ Multiple(b, Pow2[j]) /\ Multiple(c, Pow2[j]) /\ Multiple(Pow2[k], Pow2[j])
      /\ t = b + Pow2[j] /\ u = c + Pow2[k]
      /\ Pow2[j] \in Nat \ {0} /\ Pow2[k] \in Nat \ {0}
  BY Powers, PowersNest, Coarser DEF Piece
<1>2. u \in Nat /\ Multiple(u, Pow2[j])
  <2>1. Multiple(c + Pow2[k], Pow2[j])
    BY <1>1, MultipleSum
  <2> QED
    BY <1>1, <2>1
<1>3. b < c => b + Pow2[j] <= c
  BY <1>1, MultipleSum
<1>4. b < u => b + Pow2[j] <= u
  BY <1>1, <1>2, MultipleSum
<1> QED
  BY <1>1, <1>2, <1>3, <1>4

\* No region of the block that contains the address has more than 2^j units.
NoneLarger(j) ==
  \A k \in Nat : j < k => LET b == addr - (addr % Pow2[k]) IN ~ InBlock(b, b + Pow2[k])

\* It is enough that the next larger one is not in the block.
LEMMA NextTooLarge ==
  ASSUME NEW j \in Nat, addr \in Nat, start \in Nat, limit \in Nat,
         NEW b, NEW t, Piece(b, t, j + 1), b <= addr, addr < t, ~ InBlock(b, t)
  PROVE  NoneLarger(j)
<1> SUFFICES ASSUME NEW k \in Nat, j < k
             PROVE  LET c == addr - (addr % Pow2[k]) IN ~ InBlock(c, c + Pow2[k])
  BY DEF NoneLarger
<1> DEFINE c == addr - (addr % Pow2[k])
           u == c + Pow2[k]
<1>1. Piece(c, u, k) /\ c <= addr /\ addr < u
  BY AroundIs
<1> HIDE DEF c, u
<1>2. j + 1 <= k
  OBVIOUS
<1>3. c <= b /\ t <= u
  BY <1>1, <1>2, Nested
<1>4. c \in Nat /\ u \in Nat /\ b \in Nat /\ t \in Nat
  BY <1>1, Powers DEF Piece
<1>5. ~ InBlock(c, u)
  BY <1>3, <1>4 DEF InBlock
<1> QED
  BY <1>5 DEF c, u

-----------------------------------------------------------------------------
(* The search.                                                             *)

\* The smallest region has 2^g units.
GrainPower == CHOOSE k \in 1 .. W - 1 : Grain = Pow2[k]

\* What the assumption on the constants says of the powers of two.
LEMMA Setting ==
  /\ W \in Nat /\ W - 1 \in Nat /\ Rounds \in Nat /\ MemoryEnd \in Nat
  /\ Pow2[W] \in Nat /\ Pow2[W - 1] \in Nat \ {0} /\ Pow2[W] = 2 * Pow2[W - 1]
  /\ GrainPower \in 1 .. W - 1 /\ Grain = Pow2[GrainPower]
  /\ Grain \in Nat /\ 2 <= Grain
  /\ MemoryEnd <= Pow2[W - 1]
<1>1. W \in Nat /\ W - 1 \in Nat /\ W - 1 + 1 = W /\ Rounds \in Nat
  BY WidthAssumption
<1>2. Pow2[W] \in Nat /\ Pow2[W - 1] \in Nat \ {0} /\ Pow2[W] = 2 * Pow2[W - 1]
  BY <1>1, Powers
<1>3. MemoryEnd \in Nat /\ MemoryEnd <= Pow2[W - 1]
  BY <1>2, WidthAssumption
<1>4. GrainPower \in 1 .. W - 1 /\ Grain = Pow2[GrainPower]
  <2>1. \E k \in 1 .. W - 1 : Grain = Pow2[k]
    BY WidthAssumption
  <2> QED
    BY <2>1 DEF GrainPower
<1>5. Grain \in Nat /\ 2 <= Grain
  <2>1. 0 < GrainPower /\ GrainPower \in Nat /\ 0 \in Nat
    BY <1>1, <1>4
  <2>2. 2 * Pow2[0] <= Pow2[GrainPower]
    BY <2>1, PowersNest
  <2> QED
    BY <1>4, <2>1, <2>2, Powers
<1> QED
  BY <1>1, <1>2, <1>3, <1>4, <1>5

\* Sums below 2^W and differences of smaller numbers do not wrap.
LEMMA NoWrap ==
  ASSUME NEW a \in Nat, NEW b \in Nat
  PROVE  /\ a + b < Pow2[W] => Plus(a, b) = a + b
         /\ b <= a /\ a - b < Pow2[W] => Minus(a, b) = a - b
<1> DEFINE d == Pow2[W]
<1>1. d \in Nat \ {0}
  BY Setting, Powers
<1> HIDE DEF d
<1>2. \A n \in Nat : n < d => (n % d) = n
  BY <1>1
<1>3. a + b < d => ((a + b) % d) = a + b
  BY <1>2
<1>4. ASSUME b <= a, a - b < d PROVE ((a + d - b) % d) = a - b
  <2>1. a - b \in Nat /\ a + d - b = (a - b) + d
    BY <1>1, <1>4
  <2> DEFINE m == a - b
  <2>2. m \in Nat /\ m < d /\ a + d - b = m + d
    BY <1>4, <2>1
  <2> HIDE DEF m
  <2>3. ((m + d) % d) = m
    <3>1. (m + d) % d \in 0 .. d - 1
      BY <1>1, <2>2
    <3>2. m + d = d * ((m + d) \div d) + ((m + d) % d) /\ (m + d) \div d \in Nat
      BY <1>1, <2>2
    <3> DEFINE q == (m + d) \div d
               r == (m + d) % d
    <3>3. m + d = (d * q) + r /\ q \in Nat /\ r \in Nat /\ r < d
      BY <1>1, <3>1, <3>2
    <3> HIDE DEF q, r
    <3>4. q # 0
      BY <1>1, <2>2, <3>3
    <3>5. q < 2
      <4>1. ASSUME q >= 2 PROVE FALSE
        <5>1. d * q >= d + d
          BY <1>1, <3>3, <4>1
        <5> QED
          BY <1>1, <2>2, <3>3, <5>1
      <4> QED
        BY <3>3, <4>1
    <3>6. q = 1
      BY <3>3, <3>4, <3>5
    <3>7. r = m
      BY <1>1, <2>2, <3>3, <3>6
    <3> QED
      BY <3>7 DEF r
  <2> QED
    BY <2>2, <2>3 DEF m
<1> QED
  BY <1>3, <1>4 DEF Plus, Minus, d

\* The block, and the address in it.
Block ==
  /\ start \in Nat /\ limit \in Nat /\ addr \in Nat
  /\ Multiple(start, Grain) /\ Multiple(limit, Grain)
  /\ end \in {limit, limit + 1}
  /\ start <= addr /\ addr < limit /\ limit <= MemoryEnd

\* The candidate of 2^j units is in the block, and has grown in every round unless
\* it is the half of the address space that holds all memory.
Searching(j) ==
  /\ j \in GrainPower .. W - 1
  /\ Piece(bottom, top, j) /\ Inside(bottom, top)
  /\ i \in Nat /\ i < Rounds
  /\ i + GrainPower <= j \/ (bottom = 0 /\ top = Pow2[W - 1])

\* The candidate of 2^k units begins below the block; one of 2^j would not.
Lowering(j, k) ==
  /\ j \in GrainPower .. W - 1 /\ k \in j + 1 .. W - 1 /\ pow2 = k
  /\ Piece(bottom, top, k) /\ bottom < start
  /\ Inside(top - Pow2[j], top)

\* The candidate of 2^k units ends behind the block; one of 2^j would not.
Raising(j, k) ==
  /\ j \in GrainPower .. W - 1 /\ k \in j + 1 .. W - 1 /\ pow2 = k
  /\ Piece(bottom, top, k) /\ top > end /\ top < Pow2[W]
  /\ Inside(bottom, bottom + Pow2[j])

\* The region that is returned.
Found(j) ==
  /\ j \in GrainPower .. W - 1
  /\ Piece(bottom, top, j) /\ Inside(bottom, top)
  /\ W <= Rounds => NoneLarger(j)

\* The inductive invariant.
SearchInv ==
  /\ Block
  /\ \/ pc = "search" /\ \E j \in Nat : Searching(j)
     \/ pc = "shrinkDown" /\ \E j, k \in Nat : Lowering(j, k)
     \/ pc = "shrinkUp" /\ \E j, k \in Nat : Raising(j, k)
     \/ pc = "done" /\ \E j \in Nat : Found(j)

\* No region ends on the stored end when that is the byte behind the block.
LEMMA Gap ==
  ASSUME Block, NEW v \in Nat, Multiple(v, Grain), v <= end
  PROVE  v <= limit
<1>1. limit < v => limit + Grain <= v
  BY Setting, MultipleSum DEF Block
<1> QED
  BY <1>1, Setting DEF Block

\* The search begins with the smallest region around the address.
LEMMA SearchStarts == AtTheEnd = FALSE /\ Init => SearchInv
<1> SUFFICES ASSUME AtTheEnd = FALSE, Init PROVE SearchInv
  OBVIOUS
<1>1. Block
  <2>1. /\ start \in 0 .. MemoryEnd - 1 /\ (start % Grain) = 0
        /\ limit \in start + 1 .. MemoryEnd /\ (limit % Grain) = 0
        /\ end \in {limit, limit + 1}
        /\ addr \in start .. limit /\ addr < limit
    BY DEF Init
  <2>2. MemoryEnd \in Nat /\ Grain \in Nat \ {0}
    BY Setting
  <2>3. start \in Nat /\ limit \in Nat /\ addr \in Nat
    BY <2>1, <2>2
  <2>4. Multiple(start, Grain) /\ Multiple(limit, Grain)
    BY <2>1, <2>2, <2>3, MultipleMod
  <2>5. start <= addr /\ addr < limit /\ limit <= MemoryEnd
    BY <2>1, <2>2, <2>3
  <2> QED
    BY <2>1, <2>3, <2>4, <2>5 DEF Block
<1> DEFINE g == GrainPower
<1>2. /\ g \in Nat /\ Grain = Pow2[g] /\ Grain \in Nat \ {0} /\ g \in g .. W - 1
      /\ limit < Pow2[W] /\ Rounds \in Nat \ {0}
  BY <1>1, Setting, WidthAssumption DEF Block
<1> HIDE DEF g
<1> DEFINE b == addr - (addr % Pow2[g])
<1>3. Piece(b, b + Pow2[g], g) /\ b <= addr /\ addr < b + Pow2[g]
  BY <1>1, <1>2, AroundIs DEF Block
<1>4. bottom = b /\ top = Plus(b, Grain) /\ i = 0 /\ pc = "search"
  BY <1>2 DEF Init
<1> HIDE DEF b
<1>5. b \in Nat /\ Multiple(b, Grain)
  BY <1>2, <1>3 DEF Piece
<1>6. start <= b
  <2>1. b < start => b + Grain <= start
    BY <1>1, <1>2, <1>5, MultipleSum DEF Block
  <2> QED
    BY <1>1, <1>2, <1>3, <1>5, <2>1 DEF Block
<1>7. b + Grain <= limit
  <2>1. b < limit
    BY <1>1, <1>3, <1>5 DEF Block
  <2> QED
    BY <1>1, <1>2, <1>5, <2>1, MultipleSum DEF Block
<1>8. top = b + Pow2[g]
  <2>1. b + Grain < Pow2[W]
    BY <1>1, <1>2, <1>5, <1>7, Setting DEF Block
  <2> QED
    BY <1>2, <1>4, <1>5, <2>1, NoWrap
<1>9. Searching(g)
  <2>1. Piece(bottom, top, g) /\ Inside(bottom, top)
    BY <1>2, <1>3, <1>4, <1>6, <1>7, <1>8 DEF Inside, InBlock
  <2>2. i \in Nat /\ i < Rounds /\ i + GrainPower <= g
    BY <1>2, <1>4 DEF g
  <2> QED
    BY <1>2, <2>1, <2>2 DEF Searching, g
<1> QED
  BY <1>1, <1>2, <1>4, <1>9 DEF SearchInv

\* Where the search is: the numbers it works on.
LEMMA SearchingIs ==
  ASSUME Block, NEW j \in Nat, Searching(j)
  PROVE  /\ bottom \in Nat /\ top \in Nat \ {0} /\ top = bottom + Pow2[j]
         /\ Pow2[j] \in Nat \ {0} /\ j \in GrainPower .. W - 1
         /\ start <= bottom /\ bottom <= addr /\ addr < top /\ top <= limit
         /\ limit <= Pow2[W - 1] /\ limit < Pow2[W]
         /\ Multiple(bottom, Pow2[j]) /\ Multiple(top, Pow2[j])
<1>1. /\ bottom \in Nat /\ top = bottom + Pow2[j] /\ Multiple(bottom, Pow2[j])
      /\ start <= bottom /\ bottom <= addr /\ addr < top /\ top <= limit
      /\ j \in GrainPower .. W - 1
  BY DEF Searching, Piece, Inside, InBlock
<1>2. Pow2[j] \in Nat \ {0}
  BY Powers
<1>3. limit <= Pow2[W - 1] /\ limit < Pow2[W]
  BY Setting DEF Block
<1>4. Multiple(bottom + Pow2[j], Pow2[j])
  BY <1>1, <1>2, MultipleSum
<1> QED
  BY <1>1, <1>2, <1>3, <1>4

\* A candidate cannot have grown in each of W rounds.
LEMMA RoundsLeft ==
  ASSUME NEW n \in Nat, NEW j \in Nat, j <= W - 1, n + GrainPower <= j
  PROVE  W <= Rounds => n < Rounds
<1>1. GrainPower \in 1 .. W - 1 /\ W \in Nat /\ Rounds \in Nat
  BY Setting
<1> QED
  BY <1>1

\* A round that extends the candidate downwards.
LEMMA GrowDownKeeps == SearchInv /\ GrowDown => SearchInv'
<1> SUFFICES ASSUME SearchInv, GrowDown PROVE SearchInv'
  OBVIOUS
<1>1. Block /\ Block' /\ pc = "search"
  BY DEF SearchInv, GrowDown, Block
<1>2. PICK j \in Nat : Searching(j)
  BY <1>1 DEF SearchInv
<1>3. /\ bottom \in Nat /\ top \in Nat \ {0} /\ top = bottom + Pow2[j]
      /\ Pow2[j] \in Nat \ {0} /\ j \in GrainPower .. W - 1
      /\ start <= bottom /\ bottom <= addr /\ addr < top /\ top <= limit
      /\ limit <= Pow2[W - 1] /\ limit < Pow2[W]
      /\ Multiple(bottom, Pow2[j]) /\ Multiple(top, Pow2[j])
  BY <1>1, <1>2, SearchingIs
<1>4. /\ W - 1 \in Nat /\ GrainPower \in Nat /\ Rounds \in Nat /\ Pow2[W] \in Nat
      /\ limit \in Nat /\ start \in Nat /\ addr \in Nat
  BY <1>1, Setting DEF Block
<1>0. PICK k : k = max_powlog2_alignment(top)
  OBVIOUS
<1> DEFINE l == max_powlog2_alignment(bottom)
<1>5. /\ k > l /\ bottom' = Minus(top, Pow2[k]) /\ pow2' = k /\ i' = i + 1
      /\ pc' = IF TooLow(bottom') THEN "shrinkDown" ELSE Continue
      /\ start' = start /\ limit' = limit /\ end' = end /\ addr' = addr /\ top' = top
  BY <1>0 DEF GrowDown
<1>6. top < Pow2[W]
  BY <1>3, <1>4
<1>7. k \in 0 .. W /\ Multiple(top, Pow2[k]) /\ Pow2[k] <= top
  BY <1>0, <1>3, <1>6, AlignmentOf
<1>8. bottom = 0 => l = W - 1
  BY DEF max_powlog2_alignment
<1>9. bottom # 0 => l \in 0 .. W /\ Multiple(bottom, Pow2[l]) /\ ~ Multiple(bottom, Pow2[l + 1])
  <2>1. bottom < Pow2[W]
    BY <1>3, <1>4
  <2> QED
    BY <1>3, <2>1, AlignmentOf
<1> HIDE DEF l
<1>10. k \in Nat /\ Pow2[k] \in Nat \ {0}
  BY <1>4, <1>7, Powers
<1>11. k <= W - 1
  <2>1. Pow2[k] <= Pow2[W - 1]
    BY <1>3, <1>4, <1>7, <1>10, Setting
  <2> QED
    BY <1>4, <1>10, <2>1, PowersOrder
<1>12. bottom # 0
  BY <1>4, <1>5, <1>8, <1>10, <1>11
<1>13. j < k
  <2>1. l \in Nat /\ ~ Multiple(bottom, Pow2[l + 1])
    BY <1>4, <1>9, <1>12
  <2>2. l + 1 <= j => Multiple(bottom, Pow2[l + 1])
    <3>1. l + 1 \in Nat
      BY <2>1
    <3> QED
      BY <1>3, <3>1, Coarser
  <2> QED
    BY <1>5, <1>10, <2>1, <2>2
<1>14. Pow2[j] <= Pow2[k]
  BY <1>10, <1>13, PowersNest
<1>15. bottom' = top - Pow2[k] /\ bottom' \in Nat
  <2>1. top - Pow2[k] < Pow2[W] /\ top \in Nat
    BY <1>3, <1>4, <1>6, <1>10
  <2> QED
    BY <1>5, <1>7, <1>10, <2>1, NoWrap
<1>16. Piece(bottom, top, k)'
  <2>1. Multiple(Pow2[k], Pow2[k])
    BY <1>3, <1>7, <1>10, MultipleSum
  <2>2. Multiple(top - Pow2[k], Pow2[k])
    BY <1>3, <1>7, <1>10, <2>1, MultipleSum
  <2>3. top = bottom' + Pow2[k]
    BY <1>3, <1>10, <1>15
  <2> QED
    BY <1>5, <1>10, <1>15, <2>2, <2>3 DEF Piece
<1>17. bottom' <= addr
  BY <1>3, <1>4, <1>10, <1>14, <1>15
<1>18. k \in GrainPower .. W - 1
  BY <1>3, <1>4, <1>10, <1>11, <1>13
<1>19. CASE TooLow(bottom')
  <2>1. bottom' < start /\ pc' = "shrinkDown"
    BY <1>5, <1>19 DEF TooLow
  <2>2. k \in j + 1 .. W - 1
    BY <1>10, <1>11, <1>13
  <2>3. top - Pow2[j] = bottom
    BY <1>3
  <2>4. Inside(top - Pow2[j], top)'
    BY <1>3, <1>5, <2>3 DEF Inside, InBlock
  <2>5. Lowering(j, k)'
    BY <1>3, <1>5, <1>16, <2>1, <2>2, <2>4 DEF Lowering
  <2> QED
    BY <1>1, <1>10, <2>1, <2>5 DEF SearchInv
<1>20. CASE ~ TooLow(bottom')
  <2>1. start <= bottom' /\ pc' = IF i + 1 < Rounds THEN "search" ELSE "done"
    BY <1>4, <1>5, <1>15, <1>20 DEF TooLow, Continue
  <2>2. Inside(bottom, top)'
    BY <1>3, <1>5, <1>17, <2>1 DEF Inside, InBlock
  <2>3. i \in Nat /\ i + GrainPower <= j
    BY <1>2, <1>12 DEF Searching
  <2>4. i + 1 \in Nat /\ i + 1 + GrainPower <= k
    BY <1>4, <1>10, <1>13, <2>3
  <2>5. CASE i + 1 < Rounds
    <3>1. Searching(k)'
      BY <1>5, <1>16, <1>18, <2>2, <2>4, <2>5 DEF Searching
    <3> QED
      BY <1>1, <1>10, <2>1, <2>5, <3>1 DEF SearchInv
  <2>6. CASE ~ (i + 1 < Rounds)
    <3>1. ~ (W <= Rounds)
      BY <1>10, <1>11, <2>4, <2>6, RoundsLeft
    <3>2. Found(k)'
      BY <1>16, <1>18, <2>2, <3>1 DEF Found
    <3> QED
      BY <1>1, <1>10, <2>1, <2>6, <3>2 DEF SearchInv
  <2> QED
    BY <2>5, <2>6
<1> QED
  BY <1>19, <1>20

\* A round that extends it upwards: the region 0 .. 2^(W-1) comes from here.
LEMMA GrowUpKeeps == SearchInv /\ GrowUp => SearchInv'
<1> SUFFICES ASSUME SearchInv, GrowUp PROVE SearchInv'
  OBVIOUS
<1>1. Block /\ Block' /\ pc = "search"
  BY DEF SearchInv, GrowUp, Block
<1>2. PICK j \in Nat : Searching(j)
  BY <1>1 DEF SearchInv
<1>3. /\ bottom \in Nat /\ top \in Nat \ {0} /\ top = bottom + Pow2[j]
      /\ Pow2[j] \in Nat \ {0} /\ j \in GrainPower .. W - 1
      /\ start <= bottom /\ bottom <= addr /\ addr < top /\ top <= limit
      /\ limit <= Pow2[W - 1] /\ limit < Pow2[W]
      /\ Multiple(bottom, Pow2[j]) /\ Multiple(top, Pow2[j])
  BY <1>1, <1>2, SearchingIs
<1>4. /\ W - 1 \in Nat /\ GrainPower \in Nat /\ Rounds \in Nat
      /\ Pow2[W] \in Nat /\ Pow2[W - 1] \in Nat \ {0} /\ Pow2[W] = 2 * Pow2[W - 1]
      /\ limit \in Nat /\ start \in Nat /\ addr \in Nat /\ end \in {limit, limit + 1}
  BY <1>1, Setting DEF Block
<1>0. PICK k : k = max_powlog2_alignment(bottom)
  OBVIOUS
<1> DEFINE l == max_powlog2_alignment(top)
<1>5. /\ k >= l /\ top' = Plus(bottom, Pow2[k]) /\ pow2' = k /\ i' = i + 1
      /\ pc' = IF TooHigh(top') THEN "shrinkUp" ELSE Continue
      /\ start' = start /\ limit' = limit /\ end' = end /\ addr' = addr /\ bottom' = bottom
  BY <1>0 DEF GrowUp
<1>6. l \in 0 .. W /\ Multiple(top, Pow2[l]) /\ ~ Multiple(top, Pow2[l + 1])
  <2>1. top < Pow2[W]
    BY <1>3, <1>4
  <2> QED
    BY <1>3, <2>1, AlignmentOf
<1>7. bottom = 0 => k = W - 1
  BY <1>0 DEF max_powlog2_alignment
<1>8. bottom # 0 => /\ k \in 0 .. W /\ Multiple(bottom, Pow2[k])
                    /\ ~ Multiple(bottom, Pow2[k + 1]) /\ Pow2[k] <= bottom
  <2>1. bottom < Pow2[W]
    BY <1>3, <1>4
  <2> QED
    BY <1>0, <1>3, <2>1, AlignmentOf
<1> HIDE DEF l
<1>9. k \in Nat /\ Pow2[k] \in Nat \ {0}
  BY <1>4, <1>7, <1>8, Powers, Setting
<1>10. k <= W - 1 /\ Multiple(bottom, Pow2[k]) /\ bottom + Pow2[k] < Pow2[W]
  <2>1. CASE bottom = 0
    <3>1. Multiple(0, Pow2[k])
      BY <1>9, ZeroMultiple
    <3> QED
      BY <1>4, <1>7, <2>1, <3>1
  <2>2. CASE bottom # 0
    <3>1. Pow2[k] <= bottom /\ bottom < Pow2[W - 1] /\ Multiple(bottom, Pow2[k])
      BY <1>3, <1>4, <1>8, <2>2
    <3>2. Pow2[k] <= Pow2[W - 1]
      BY <1>3, <1>4, <1>9, <3>1
    <3>3. k <= W - 1
      BY <1>4, <1>9, <3>2, PowersOrder
    <3> QED
      BY <1>3, <1>4, <1>9, <3>1, <3>3
  <2> QED
    BY <2>1, <2>2
<1>11. top' = bottom + Pow2[k] /\ top' \in Nat
  BY <1>3, <1>5, <1>9, <1>10, NoWrap
<1>12. Piece(bottom, top, k)'
  BY <1>3, <1>5, <1>9, <1>10, <1>11 DEF Piece
<1>13. j <= k
  <2>1. CASE bottom = 0
    BY <1>3, <1>4, <1>7, <2>1
  <2>2. CASE bottom # 0
    <3>1. k + 1 <= j => Multiple(bottom, Pow2[k + 1])
      BY <1>3, <1>9, Coarser
    <3> QED
      BY <1>8, <1>9, <2>2, <3>1
  <2> QED
    BY <2>1, <2>2
<1>14. bottom # 0 => j < k
  <2> SUFFICES ASSUME bottom # 0, j = k PROVE FALSE
    BY <1>9, <1>13
  <2>1. ~ Multiple(bottom, Pow2[j + 1])
    BY <1>8
  <2>2. Multiple(top, Pow2[j + 1])
    BY <1>3, <2>1, OddStep
  <2>3. l + 1 <= j + 1
    BY <1>4, <1>5, <1>6
  <2>4. Multiple(top, Pow2[l + 1])
    <3>1. l + 1 \in Nat /\ j + 1 \in Nat
      BY <1>4, <1>6
    <3> QED
      BY <2>2, <2>3, <3>1, Coarser
  <2> QED
    BY <1>6, <2>4
<1>15. k \in GrainPower .. W - 1
  BY <1>3, <1>4, <1>9, <1>10, <1>13
<1>16. Multiple(top', Grain)
  <2>1. Multiple(bottom, Grain) /\ Multiple(Pow2[k], Grain)
    <3>1. GrainPower <= k /\ Grain = Pow2[GrainPower]
      BY <1>4, <1>9, <1>15, Setting
    <3>2. Multiple(bottom, Pow2[GrainPower])
      BY <1>4, <1>9, <1>10, <3>1, Coarser
    <3> QED
      BY <1>4, <1>9, <3>1, <3>2, PowersNest
  <2>2. Multiple(bottom + Pow2[k], Grain)
    <3>1. Grain \in Nat \ {0} /\ bottom \in Nat /\ Pow2[k] \in Nat
      BY <1>3, <1>9, Setting
    <3> QED
      BY <2>1, <3>1, MultipleSum
  <2> QED
    BY <1>11, <2>2
<1>17. addr < top'
  <2>1. Pow2[j] <= Pow2[k]
    BY <1>9, <1>13, PowersNest
  <2> QED
    BY <1>3, <1>4, <1>9, <1>11, <2>1
<1>18. CASE TooHigh(top')
  <2>1. top' > end /\ pc' = "shrinkUp"
    BY <1>5, <1>18 DEF TooHigh
  <2>2. j # k
    BY <1>3, <1>4, <1>11, <2>1
  <2>3. k \in j + 1 .. W - 1
    BY <1>9, <1>10, <1>13, <2>2
  <2>4. Inside(bottom, bottom + Pow2[j])'
    BY <1>3, <1>5 DEF Inside, InBlock
  <2>5. Raising(j, k)'
    BY <1>3, <1>5, <1>10, <1>11, <1>12, <2>1, <2>3, <2>4 DEF Raising
  <2> QED
    BY <1>1, <1>9, <2>1, <2>5 DEF SearchInv
<1>19. CASE ~ TooHigh(top')
  <2>1. top' <= end /\ pc' = IF i + 1 < Rounds THEN "search" ELSE "done"
    BY <1>4, <1>5, <1>11, <1>19 DEF TooHigh, Continue
  <2>2. top' <= limit
    BY <1>1, <1>11, <1>16, <2>1, Gap
  <2>3. Inside(bottom, top)'
    BY <1>3, <1>5, <1>17, <2>2 DEF Inside, InBlock
  <2>4. i \in Nat /\ i + 1 \in Nat /\ i' = i + 1
    BY <1>2, <1>5 DEF Searching
  <2>5. i + 1 + GrainPower <= k \/ (bottom = 0 /\ k = W - 1)
    <3>1. CASE bottom = 0
      BY <1>7, <3>1
    <3>2. CASE bottom # 0
      <4>1. i + GrainPower <= j
        BY <1>2, <3>2 DEF Searching
      <4> QED
        BY <1>4, <1>9, <1>14, <2>4, <3>2, <4>1
    <3> QED
      BY <3>1, <3>2
  <2>6. CASE i + 1 < Rounds
    <3>1. bottom = 0 /\ k = W - 1 => bottom' = 0 /\ top' = Pow2[W - 1]
      BY <1>4, <1>5, <1>11
    <3>2. Searching(k)'
      BY <1>5, <1>12, <1>15, <2>3, <2>4, <2>5, <2>6, <3>1 DEF Searching
    <3> QED
      BY <1>1, <1>9, <2>1, <2>6, <3>2 DEF SearchInv
  <2>7. CASE ~ (i + 1 < Rounds)
    <3>1. W <= Rounds => NoneLarger(k)'
      <4> SUFFICES ASSUME W <= Rounds PROVE NoneLarger(k)'
        OBVIOUS
      <4>1. bottom = 0 /\ k = W - 1
        BY <1>9, <1>10, <2>4, <2>5, <2>7, RoundsLeft
      <4>2. k + 1 = W /\ Pow2[k + 1] = Pow2[W] /\ W \in Nat
        BY <4>1, Setting
      <4>3. Multiple(0, Pow2[W])
        BY <4>2, Powers, ZeroMultiple
      <4>4. Piece(0, Pow2[W], k + 1)
        BY <1>4, <4>2, <4>3 DEF Piece
      <4>5. ~ InBlock(0, Pow2[W])
        BY <1>3, <1>4 DEF InBlock
      <4>6. 0 <= addr /\ addr < Pow2[W]
        BY <1>3, <1>4
      <4>7. NoneLarger(k)
        BY <1>4, <1>9, <4>4, <4>5, <4>6, NextTooLarge
      <4> QED
        BY <1>5, <4>7 DEF NoneLarger, InBlock
    <3>2. Found(k)'
      BY <1>12, <1>15, <2>3, <3>1 DEF Found
    <3> QED
      BY <1>1, <1>9, <2>1, <2>7, <3>2 DEF SearchInv
  <2> QED
    BY <2>6, <2>7
<1> QED
  BY <1>18, <1>19

\* Halving a candidate that begins below the block.
LEMMA ShrinkDownKeeps == SearchInv /\ ShrinkDown => SearchInv'
<1> SUFFICES ASSUME SearchInv, ShrinkDown PROVE SearchInv'
  OBVIOUS
<1>1. Block /\ Block' /\ pc = "shrinkDown"
  BY DEF SearchInv, ShrinkDown, Block
<1>2. PICK j \in Nat, k \in Nat : Lowering(j, k)
  BY <1>1 DEF SearchInv
<1>3. PICK n \in Int : n = k - 1
  BY <1>2
<1>4. /\ W - 1 \in Nat /\ GrainPower \in Nat /\ Pow2[W - 1] < Pow2[W]
      /\ Pow2[W - 1] \in Nat /\ Pow2[W] \in Nat /\ MemoryEnd <= Pow2[W - 1] /\ MemoryEnd \in Nat
      /\ limit \in Nat /\ start \in Nat /\ addr \in Nat /\ limit <= MemoryEnd
  BY <1>1, Setting DEF Block
<1>5. /\ j \in GrainPower .. W - 1 /\ k \in j + 1 .. W - 1 /\ pow2 = k
      /\ Piece(bottom, top, k) /\ bottom < start
      /\ start <= top - Pow2[j] /\ top <= limit /\ top - Pow2[j] <= addr /\ addr < top
  BY <1>2 DEF Lowering, Inside, InBlock
<1>6. n \in Nat /\ j <= n /\ n + 1 = k /\ n \in GrainPower .. W - 1
  BY <1>3, <1>4, <1>5
<1>7. /\ pow2' = n /\ bottom' = Minus(top, Pow2[n])
      /\ pc' = IF TooLow(bottom') THEN "shrinkDown" ELSE "done"
      /\ start' = start /\ limit' = limit /\ end' = end /\ addr' = addr /\ top' = top /\ i' = i
  BY <1>3, <1>5 DEF ShrinkDown, Previous
<1>8. /\ Pow2[j] \in Nat \ {0} /\ Pow2[k] \in Nat \ {0} /\ Pow2[n] \in Nat \ {0}
      /\ Pow2[k] = 2 * Pow2[n] /\ Pow2[j] <= Pow2[n]
  <2>1. Pow2[n + 1] = 2 * Pow2[n]
    BY <1>6, Powers
  <2>2. Pow2[j] <= Pow2[n]
    BY <1>6, PowersNest
  <2> QED
    BY <1>6, <2>1, <2>2, Powers
<1>9. /\ bottom \in Nat /\ top \in Nat /\ top = bottom + Pow2[k]
      /\ Multiple(bottom, Pow2[k]) /\ Multiple(Pow2[k], Pow2[n])
  <2>1. n <= k
    BY <1>6
  <2> QED
    BY <1>5, <1>6, <1>8, <2>1, PowersNest DEF Piece
<1>10. bottom' = bottom + Pow2[n] /\ bottom' \in Nat /\ top = bottom' + Pow2[n]
  <2>1. Pow2[n] <= top /\ top - Pow2[n] < Pow2[W]
    BY <1>4, <1>5, <1>8, <1>9
  <2>2. Minus(top, Pow2[n]) = top - Pow2[n]
    BY <1>8, <1>9, <2>1, NoWrap
  <2> QED
    BY <1>7, <1>8, <1>9, <2>2
<1>11. Multiple(bottom', Pow2[n])
  <2>1. Multiple(bottom, Pow2[n])
    BY <1>8, <1>9, MultipleTrans
  <2>2. Multiple(Pow2[n], Pow2[n])
    BY <1>8, <1>9, <2>1, MultipleSum
  <2>3. Multiple(bottom + Pow2[n], Pow2[n])
    BY <1>8, <1>9, <2>1, <2>2, MultipleSum
  <2> QED
    BY <1>10, <2>3
<1>12. Piece(bottom, top, n)'
  BY <1>6, <1>7, <1>10, <1>11 DEF Piece
<1>13. CASE TooLow(bottom')
  <2>1. bottom' < start /\ pc' = "shrinkDown"
    BY <1>7, <1>13 DEF TooLow
  <2>2. n # j
    BY <1>4, <1>5, <1>8, <1>9, <1>10, <2>1
  <2>3. n \in j + 1 .. W - 1
    BY <1>4, <1>6, <2>2
  <2>4. Inside(top - Pow2[j], top)'
    BY <1>5, <1>7 DEF Inside, InBlock
  <2>5. Lowering(j, n)'
    BY <1>5, <1>7, <1>12, <2>1, <2>3, <2>4 DEF Lowering
  <2> QED
    BY <1>1, <1>6, <2>1, <2>5 DEF SearchInv
<1>14. CASE ~ TooLow(bottom')
  <2>1. start <= bottom' /\ pc' = "done"
    BY <1>4, <1>7, <1>10, <1>14 DEF TooLow
  <2>2. bottom' <= addr
    BY <1>4, <1>5, <1>8, <1>9, <1>10
  <2>3. Inside(bottom, top)'
    BY <1>5, <1>7, <2>1, <2>2 DEF Inside, InBlock
  <2>4. NoneLarger(n)
    <3>1. Piece(bottom, top, n + 1) /\ bottom <= addr /\ addr < top
      <4>1. bottom < start /\ start <= addr
        BY <1>1, <1>5 DEF Block
      <4>2. bottom <= addr
        BY <1>4, <1>9, <4>1
      <4> QED
        BY <1>5, <1>6, <4>2
    <3>2. ~ InBlock(bottom, top)
      BY <1>4, <1>5, <1>9 DEF InBlock
    <3> QED
      BY <1>4, <1>6, <3>1, <3>2, NextTooLarge
  <2>5. NoneLarger(n)'
    BY <1>7, <2>4 DEF NoneLarger, InBlock
  <2>6. Found(n)'
    BY <1>6, <1>12, <2>3, <2>5 DEF Found
  <2> QED
    BY <1>1, <1>6, <2>1, <2>6 DEF SearchInv
<1> QED
  BY <1>13, <1>14

\* Halving a candidate that ends behind the block.
LEMMA ShrinkUpKeeps == SearchInv /\ ShrinkUp => SearchInv'
<1> SUFFICES ASSUME SearchInv, ShrinkUp PROVE SearchInv'
  OBVIOUS
<1>1. Block /\ Block' /\ pc = "shrinkUp"
  BY DEF SearchInv, ShrinkUp, Block
<1>2. PICK j \in Nat, k \in Nat : Raising(j, k)
  BY <1>1 DEF SearchInv
<1>3. PICK n \in Int : n = k - 1
  BY <1>2
<1>4. /\ W - 1 \in Nat /\ GrainPower \in Nat /\ Pow2[W] \in Nat
      /\ Grain \in Nat \ {0} /\ Grain = Pow2[GrainPower]
      /\ limit \in Nat /\ start \in Nat /\ addr \in Nat /\ end \in {limit, limit + 1}
  BY <1>1, Setting DEF Block
<1>5. /\ j \in GrainPower .. W - 1 /\ k \in j + 1 .. W - 1 /\ pow2 = k
      /\ Piece(bottom, top, k) /\ top > end /\ top < Pow2[W]
      /\ start <= bottom /\ bottom + Pow2[j] <= limit /\ bottom <= addr /\ addr < bottom + Pow2[j]
  BY <1>2 DEF Raising, Inside, InBlock
<1>6. n \in Nat /\ j <= n /\ n + 1 = k /\ n \in GrainPower .. W - 1
  BY <1>3, <1>4, <1>5
<1>7. /\ pow2' = n /\ top' = Plus(bottom, Pow2[n])
      /\ pc' = IF TooHigh(top') THEN "shrinkUp" ELSE "done"
      /\ start' = start /\ limit' = limit /\ end' = end /\ addr' = addr /\ bottom' = bottom
      /\ i' = i
  BY <1>3, <1>5 DEF ShrinkUp, Previous
<1>8. /\ Pow2[j] \in Nat \ {0} /\ Pow2[k] \in Nat \ {0} /\ Pow2[n] \in Nat \ {0}
      /\ Pow2[k] = 2 * Pow2[n] /\ Pow2[j] <= Pow2[n]
  <2>1. Pow2[n + 1] = 2 * Pow2[n]
    BY <1>6, Powers
  <2>2. Pow2[j] <= Pow2[n]
    BY <1>6, PowersNest
  <2> QED
    BY <1>6, <2>1, <2>2, Powers
<1>9. /\ bottom \in Nat /\ top \in Nat /\ top = bottom + Pow2[k]
      /\ Multiple(bottom, Pow2[k]) /\ Multiple(Pow2[k], Pow2[n])
  <2>1. n <= k
    BY <1>6
  <2> QED
    BY <1>5, <1>6, <1>8, <2>1, PowersNest DEF Piece
<1>10. top' = bottom + Pow2[n] /\ top' \in Nat
  <2>1. bottom + Pow2[n] < Pow2[W]
    BY <1>4, <1>5, <1>8, <1>9
  <2>2. Plus(bottom, Pow2[n]) = bottom + Pow2[n]
    BY <1>8, <1>9, <2>1, NoWrap
  <2> QED
    BY <1>7, <1>8, <1>9, <2>2
<1>11. Multiple(bottom, Pow2[n])
  BY <1>8, <1>9, MultipleTrans
<1>12. Piece(bottom, top, n)'
  BY <1>6, <1>7, <1>9, <1>10, <1>11 DEF Piece
<1>13. addr < top'
  BY <1>4, <1>5, <1>8, <1>9, <1>10
<1>14. CASE TooHigh(top')
  <2>1. top' > end /\ pc' = "shrinkUp"
    BY <1>7, <1>14 DEF TooHigh
  <2>2. n # j
    BY <1>4, <1>5, <1>8, <1>9, <1>10, <2>1
  <2>3. n \in j + 1 .. W - 1
    BY <1>4, <1>6, <2>2
  <2>4. Inside(bottom, bottom + Pow2[j])'
    BY <1>5, <1>7 DEF Inside, InBlock
  <2>5. top' < Pow2[W]
    BY <1>4, <1>5, <1>8, <1>9, <1>10
  <2>6. Raising(j, n)'
    BY <1>5, <1>7, <1>12, <2>1, <2>3, <2>4, <2>5 DEF Raising
  <2> QED
    BY <1>1, <1>6, <2>1, <2>6 DEF SearchInv
<1>15. CASE ~ TooHigh(top')
  <2>1. top' <= end /\ pc' = "done"
    BY <1>4, <1>7, <1>10, <1>15 DEF TooHigh
  <2>2. Multiple(top', Grain)
    <3>1. Multiple(bottom, Grain)
      <4>1. GrainPower <= n
        BY <1>6
      <4> QED
        BY <1>4, <1>6, <1>11, <4>1, Coarser
    <3>2. Multiple(Pow2[n], Grain)
      <4>1. GrainPower <= n
        BY <1>6
      <4> QED
        BY <1>4, <1>6, <4>1, PowersNest
    <3>3. Multiple(bottom + Pow2[n], Grain)
      BY <1>4, <1>8, <1>9, <3>1, <3>2, MultipleSum
    <3> QED
      BY <1>10, <3>3
  <2>3. top' <= limit
    BY <1>1, <1>10, <2>1, <2>2, Gap
  <2>4. Inside(bottom, top)'
    BY <1>5, <1>7, <1>13, <2>3 DEF Inside, InBlock
  <2>5. NoneLarger(n)
    <3>1. Piece(bottom, top, n + 1) /\ bottom <= addr /\ addr < top
      BY <1>4, <1>5, <1>6, <1>8, <1>9
    <3>2. ~ InBlock(bottom, top)
      BY <1>4, <1>5, <1>9 DEF InBlock
    <3> QED
      BY <1>4, <1>6, <3>1, <3>2, NextTooLarge
  <2>6. NoneLarger(n)'
    BY <1>7, <2>5 DEF NoneLarger, InBlock
  <2>7. Found(n)'
    BY <1>6, <1>12, <2>4, <2>6 DEF Found
  <2> QED
    BY <1>1, <1>6, <2>1, <2>7 DEF SearchInv
<1> QED
  BY <1>14, <1>15

\* The search finds a region as SearchInv says.
THEOREM SearchInvHolds == AtTheEnd = FALSE /\ Spec => []SearchInv
<1>1. SearchInv /\ UNCHANGED vars => SearchInv'
  BY DEF SearchInv, Block, Searching, Lowering, Raising, Found, NoneLarger, Inside, InBlock,
         Piece, vars
<1>2. SearchInv /\ [Next]_vars => SearchInv'
  BY <1>1, GrowDownKeeps, GrowUpKeeps, ShrinkDownKeeps, ShrinkUpKeeps DEF Next
<1> QED
  BY <1>2, SearchStarts, PTL DEF Spec

\* The region that is loaded covers the address that faulted and nothing outside the
\* block, whatever the width of the address space and the bound of the for loop.
THEOREM RegionInBlockHolds == AtTheEnd = FALSE /\ Spec => []RegionInBlock
<1>1. SearchInv => RegionInBlock
  BY DEF SearchInv, Found, RegionInBlock
<1> QED
  BY <1>1, SearchInvHolds, PTL

\* At every step of the search the candidate is a power of two, aligned on its size.
THEOREM RegionAlignedHolds == AtTheEnd = FALSE /\ Spec => []RegionAligned
<1>1. SearchInv => RegionAligned
  <2> SUFFICES ASSUME SearchInv PROVE RegionAligned
    OBVIOUS
  <2>1. W \in Nat /\ W - 1 \in Nat /\ GrainPower \in Nat
    BY Setting
  <2>2. PICK k \in 0 .. W : Piece(bottom, top, k)
    BY <2>1 DEF SearchInv, Searching, Lowering, Raising, Found
  <2>3. /\ bottom \in Nat /\ Multiple(bottom, Pow2[k]) /\ top = bottom + Pow2[k]
        /\ Pow2[k] \in Nat \ {0}
    BY <2>2, Powers DEF Piece
  <2>4. (bottom % Pow2[k]) = 0
    BY <2>3, MultipleMod
  <2>5. top - bottom = Pow2[k]
    BY <2>3
  <2> QED
    BY <2>4, <2>5 DEF RegionAligned
<1> QED
  BY <1>1, SearchInvHolds, PTL

\* No region that covers the address and lies in the block is larger, when the for
\* loop may run as often as the address has bits (malinternal.c:425).
THEOREM RegionLargestHolds == AtTheEnd = FALSE /\ W <= Rounds /\ Spec => []RegionLargest
<1> SUFFICES ASSUME W <= Rounds PROVE AtTheEnd = FALSE /\ Spec => []RegionLargest
  OBVIOUS
<1>1. SearchInv => RegionLargest
  <2> SUFFICES ASSUME SearchInv, pc = "done", NEW k \in 0 .. W,
                      Inside(addr - (addr % Pow2[k]), addr - (addr % Pow2[k]) + Pow2[k])
               PROVE  Pow2[k] <= top - bottom
    BY DEF RegionLargest
  <2>1. PICK j \in Nat : Found(j)
    BY DEF SearchInv
  <2>2. bottom \in Nat /\ top = bottom + Pow2[j] /\ NoneLarger(j)
    BY <2>1 DEF Found, Piece
  <2>3. k \in Nat /\ Pow2[j] \in Nat /\ Pow2[k] \in Nat
    BY Powers, Setting
  <2>4. ~ (j < k)
    BY <2>2, <2>3 DEF NoneLarger, Inside
  <2>5. Pow2[k] <= Pow2[j]
    BY <2>3, <2>4, PowersNest
  <2> QED
    BY <2>2, <2>3, <2>5
<1> QED
  BY <1>1, SearchInvHolds, PTL
=============================================================================
