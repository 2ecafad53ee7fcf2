---------------------------- MODULE CoveringRegion -----------------------------
(***************************************************************************)
(* largest_covering_MPU_region (malinternal.c): the MPU region that is     *)
(* loaded for a block larger than one region.  The function is run step by *)
(* step, on every block and every address of the block.                    *)
(*                                                                         *)
(* The smallest region, 32 bytes, has Grain units, and blocks start and    *)
(* end on its multiples.  The last byte of a block given at boot ends it;  *)
(* cutMemoryBlock stores the first byte behind the left part instead.      *)
(***************************************************************************)
EXTENDS Integers

CONSTANTS
  W,           \* there are 2^W units in the address space
  Rounds,      \* the bound of the for loop
  MemoryEnd,   \* the unit behind the last memory of the board
  Grain,       \* units of the smallest region
  AtTheEnd     \* whether the address stored as the end is covered as well

\* 1 << k.
Pow2[k \in Nat] == IF k = 0 THEN 1 ELSE 2 * Pow2[k - 1]

\* The smallest region has 32 bytes, more than one unit.
ASSUME WidthAssumption ==
  /\ W \in Nat \ {0} /\ Rounds \in Nat \ {0}
  /\ MemoryEnd \in 1 .. Pow2[W - 1]
  /\ Grain \in {Pow2[k] : k \in 1 .. W - 1} /\ Grain <= MemoryEnd
  /\ AtTheEnd \in BOOLEAN

VARIABLES
  start, limit,       \* the block, and the unit behind it
  end,                \* endAddr, the stored end and one more
  addr,               \* addrtocover
  bottom, top,        \* the candidate
  pow2,               \* tmp_maxpow2
  i,                  \* rounds of the for loop done
  pc                  \* which loop runs

vars == <<start, limit, end, addr, bottom, top, pow2, i, pc>>

\* Unsigned arithmetic.
Plus(a, b)  == (a + b) % Pow2[W]
Minus(a, b) == (a + Pow2[W] - b) % Pow2[W]

-----------------------------------------------------------------------------
(* Plausible mistakes, one per property, each to stand in for a definition *)
(* below.                                                                  *)

ReachesEnd(t)     == t >= end
OneRegionBelow(b) == b + Grain < start
AlignedTwice(v)   == IF v = 0 THEN W ELSE (CHOOSE k \in 0 .. W : v % Pow2[k] = 0
                                               /\ v % Pow2[k + 1] # 0) + 1
SamePower(k)      == k

-----------------------------------------------------------------------------
max_powlog2_alignment(v) ==
  IF v = 0 THEN W - 1
  ELSE CHOOSE k \in 0 .. W : v % Pow2[k] = 0 /\ v % Pow2[k + 1] # 0

TooLow(b)   == b < start
TooHigh(t)  == t > end
Previous(k) == k - 1

\* addr <= endAddr, the test of isMappedInVirtualMpu.
isMappedInVirtualMpu(a) == start <= a /\ a < end

\* An address of a block, and the smallest region around it.
Init ==
  /\ start \in {n \in 0 .. MemoryEnd - 1 : n % Grain = 0}
  /\ limit \in {n \in start + 1 .. MemoryEnd : n % Grain = 0}
  /\ end \in {limit, limit + 1}
  /\ addr \in {n \in start .. limit : isMappedInVirtualMpu(n) /\ (n < limit \/ AtTheEnd)}
  /\ bottom = addr - (addr % Grain) /\ top = Plus(bottom, Grain)
  /\ pow2 = 0 /\ i = 0
  /\ pc = "search"

\* The for loop goes on while the region is in the block and rounds are left: the
\* region 0 .. 2^(W-1) would be found again and again (malinternal.c:425).
Continue == IF i' < Rounds THEN "search" ELSE "done"

\* One round of it: the end with the better alignment stays.
GrowDown ==
  LET k == max_powlog2_alignment(top)
  IN  /\ pc = "search"
      /\ k > max_powlog2_alignment(bottom)
      /\ bottom' = Minus(top, Pow2[k])
      /\ pow2' = k /\ i' = i + 1
      /\ pc' = IF TooLow(bottom') THEN "shrinkDown" ELSE Continue
      /\ UNCHANGED <<start, limit, end, addr, top>>

GrowUp ==
  LET k == max_powlog2_alignment(bottom)
  IN  /\ pc = "search"
      /\ k >= max_powlog2_alignment(top)
      /\ top' = Plus(bottom, Pow2[k])
      /\ pow2' = k /\ i' = i + 1
      /\ pc' = IF TooHigh(top') THEN "shrinkUp" ELSE Continue
      /\ UNCHANGED <<start, limit, end, addr, bottom>>

\* One round of the inner loops.
ShrinkDown ==
  /\ pc = "shrinkDown"
  /\ pow2' = Previous(pow2)
  /\ bottom' = Minus(top, Pow2[pow2'])
  /\ pc' = IF TooLow(bottom') THEN "shrinkDown" ELSE "done"
  /\ UNCHANGED <<start, limit, end, addr, top, i>>

ShrinkUp ==
  /\ pc = "shrinkUp"
  /\ pow2' = Previous(pow2)
  /\ top' = Plus(bottom, Pow2[pow2'])
  /\ pc' = IF TooHigh(top') THEN "shrinkUp" ELSE "done"
  /\ UNCHANGED <<start, limit, end, addr, bottom, i>>

Next == GrowDown \/ GrowUp \/ ShrinkDown \/ ShrinkUp

\* The function runs in the kernel without interruption.
Spec == Init /\ [][Next]_vars /\ WF_vars(Next)

-----------------------------------------------------------------------------
(* Properties.                                                             *)

InBlock(b, t) == start <= b /\ t <= limit
Inside(b, t)  == InBlock(b, t) /\ b <= addr /\ addr < t

\* The region that is returned covers the address and nothing outside the block
\* (malinternal.c:403, "possible within the block's bounds"), whichever of the
\* two addresses the block has as its end.
RegionInBlock == pc = "done" => Inside(bottom, top)

\* The handler asks for a region for every address that isMappedInVirtualMpu
\* accepts; the answer should be "within the block" (malinternal.c:412).  For
\* the address behind the left part of a cut it is not.
RegionWithinBlock == pc = "done" => InBlock(bottom, top)

\* At every step the candidate is what an MPU region must be, a power of two
\* aligned on its size, so the search may stop anywhere.
RegionAligned ==
  \E k \in 0 .. W : top - bottom = Pow2[k] /\ bottom % Pow2[k] = 0

\* No aligned region within the block that covers the address is larger
\* (malinternal.c:403, "Computes the largest MPU region possible").
RegionLargest ==
  pc = "done" =>
    \A k \in 0 .. W :
      LET b == addr - (addr % Pow2[k])
      IN  Inside(b, b + Pow2[k]) => Pow2[k] <= top - bottom

\* The loops end, for every block and address.
Termination == <>(pc = "done")
=============================================================================
