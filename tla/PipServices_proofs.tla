------------------------- MODULE PipServices_proofs --------------------------
(***************************************************************************)
(* Every memory service keeps the kernel data consistent and guarded: the  *)
(* step of the inductive invariant, service by service.  At the end, where *)
(* the services leave blocks, regions and VIDTs.                           *)
(***************************************************************************)
EXTENDS PipMemory_proofs

-----------------------------------------------------------------------------
(* The memory of a partition: what it owns, what of it it may access and   *)
(* what holds the kernel's data about it.                                  *)

Unit == 1 .. Top

Extent(m, e) == m.slot[e].start .. m.slot[e].end - 1

PoolIn(m, p) == {u \in Unit : \E e \in BlocksIn(m, p) : Holds(m, p, e, u)}
OpenIn(m, p) ==
  {u \in Unit : \E e \in BlocksIn(m, p) : m.slot[e].accessible /\ Holds(m, p, e, u)}
KernIn(m, p) ==
  {u \in Unit : \/ p <= u /\ u < p + PDSize
                \/ \E k \in StructsOf(m, p) : k <= u /\ u < k + KSSize}

\* The partitions of L keep their parents, what they own and their structures.
SameOwners(m, n, L) ==
  \A p \in L : /\ n.pd[p].parent = m.pd[p].parent
               /\ PoolIn(n, p) = PoolIn(m, p) /\ KernIn(n, p) = KernIn(m, p)

\* They may access what they could, as well.
SameMemory(m, n, L) ==
  SameOwners(m, n, L) /\ \A p \in L : OpenIn(n, p) = OpenIn(m, p)

\* Two steps that move no memory of L make one that moves none.
LEMMA SameMemoryTrans ==
  ASSUME NEW m, NEW n, NEW o, NEW L, SameMemory(m, n, L), SameMemory(n, o, L)
  PROVE  SameMemory(m, o, L)
BY DEF SameMemory, SameOwners

\* A block of a partition lies in its memory, an accessible one in the part it
\* may access.
LEMMA ExtentIn ==
  ASSUME NEW m \in Good, NEW L \in SUBSET PDAddr, Ranges(m, L),
         NEW p \in L, NEW e \in BlocksIn(m, p)
  PROVE  /\ Extent(m, e) \subseteq PoolIn(m, p)
         /\ m.slot[e].accessible => Extent(m, e) \subseteq OpenIn(m, p)
         /\ \A u \in Unit : u \in Extent(m, e) <=> Holds(m, p, e, u)
         /\ m.slot[e].start \in Extent(m, e)
<1>1. /\ m.slot[e].start \in Nat /\ m.slot[e].end \in Nat /\ Top \in Nat
      /\ 1 <= m.slot[e].start /\ m.slot[e].start < m.slot[e].end
      /\ m.slot[e].end <= Top + 1
  BY BlockType, BlockRange, ConstantsAssumption
<1>2. \A u : u \in Extent(m, e) => u \in Unit /\ Holds(m, p, e, u)
  BY <1>1 DEF Extent, Holds, Unit
<1>3. \A u \in Unit : u \in Extent(m, e) <=> Holds(m, p, e, u)
  BY <1>1 DEF Extent, Holds, Unit
<1>4. m.slot[e].start \in Extent(m, e)
  BY <1>1 DEF Extent
<1> QED
  BY <1>2, <1>3, <1>4 DEF PoolIn, OpenIn

\* Memory whose slots have the same shape has the same owners.
LEMMA ShapeOwners ==
  ASSUME NEW m \in Good, NEW n \in Good, NEW L \in SUBSET PDAddr, SameShape(m, n, L)
  PROVE  /\ SameOwners(m, n, L)
         /\ \A p \in L : \A e \in BlocksIn(m, p) : \A u :
              Holds(n, p, e, u) <=> Holds(m, p, e, u)
<1> SUFFICES ASSUME NEW p \in L
             PROVE  /\ n.pd[p].parent = m.pd[p].parent
                    /\ PoolIn(n, p) = PoolIn(m, p) /\ KernIn(n, p) = KernIn(m, p)
                    /\ \A e \in BlocksIn(m, p) : \A u :
                         Holds(n, p, e, u) <=> Holds(m, p, e, u)
  BY DEF SameOwners
<1>1. /\ StructsOf(n, p) = StructsOf(m, p) /\ BlocksIn(n, p) = BlocksIn(m, p)
      /\ \A e \in BlocksIn(m, p) : SameEntry(n.slot[e], m.slot[e])
      /\ SameLinks(n.pd[p], m.pd[p])
  BY ShapeSlots
<1>2. \A e \in BlocksIn(m, p) : \A u : Holds(n, p, e, u) <=> Holds(m, p, e, u)
  BY <1>1 DEF SameEntry, Holds
<1>3. PoolIn(n, p) = PoolIn(m, p)
  BY <1>1, <1>2 DEF PoolIn
<1>4. KernIn(n, p) = KernIn(m, p)
  BY <1>1 DEF KernIn
<1> QED
  BY <1>1, <1>2, <1>3, <1>4 DEF SameLinks

\* It has the same memory when its blocks are as accessible.
LEMMA ShapeMemory ==
  ASSUME NEW m \in Good, NEW n \in Good, NEW L \in SUBSET PDAddr, SameShape(m, n, L),
         \A p \in L : \A e \in BlocksIn(m, p) :
           n.slot[e].accessible <=> m.slot[e].accessible
  PROVE  SameMemory(m, n, L)
<1>1. SameOwners(m, n, L)
  BY ShapeOwners
<1>2. ASSUME NEW p \in L PROVE OpenIn(n, p) = OpenIn(m, p)
  <2>1. BlocksIn(n, p) = BlocksIn(m, p)
    BY ShapeSlots
  <2>2. \A e \in BlocksIn(m, p) : \A u : Holds(n, p, e, u) <=> Holds(m, p, e, u)
    BY ShapeOwners
  <2> QED
    BY <2>1, <2>2 DEF OpenIn
<1> QED
  BY <1>1, <1>2 DEF SameMemory

\* So has a partition whose blocks have their ranges.
LEMMA RangeMemory ==
  ASSUME NEW m, NEW n, NEW p, BlocksIn(n, p) = BlocksIn(m, p),
         \A e \in BlocksIn(m, p) : SameRange(n.slot[e], m.slot[e])
  PROVE  /\ PoolIn(n, p) = PoolIn(m, p)
         /\ \A e, u : Holds(n, p, e, u) <=> Holds(m, p, e, u)
         /\ (\A e \in BlocksIn(m, p) : n.slot[e].accessible <=> m.slot[e].accessible)
              => OpenIn(n, p) = OpenIn(m, p)
<1>1. \A e, u : Holds(n, p, e, u) <=> Holds(m, p, e, u)
  BY DEF Holds, SameRange
<1>2. PoolIn(n, p) = PoolIn(m, p)
  BY <1>1 DEF PoolIn
<1>3. (\A e \in BlocksIn(m, p) : n.slot[e].accessible <=> m.slot[e].accessible)
        => OpenIn(n, p) = OpenIn(m, p)
  BY <1>1 DEF OpenIn
<1> QED
  BY <1>1, <1>2, <1>3

\* A block that p may use and has given to nobody.
Usable(m, p, e) ==
  e \in BlocksIn(m, p) /\ m.slot[e].accessible /\ m.slot[e].inChild = NullSlot

\* The partitions of L may no longer access e.
Seized(m, n, L, e) ==
  \A x \in L : /\ n.pd[x].parent = m.pd[x].parent /\ PoolIn(n, x) = PoolIn(m, x)
               /\ OpenIn(n, x) = OpenIn(m, x) \ Extent(m, e)

\* What HidesOnly says of the memory.
LEMMA HidesOnlyOpen ==
  ASSUME NEW m \in Good, NEW n \in Good, NEW L \in SUBSET PDAddr, SameShape(m, n, L),
         NEW p \in L, NEW e \in BlocksIn(m, p), HidesOnly(m, n, L, e), NEW x \in L
  PROVE  OpenIn(n, x) \subseteq OpenIn(m, x) /\ OpenIn(m, x) \ Extent(m, e) \subseteq OpenIn(n, x)
<1>1. /\ \A f \in BlocksIn(m, x) : \A u : Holds(n, x, f, u) <=> Holds(m, x, f, u)
      /\ BlocksIn(n, x) = BlocksIn(m, x)
  BY ShapeOwners, ShapeSlots
<1>2. m.slot[e].start \in Nat /\ m.slot[e].end \in Nat
  BY BlockType
<1>3. OpenIn(n, x) \subseteq OpenIn(m, x)
  BY <1>1 DEF OpenIn, HidesOnly
<1>4. ASSUME NEW u \in OpenIn(m, x), u \notin Extent(m, e)
      PROVE  u \in OpenIn(n, x)
  <2>1. PICK f \in BlocksIn(m, x) : m.slot[f].accessible /\ Holds(m, x, f, u)
    BY DEF OpenIn
  <2>2. u \in Unit /\ u \in Int
    BY DEF OpenIn, Unit
  <2>3. ~ SameRange(m.slot[f], m.slot[e])
    BY <1>2, <1>4, <2>1, <2>2 DEF Extent, Holds, SameRange
  <2>4. n.slot[f].accessible
    BY <2>1, <2>3 DEF HidesOnly
  <2> QED
    BY <1>1, <2>1, <2>2, <2>4 DEF OpenIn
<1> QED
  BY <1>3, <1>4

\* To hide a block of p that is in no child takes it, and nothing else, from
\* everyone.
LEMMA HiddenMemory ==
  ASSUME NEW m \in Good, NEW n \in Good, NEW L \in SUBSET PDAddr, SameShape(m, n, L),
         Consistent(n, L), Guarded(n, L), NEW p \in L, NEW e \in BlocksIn(m, p),
         m.slot[e].inChild = NullSlot, HidesOnly(m, n, L, e), ~ n.slot[e].accessible
  PROVE  Seized(m, n, L, e) /\ SameOwners(m, n, L)
<1>1. SameOwners(m, n, L)
  BY ShapeOwners
<1>2. \A x \in L : /\ BlocksIn(n, x) = BlocksIn(m, x)
                   /\ \A f \in BlocksIn(m, x) : SameEntry(n.slot[f], m.slot[f])
  BY ShapeSlots
<1>3. /\ e \in BlocksIn(n, p) /\ n.slot[e].inChild = NullSlot
      /\ n.slot[e].start = m.slot[e].start /\ n.slot[e].end = m.slot[e].end
      /\ m.slot[e].start \in Nat /\ m.slot[e].end \in Nat
  BY <1>2, BlockType DEF SameEntry
<1>4. ASSUME NEW x \in L, NEW u \in OpenIn(n, x)
      PROVE  u \notin Extent(m, e)
  <2>1. PICK f \in BlocksIn(n, x) : n.slot[f].accessible /\ Holds(n, x, f, u)
    BY DEF OpenIn
  <2>2. u \in Unit /\ u \in Int
    BY DEF OpenIn, Unit
  <2>3. ~ Overlap(n.slot[f], n.slot[e])
    BY <1>3, <2>1, AccessibleBelow DEF Consistent, Guarded
  <2>4. n.slot[f].start \in Nat /\ n.slot[f].end \in Nat
    BY <2>1, BlockType
  <2> QED
    BY <1>3, <2>1, <2>2, <2>3, <2>4 DEF Extent, Holds, Overlap
<1>5. \A x \in L : OpenIn(n, x) = OpenIn(m, x) \ Extent(m, e)
  <2>1. \A x \in L : /\ OpenIn(n, x) \subseteq OpenIn(m, x)
                     /\ OpenIn(m, x) \ Extent(m, e) \subseteq OpenIn(n, x)
    BY HidesOnlyOpen
  <2> QED
    BY <1>4, <2>1
<1>6. Seized(m, n, L, e)
  BY <1>1, <1>5 DEF Seized, SameOwners
<1> QED
  BY <1>1, <1>6

\* What the children of L show, their parents still show.
StaysOpen(m, n, L, K) == OpenAbove(m, L) => OpenAbove(n, K)

\* Blocks that stay as they are stay open.
LEMMA SlotsStayOpen ==
  ASSUME NEW m, NEW n, NEW L, n.slot = m.slot,
         \A q \in L : n.pd[q].structs = m.pd[q].structs
  PROVE  StaysOpen(m, n, L, L)
BY DEF StaysOpen, OpenAbove, BlocksIn, SlotsOf, IsCut

\* Two steps that keep them open make one that does.
LEMMA StaysOpenTrans ==
  ASSUME NEW m, NEW n, NEW o, NEW L, NEW K, NEW M,
         StaysOpen(m, n, L, K), StaysOpen(n, o, K, M)
  PROVE  StaysOpen(m, o, L, M)
BY DEF StaysOpen

\* A block hidden from everyone hides none that a child still shows.
LEMMA HiddenStaysOpen ==
  ASSUME NEW m \in Good, NEW n \in Good, NEW L \in SUBSET PDAddr, SameShape(m, n, L),
         Consistent(n, L), Guarded(n, L), NEW p \in L, NEW e \in BlocksIn(m, p),
         m.slot[e].inChild = NullSlot, HidesOnly(m, n, L, e), ~ n.slot[e].accessible
  PROVE  StaysOpen(m, n, L, L)
<1> SUFFICES ASSUME OpenAbove(m, L), NEW x \in L, NEW f \in BlocksIn(n, x),
                    n.slot[f].inChild # NullSlot, ~ IsCut(n, n.slot[f].inChild),
                    n.slot[n.slot[f].inChild].accessible, ~ n.slot[f].accessible
             PROVE  FALSE
  BY DEF StaysOpen, OpenAbove
<1> DEFINE h == n.slot[f].inChild
           y == n.slot[f].PDchild
<1>1. \A z \in L : /\ BlocksIn(n, z) = BlocksIn(m, z)
                   /\ \A g \in BlocksIn(m, z) : SameEntry(n.slot[g], m.slot[g])
  BY ShapeSlots
<1>2. y \in L /\ h \in BlocksIn(n, y) /\ SameRange(n.slot[h], n.slot[f])
  BY CopyRange DEF Consistent
<1>3. /\ f \in BlocksIn(m, x) /\ m.slot[f].inChild = h
      /\ ~ IsCut(m, h) /\ m.slot[h].accessible
  BY <1>1, <1>2 DEF SameEntry, IsCut, HidesOnly
<1>4. m.slot[f].accessible
  BY <1>2, <1>3 DEF OpenAbove, Consistent, Tree
<1>5. SameRange(m.slot[f], m.slot[e])
  BY <1>3, <1>4 DEF HidesOnly
<1>6. /\ e \in BlocksIn(n, p) /\ n.slot[e].inChild = NullSlot
      /\ SameRange(n.slot[h], n.slot[e])
  BY <1>1, <1>2, <1>3, <1>5 DEF SameEntry, SameRange
<1>7. Overlap(n.slot[h], n.slot[e])
  BY <1>2, <1>6, BlockType, BlockRange DEF Consistent, Overlap, SameRange
<1> QED
  BY <1>2, <1>6, <1>7, AccessibleBelow DEF Consistent, Guarded

-----------------------------------------------------------------------------
(* Descriptors.                                                            *)

\* Consistent and guarded, with c among the partitions; one that is not of L
\* is new and has nothing in its MPU.
SoundFor(m, c, L) ==
  \E K \in SUBSET PDAddr :
    /\ c \in K /\ Consistent(m, K) /\ Guarded(m, K)
    /\ \A q \in K \ L : \A r \in Regions : m.pd[q].mpu[r] = NullSlot

\* What a service leaves is consistent and guarded when the memory it commits is.
LEMMA CommitSound ==
  ASSUME NEW n \in Good, NEW K \in SUBSET PDAddr, Consistent(n, K), Guarded(n, K),
         NEW c \in K, NEW L, \A q \in K \ L : \A r \in Regions : n.pd[q].mpu[r] = NullSlot,
         Commit(n)
  PROVE  SoundFor(Mem', c, L) /\ Mem' = n
<1>1. n = [slot |-> n.slot, pd |-> n.pd]
  BY DEF Good
<1>2. slot' = n.slot /\ pd' = n.pd
  BY DEF Commit
<1>3. Mem' = n
  BY <1>1, <1>2 DEF Mem
<1>4. SoundFor(n, c, L)
  BY DEF SoundFor
<1> QED
  BY <1>3, <1>4

\* Changing the MPU of partitions to what they may map changes nothing else.
LEMMA OnlyMPU ==
  ASSUME NEW m \in Good, NEW n \in Good, NEW L \in SUBSET PDAddr,
         Consistent(m, L), Guarded(m, L), n.slot = m.slot,
         \A q \in L : SameLinks(n.pd[q], m.pd[q]),
         MPUMapsAccessible(n, L)
  PROVE  /\ Consistent(n, L) /\ Guarded(n, L) /\ SameMemory(m, n, L)
         /\ StaysOpen(m, n, L, L)
<1>6. StaysOpen(m, n, L, L)
  BY SlotsStayOpen DEF SameLinks
<1>1. SameShape(m, n, L)
  BY DEF SameShape, SameEntry
<1>5. SameMemory(m, n, L)
  BY <1>1, ShapeMemory
<1>2. Consistent(n, L)
  BY <1>1, ShapeConsistent
<1>3. \A p \in L : BlocksIn(n, p) = BlocksIn(m, p) /\ StructsOf(n, p) = StructsOf(m, p)
  BY <1>1, ShapeSlots
<1>4. KernelBlocksHidden(n, L) /\ CopiesAccessible(n, L)
  BY <1>3 DEF Guarded, KernelBlocksHidden, CopiesAccessible, IsKernel, IsCut
<1> QED
  BY <1>2, <1>4, <1>5, <1>6 DEF Guarded

\* enableBlockInMPU with a block that is accessible and not yet mapped.
LEMMA EnableKeeps ==
  ASSUME NEW m \in Good, NEW L \in SUBSET PDAddr, Consistent(m, L), Guarded(m, L),
         NEW p \in L, NEW e \in SlotRef,
         e # NullSlot => /\ e \in BlocksIn(m, p) /\ m.slot[e].accessible
                         /\ \A k \in Regions : m.pd[p].mpu[k] # e,
         NEW r
  PROVE  LET n == enableBlockInMPU(m, p, e, r)
         IN  /\ n \in Good /\ Consistent(n, L) /\ Guarded(n, L) /\ SameMemory(m, n, L)
             /\ StaysOpen(m, n, L, L)
<1> DEFINE n == enableBlockInMPU(m, p, e, r)
<1>1. n \in Good
  BY enableBlockInMPUGood
<1>2. CASE r \notin Regions
  BY <1>2 DEF enableBlockInMPU, SameMemory, SameOwners, StaysOpen
<1>3. CASE r \in Regions
  <2>1. p \in PDAddr /\ m.pd[p] \in GoodPD
    BY DEF Good
  <2>2. /\ n.slot = m.slot
        /\ \A q \in PDAddr : q # p => n.pd[q] = m.pd[q]
        /\ n.pd[p] = [m.pd[p] EXCEPT !.mpu[r] = e]
    BY <1>3, <2>1 DEF enableBlockInMPU, Good
  <2>3. SameLinks(n.pd[p], m.pd[p])
    BY <2>1, <2>2 DEF SameLinks, GoodPD, Descriptor
  <2>4. \A k \in Regions : n.pd[p].mpu[k] = IF k = r THEN e ELSE m.pd[p].mpu[k]
    BY <1>3, <2>1, <2>2 DEF GoodPD, Descriptor
  <2> HIDE DEF n
  <2>5. \A q \in L : SameLinks(n.pd[q], m.pd[q])
    BY <2>2, <2>3 DEF SameLinks
  <2>6. \A q \in L : BlocksIn(n, q) = BlocksIn(m, q)
    BY <2>2, <2>5 DEF SameLinks, BlocksIn, SlotsOf
  <2>7. MPUMapsAccessible(n, L)
    <3> SUFFICES ASSUME NEW q \in L, NEW k \in Regions, n.pd[q].mpu[k] # NullSlot
                 PROVE  /\ n.pd[q].mpu[k] \in BlocksIn(n, q)
                        /\ n.slot[n.pd[q].mpu[k]].accessible
                        /\ \A l \in Regions : n.pd[q].mpu[l] = n.pd[q].mpu[k] => l = k
      BY DEF MPUMapsAccessible
    <3>1. ASSUME m.pd[q].mpu[k] # NullSlot
          PROVE  /\ m.pd[q].mpu[k] \in BlocksIn(m, q)
                 /\ m.slot[m.pd[q].mpu[k]].accessible
                 /\ \A l \in Regions : m.pd[q].mpu[l] = m.pd[q].mpu[k] => l = k
      BY <3>1 DEF Guarded, MPUMapsAccessible
    <3>2. CASE q # p
      BY <2>2, <2>6, <3>1, <3>2
    <3>3. CASE q = p /\ k = r
      <4>1. n.pd[q].mpu[k] = e
        BY <2>4, <3>3
      <4> QED
        BY ZenonT(30), <2>2, <2>4, <2>6, <3>3, <4>1
    <3>4. CASE q = p /\ k # r
      <4>1. n.pd[q].mpu[k] = m.pd[q].mpu[k]
        BY <2>4, <3>4
      <4> QED
        BY <2>2, <2>4, <2>6, <3>1, <3>4, <4>1
    <3> QED
      BY <3>2, <3>3, <3>4
  <2>8. Consistent(n, L) /\ Guarded(n, L) /\ SameMemory(m, n, L) /\ StaysOpen(m, n, L, L)
    BY <1>1, <2>2, <2>5, <2>7, OnlyMPU DEF n
  <2> QED
    BY <1>1, <2>8 DEF n
<1> QED
  BY <1>2, <1>3

\* Unmap.
LEMMA UnmapKeeps ==
  ASSUME NEW m \in Good, NEW L \in SUBSET PDAddr, Consistent(m, L), Guarded(m, L),
         NEW p \in L, NEW E
  PROVE  LET n == [m EXCEPT !.pd[p] = Unmap(@, E)]
         IN  /\ n \in Good /\ Consistent(n, L) /\ Guarded(n, L) /\ n.slot = m.slot
             /\ SameMemory(m, n, L) /\ StaysOpen(m, n, L, L)
             /\ \A r \in Regions : n.pd[p].mpu[r] = IF m.pd[p].mpu[r] \in E THEN NullSlot
                                                    ELSE m.pd[p].mpu[r]
<1> DEFINE d == Unmap(m.pd[p], E)
           n == [m EXCEPT !.pd[p] = d]
<1>1. p \in PDAddr /\ m.pd[p] \in GoodPD
  BY DEF Good
<1>2. /\ d \in GoodPD /\ SameLinks(d, m.pd[p])
      /\ \A r \in Regions : d.mpu[r] = IF m.pd[p].mpu[r] \in E THEN NullSlot
                                       ELSE m.pd[p].mpu[r]
  BY <1>1, UnmapGood, UnmapLinks
<1> HIDE DEF d
<1>3. /\ n \in Good /\ n.slot = m.slot
      /\ \A q \in PDAddr : n.pd[q] = IF q = p THEN d ELSE m.pd[q]
  BY <1>1, <1>2 DEF Good
<1> HIDE DEF n
<1>4. \A q \in L : SameLinks(n.pd[q], m.pd[q])
  BY <1>2, <1>3 DEF SameLinks
<1>5. \A q \in L : BlocksIn(n, q) = BlocksIn(m, q)
  BY <1>3, <1>4 DEF SameLinks, BlocksIn, SlotsOf
<1>6. \A q \in L : \A r \in Regions :
        n.pd[q].mpu[r] # NullSlot => n.pd[q].mpu[r] = m.pd[q].mpu[r]
  BY <1>2, <1>3
<1>7. MPUMapsAccessible(n, L)
  BY <1>3, <1>5, <1>6 DEF Guarded, MPUMapsAccessible
<1>8. Consistent(n, L) /\ Guarded(n, L) /\ SameMemory(m, n, L) /\ StaysOpen(m, n, L, L)
  BY <1>3, <1>4, <1>7, OnlyMPU
<1> QED
  BY <1>1, <1>2, <1>3, <1>8 DEF n, d

\* A service that leaves the memory of every partition as it was.
Idle(m, n, L) ==
  Consistent(n, L) /\ Guarded(n, L) /\ SameMemory(m, n, L) /\ StaysOpen(m, n, L, L)

\* mapMPU maps a block the partition may access, in one region.
LEMMA mapMPUSound ==
  ASSUME IInv, NEW L \in SUBSET PDAddr, Consistent(Mem, L), Guarded(Mem, L),
         NEW c \in L, NEW t \in L, NEW r, mapMPU(c, t, r)
  PROVE  SoundFor(Mem', c, L) /\ Idle(Mem, Mem', L)
<1>0. Mem \in Good /\ NullSlot \in SlotRef /\ Mem.slot = slot /\ Mem.pd = pd
  BY DEF IInv, SlotRef, Mem
<1>1. CASE unmapRegion(c, t, r)
  <2> DEFINE n == enableBlockInMPU(Mem, t, NullSlot, r)
  <2>1. n \in Good /\ Idle(Mem, n, L)
    BY <1>0, EnableKeeps DEF Idle
  <2>2. Commit(n)
    BY <1>1 DEF unmapRegion
  <2> QED
    BY <2>1, <2>2, CommitSound DEF Idle
<1>2. ASSUME NEW e \in SlotsOf(Mem, t), mapBlock(c, t, e, r)
      PROVE  SoundFor(Mem', c, L) /\ Idle(Mem, Mem', L)
  <2> DEFINE mapped == {q \in Regions : pd[t].mpu[q] = e}
             old == IF mapped = {} THEN NoRegion
                    ELSE CHOOSE q \in mapped : \A k \in mapped : q <= k
             m1 == enableBlockInMPU(Mem, t, NullSlot, old)
             n == enableBlockInMPU(m1, t, e, r)
  <2>1. e \in BlocksIn(Mem, t) /\ slot[e].accessible /\ Commit(n)
    BY <1>0, <1>2 DEF mapBlock, IsFound, BlocksIn
  <2>2. /\ m1 \in Good /\ Consistent(m1, L) /\ Guarded(m1, L) /\ SameMemory(Mem, m1, L)
        /\ StaysOpen(Mem, m1, L, L)
    BY <1>0, EnableKeeps
  <2>3. e \in Slots /\ e # NullSlot /\ e \in SlotRef /\ t \in PDAddr
    BY <1>0, <2>1, BlockType DEF SlotRef
  <2>4. mapped # {} => old \in mapped
    <3>1. ASSUME mapped # {} PROVE \E q \in mapped : \A k \in mapped : q <= k
      <4>1. mapped \in SUBSET Nat
        BY ConstantsAssumption
      <4> QED
        BY <3>1, <4>1, LeastNat
    <3> HIDE DEF mapped
    <3> QED
      BY <3>1
  <2>5. \A k, q \in mapped : k = q
    BY <1>0, <2>3 DEF Guarded, MPUMapsAccessible
  <2>6. \A k \in Regions : k # old => pd[t].mpu[k] # e
    BY <2>4, <2>5
  <2> HIDE DEF old
  <2>7. /\ m1.slot = slot /\ m1.pd[t].structs = pd[t].structs
        /\ \A k \in Regions : m1.pd[t].mpu[k] # e
    <3>1. CASE old \notin Regions
      BY <1>0, <2>6, <3>1 DEF enableBlockInMPU
    <3>2. CASE old \in Regions
      <4>0. pd[t] \in GoodPD /\ pd \in [PDAddr -> GoodPD]
        BY <1>0, <2>3 DEF Good
      <4>1. m1.slot = slot /\ m1.pd[t] = [pd[t] EXCEPT !.mpu[old] = NullSlot]
        BY <1>0, <2>3, <3>2, <4>0 DEF enableBlockInMPU, Mem
      <4>2. \A k \in Regions : [pd[t] EXCEPT !.mpu[old] = NullSlot].mpu[k]
                                 = IF k = old THEN NullSlot ELSE pd[t].mpu[k]
        BY <3>2, <4>0 DEF GoodPD, Descriptor
      <4>3. [pd[t] EXCEPT !.mpu[old] = NullSlot].structs = pd[t].structs
        BY <4>0 DEF GoodPD, Descriptor
      <4> QED
        BY <2>3, <2>6, <4>1, <4>2, <4>3
    <3> QED
      BY <3>1, <3>2
  <2> HIDE DEF m1
  <2>8. e \in BlocksIn(m1, t) /\ m1.slot[e].accessible
    BY <1>0, <2>1, <2>7 DEF BlocksIn, SlotsOf
  <2>9. /\ n \in Good /\ Consistent(n, L) /\ Guarded(n, L) /\ SameMemory(m1, n, L)
        /\ StaysOpen(m1, n, L, L)
    BY <2>2, <2>3, <2>7, <2>8, EnableKeeps
  <2>10. Idle(Mem, n, L)
    BY <2>2, <2>9, SameMemoryTrans, StaysOpenTrans DEF Idle
  <2> HIDE DEF n
  <2> QED
    BY <2>1, <2>9, <2>10, CommitSound
<1> QED
  BY <1>1, <1>2 DEF mapMPU

\* setVIDT only sets the address.
LEMMA setVIDTSound ==
  ASSUME IInv, NEW L \in SUBSET PDAddr, Consistent(Mem, L), Guarded(Mem, L),
         NEW c \in L, NEW t \in L, NEW a \in VidtPoints \cup {Null}, setVIDT(c, t, a)
  PROVE  SoundFor(Mem', c, L) /\ Idle(Mem, Mem', L)
<1> DEFINE n == [Mem EXCEPT !.pd[t].vidt = a]
<1>0. /\ Mem \in Good /\ Mem.slot = slot /\ Mem.pd = pd /\ t \in PDAddr
      /\ pd[t] \in GoodPD /\ pd \in [PDAddr -> GoodPD] /\ slot \in [Slots -> Entry]
  BY DEF IInv, Mem, Good
<1>1. Commit(n)
  BY DEF setVIDT
<1>2. /\ n.slot = slot
      /\ \A q \in PDAddr : n.pd[q] = IF q = t THEN [pd[t] EXCEPT !.vidt = a] ELSE pd[q]
  BY <1>0 DEF Mem
<1>3. /\ [pd[t] EXCEPT !.vidt = a] \in GoodPD
      /\ SameLinks([pd[t] EXCEPT !.vidt = a], pd[t])
      /\ [pd[t] EXCEPT !.vidt = a].mpu = pd[t].mpu
  <2>1. a \in 0 .. Top
    BY ConstantsAssumption DEF Null
  <2>2. [pd[t] EXCEPT !.vidt = a] \in GoodPD
    BY <1>0, <2>1 DEF GoodPD, Descriptor
  <2> QED
    BY <1>0, <2>2 DEF GoodPD, Descriptor, SameLinks
<1>4. n \in Good
  BY <1>0, <1>3 DEF Good, Mem
<1> HIDE DEF n
<1>5. \A q \in L : SameLinks(n.pd[q], pd[q]) /\ n.pd[q].mpu = pd[q].mpu
  BY <1>2, <1>3 DEF SameLinks
<1>6. \A q \in L : BlocksIn(n, q) = BlocksIn(Mem, q)
  BY <1>0, <1>2, <1>5 DEF SameLinks, BlocksIn, SlotsOf
<1>7. MPUMapsAccessible(n, L)
  BY <1>0, <1>2, <1>5, <1>6 DEF Guarded, MPUMapsAccessible
<1>8. Idle(Mem, n, L)
  BY <1>0, <1>2, <1>4, <1>5, <1>7, OnlyMPU DEF Idle
<1> QED
  BY <1>1, <1>4, <1>8, CommitSound DEF Idle

-----------------------------------------------------------------------------
(* Memory that differs in the slots of T only.                             *)

\* The partitions of L keep their structures, and slots outside T their
\* entries.
Kept(m, n, L, T) ==
  /\ \A p \in L : n.pd[p].parent = m.pd[p].parent /\ n.pd[p].structs = m.pd[p].structs
  /\ \A f \in Slots \ T : n.slot[f] = m.slot[f]

\* So they keep their blocks outside T.
LEMMA KeptSlots ==
  ASSUME NEW m \in Good, NEW n \in Good, NEW L \in SUBSET PDAddr, NEW T,
         Kept(m, n, L, T), NEW p \in L
  PROVE  /\ StructsOf(n, p) = StructsOf(m, p) /\ SlotsOf(n, p) = SlotsOf(m, p)
         /\ SlotsOf(m, p) \subseteq Slots
         /\ \A f : f \notin T => /\ f \in BlocksIn(n, p) <=> f \in BlocksIn(m, p)
                                 /\ f \in FreeIn(n, p) <=> f \in FreeIn(m, p)
         /\ \A f \in SlotsOf(m, p) : f \notin T => n.slot[f] = m.slot[f]
<1>1. SlotsOf(m, p) \subseteq Slots
  BY SlotsOfType
<1>2. StructsOf(n, p) = StructsOf(m, p) /\ SlotsOf(n, p) = SlotsOf(m, p)
  BY DEF Kept, StructsOf, SlotsOf
<1> QED
  BY <1>1, <1>2 DEF Kept, BlocksIn, FreeIn

\* No block in T holds kernel data.
NoKernelIn(m, L, T) ==
  \A p \in L : \A f \in BlocksIn(m, p) : f \in T =>
    ~ m.slot[f].PDflag /\ \A q \in L : m.slot[f].start \notin StructsOf(m, q)

\* An accessible block holds none.
LEMMA AccessibleApart ==
  ASSUME NEW m \in Good, NEW L \in SUBSET PDAddr, Consistent(m, L), Guarded(m, L),
         NEW p \in L, NEW f \in BlocksIn(m, p), m.slot[f].accessible
  PROVE  /\ ~ IsKernel(m, p, f) /\ ~ m.slot[f].PDflag
         /\ \A q \in L : m.slot[f].start \notin StructsOf(m, q)
         /\ \A q \in L : \A k \in StructsOf(m, q) :
              ~ (m.slot[f].start <= k /\ k < m.slot[f].end)
         /\ \A q \in L : ~ (m.slot[f].start <= q /\ q < m.slot[f].end)
<1>1. ~ IsKernel(m, p, f)
  BY DEF Guarded, KernelBlocksHidden
<1>2. \A q \in L : /\ q \notin m.slot[f].start .. m.slot[f].end - 1
                   /\ \A k \in StructsOf(m, q) : k \notin m.slot[f].start .. m.slot[f].end - 1
  BY AccessibleNoKernelData
<1>3. m.slot[f].start \in Nat /\ m.slot[f].end \in Nat /\ m.slot[f].start < m.slot[f].end
  BY BlockType, BlockRange DEF Consistent
<1>4. \A q \in L : q \in Int /\ \A k \in StructsOf(m, q) : k \in Int
  <2>1. \A q \in L : StructsOf(m, q) \subseteq KSAddr
    BY DEF Good, GoodPD, Descriptor, StructsOf
  <2>2. PDAddr \subseteq Int /\ KSAddr \subseteq Int
    BY ConstantsAssumption DEF PDAddr, KSAddr
  <2> QED
    BY <2>1, <2>2
<1>5. \A q \in L : \A k \in StructsOf(m, q) :
        ~ (m.slot[f].start <= k /\ k < m.slot[f].end)
  BY <1>2, <1>3, <1>4
<1>6. \A q \in L : ~ (m.slot[f].start <= q /\ q < m.slot[f].end)
  BY <1>2, <1>3, <1>4
<1>7. \A q \in L : m.slot[f].start \notin StructsOf(m, q)
  BY <1>3, <1>5
<1> QED
  BY <1>1, <1>5, <1>6, <1>7 DEF IsKernel

\* The tree and the kernel data stay.
LEMMA KeptRest ==
  ASSUME NEW m \in Good, NEW n \in Good, NEW L \in SUBSET PDAddr, NEW T,
         Consistent(m, L), Kept(m, n, L, T), NoKernelIn(m, L, T),
         \A p \in L : \A f \in BlocksIn(n, p) : f \in T => ~ n.slot[f].PDflag
  PROVE  Tree(n, L) /\ Homes(n, L) /\ Structures(n, L)
<1>0. Tree(m, L) /\ Homes(m, L) /\ Structures(m, L)
  BY DEF Consistent
<1>1. \A p \in L : n.pd[p].parent = m.pd[p].parent /\ StructsOf(n, p) = StructsOf(m, p)
  BY KeptSlots DEF Kept
<1>2. \A p \in L : \A f : f \notin T =>
        /\ f \in BlocksIn(n, p) <=> f \in BlocksIn(m, p)
        /\ f \in BlocksIn(m, p) => n.slot[f] = m.slot[f]
  BY KeptSlots, SlotsOfIs
<1>3. Tree(n, L)
  BY <1>0, <1>1 DEF Tree
<1>4. Homes(n, L)
  <2>1. ASSUME NEW p \in L, NEW e \in BlocksIn(n, p), n.slot[e].PDflag
        PROVE  IsHome(n, L, p, e)
    <3>1. e \notin T
      BY <2>1
    <3>2. e \in BlocksIn(m, p) /\ n.slot[e] = m.slot[e]
      BY <1>2, <3>1
    <3>3. IsHome(m, L, p, e)
      BY <1>0, <2>1, <3>2 DEF Homes
    <3> QED
      BY <1>1, <3>2, <3>3 DEF IsHome
  <2>2. ASSUME NEW q \in L \ {RootPD}
        PROVE  \E e \in BlocksIn(n, n.pd[q].parent) : n.slot[e].start = q /\ n.slot[e].PDflag
    <3>1. PICK e \in BlocksIn(m, m.pd[q].parent) : m.slot[e].start = q /\ m.slot[e].PDflag
      BY <1>0 DEF Homes
    <3>2. m.pd[q].parent \in L /\ n.pd[q].parent = m.pd[q].parent
      BY <1>0, <1>1 DEF Tree
    <3>3. e \notin T
      BY <3>1, <3>2 DEF NoKernelIn
    <3> QED
      BY <1>2, <3>1, <3>2, <3>3
  <2> QED
    BY <2>1, <2>2 DEF Homes
<1>5. Structures(n, L)
  <2>1. ASSUME NEW q \in L, NEW k \in StructsOf(n, q) \ {RootKS}
        PROVE  \E p \in {q, n.pd[q].parent} \cap L :
                 \E e \in BlocksIn(n, p) : HoldsStructure(n, p, q, e, k)
    <3>1. k \in StructsOf(m, q) \ {RootKS}
      BY <1>1
    <3>2. PICK p \in {q, m.pd[q].parent} \cap L :
                 \E e \in BlocksIn(m, p) : HoldsStructure(m, p, q, e, k)
      BY <1>0, <3>1 DEF Structures
    <3>3. PICK e \in BlocksIn(m, p) : HoldsStructure(m, p, q, e, k)
      BY <3>2
    <3>4. e \notin T
      BY <3>1, <3>3 DEF HoldsStructure, NoKernelIn
    <3>5. e \in BlocksIn(n, p) /\ n.slot[e] = m.slot[e]
      BY <1>2, <3>4
    <3> QED
      BY <1>1, <3>2, <3>3, <3>5 DEF HoldsStructure
  <2>2. \A p, q \in L : p # q => StructsOf(n, p) \cap StructsOf(n, q) = {}
    BY <1>0, <1>1 DEF Structures
  <2> QED
    BY <2>1, <2>2 DEF Structures
<1> QED
  BY <1>3, <1>4, <1>5

\* So does a free list that has no slot in T.
LEMMA KeptFree ==
  ASSUME NEW m \in Good, NEW n \in Good, NEW L \in SUBSET PDAddr, NEW T,
         Kept(m, n, L, T), NEW q \in L, FreeListOK(m, q),
         FreeIn(m, q) \cap T = {}, FreeIn(n, q) \cap T = {},
         n.pd[q].firstFree = m.pd[q].firstFree, n.pd[q].nbFree = m.pd[q].nbFree
  PROVE  FreeListOK(n, q)
<1>1. /\ \A f : f \notin T => (f \in FreeIn(n, q) <=> f \in FreeIn(m, q))
      /\ \A f \in SlotsOf(m, q) : f \notin T => n.slot[f] = m.slot[f]
  BY KeptSlots
<1>2. FreeIn(m, q) \subseteq SlotsOf(m, q)
  BY DEF FreeIn
<1>3. FreeIn(n, q) = FreeIn(m, q) /\ \A e \in FreeIn(m, q) : n.slot[e] = m.slot[e]
  <2>1. \A f : f \in FreeIn(n, q) <=> f \in FreeIn(m, q)
    BY <1>1
  <2> QED
    BY <1>1, <1>2, <2>1
<1> QED
  BY <1>3, FreeListFrame

\* Access stays guarded when the blocks in T are.
LEMMA KeptGuarded ==
  ASSUME NEW m \in Good, NEW n \in Good, NEW L \in SUBSET PDAddr, NEW T,
         Consistent(m, L), Guarded(m, L), Kept(m, n, L, T),
         \A p \in L : \A f \in BlocksIn(n, p) :
           f \in T /\ n.slot[f].accessible => ~ IsKernel(n, p, f),
         \A p \in L : \A f \in BlocksIn(n, p) :
           /\ f \in T \/ n.slot[f].inChild \in T
           /\ n.slot[f].accessible /\ n.slot[f].inChild # NullSlot
           => /\ ~ IsCut(n, n.slot[f].inChild)
              /\ n.slot[n.slot[f].inChild].accessible,
         \A p \in L : \A r \in Regions : n.pd[p].mpu[r] # NullSlot =>
           /\ n.pd[p].mpu[r] = m.pd[p].mpu[r]
           /\ n.pd[p].mpu[r] \in T => /\ n.pd[p].mpu[r] \in BlocksIn(n, p)
                                      /\ n.slot[n.pd[p].mpu[r]].accessible
  PROVE  Guarded(n, L)
<1>0. /\ KernelBlocksHidden(m, L) /\ CopiesAccessible(m, L) /\ MPUMapsAccessible(m, L)
      /\ Shares(m, L)
  BY DEF Guarded, Consistent
<1>1. \A p \in L : StructsOf(n, p) = StructsOf(m, p)
  BY DEF Kept, StructsOf
<1>2. \A p \in L : \A f : f \notin T =>
        /\ f \in BlocksIn(n, p) <=> f \in BlocksIn(m, p)
        /\ f \in BlocksIn(m, p) => n.slot[f] = m.slot[f]
  BY KeptSlots, SlotsOfIs
<1>3. KernelBlocksHidden(n, L)
  BY <1>0, <1>1, <1>2 DEF KernelBlocksHidden, IsKernel
<1>4. CopiesAccessible(n, L)
  <2> SUFFICES ASSUME NEW p \in L, NEW f \in BlocksIn(n, p),
                      n.slot[f].accessible, n.slot[f].inChild # NullSlot,
                      f \notin T, n.slot[f].inChild \notin T
               PROVE  ~ IsCut(n, n.slot[f].inChild) /\ n.slot[n.slot[f].inChild].accessible
    BY DEF CopiesAccessible
  <2> DEFINE h == m.slot[f].inChild
  <2>1. f \in BlocksIn(m, p) /\ n.slot[f] = m.slot[f]
    BY <1>2
  <2>2. ~ IsCut(m, h) /\ m.slot[h].accessible
    BY <1>0, <2>1 DEF CopiesAccessible
  <2>3. m.slot[f].PDchild \in L /\ h \in BlocksIn(m, m.slot[f].PDchild)
    BY <1>0, <2>1 DEF Shares, IsShared
  <2>4. n.slot[h] = m.slot[h]
    BY <1>2, <2>1, <2>3
  <2> QED
    BY <2>1, <2>2, <2>4 DEF IsCut
<1>5. MPUMapsAccessible(n, L)
  <2> SUFFICES ASSUME NEW p \in L, NEW r \in Regions, n.pd[p].mpu[r] # NullSlot
               PROVE  /\ n.pd[p].mpu[r] \in BlocksIn(n, p)
                      /\ n.slot[n.pd[p].mpu[r]].accessible
                      /\ \A k \in Regions : n.pd[p].mpu[k] = n.pd[p].mpu[r] => k = r
    BY DEF MPUMapsAccessible
  <2>1. /\ m.pd[p].mpu[r] \in BlocksIn(m, p) /\ m.slot[m.pd[p].mpu[r]].accessible
        /\ \A k \in Regions : m.pd[p].mpu[k] = m.pd[p].mpu[r] => k = r
    BY <1>0 DEF MPUMapsAccessible
  <2>2. n.pd[p].mpu[r] = m.pd[p].mpu[r]
    OBVIOUS
  <2>3. \A k \in Regions : n.pd[p].mpu[k] = n.pd[p].mpu[r] => m.pd[p].mpu[k] = m.pd[p].mpu[r]
    OBVIOUS
  <2>4. n.pd[p].mpu[r] \in BlocksIn(n, p) /\ n.slot[n.pd[p].mpu[r]].accessible
    BY <1>2, <2>1, <2>2
  <2> QED
    BY <2>1, <2>2, <2>3, <2>4
<1> QED
  BY <1>3, <1>4, <1>5 DEF Guarded

\* What is shown stays so when the blocks in T and their parents follow.
LEMMA KeptStaysOpen ==
  ASSUME NEW m \in Good, NEW n \in Good, NEW L \in SUBSET PDAddr, NEW T,
         Consistent(m, L), Kept(m, n, L, T),
         OpenAbove(m, L) =>
           \A p \in L : \A f \in BlocksIn(n, p) :
             /\ f \in T \/ n.slot[f].inChild \in T
             /\ n.slot[f].inChild # NullSlot
             /\ ~ IsCut(n, n.slot[f].inChild) /\ n.slot[n.slot[f].inChild].accessible
             => n.slot[f].accessible
  PROVE  StaysOpen(m, n, L, L)
<1> SUFFICES ASSUME OpenAbove(m, L), NEW p \in L, NEW f \in BlocksIn(n, p),
                    n.slot[f].inChild # NullSlot, ~ IsCut(n, n.slot[f].inChild),
                    n.slot[n.slot[f].inChild].accessible,
                    f \notin T, n.slot[f].inChild \notin T
             PROVE  n.slot[f].accessible
  BY DEF StaysOpen, OpenAbove
<1>1. f \in BlocksIn(m, p) /\ n.slot[f] = m.slot[f]
  BY KeptSlots, SlotsOfIs
<1>2. n.slot[f].inChild \in Slots
  BY <1>1, BlockType DEF Consistent, Shares, IsShared
<1>3. n.slot[n.slot[f].inChild] = m.slot[n.slot[f].inChild]
  BY <1>2 DEF Kept
<1> QED
  BY <1>1, <1>3 DEF OpenAbove, IsCut

-----------------------------------------------------------------------------
(* A new block.                                                            *)

\* When nbFree is positive, the head of the free list is a free slot.
LEMMA FreeHead ==
  ASSUME NEW m \in Good, NEW p \in PDAddr, FreeListOK(m, p), m.pd[p].nbFree > 0
  PROVE  /\ m.pd[p].firstFree \in FreeIn(m, p)
         /\ m.slot[m.pd[p].firstFree] = FreeEntry(m.slot[m.pd[p].firstFree].nextFree)
<1> DEFINE free == FreeIn(m, p)
           head == m.pd[p].firstFree
           link(e) == m.slot[e].nextFree
<1>1. /\ m.pd[p].nbFree = Cardinality(free)
      /\ head \in free \cup {NullSlot}
      /\ \A e \in free : /\ m.slot[e] = FreeEntry(link(e))
                         /\ link(e) \in (free \cup {NullSlot}) \ {head}
      /\ \A S \in SUBSET free : S # {} => \E e \in S : link(e) \notin S
  BY DEF FreeListOK
<1>2. free # {}
  <2>1. SUFFICES ASSUME free = {} PROVE FALSE
    OBVIOUS
  <2>2. Cardinality(free) = 0
    BY <2>1, FS_EmptySet
  <2> QED
    BY <1>1, <2>2
<1>3. PICK e \in free : link(e) \notin free
  BY <1>1, <1>2
<1>4. head # NullSlot
  BY <1>1, <1>3
<1> QED
  BY <1>1, <1>4

\* A block as insertNewEntry makes it.
IsNewBlock(b, s, t, o, rights) ==
  /\ b.start = s /\ b.end = t /\ b.origin = o /\ b.rights = rights
  /\ b.present /\ b.accessible /\ ~ b.PDflag
  /\ b.PDchild = Null /\ b.inChild = NullSlot /\ b.next = NullSlot

\* The first free slot of p has left the free list.
Popped(m, n, p) ==
  /\ \A q \in PDAddr : q # p => n.pd[q] = m.pd[q]
  /\ n.pd[p].parent = m.pd[p].parent /\ n.pd[p].structs = m.pd[p].structs
  /\ n.pd[p].mpu = m.pd[p].mpu
  /\ n.pd[p].firstFree = m.slot[m.pd[p].firstFree].nextFree
  /\ n.pd[p].nbFree = m.pd[p].nbFree - 1

\* insertNewEntry makes one of the head of the free list.
LEMMA InsertEffect ==
  ASSUME NEW m \in Good, NEW p \in PDAddr, FreeListOK(m, p), m.pd[p].nbFree > 0,
         NEW s \in 0 .. Top + 1, NEW t \in 0 .. Top + 1, NEW o \in 0 .. Top + 1,
         NEW rights \in SUBSET Rights
  PROVE  LET n   == insertNewEntry(m, p, s, t, o, rights)
             new == m.pd[p].firstFree
         IN  /\ n \in Good /\ Popped(m, n, p)
             /\ new \in Slots /\ IsNewBlock(n.slot[new], s, t, o, rights)
             /\ \A f \in Slots : f # new => n.slot[f] = m.slot[f]
<1> DEFINE n   == insertNewEntry(m, p, s, t, o, rights)
           new == m.pd[p].firstFree
           link == m.slot[new].nextFree
           b == [m.slot[new] EXCEPT !.start = s, !.end = t, !.origin = o,
                           !.present = TRUE, !.accessible = TRUE,
                           !.rights = rights, !.nextFree = NullSlot]
           d == FreeListAt(m.pd[p], link, -1)
<1>1. new \in Slots /\ m.slot[new] = FreeEntry(link) /\ m.pd[p] \in GoodPD
  BY FreeHead, FreeType DEF Good
<1>2. n \in Good
  BY insertNewEntryGood
<1>3. IsNewBlock(b, s, t, o, rights)
  <2> HIDE DEF link
  <2> QED
    BY <1>1 DEF FreeEntry, IsNewBlock
<1>4. /\ d.parent = m.pd[p].parent /\ d.structs = m.pd[p].structs /\ d.mpu = m.pd[p].mpu
      /\ d.firstFree = link /\ d.nbFree = m.pd[p].nbFree - 1
  <2> HIDE DEF link
  <2>1. /\ d.firstFree = link /\ d.nbFree = m.pd[p].nbFree + (-1)
        /\ d.parent = m.pd[p].parent /\ d.structs = m.pd[p].structs /\ d.mpu = m.pd[p].mpu
    BY <1>1 DEF FreeListAt, GoodPD, Descriptor
  <2>2. m.pd[p].nbFree \in Int
    BY <1>1 DEF GoodPD, Descriptor
  <2> QED
    BY <2>1, <2>2
<1> HIDE DEF b, d, link
<1>5. /\ \A f \in Slots : n.slot[f] = IF f = new THEN b ELSE m.slot[f]
      /\ \A q \in PDAddr : n.pd[q] = IF q = p THEN d ELSE m.pd[q]
  BY <1>1 DEF insertNewEntry, b, d, link, Good
<1> HIDE DEF n
<1>6. Popped(m, n, p)
  BY <1>4, <1>5 DEF Popped, link
<1> QED
  BY <1>1, <1>2, <1>3, <1>5, <1>6 DEF n

\* The blocks after a service that takes a free slot of q and changes e, a
\* block of p.
LEMMA TakenBlocks ==
  ASSUME NEW m \in Good, NEW n \in Good, NEW L \in SUBSET PDAddr, Consistent(m, L),
         NEW p \in L, NEW e \in BlocksIn(m, p), NEW q \in L, m.pd[q].nbFree > 0,
         Kept(m, n, L, {e, m.pd[q].firstFree}),
         n.slot[e].present, n.slot[m.pd[q].firstFree].present
  PROVE  LET new == m.pd[q].firstFree
         IN  /\ new \in FreeIn(m, q) /\ new # e /\ new # NullSlot
             /\ \A x \in L \ {q} : BlocksIn(n, x) = BlocksIn(m, x) /\ FreeIn(n, x) = FreeIn(m, x)
             /\ BlocksIn(n, q) = BlocksIn(m, q) \cup {new}
             /\ FreeIn(n, q) = FreeIn(m, q) \ {new}
             /\ \A x \in L : new \notin BlocksIn(m, x) /\ e \notin FreeIn(m, x)
             /\ \A x \in L : \A f \in BlocksIn(m, x) :
                  /\ f \in BlocksIn(n, x) /\ (f = e => x = p)
                  /\ f # e => n.slot[f] = m.slot[f]
             /\ \A x \in L : \A f \in BlocksIn(n, x) :
                  (f = new /\ x = q) \/ (f \in BlocksIn(m, x) /\ f # new)
<1> DEFINE new == m.pd[q].firstFree
<1>0. q \in PDAddr /\ FreeListOK(m, q) /\ Structures(m, L)
  BY DEF Consistent, FreeLists
<1>1. new \in FreeIn(m, q)
  BY <1>0, FreeHead
<1>4. Kept(m, n, L, {e, new}) /\ n.slot[e].present /\ n.slot[new].present
  OBVIOUS
<1> HIDE DEF new
<1>2. /\ new \in SlotsOf(m, q) /\ ~ m.slot[new].present
      /\ e \in SlotsOf(m, p) /\ m.slot[e].present
  BY <1>1 DEF FreeIn, BlocksIn
<1>3. /\ \A x \in L \ {p} : e \notin SlotsOf(m, x)
      /\ \A x \in L \ {q} : new \notin SlotsOf(m, x)
  BY <1>0, <1>2, OnePartition
<1>5. ASSUME NEW x \in L
      PROVE  SlotsOf(n, x) = SlotsOf(m, x) /\ SlotsOf(m, x) \subseteq Slots
  <2> DEFINE T == {e, new}
  <2>1. Kept(m, n, L, T)
    BY <1>4
  <2> HIDE DEF T
  <2> QED
    BY <2>1, KeptSlots
<1>6. \A x \in L : \A f \in SlotsOf(m, x) : f \notin {e, new} => n.slot[f] = m.slot[f]
  BY <1>4, <1>5 DEF Kept
<1>7. ASSUME NEW x \in L \ {q}
      PROVE  BlocksIn(n, x) = BlocksIn(m, x) /\ FreeIn(n, x) = FreeIn(m, x)
  BY <1>2, <1>3, <1>4, <1>5, <1>6 DEF BlocksIn, FreeIn
<1>8. BlocksIn(n, q) = BlocksIn(m, q) \cup {new} /\ FreeIn(n, q) = FreeIn(m, q) \ {new}
  BY <1>2, <1>4, <1>5, <1>6 DEF BlocksIn, FreeIn
<1>9. \A x \in L : new \notin BlocksIn(m, x) /\ e \notin FreeIn(m, x)
  BY <1>2 DEF BlocksIn, FreeIn
<1>10. new # NullSlot
  BY <1>0, <1>1, FreeType
<1>11. \A x \in L : \A f \in BlocksIn(m, x) :
          /\ f \in BlocksIn(n, x) /\ (f = e => x = p)
          /\ f # e => n.slot[f] = m.slot[f]
  <2>1. \A x \in L : BlocksIn(m, x) \subseteq BlocksIn(n, x)
    BY <1>7, <1>8
  <2>2. \A x \in L : \A f \in BlocksIn(m, x) : f \in SlotsOf(m, x) /\ f # new
    BY <1>9 DEF BlocksIn
  <2> QED
    BY <1>3, <1>6, <2>1, <2>2
<1>12. \A x \in L : \A f \in BlocksIn(n, x) :
          (f = new /\ x = q) \/ (f \in BlocksIn(m, x) /\ f # new)
  BY <1>7, <1>8, <1>9
<1> QED
  BY <1>1, <1>2, <1>7, <1>8, <1>9, <1>10, <1>11, <1>12 DEF new

\* The free lists after it.
LEMMA TakenFree ==
  ASSUME NEW m \in Good, NEW n \in Good, NEW L \in SUBSET PDAddr, Consistent(m, L),
         NEW p \in L, NEW e \in BlocksIn(m, p), NEW q \in L, m.pd[q].nbFree > 0,
         Kept(m, n, L, {e, m.pd[q].firstFree}), Popped(m, n, q),
         n.slot[e].present, n.slot[m.pd[q].firstFree].present
  PROVE  FreeLists(n, L)
<1> DEFINE new == m.pd[q].firstFree
<1>1. /\ new \in FreeIn(m, q)
      /\ \A x \in L \ {q} : FreeIn(n, x) = FreeIn(m, x)
      /\ FreeIn(n, q) = FreeIn(m, q) \ {new}
      /\ \A x \in L : e \notin FreeIn(m, x)
      /\ \A x \in L \ {q} : new \notin FreeIn(m, x)
  <2>1. /\ new \in FreeIn(m, q)
        /\ \A x \in L \ {q} : BlocksIn(n, x) = BlocksIn(m, x) /\ FreeIn(n, x) = FreeIn(m, x)
        /\ FreeIn(n, q) = FreeIn(m, q) \ {new}
        /\ \A x \in L : new \notin BlocksIn(m, x) /\ e \notin FreeIn(m, x)
    BY TakenBlocks
  <2>2. Structures(m, L)
    BY DEF Consistent
  <2>3. \A x \in L \ {q} : new \notin FreeIn(m, x)
    BY <2>1, <2>2, OnePartition DEF FreeIn
  <2> QED
    BY <2>1, <2>3
<1>2. \A f \in Slots : f # e /\ f # new => n.slot[f] = m.slot[f]
  BY DEF Kept
<1>3. /\ n.pd[q].firstFree = m.slot[new].nextFree /\ n.pd[q].nbFree = m.pd[q].nbFree - 1
      /\ \A x \in PDAddr : x # q => n.pd[x] = m.pd[x]
  BY DEF Popped
<1> HIDE DEF new
<1> SUFFICES ASSUME NEW x \in L PROVE FreeListOK(n, x)
  BY DEF FreeLists
<1>4. /\ x \in PDAddr /\ FreeListOK(m, x) /\ IsFiniteSet(FreeIn(m, x))
      /\ FreeIn(m, x) \in SUBSET Slots
  BY FreeType DEF Consistent, FreeLists
<1>5. CASE x # q
  <2>1. \A f \in FreeIn(m, x) : n.slot[f] = m.slot[f]
    BY <1>1, <1>2, <1>4, <1>5
  <2>2. n.pd[x] = m.pd[x] /\ FreeIn(n, x) = FreeIn(m, x)
    BY <1>1, <1>3, <1>4, <1>5
  <2> QED
    BY <1>4, <2>1, <2>2, FreeListFrame
<1>6. CASE x = q
  <2>1. \A f \in FreeIn(n, q) : n.slot[f] = m.slot[f]
    BY <1>1, <1>2, <1>4, <1>6
  <2>2. /\ m.pd[q].firstFree \in FreeIn(m, q)
        /\ FreeIn(n, q) = FreeIn(m, q) \ {m.pd[q].firstFree}
        /\ n.pd[q].firstFree = m.slot[m.pd[q].firstFree].nextFree
    BY <1>1, <1>3 DEF new
  <2>3. FreeListOK(m, q) /\ IsFiniteSet(FreeIn(m, q)) /\ n.pd[q].nbFree = m.pd[q].nbFree - 1
    BY <1>3, <1>4, <1>6
  <2>4. FreeListOK(n, q)
    BY <2>1, <2>2, <2>3, FreePop
  <2> QED
    BY <1>6, <2>4
<1> QED
  BY <1>5, <1>6

-----------------------------------------------------------------------------
(* cut.                                                                    *)

\* Block e of p is cut at a: the slot new gets the upper part.
IsSplit(m, n, L, p, e, new, a) ==
  /\ Popped(m, n, p) /\ Kept(m, n, L, {e, new})
  /\ LET b == m.slot[e]
         d == n.slot[e]
         u == n.slot[new]
     IN  /\ d.start = b.start /\ d.end = a /\ d.origin = b.origin /\ d.rights = b.rights
         /\ d.present /\ d.accessible /\ ~ d.PDflag
         /\ d.PDchild = Null /\ d.inChild = NullSlot /\ d.next = new
         /\ u.start = a /\ u.end = b.end /\ u.origin = b.origin /\ u.rights = b.rights
         /\ u.present /\ u.accessible /\ ~ u.PDflag
         /\ u.PDchild = Null /\ u.inChild = NullSlot /\ u.next = b.next

\* A cut keeps the data consistent and guarded when no ancestor that has the
\* whole block may access it.
LEMMA SplitKeeps ==
  ASSUME NEW m \in Good, NEW n \in Good, NEW L \in SUBSET PDAddr,
         Consistent(m, L), Guarded(m, L),
         NEW p \in L, NEW e \in BlocksIn(m, p), m.slot[e].accessible,
         m.slot[e].PDchild = Null,
         NEW a \in Nat, m.slot[e].start < a, a < m.slot[e].end,
         m.pd[p].nbFree > 0, IsSplit(m, n, L, p, e, m.pd[p].firstFree, a),
         \A x \in L : \A o \in BlocksIn(m, x) :
           m.slot[o].inChild = e => ~ m.slot[o].accessible
  PROVE  /\ Consistent(n, L) /\ Guarded(n, L)
         /\ m.pd[p].firstFree \in BlocksIn(n, p) /\ n.slot[m.pd[p].firstFree].accessible
         /\ \A k \in Regions : n.pd[p].mpu[k] # m.pd[p].firstFree
<1> DEFINE new == m.pd[p].firstFree
           T == {e, new}
<1>0. /\ Tree(m, L) /\ Homes(m, L) /\ Structures(m, L) /\ Ranges(m, L) /\ Cuts(m, L)
      /\ Shares(m, L) /\ Containment(m, L) /\ FreeLists(m, L)
      /\ KernelBlocksHidden(m, L) /\ CopiesAccessible(m, L) /\ MPUMapsAccessible(m, L)
  BY DEF Consistent, Guarded
<1>a. /\ Popped(m, n, p) /\ Kept(m, n, L, {e, m.pd[p].firstFree})
      /\ n.slot[e].present /\ n.slot[m.pd[p].firstFree].present
  BY DEF IsSplit
<1>1. /\ new \in FreeIn(m, p) /\ new # e /\ new # NullSlot
      /\ \A q \in L \ {p} : BlocksIn(n, q) = BlocksIn(m, q) /\ FreeIn(n, q) = FreeIn(m, q)
      /\ BlocksIn(n, p) = BlocksIn(m, p) \cup {new}
      /\ FreeIn(n, p) = FreeIn(m, p) \ {new}
      /\ \A q \in L : new \notin BlocksIn(m, q) /\ e \notin FreeIn(m, q)
      /\ \A q \in L : \A f \in BlocksIn(m, q) :
           /\ f \in BlocksIn(n, q) /\ (f = e => q = p)
           /\ f # e => n.slot[f] = m.slot[f]
      /\ \A q \in L : \A f \in BlocksIn(n, q) :
           (f = new /\ q = p) \/ (f \in BlocksIn(m, q) /\ f # new)
  BY <1>a, TakenBlocks
<1>c. FreeLists(n, L)
  BY <1>a, TakenFree
<1>2. /\ Popped(m, n, p) /\ Kept(m, n, L, T)
      /\ n.slot[e].start = m.slot[e].start /\ n.slot[e].end = a
      /\ n.slot[e].origin = m.slot[e].origin /\ n.slot[e].rights = m.slot[e].rights
      /\ n.slot[e].present /\ n.slot[e].accessible /\ ~ n.slot[e].PDflag
      /\ n.slot[e].PDchild = Null /\ n.slot[e].inChild = NullSlot /\ n.slot[e].next = new
      /\ n.slot[new].start = a /\ n.slot[new].end = m.slot[e].end
      /\ n.slot[new].origin = m.slot[e].origin /\ n.slot[new].rights = m.slot[e].rights
      /\ n.slot[new].present /\ n.slot[new].accessible /\ ~ n.slot[new].PDflag
      /\ n.slot[new].PDchild = Null /\ n.slot[new].inChild = NullSlot
      /\ n.slot[new].next = m.slot[e].next
  BY DEF IsSplit
<1> HIDE DEF new
<1>3. /\ e \in T /\ new \in T /\ \A f : f \in T => f = e \/ f = new
  OBVIOUS
<1> HIDE DEF T
<1>4. /\ \A q \in L : StructsOf(n, q) = StructsOf(m, q)
      /\ \A q \in L : n.pd[q].parent = m.pd[q].parent
  BY <1>2 DEF Kept, StructsOf
<1>5. /\ \A q \in L : \A f \in BlocksIn(m, q) : f # e => n.slot[f] = m.slot[f]
      /\ \A q \in L : \A f \in BlocksIn(m, q) : f \in BlocksIn(n, q)
      /\ \A q \in L : \A f \in BlocksIn(n, q) :
           (f = new /\ q = p) \/ (f \in BlocksIn(m, q) /\ f # new)
      /\ \A q \in L : \A f \in BlocksIn(m, q) : f = e => q = p
  BY <1>1
<1>6. /\ e \in BlocksIn(n, p) /\ new \in BlocksIn(n, p)
      /\ m.slot[e].inChild = NullSlot
      /\ m.slot[e].start \in Nat /\ m.slot[e].end \in Nat /\ m.slot[e].origin \in Nat
  BY <1>0, <1>1, NotSharedNoCopy, BlockType
<1>7. NoKernelIn(m, L, T)
  <2>1. /\ ~ m.slot[e].PDflag
        /\ \A q \in L : m.slot[e].start \notin StructsOf(m, q)
    BY AccessibleApart
  <2> QED
    BY <1>1, <1>3, <2>1 DEF NoKernelIn
<1>8. Tree(n, L) /\ Homes(n, L) /\ Structures(n, L)
  BY <1>2, <1>3, <1>7, KeptRest
<1>9. Ranges(n, L)
  <2>1. ASSUME NEW q \in L, NEW f \in BlocksIn(n, q)
        PROVE  /\ WellFormed(n.slot[f])
               /\ n.slot[f].start \in Nat /\ n.slot[f].end \in Nat
               /\ \E g \in BlocksIn(m, q) :
                    /\ Within(n.slot[f], m.slot[g])
                    /\ f \notin T => g = f /\ n.slot[f] = m.slot[f]
                    /\ f \in T => q = p /\ g = e
    <3>1. CASE f \notin T
      <4>1. f \in BlocksIn(m, q) /\ n.slot[f] = m.slot[f]
        BY <1>3, <1>5, <3>1
      <4>2. n.slot[f].start \in Nat /\ n.slot[f].end \in Nat
        BY <4>1, BlockType
      <4> QED
        BY <1>0, <3>1, <4>1, <4>2 DEF Ranges, Within
    <3>2. CASE f \in T
      <4>1. q = p /\ (f = e \/ f = new)
        BY <1>3, <1>5, <3>2
      <4>2. WellFormed(m.slot[e])
        BY <1>0 DEF Ranges
      <4>3. /\ WellFormed(n.slot[f]) /\ Within(n.slot[f], m.slot[e])
            /\ n.slot[f].start \in Nat /\ n.slot[f].end \in Nat
        <5>0. Top \in Nat
          BY ConstantsAssumption
        <5>1. CASE f = e
          BY <1>2, <1>6, <4>2, <5>0, <5>1 DEF WellFormed, Within
        <5>2. CASE f = new
          BY <1>2, <1>6, <4>2, <5>2 DEF WellFormed, Within
        <5> QED
          BY <4>1, <5>1, <5>2
      <4> QED
        BY <3>2, <4>1, <4>3
    <3> QED
      BY <3>1, <3>2
  <2>2. ASSUME NEW q \in L, NEW f \in BlocksIn(n, q), NEW g \in BlocksIn(n, q),
               Overlap(n.slot[f], n.slot[g])
        PROVE  f = g
    <3>1. PICK x \in BlocksIn(m, q) :
            /\ Within(n.slot[f], m.slot[x])
            /\ f \notin T => x = f /\ n.slot[f] = m.slot[f]
            /\ f \in T => q = p /\ x = e
      BY <2>1
    <3>2. PICK y \in BlocksIn(m, q) :
            /\ Within(n.slot[g], m.slot[y])
            /\ g \notin T => y = g /\ n.slot[g] = m.slot[g]
            /\ g \in T => q = p /\ y = e
      BY <2>1
    <3>3. /\ m.slot[x].start \in Nat /\ m.slot[x].end \in Nat
          /\ m.slot[y].start \in Nat /\ m.slot[y].end \in Nat
          /\ n.slot[f].start \in Nat /\ n.slot[f].end \in Nat
          /\ n.slot[g].start \in Nat /\ n.slot[g].end \in Nat
      BY <2>1, BlockType
    <3>4. Overlap(m.slot[x], m.slot[y])
      BY <2>2, <3>1, <3>2, <3>3 DEF Within, Overlap
    <3>5. x = y
      BY <1>0, <3>4, SameBlock
    <3>6. CASE f \in T /\ g \in T
      BY <1>2, <1>3, <1>6, <2>2, <3>6 DEF Overlap
    <3>7. f \in T <=> g \in T
      BY <1>1, <1>3, <1>5, <3>1, <3>2, <3>5
    <3> QED
      BY <3>1, <3>2, <3>5, <3>6, <3>7
  <2> QED
    BY <2>1, <2>2 DEF Ranges
<1>10. Cuts(n, L)
  <2> SUFFICES ASSUME NEW q \in L, NEW f \in BlocksIn(n, q), n.slot[f].next # NullSlot
               PROVE  /\ n.slot[f].next \in BlocksIn(n, q)
                      /\ n.slot[n.slot[f].next].start = n.slot[f].end
                      /\ n.slot[n.slot[f].next].origin = n.slot[f].origin
    BY DEF Cuts
  <2>1. ASSUME NEW g \in BlocksIn(m, q), m.slot[g].next # NullSlot
        PROVE  /\ m.slot[g].next \in BlocksIn(n, q)
               /\ n.slot[m.slot[g].next].start = m.slot[g].end
               /\ n.slot[m.slot[g].next].origin = m.slot[g].origin
    <3>1. /\ m.slot[g].next \in BlocksIn(m, q)
          /\ m.slot[m.slot[g].next].start = m.slot[g].end
          /\ m.slot[m.slot[g].next].origin = m.slot[g].origin
      BY <1>0, <2>1 DEF Cuts
    <3> QED
      BY <1>2, <1>5, <3>1
  <2>2. CASE f = e
    BY <1>2, <1>5, <1>6, <2>2
  <2>3. CASE f = new
    BY <1>1, <1>2, <1>5, <2>1, <2>3
  <2>4. CASE f # e /\ f # new
    BY <1>5, <2>1, <2>4
  <2> QED
    BY <2>2, <2>3, <2>4
<1>11. Shares(n, L)
  <2> SUFFICES ASSUME NEW q \in L, NEW f \in BlocksIn(n, q)
               PROVE  /\ n.slot[f].PDchild # Null =>
                           /\ n.slot[f].PDchild \in L
                           /\ n.pd[n.slot[f].PDchild].parent = q
                      /\ n.slot[f].inChild # NullSlot => IsShared(n, f)
    BY DEF Shares
  <2>1. CASE f = e \/ f = new
    BY <1>2, <2>1
  <2>2. CASE f # e /\ f # new
    <3>1. f \in BlocksIn(m, q) /\ n.slot[f] = m.slot[f]
      BY <1>5, <2>2
    <3>2. m.slot[f].PDchild # Null =>
            m.slot[f].PDchild \in L /\ m.pd[m.slot[f].PDchild].parent = q
      BY <1>0, <3>1 DEF Shares
    <3>3. ASSUME n.slot[f].inChild # NullSlot PROVE IsShared(n, f)
      <4>1. IsShared(m, f)
        BY <1>0, <3>1, <3>3 DEF Shares
      <4>2. /\ m.slot[f].PDchild \in L /\ m.slot[f].inChild \in BlocksIn(m, m.slot[f].PDchild)
        BY <3>2, <4>1 DEF IsShared
      <4>3. /\ m.slot[f].inChild \in BlocksIn(n, m.slot[f].PDchild)
            /\ n.slot[m.slot[f].inChild].start = m.slot[m.slot[f].inChild].start
            /\ n.slot[m.slot[f].inChild].origin = m.slot[m.slot[f].inChild].origin
        BY <1>2, <1>5, <4>2
      <4> QED
        BY <3>1, <4>1, <4>3 DEF IsShared
    <3> QED
      BY <1>4, <3>1, <3>2, <3>3
  <2> QED
    BY <2>1, <2>2
<1>12. Containment(n, L)
  <2>1. ASSUME NEW q \in L \ {RootPD}, NEW f \in BlocksIn(m, q)
        PROVE  \E x \in BlocksIn(n, n.pd[q].parent) :
                 /\ x \in BlocksIn(m, m.pd[q].parent) /\ n.slot[x] = m.slot[x]
                 /\ IsPartOf(m, q, f, x)
    <3>1. PICK x \in BlocksIn(m, m.pd[q].parent) : IsPartOf(m, q, f, x)
      BY <1>0 DEF Containment
    <3>2. m.pd[q].parent \in L /\ x # e
      BY <1>0, <1>6, <3>1 DEF Tree, IsPartOf
    <3> QED
      BY <1>4, <1>5, <3>1, <3>2
  <2> SUFFICES ASSUME NEW q \in L \ {RootPD}, NEW f \in BlocksIn(n, q)
               PROVE  \E x \in BlocksIn(n, n.pd[q].parent) : IsPartOf(n, q, f, x)
    BY DEF Containment
  <2>2. CASE f # e /\ f # new
    <3>1. f \in BlocksIn(m, q) /\ n.slot[f] = m.slot[f]
      BY <1>5, <2>2
    <3> QED
      BY <2>1, <3>1 DEF IsPartOf
  <2>3. CASE f = e \/ f = new
    <3>1. q = p /\ e \in BlocksIn(m, q)
      BY <1>1, <1>5, <2>3
    <3>2. PICK x \in BlocksIn(n, n.pd[q].parent) :
                 /\ x \in BlocksIn(m, m.pd[q].parent) /\ n.slot[x] = m.slot[x]
                 /\ IsPartOf(m, q, e, x)
      BY <2>1, <3>1
    <3>3. m.slot[x].start \in Nat /\ m.slot[x].end \in Nat
      BY <1>0, <3>2, BlockType DEF Tree
    <3>4. CASE f = e
      BY <1>1, <1>2, <1>6, <3>2, <3>3, <3>4 DEF IsPartOf, Within
    <3>5. CASE f = new
      BY <1>2, <1>6, <3>2, <3>3, <3>5 DEF IsPartOf, Within
    <3> QED
      BY <2>3, <3>4, <3>5
  <2> QED
    BY <2>2, <2>3
<1>14. Consistent(n, L)
  BY <1>8, <1>9, <1>10, <1>11, <1>12, <1>c DEF Consistent
<1>15. \A q \in L : n.pd[q].mpu = m.pd[q].mpu
  <2>1. \A q \in L : q \in PDAddr
    BY ONLY L \in SUBSET PDAddr
  <2> QED
    BY <1>2, <2>1 DEF Popped
<1>16. Guarded(n, L)
  <2>1. \A q \in L : \A f \in BlocksIn(n, q) :
          f \in T /\ n.slot[f].accessible => ~ IsKernel(n, q, f)
    <3>1. /\ m.slot[e].start \notin StructsOf(m, p)
          /\ \A k \in StructsOf(m, p) : ~ (m.slot[e].start <= k /\ k < m.slot[e].end)
      BY AccessibleApart
    <3>2. a \notin StructsOf(m, p)
      BY <1>6, <3>1
    <3> QED
      BY <1>2, <1>3, <1>4, <1>5, <3>1, <3>2 DEF IsKernel
  <2>2. \A q \in L : \A f \in BlocksIn(n, q) :
           /\ f \in T \/ n.slot[f].inChild \in T
           /\ n.slot[f].accessible /\ n.slot[f].inChild # NullSlot
           => /\ ~ IsCut(n, n.slot[f].inChild)
              /\ n.slot[n.slot[f].inChild].accessible
    <3> SUFFICES ASSUME NEW q \in L, NEW f \in BlocksIn(n, q),
                        f \in T \/ n.slot[f].inChild \in T,
                        n.slot[f].accessible, n.slot[f].inChild # NullSlot
                 PROVE  FALSE
      OBVIOUS
    <3>1. f # e /\ f # new
      BY <1>2
    <3>2. f \in BlocksIn(m, q) /\ n.slot[f] = m.slot[f]
      BY <1>5, <3>1
    <3>3. m.slot[f].inChild # e
      BY <3>2
    <3>4. m.slot[f].inChild = new
      BY <1>3, <3>1, <3>2, <3>3
    <3>5. m.slot[f].inChild \in BlocksIn(m, m.slot[f].PDchild) /\ m.slot[f].PDchild \in L
      BY <1>0, <3>2 DEF Shares, IsShared
    <3> QED
      BY <1>1, <3>4, <3>5
  <2>3. \A q \in L : \A r \in Regions : n.pd[q].mpu[r] # NullSlot =>
           /\ n.pd[q].mpu[r] = m.pd[q].mpu[r]
           /\ n.pd[q].mpu[r] \in T => /\ n.pd[q].mpu[r] \in BlocksIn(n, q)
                                      /\ n.slot[n.pd[q].mpu[r]].accessible
    <3>1. \A q \in L : \A r \in Regions : m.pd[q].mpu[r] # NullSlot =>
            m.pd[q].mpu[r] \in BlocksIn(m, q)
      BY <1>0 DEF MPUMapsAccessible
    <3> QED
      BY <1>1, <1>2, <1>3, <1>5, <1>15, <3>1
  <2> QED
    BY <1>2, <2>1, <2>2, <2>3, KeptGuarded
<1>17. \A k \in Regions : n.pd[p].mpu[k] # new
  <2>1. \A k \in Regions : m.pd[p].mpu[k] # NullSlot => m.pd[p].mpu[k] \in BlocksIn(m, p)
    BY <1>0 DEF MPUMapsAccessible
  <2> QED
    BY <1>1, <1>15, <2>1
<1> QED
  BY <1>2, <1>6, <1>14, <1>16, <1>17 DEF new

\* Everyone may access what they could, and at most U besides.
Opened(m, n, L, U) ==
  /\ SameOwners(m, n, L)
  /\ \A x \in L : OpenIn(m, x) \subseteq OpenIn(n, x) /\ OpenIn(n, x) \subseteq OpenIn(m, x) \cup U

\* Showing blocks of the range of blocks of W opens at most the latter.
LEMMA AllShownMemory ==
  ASSUME NEW m \in Good, NEW n \in Good, NEW L \in SUBSET PDAddr, Ranges(m, L),
         NEW p \in L, NEW W, \A f \in W : f \in BlocksIn(m, p),
         NEW X, \A g \in X : \E f \in W : SameRange(m.slot[g], m.slot[f]),
         SameShape(m, n, L), Shows(m, n, L, X)
  PROVE  Opened(m, n, L, UNION {Extent(m, f) : f \in W})
<1> DEFINE U == UNION {Extent(m, f) : f \in W}
<1>1. \A f \in Slots : n.slot[f].accessible <=> m.slot[f].accessible \/ f \in X
  BY DEF Shows
<1>2. \A f \in W : \A u : u \in Extent(m, f) => u \in U
  OBVIOUS
<1> HIDE DEF U
<1>3. SameOwners(m, n, L)
  BY ShapeOwners
<1>4. ASSUME NEW x \in L
      PROVE  /\ OpenIn(m, x) \subseteq OpenIn(n, x)
             /\ OpenIn(n, x) \subseteq OpenIn(m, x) \cup U
  <2>1. BlocksIn(n, x) = BlocksIn(m, x)
    BY ShapeSlots
  <2>2. \A f \in BlocksIn(m, x) : f \in Slots
    BY BlockType
  <2>3. \A f \in BlocksIn(m, x) : \A u : Holds(n, x, f, u) <=> Holds(m, x, f, u)
    BY ShapeOwners
  <2>4. OpenIn(m, x) \subseteq OpenIn(n, x)
    BY <1>1, <2>1, <2>2, <2>3 DEF OpenIn
  <2>5. ASSUME NEW u \in OpenIn(n, x), u \notin OpenIn(m, x)
        PROVE  u \in U
    <3>1. PICK f \in BlocksIn(n, x) : n.slot[f].accessible /\ Holds(n, x, f, u)
      BY DEF OpenIn
    <3>2. u \in Unit /\ f \in BlocksIn(m, x) /\ Holds(m, x, f, u) /\ ~ m.slot[f].accessible
      BY <2>1, <2>3, <2>5, <3>1 DEF OpenIn
    <3>3. PICK e \in W : SameRange(m.slot[f], m.slot[e])
      BY <1>1, <2>2, <3>1, <3>2
    <3>4. Holds(m, p, e, u)
      BY <3>2, <3>3 DEF Holds, SameRange
    <3> QED
      BY <1>2, <3>2, <3>4, ExtentIn
  <2> QED
    BY <2>4, <2>5
<1>5. Opened(m, n, L, U)
  BY <1>3, <1>4 DEF Opened
<1> QED
  BY <1>5 DEF U

\* The blocks that ShowAbove shows have the range of e.
LEMMA ShownMemory ==
  ASSUME NEW m \in Good, NEW n \in Good, NEW L \in SUBSET PDAddr, Consistent(m, L),
         NEW p \in L, NEW e \in BlocksIn(m, p),
         NEW s, NEW t, m.slot[e].start = s, m.slot[e].end = t,
         SameShape(m, n, L), Shows(m, n, L, Hits(m, p, s, t))
  PROVE  Opened(m, n, L, Extent(m, e))
<1> DEFINE H == Hits(m, p, s, t)
           W == {e}
<1>1. \A g \in H : \E f \in W : SameRange(m.slot[g], m.slot[f])
  BY HitFacts DEF Consistent
<1>2. Shows(m, n, L, H) /\ \A f \in W : f \in BlocksIn(m, p)
  OBVIOUS
<1>3. UNION {Extent(m, f) : f \in W} = Extent(m, e)
  OBVIOUS
<1> HIDE DEF H, W
<1>4. Opened(m, n, L, UNION {Extent(m, f) : f \in W})
  BY <1>1, <1>2, AllShownMemory DEF Consistent
<1> QED
  BY <1>3, <1>4

\* The ancestors' blocks of several blocks of p.
AllHits(m, p, W) == UNION {Hits(m, p, m.slot[f].start, m.slot[f].end) : f \in W}

\* Only blocks of W, which a child shows, may be hidden from its parent.
OpenBut(m, L, W) ==
  \A x \in L : \A f \in BlocksIn(m, x) :
    /\ m.slot[f].inChild # NullSlot
    /\ ~ IsCut(m, m.slot[f].inChild) /\ m.slot[m.slot[f].inChild].accessible
    => m.slot[f].accessible \/ m.slot[f].inChild \in W

\* The blocks of T may have been freed, shown, or no longer be shared.
Loosened(m, n, L, T, W) ==
  \A p \in L : \A f \in BlocksIn(n, p) : f \in T =>
    /\ n.slot[f].inChild = NullSlot \/ n.slot[f].accessible
    /\ \/ f \in W \/ IsCut(n, f)
       \/ n.slot[f].accessible => m.slot[f].accessible /\ ~ IsCut(m, f)

\* When the others are as they were, only blocks of W may then be shown where
\* the parent's are not.
LEMMA RestOpenBut ==
  ASSUME NEW m \in Good, NEW n \in Good, NEW L \in SUBSET PDAddr, NEW T, NEW W,
         Consistent(n, L), OpenAbove(m, L), Loosened(m, n, L, T, W),
         \A p \in L : \A f \in BlocksIn(n, p) :
           f \notin T => f \in BlocksIn(m, p) /\ n.slot[f] = m.slot[f]
  PROVE  OpenBut(n, L, W)
<1> SUFFICES ASSUME NEW x \in L, NEW f \in BlocksIn(n, x),
                    n.slot[f].inChild # NullSlot, ~ IsCut(n, n.slot[f].inChild),
                    n.slot[n.slot[f].inChild].accessible,
                    ~ n.slot[f].accessible, n.slot[f].inChild \notin W
             PROVE  FALSE
  BY DEF OpenBut
<1> DEFINE h == n.slot[f].inChild
           y == n.slot[f].PDchild
<1>1. y \in L /\ h \in BlocksIn(n, y)
  BY CopyRange DEF Consistent
<1>2. f \in BlocksIn(m, x) /\ n.slot[f] = m.slot[f]
  BY DEF Loosened
<1>3. m.slot[h].accessible /\ ~ IsCut(m, h)
  <2>1. CASE h \in T
    BY <1>1, <2>1 DEF Loosened
  <2>2. CASE h \notin T
    <3>1. n.slot[h] = m.slot[h]
      BY <1>1, <2>2
    <3> QED
      BY <3>1 DEF IsCut
  <2> QED
    BY <2>1, <2>2
<1> QED
  BY <1>2, <1>3 DEF OpenAbove

LEMMA KeptOpenBut ==
  ASSUME NEW m \in Good, NEW n \in Good, NEW L \in SUBSET PDAddr, NEW T, NEW W,
         Consistent(n, L), OpenAbove(m, L), Loosened(m, n, L, T, W), Kept(m, n, L, T)
  PROVE  OpenBut(n, L, W)
<1>1. \A p \in L : \A f \in BlocksIn(n, p) :
        f \notin T => f \in BlocksIn(m, p) /\ n.slot[f] = m.slot[f]
  BY KeptSlots, SlotsOfIs
<1> QED
  BY <1>1, RestOpenBut

\* They no longer are once the ancestors' blocks of W are shown.
LEMMA ShowsStayOpen ==
  ASSUME NEW m \in Good, NEW n \in Good, NEW L \in SUBSET PDAddr, Consistent(m, L),
         NEW p \in L, NEW W, \A f \in W : f \in BlocksIn(m, p) /\ m.slot[f].accessible,
         SameShape(m, n, L), Shows(m, n, L, AllHits(m, p, W)), OpenBut(m, L, W)
  PROVE  OpenAbove(n, L)
<1> DEFINE X == AllHits(m, p, W)
<1>1. \A f \in Slots : n.slot[f].accessible <=> m.slot[f].accessible \/ f \in X
  BY DEF Shows
<1>2. ASSUME NEW g \in X
      PROVE  \E f \in W : g \in Hits(m, p, m.slot[f].start, m.slot[f].end)
  BY DEF AllHits
<1>3. ASSUME NEW f \in W, NEW g \in Hits(m, p, m.slot[f].start, m.slot[f].end)
      PROVE  g \in X
  BY DEF AllHits
<1> HIDE DEF X
<1>4. SUFFICES ASSUME NEW x \in L, NEW f \in BlocksIn(n, x),
                      n.slot[f].inChild # NullSlot, ~ IsCut(n, n.slot[f].inChild),
                      n.slot[n.slot[f].inChild].accessible, ~ n.slot[f].accessible
               PROVE  FALSE
  BY DEF OpenAbove
<1> DEFINE h == m.slot[f].inChild
           y == m.slot[f].PDchild
<1>5. \A z \in L : /\ BlocksIn(n, z) = BlocksIn(m, z)
                   /\ \A g \in BlocksIn(m, z) : SameEntry(n.slot[g], m.slot[g])
  BY ShapeSlots
<1>6. f \in BlocksIn(m, x) /\ n.slot[f].inChild = h /\ h # NullSlot /\ f \in Slots
  BY <1>4, <1>5, BlockType DEF SameEntry
<1>7. y \in L /\ h \in BlocksIn(m, y) /\ h \in Slots
  BY <1>6, CopyRange, BlockType DEF Consistent
<1>8. ~ IsCut(m, h)
  BY <1>4, <1>5, <1>6, <1>7 DEF SameEntry, IsCut
<1>9. ~ m.slot[f].accessible /\ f \notin X
  BY <1>1, <1>4, <1>6
<1>10. m.slot[h].accessible \/ h \in X
  BY <1>1, <1>4, <1>6, <1>7
<1>11. PICK w \in W : h \in Hits(m, p, m.slot[w].start, m.slot[w].end) \cup {w}
  <2>1. CASE h \in X
    BY <1>2, <2>1
  <2>2. CASE m.slot[h].accessible
    BY <1>6, <1>8, <1>9, <2>2 DEF OpenBut
  <2> QED
    BY <1>10, <2>1, <2>2
<1> DEFINE s == m.slot[w].start
           t == m.slot[w].end
<1>12. w \in BlocksIn(m, p) /\ m.slot[w].accessible
  OBVIOUS
<1>13. f \in Hits(m, p, s, t) \cup {w}
  <2>1. /\ Tree(m, L) /\ Ranges(m, L) /\ Structures(m, L) /\ Shares(m, L)
        /\ Containment(m, L)
    BY DEF Consistent
  <2>2. m.slot[w].start = s /\ m.slot[w].end = t
    OBVIOUS
  <2>3. m.slot[f].inChild \in Hits(m, p, s, t) \cup {w}
    BY <1>11
  <2> HIDE DEF s, t
  <2> QED
    BY <1>6, <1>8, <1>12, <2>1, <2>2, <2>3, HitsClosed
<1> QED
  BY <1>3, <1>9, <1>12, <1>13

\* One block of p is the case of merge and of remove.
LEMMA ShownStaysOpen ==
  ASSUME NEW m \in Good, NEW n \in Good, NEW L \in SUBSET PDAddr, Consistent(m, L),
         NEW p \in L, NEW e \in BlocksIn(m, p), m.slot[e].accessible,
         NEW s, NEW t, m.slot[e].start = s, m.slot[e].end = t,
         SameShape(m, n, L), Shows(m, n, L, Hits(m, p, s, t)), OpenBut(m, L, {e})
  PROVE  OpenAbove(n, L)
<1> DEFINE W == {e}
<1>1. AllHits(m, p, W) = Hits(m, p, s, t)
  BY DEF AllHits
<1>2. OpenBut(m, L, W) /\ \A f \in W : f \in BlocksIn(m, p) /\ m.slot[f].accessible
  OBVIOUS
<1>3. Shows(m, n, L, AllHits(m, p, W))
  BY <1>1
<1> HIDE DEF W
<1> QED
  BY <1>2, <1>3, ShowsStayOpen

\* A split leaves everyone the memory they had.
LEMMA SplitMemory ==
  ASSUME NEW m \in Good, NEW n \in Good, NEW L \in SUBSET PDAddr, Consistent(m, L),
         NEW p \in L, NEW e \in BlocksIn(m, p), m.slot[e].accessible,
         NEW a \in Nat, m.slot[e].start < a, a < m.slot[e].end,
         m.pd[p].nbFree > 0, IsSplit(m, n, L, p, e, m.pd[p].firstFree, a)
  PROVE  SameMemory(m, n, L)
<1> DEFINE new == m.pd[p].firstFree
<1>1. /\ Kept(m, n, L, {e, new})
      /\ n.slot[e].start = m.slot[e].start /\ n.slot[e].end = a
      /\ n.slot[e].present /\ n.slot[e].accessible
      /\ n.slot[new].start = a /\ n.slot[new].end = m.slot[e].end
      /\ n.slot[new].present /\ n.slot[new].accessible
  BY DEF IsSplit
<1>2. /\ \A x \in L \ {p} : BlocksIn(n, x) = BlocksIn(m, x)
      /\ BlocksIn(n, p) = BlocksIn(m, p) \cup {new}
      /\ \A x \in L : \A f \in BlocksIn(m, x) :
           /\ (f = e => x = p) /\ f # new
           /\ f # e => n.slot[f] = m.slot[f]
  BY <1>1, TakenBlocks
<1>3. \A x \in L : n.pd[x].parent = m.pd[x].parent /\ StructsOf(n, x) = StructsOf(m, x)
  BY <1>1 DEF Kept, StructsOf
<1>4. m.slot[e].start \in Nat /\ m.slot[e].end \in Nat
  BY BlockType
<1> HIDE DEF new
<1>5. ASSUME NEW x \in L \ {p}
      PROVE  PoolIn(n, x) = PoolIn(m, x) /\ OpenIn(n, x) = OpenIn(m, x)
  <2>1. /\ BlocksIn(n, x) = BlocksIn(m, x)
        /\ \A f \in BlocksIn(m, x) : n.slot[f] = m.slot[f]
    BY <1>2
  <2>2. /\ \A f \in BlocksIn(m, x) : SameRange(n.slot[f], m.slot[f])
        /\ \A f \in BlocksIn(m, x) : n.slot[f].accessible <=> m.slot[f].accessible
    BY <2>1 DEF SameRange
  <2> QED
    BY <2>1, <2>2, RangeMemory
<1>6. \A u \in Unit : Holds(m, p, e, u) <=> Holds(n, p, e, u) \/ Holds(n, p, new, u)
  BY <1>1, <1>2, <1>4 DEF Holds, Unit
<1>7. \A f \in BlocksIn(m, p) \ {e} : \A u : /\ Holds(n, p, f, u) <=> Holds(m, p, f, u)
                                             /\ n.slot[f] = m.slot[f]
  BY <1>2 DEF Holds
<1>8. PoolIn(n, p) = PoolIn(m, p)
  <2>1. \A u \in Unit : (\E f \in BlocksIn(m, p) : Holds(m, p, f, u))
                        <=> \E f \in BlocksIn(n, p) : Holds(n, p, f, u)
    BY <1>2, <1>6, <1>7
  <2> QED
    BY <2>1 DEF PoolIn
<1>9. OpenIn(n, p) = OpenIn(m, p)
  <2>1. \A u \in Unit :
          (\E f \in BlocksIn(m, p) : m.slot[f].accessible /\ Holds(m, p, f, u))
          <=> \E f \in BlocksIn(n, p) : n.slot[f].accessible /\ Holds(n, p, f, u)
    BY <1>1, <1>2, <1>6, <1>7
  <2> QED
    BY <2>1 DEF OpenIn
<1> QED
  BY <1>3, <1>5, <1>8, <1>9 DEF SameMemory, SameOwners, KernIn

\* When the blocks above e are hidden and e is split, no child shows a whole
\* block that its parent hides.
LEMMA SplitStaysOpen ==
  ASSUME NEW o \in Good, NEW m \in Good, NEW n \in Good, NEW L \in SUBSET PDAddr,
         Consistent(o, L), Consistent(m, L), Consistent(n, L), Guarded(n, L),
         NEW p \in L, NEW e \in BlocksIn(o, p), SameShape(o, m, L), HidesOnly(o, m, L, e),
         NEW a \in Nat, m.slot[e].start < a, a < m.slot[e].end,
         m.pd[p].nbFree > 0, IsSplit(m, n, L, p, e, m.pd[p].firstFree, a)
  PROVE  StaysOpen(o, n, L, L)
<1> DEFINE new == m.pd[p].firstFree
<1> SUFFICES ASSUME OpenAbove(o, L), NEW x \in L, NEW f \in BlocksIn(n, x),
                    n.slot[f].inChild # NullSlot, ~ IsCut(n, n.slot[f].inChild),
                    n.slot[n.slot[f].inChild].accessible, ~ n.slot[f].accessible
             PROVE  FALSE
  BY DEF StaysOpen, OpenAbove
<1> DEFINE h == n.slot[f].inChild
           y == n.slot[f].PDchild
<1>1. /\ Kept(m, n, L, {e, new}) /\ new \in Slots /\ new # NullSlot
      /\ n.slot[e].start = m.slot[e].start /\ n.slot[e].end = a /\ n.slot[e].next = new
      /\ n.slot[e].inChild = NullSlot /\ n.slot[e].present
      /\ n.slot[new].start = a /\ n.slot[new].origin = m.slot[e].origin
      /\ n.slot[new].inChild = NullSlot
  <2>1. new \in FreeIn(m, p)
    BY FreeHead DEF Consistent, FreeLists
  <2>2. new \in Slots /\ new # NullSlot
    BY <2>1, FreeType
  <2> QED
    BY <2>2 DEF IsSplit
<1> HIDE DEF new
<1>2. /\ \A z \in L : /\ BlocksIn(m, z) = BlocksIn(o, z) /\ SlotsOf(n, z) = SlotsOf(m, z)
                     /\ \A g \in BlocksIn(o, z) : SameEntry(m.slot[g], o.slot[g])
      /\ e \in BlocksIn(m, p)
  <2>1. \A z \in L : /\ BlocksIn(m, z) = BlocksIn(o, z)
                     /\ \A g \in BlocksIn(o, z) : SameEntry(m.slot[g], o.slot[g])
    BY ShapeSlots
  <2>2. \A z \in L : SlotsOf(n, z) = SlotsOf(m, z)
    BY <1>1, KeptSlots
  <2> QED
    BY <2>1, <2>2
<1>3. /\ m.slot[e].start \in Nat /\ m.slot[e].origin \in Nat
      /\ m.slot[e].origin <= m.slot[e].start
  BY <1>2, BlockType, BlockRange DEF Consistent
<1>4. e \in BlocksIn(n, p) /\ IsCut(n, e) /\ IsCut(n, new)
  <2>1. IsCut(n, e) /\ IsCut(n, new)
    BY <1>1, <1>3 DEF IsCut
  <2> QED
    BY <1>1, <1>2, <2>1 DEF BlocksIn
<1>5. f \notin {e, new} /\ h \notin {e, new}
  BY <1>1, <1>4
<1>6. y \in L /\ h \in BlocksIn(n, y) /\ SameRange(n.slot[h], n.slot[f])
  BY CopyRange DEF Consistent
<1>7. /\ f \in BlocksIn(m, x) /\ n.slot[f] = m.slot[f]
      /\ h \in BlocksIn(m, y) /\ n.slot[h] = m.slot[h]
  <2> DEFINE T == {e, new}
  <2>1. Kept(m, n, L, T) /\ f \notin T /\ h \notin T
    BY <1>1, <1>5
  <2> HIDE DEF T, h, y
  <2>2. f \in BlocksIn(m, x) /\ h \in BlocksIn(m, y)
    BY <1>6, <2>1, KeptSlots
  <2>3. f \in SlotsOf(m, x) /\ h \in SlotsOf(m, y)
    BY <2>2 DEF BlocksIn
  <2> QED
    BY <1>6, <2>1, <2>2, <2>3, KeptSlots
<1>8. /\ o.slot[f].inChild = h /\ ~ IsCut(o, h) /\ o.slot[h].accessible
  <2>1. h \in BlocksIn(o, y) /\ f \in BlocksIn(o, x) /\ m.slot[h].accessible
    BY <1>2, <1>6, <1>7
  <2>2. SameEntry(m.slot[h], o.slot[h]) /\ SameEntry(m.slot[f], o.slot[f])
    BY <1>2, <1>6, <2>1
  <2>3. ~ IsCut(m, h)
    BY <1>7 DEF IsCut
  <2> QED
    BY <1>6, <1>7, <2>1, <2>2, <2>3 DEF SameEntry, IsCut, HidesOnly
<1>9. o.slot[f].accessible
  BY <1>2, <1>7, <1>8 DEF OpenAbove
<1>10. SameRange(o.slot[f], o.slot[e])
  BY <1>2, <1>7, <1>9 DEF HidesOnly
<1>11. SameRange(n.slot[h], m.slot[e])
  BY <1>2, <1>6, <1>7, <1>10 DEF SameEntry, SameRange
<1> DEFINE u == n.slot[e].start
<1>12. u \in Int /\ Holds(n, y, h, u) /\ Holds(n, p, e, u)
  <2>1. /\ n.slot[h].start = m.slot[e].start /\ n.slot[h].start < n.slot[h].end
        /\ n.slot[h].start \in Nat
    BY <1>6, <1>11, BlockType, BlockRange DEF Consistent, SameRange
  <2> QED
    BY <1>1, <1>3, <1>4, <1>6, <2>1 DEF Holds
<1>13. y = p
  BY <1>1, <1>4, <1>6, <1>12, CutHiddenAbove DEF Consistent, Guarded
<1>14. h = e
  BY <1>6, <1>12, <1>13, HeldOnce DEF Consistent
<1> QED
  BY <1>5, <1>14

\* Everyone but p loses access to block e of p.
Narrowed(m, n, L, p, e) ==
  /\ Usable(m, p, e) /\ Consistent(n, L) /\ Guarded(n, L) /\ SameOwners(m, n, L)
  /\ OpenIn(n, p) = OpenIn(m, p) /\ StaysOpen(m, n, L, L)
  /\ \A x \in L \ {p} : OpenIn(n, x) = OpenIn(m, x) \ Extent(m, e)

\* cutMemoryBlock: the ancestors lose the block, a free slot takes its upper
\* part.
LEMMA cutMemoryBlockSound ==
  ASSUME IInv, NEW L \in SUBSET PDAddr, Consistent(Mem, L), Guarded(Mem, L),
         NEW c \in L, NEW e \in SlotsOf(Mem, c), NEW a \in CutPoints, NEW r,
         cutMemoryBlock(c, e, a, r)
  PROVE  SoundFor(Mem', c, L) /\ Narrowed(Mem, Mem', L, c, e)
<1> DEFINE bit == FALSE
           b   == slot[e]
           new == pd[c].firstFree
           m1  == writeAccessibleToAncestorsIfNotCutRec(Mem, c, e, bit)
           m2  == insertNewEntry(m1, c, a, b.end, b.origin, b.rights)
           m3  == [m2 EXCEPT !.slot = [@ EXCEPT ![new].next = b.next,
                                                ![e].end = a,
                                                ![e].next = new]]
<1>b. bit = FALSE
  BY SMTT(30)
<1>a. Commit(enableBlockInMPU(m3, c, new, r))
  BY ZenonT(30) DEF cutMemoryBlock
<1> HIDE DEF bit, m1, m2, m3
<1>0. /\ Mem \in Good /\ Mem.slot = slot /\ Mem.pd = pd /\ e \in Slots /\ b \in Entry
      /\ c \in PDAddr
  BY ONLY SMTT(30), IInv, L \in SUBSET PDAddr, c \in L, e \in SlotsOf(Mem, c), CallerType
<1>1. /\ pd[c].nbFree > 0 /\ b.present /\ b.accessible /\ b.PDchild = Null
      /\ b.start < a /\ a < b.end /\ e \in BlocksIn(Mem, c)
      /\ Commit(enableBlockInMPU(m3, c, new, r))
  BY ZenonT(30), <1>0, <1>a DEF cutMemoryBlock, IsFound, NotShared, BlocksIn
<1>2. Shares(Mem, L) /\ b.inChild = NullSlot
  BY <1>0, <1>1, NotSharedNoCopy DEF Consistent
<1>3. /\ m1 \in Good /\ SameShape(Mem, m1, L) /\ Consistent(m1, L) /\ Guarded(m1, L)
      /\ \A f \in SlotsOf(Mem, c) : m1.slot[f] = slot[f]
      /\ m1.pd[c] = pd[c]
      /\ \A x \in L : \A o \in BlocksIn(Mem, x) :
           slot[o].inChild = e => ~ m1.slot[o].accessible
      /\ HidesOnly(Mem, m1, L, e)
  <2> DEFINE n == writeAccessibleToAncestorsIfNotCutRec(Mem, c, e, FALSE)
  <2>1. Mem.slot[e].inChild = NullSlot
    BY <1>0, <1>2
  <2>2. /\ n \in Good /\ SameShape(Mem, n, L) /\ Consistent(n, L) /\ Guarded(n, L)
        /\ \A f \in SlotsOf(Mem, c) : n.slot[f] = Mem.slot[f]
        /\ n.pd[c] = Mem.pd[c]
        /\ \A x \in L : \A o \in BlocksIn(Mem, x) :
             Mem.slot[o].inChild = e => ~ n.slot[o].accessible
        /\ HidesOnly(Mem, n, L, e)
    BY <1>0, <1>1, <2>1, ClearAbove
  <2>3. m1 = n
    BY <1>b DEF m1
  <2> HIDE DEF n
  <2> QED
    BY <1>0, <2>2, <2>3
<1>4. /\ e \in BlocksIn(m1, c) /\ m1.slot[e] = b
      /\ \A x \in L : \A o \in BlocksIn(m1, x) :
           m1.slot[o].inChild = e => ~ m1.slot[o].accessible
  <2>1. m1.slot[e] = b
    BY <1>3
  <2>2. ASSUME NEW x \in L
        PROVE  /\ BlocksIn(m1, x) = BlocksIn(Mem, x)
               /\ \A o \in BlocksIn(Mem, x) : m1.slot[o].inChild = slot[o].inChild
    BY <1>0, <1>3, ShapeSlots DEF SameEntry
  <2> QED
    BY <1>1, <1>3, <2>1, <2>2
<1>5. /\ FreeListOK(m1, c) /\ m1.pd[c].nbFree > 0 /\ new = m1.pd[c].firstFree
      /\ a \in Nat /\ a \in 0 .. Top + 1
  <2>1. a \in Nat /\ a \in 0 .. Top + 1
    BY ConstantsAssumption
  <2>2. FreeListOK(m1, c)
    BY <1>3 DEF Consistent, FreeLists
  <2> QED
    BY <1>1, <1>3, <2>1, <2>2
<1>6. /\ b.end \in 0 .. Top + 1 /\ b.origin \in 0 .. Top + 1 /\ b.rights \in SUBSET Rights
      /\ b.next \in SlotRef
  BY <1>0 DEF Entry
<1>7. /\ m2 \in Good /\ Popped(m1, m2, c)
      /\ new \in Slots /\ IsNewBlock(m2.slot[new], a, b.end, b.origin, b.rights)
      /\ \A f \in Slots : f # new => m2.slot[f] = m1.slot[f]
  BY SMTT(30), <1>0, <1>3, <1>5, <1>6, InsertEffect DEF m2
<1>8. new # e
  <2>1. new \in FreeIn(m1, c)
    BY <1>0, <1>3, <1>5, FreeHead
  <2> QED
    BY <1>1, <1>4, <2>1 DEF FreeIn
<1>9. /\ \A f \in Slots : m3.slot[f] =
           IF f = e THEN [b EXCEPT !.end = a, !.next = new]
           ELSE IF f = new THEN [m2.slot[new] EXCEPT !.next = b.next] ELSE m1.slot[f]
      /\ m3.pd = m2.pd /\ m3 \in Good
  <2> DEFINE u == [m2.slot[new] EXCEPT !.next = b.next]
             d == [b EXCEPT !.end = a, !.next = new]
  <2>1. m2.slot \in [Slots -> Entry] /\ m2.slot[new] \in Entry /\ m2.slot[e] = b
    BY <1>0, <1>4, <1>7, <1>8 DEF Good
  <2>2. u \in Entry
    BY <1>6, <2>1 DEF Entry
  <2>3. d \in Entry
    BY ZenonT(30), <1>0, <1>5, <1>7 DEF Entry, SlotRef
  <2>4. m3 = [m2 EXCEPT !.slot = [[m2.slot EXCEPT ![new] = u] EXCEPT ![e] = d]]
    <3>1. m3 = [m2 EXCEPT !.slot =
                 [[[m2.slot EXCEPT ![new] = u] EXCEPT ![e].end = a] EXCEPT ![e].next = new]]
      BY <1>7 DEF m3
    <3>2. [m2.slot EXCEPT ![new] = u][e] = b
      BY <1>0, <1>7, <1>8, <2>1
    <3>3. [[[m2.slot EXCEPT ![new] = u] EXCEPT ![e].end = a] EXCEPT ![e].next = new]
            = [[m2.slot EXCEPT ![new] = u] EXCEPT ![e] = d]
      <4> DEFINE g == [m2.slot EXCEPT ![new] = u]
      <4>1. e \in DOMAIN g /\ g[e] = b
        BY <1>0, <2>1, <3>2
      <4> HIDE DEF g, b
      <4>2. [g EXCEPT ![e].end = a] = [g EXCEPT ![e] = [b EXCEPT !.end = a]]
        BY <4>1
      <4> DEFINE h == [g EXCEPT ![e] = [b EXCEPT !.end = a]]
      <4>3. e \in DOMAIN h /\ h[e] = [b EXCEPT !.end = a]
        BY <4>1
      <4>4. [h EXCEPT ![e] = d] = [g EXCEPT ![e] = d]
        BY <4>1
      <4> HIDE DEF h
      <4>5. [h EXCEPT ![e].next = new] = [h EXCEPT ![e] = d]
        BY <4>3
      <4> QED
        BY <4>2, <4>4, <4>5 DEF h, g
    <3> QED
      BY ZenonT(30), <3>1, <3>3
  <2> HIDE DEF u, d
  <2>5. m3 \in Good
    BY <1>0, <1>7, <2>1, <2>2, <2>3, <2>4 DEF Good
  <2>6. m3.pd = m2.pd /\ m3.slot = [[m2.slot EXCEPT ![new] = u] EXCEPT ![e] = d]
    BY <1>7, <2>4 DEF Good
  <2> QED
    BY <1>0, <1>7, <1>8, <2>1, <2>5, <2>6 DEF u, d
<1>10. IsSplit(m1, m3, L, c, e, new, a)
  <2>1. Popped(m1, m3, c)
    BY <1>7, <1>9 DEF Popped
  <2>2. Kept(m1, m3, L, {e, new})
    BY <1>9, <2>1 DEF Kept, Popped
  <2>3. m3.slot[e] = [b EXCEPT !.end = a, !.next = new]
    BY <1>0, <1>9
  <2>4. m3.slot[new] = [m2.slot[new] EXCEPT !.next = b.next]
    BY <1>7, <1>8, <1>9
  <2>5. ~ b.PDflag
    BY <1>0, <1>1, AccessibleApart
  <2>6. m2.slot[new] \in Entry
    BY <1>7 DEF Good
  <2> HIDE DEF b
  <2>7. /\ m3.slot[new].start = a /\ m3.slot[new].end = b.end /\ m3.slot[new].origin = b.origin
        /\ m3.slot[new].rights = b.rights /\ m3.slot[new].present
        /\ m3.slot[new].accessible /\ ~ m3.slot[new].PDflag
        /\ m3.slot[new].PDchild = Null /\ m3.slot[new].inChild = NullSlot
        /\ m3.slot[new].next = b.next
    BY <1>7, <2>4, <2>6 DEF Entry, IsNewBlock
  <2>8. /\ m3.slot[e].start = b.start /\ m3.slot[e].end = a /\ m3.slot[e].origin = b.origin
        /\ m3.slot[e].rights = b.rights
        /\ m3.slot[e].present /\ m3.slot[e].accessible /\ ~ m3.slot[e].PDflag
        /\ m3.slot[e].PDchild = Null /\ m3.slot[e].inChild = NullSlot
        /\ m3.slot[e].next = new
    BY <1>0, <1>1, <1>2, <2>3, <2>5 DEF Entry
  <2>9. m1.slot[e] = b
    BY <1>4
  <2> QED
    BY <2>1, <2>2, <2>7, <2>8, <2>9 DEF IsSplit
<1>11. /\ Consistent(m3, L) /\ Guarded(m3, L)
       /\ new \in BlocksIn(m3, c) /\ m3.slot[new].accessible
       /\ \A k \in Regions : m3.pd[c].mpu[k] # new
  BY SMTT(30), <1>1, <1>3, <1>4, <1>5, <1>9, <1>10, SplitKeeps
<1>12. LET n == enableBlockInMPU(m3, c, new, r)
       IN  /\ n \in Good /\ Consistent(n, L) /\ Guarded(n, L) /\ SameMemory(m3, n, L)
           /\ StaysOpen(m3, n, L, L)
  BY <1>7, <1>9, <1>11, EnableKeeps DEF SlotRef
<1> DEFINE n == enableBlockInMPU(m3, c, new, r)
<1>13. SoundFor(Mem', c, L) /\ Mem' = n
  BY <1>1, <1>12, CommitSound
<1>14. SameMemory(m1, n, L)
  <2>1. SameMemory(m1, m3, L)
    BY SMTT(30), <1>1, <1>3, <1>4, <1>5, <1>9, <1>10, SplitMemory
  <2> QED
    BY <1>12, <2>1, SameMemoryTrans
<1>15. SameOwners(Mem, m1, L)
  BY <1>0, <1>3, ShapeOwners
<1>16. Extent(Mem, e) = b.start .. b.end - 1
  BY <1>0 DEF Extent
<1>17. OpenIn(m1, c) = OpenIn(Mem, c)
  <2>1. BlocksIn(m1, c) = BlocksIn(Mem, c)
    BY <1>0, <1>3, ShapeSlots
  <2>2. \A f \in BlocksIn(Mem, c) : m1.slot[f] = Mem.slot[f]
    BY <1>0, <1>3 DEF BlocksIn
  <2> QED
    BY <2>1, <2>2, RangeMemory DEF SameRange
<1>18. ASSUME NEW x \in L \ {c}, NEW u \in OpenIn(m3, x)
       PROVE  u \notin Extent(Mem, e)
  <2> SUFFICES ASSUME u \in b.start .. b.end - 1
               PROVE  FALSE
    BY <1>16
  <2>1. PICK o \in BlocksIn(m3, x) : m3.slot[o].accessible /\ Holds(m3, x, o, u)
    BY DEF OpenIn
  <2>2. u \in Int
    BY DEF OpenIn, Unit
  <2>3. b.start \in Nat /\ b.end \in Nat /\ b.origin \in Nat /\ b.origin <= b.start
    BY <1>0, <1>1, BlockType, BlockRange DEF Consistent
  <2>4. /\ m3.slot[e].start = b.start /\ m3.slot[e].end = a /\ m3.slot[e].next = new
        /\ m3.slot[e].inChild = NullSlot
        /\ m3.slot[new].start = a /\ m3.slot[new].end = b.end
        /\ m3.slot[new].origin = b.origin /\ m3.slot[new].inChild = NullSlot
        /\ m3.slot[e].present
    BY <1>4, <1>10 DEF IsSplit
  <2>5. e \in BlocksIn(m3, c) /\ IsCut(m3, e) /\ IsCut(m3, new)
    <3>1. NullSlot # new
      BY <1>7, NullSlotNoSlot
    <3>2. IsCut(m3, e) /\ IsCut(m3, new)
      BY <1>1, <1>5, <2>3, <2>4, <3>1 DEF IsCut
    <3>3. SlotsOf(m3, c) = SlotsOf(m1, c)
      BY <1>10 DEF IsSplit, Kept, SlotsOf
    <3> QED
      BY <1>4, <2>4, <3>2, <3>3 DEF BlocksIn
  <2>6. \E k \in BlocksIn(m3, c) : /\ m3.slot[k].inChild = NullSlot /\ IsCut(m3, k)
                                   /\ Holds(m3, c, k, u)
    <3>1. CASE u < a
      BY <1>5, <2>2, <2>4, <2>5, <3>1 DEF Holds
    <3>2. CASE ~ (u < a)
      BY <1>5, <1>11, <2>2, <2>3, <2>4, <2>5, <3>2 DEF Holds
    <3> QED
      BY <3>1, <3>2
  <2>7. x = c
    BY <1>9, <1>11, <2>1, <2>2, <2>6, CutHiddenAbove DEF Consistent, Guarded
  <2> QED
    BY <2>7
<1>19. ASSUME NEW x \in L \ {c}
       PROVE  OpenIn(n, x) = OpenIn(Mem, x) \ Extent(Mem, e)
  <2>1. OpenIn(n, x) = OpenIn(m1, x) /\ OpenIn(n, x) = OpenIn(m3, x)
    BY <1>12, <1>14 DEF SameMemory
  <2>2. \A u \in OpenIn(m1, x) : u \in OpenIn(Mem, x) /\ u \notin Extent(Mem, e)
    <3>1. OpenIn(m1, x) \subseteq OpenIn(Mem, x)
      BY <1>0, <1>1, <1>3, HidesOnlyOpen
    <3> QED
      BY <1>18, <2>1, <3>1
  <2>3. OpenIn(Mem, x) \ Extent(Mem, e) \subseteq OpenIn(m1, x)
    BY <1>0, <1>1, <1>3, HidesOnlyOpen
  <2> QED
    BY <2>1, <2>2, <2>3
<1>20. Narrowed(Mem, n, L, c, e)
  <2>1. Usable(Mem, c, e)
    BY <1>0, <1>1, <1>2 DEF Usable
  <2>2. StaysOpen(Mem, m3, L, L)
    <3>1. m1.slot[e].start < a /\ a < m1.slot[e].end /\ m3 \in Good
      BY <1>1, <1>4, <1>9
    <3> QED
      BY <1>0, <1>1, <1>3, <1>5, <1>10, <1>11, <3>1, SplitStaysOpen
  <2>3. StaysOpen(Mem, n, L, L)
    BY <1>12, <2>2, StaysOpenTrans
  <2> QED
    BY <1>12, <1>14, <1>15, <1>17, <1>19, <2>1, <2>3 DEF Narrowed, SameMemory, SameOwners
<1> QED
  BY <1>13, <1>20

-----------------------------------------------------------------------------
(* add.                                                                    *)

\* Block e of p is shared with q, whose copy is in the slot new.
IsShare(m, n, L, p, e, q, new, rights) ==
  /\ Popped(m, n, q) /\ Kept(m, n, L, {e, new})
  /\ IsNewBlock(n.slot[new], m.slot[e].start, m.slot[e].end, m.slot[e].start, rights)
  /\ LET b == m.slot[e]
         d == n.slot[e]
     IN  /\ d.start = b.start /\ d.end = b.end /\ d.origin = b.origin /\ d.rights = b.rights
         /\ d.present /\ d.accessible /\ ~ d.PDflag /\ d.next = b.next
         /\ d.PDchild = q /\ d.inChild = new

\* Sharing an accessible block that has no child keeps the data consistent
\* and guarded.
LEMMA ShareKeeps ==
  ASSUME NEW m \in Good, NEW n \in Good, NEW L \in SUBSET PDAddr,
         Consistent(m, L), Guarded(m, L),
         NEW p \in L, NEW e \in BlocksIn(m, p), m.slot[e].accessible,
         m.slot[e].PDchild = Null,
         NEW q \in L \ {RootPD}, m.pd[q].parent = p,
         NEW rights, "r" \in rights, rights \subseteq m.slot[e].rights,
         m.pd[q].nbFree > 0, IsShare(m, n, L, p, e, q, m.pd[q].firstFree, rights)
  PROVE  Consistent(n, L) /\ Guarded(n, L)
<1> DEFINE new == m.pd[q].firstFree
           T == {e, new}
<1>0. /\ Tree(m, L) /\ Homes(m, L) /\ Structures(m, L) /\ Ranges(m, L) /\ Cuts(m, L)
      /\ Shares(m, L) /\ Containment(m, L) /\ FreeLists(m, L)
      /\ KernelBlocksHidden(m, L) /\ CopiesAccessible(m, L) /\ MPUMapsAccessible(m, L)
  BY DEF Consistent, Guarded
<1>a. /\ Popped(m, n, q) /\ Kept(m, n, L, {e, m.pd[q].firstFree})
      /\ n.slot[e].present /\ n.slot[m.pd[q].firstFree].present
  BY DEF IsShare, IsNewBlock
<1>1. /\ new \in FreeIn(m, q) /\ new # e /\ new # NullSlot
      /\ \A x \in L \ {q} : BlocksIn(n, x) = BlocksIn(m, x) /\ FreeIn(n, x) = FreeIn(m, x)
      /\ BlocksIn(n, q) = BlocksIn(m, q) \cup {new}
      /\ FreeIn(n, q) = FreeIn(m, q) \ {new}
      /\ \A x \in L : new \notin BlocksIn(m, x) /\ e \notin FreeIn(m, x)
      /\ \A x \in L : \A f \in BlocksIn(m, x) :
           /\ f \in BlocksIn(n, x) /\ (f = e => x = p)
           /\ f # e => n.slot[f] = m.slot[f]
      /\ \A x \in L : \A f \in BlocksIn(n, x) :
           (f = new /\ x = q) \/ (f \in BlocksIn(m, x) /\ f # new)
  BY <1>a, TakenBlocks
<1>b. FreeLists(n, L)
  BY <1>a, TakenFree
<1>2. /\ Popped(m, n, q) /\ Kept(m, n, L, T)
      /\ n.slot[e].start = m.slot[e].start /\ n.slot[e].end = m.slot[e].end
      /\ n.slot[e].origin = m.slot[e].origin /\ n.slot[e].rights = m.slot[e].rights
      /\ n.slot[e].next = m.slot[e].next
      /\ n.slot[e].present /\ n.slot[e].accessible /\ ~ n.slot[e].PDflag
      /\ n.slot[e].PDchild = q /\ n.slot[e].inChild = new
      /\ n.slot[new].start = m.slot[e].start /\ n.slot[new].end = m.slot[e].end
      /\ n.slot[new].origin = m.slot[e].start /\ n.slot[new].rights = rights
      /\ n.slot[new].present /\ n.slot[new].accessible /\ ~ n.slot[new].PDflag
      /\ n.slot[new].PDchild = Null /\ n.slot[new].inChild = NullSlot
      /\ n.slot[new].next = NullSlot
  BY DEF IsShare, IsNewBlock
<1> HIDE DEF new
<1>3. /\ e \in T /\ new \in T /\ \A f : f \in T => f = e \/ f = new
  OBVIOUS
<1> HIDE DEF T
<1>4. /\ \A x \in L : StructsOf(n, x) = StructsOf(m, x)
      /\ \A x \in L : n.pd[x].parent = m.pd[x].parent
  BY <1>2 DEF Kept, StructsOf
<1>5. /\ \A x \in L : \A f \in BlocksIn(m, x) : f # e => n.slot[f] = m.slot[f]
      /\ \A x \in L : \A f \in BlocksIn(m, x) : f \in BlocksIn(n, x)
      /\ \A x \in L : \A f \in BlocksIn(n, x) :
           (f = new /\ x = q) \/ (f \in BlocksIn(m, x) /\ f # new)
      /\ \A x \in L : \A f \in BlocksIn(m, x) : f = e => x = p
  BY <1>1
<1>6. /\ e \in BlocksIn(n, p) /\ new \in BlocksIn(n, q)
      /\ m.slot[e].inChild = NullSlot
      /\ m.slot[e].start \in Nat /\ m.slot[e].end \in Nat /\ m.slot[e].origin \in Nat
      /\ WellFormed(m.slot[e])
  BY <1>0, <1>1, NotSharedNoCopy, BlockType DEF Ranges
<1>7. /\ ~ m.slot[e].PDflag
      /\ \A x \in L : m.slot[e].start \notin StructsOf(m, x)
  BY AccessibleApart
<1>8. Tree(n, L) /\ Homes(n, L) /\ Structures(n, L)
  <2>1. NoKernelIn(m, L, T)
    BY <1>1, <1>3, <1>7 DEF NoKernelIn
  <2> QED
    BY <1>2, <1>3, <2>1, KeptRest
<1>9. \A x \in L : \A f \in BlocksIn(m, x) :
        /\ n.slot[f].start = m.slot[f].start /\ n.slot[f].end = m.slot[f].end
        /\ n.slot[f].origin = m.slot[f].origin /\ n.slot[f].rights = m.slot[f].rights
        /\ n.slot[f].next = m.slot[f].next
  BY <1>2, <1>5
<1>10. Ranges(n, L)
  <2>1. ASSUME NEW g \in BlocksIn(m, q) PROVE ~ Overlap(n.slot[new], n.slot[g])
    <3>1. ~ Overlap(m.slot[e], m.slot[g])
      BY <1>0, <1>6, NotInChild
    <3> QED
      BY <1>2, <1>9, <3>1 DEF Overlap
  <2>2. ASSUME NEW x \in L, NEW f \in BlocksIn(n, x) PROVE WellFormed(n.slot[f])
    <3>1. CASE f = new
      BY <1>2, <1>6, <3>1 DEF WellFormed
    <3>2. CASE f \in BlocksIn(m, x)
      BY <1>0, <1>9, <3>2 DEF WellFormed, Ranges
    <3> QED
      BY <1>5, <3>1, <3>2
  <2>3. ASSUME NEW x \in L, NEW f \in BlocksIn(n, x), NEW g \in BlocksIn(n, x),
               Overlap(n.slot[f], n.slot[g])
        PROVE  f = g
    <3>1. CASE f \in BlocksIn(m, x) /\ g \in BlocksIn(m, x)
      <4>1. Overlap(m.slot[f], m.slot[g])
        BY <1>9, <2>3, <3>1 DEF Overlap
      <4> QED
        BY <1>0, <3>1, <4>1, SameBlock
    <3>2. CASE f = new
      BY <1>5, <2>1, <2>3, <3>2
    <3>3. CASE g = new
      <4>1. Overlap(n.slot[g], n.slot[f])
        BY <2>3 DEF Overlap
      <4> QED
        BY <1>5, <2>1, <3>3, <4>1
    <3> QED
      BY <1>5, <3>1, <3>2, <3>3
  <2> QED
    BY <2>2, <2>3 DEF Ranges
<1>11. Cuts(n, L)
  <2> SUFFICES ASSUME NEW x \in L, NEW f \in BlocksIn(n, x), n.slot[f].next # NullSlot
               PROVE  /\ n.slot[f].next \in BlocksIn(n, x)
                      /\ n.slot[n.slot[f].next].start = n.slot[f].end
                      /\ n.slot[n.slot[f].next].origin = n.slot[f].origin
    BY DEF Cuts
  <2>1. f \in BlocksIn(m, x) /\ m.slot[f].next = n.slot[f].next
    BY <1>2, <1>5, <1>9
  <2>2. /\ m.slot[f].next \in BlocksIn(m, x)
        /\ m.slot[m.slot[f].next].start = m.slot[f].end
        /\ m.slot[m.slot[f].next].origin = m.slot[f].origin
    BY <1>0, <2>1 DEF Cuts
  <2> QED
    BY <1>5, <1>9, <2>1, <2>2
<1>12. Shares(n, L)
  <2> SUFFICES ASSUME NEW x \in L, NEW f \in BlocksIn(n, x)
               PROVE  /\ n.slot[f].PDchild # Null =>
                           /\ n.slot[f].PDchild \in L
                           /\ n.pd[n.slot[f].PDchild].parent = x
                      /\ n.slot[f].inChild # NullSlot => IsShared(n, f)
    BY DEF Shares
  <2>1. CASE f = new
    BY <1>2, <2>1
  <2>2. CASE f = e
    <3>1. x = p
      BY <1>1, <1>5, <2>2
    <3>2. IsShared(n, e)
      BY <1>2, <1>6, NullOutside DEF IsShared
    <3> QED
      BY <1>2, <1>4, <2>2, <3>1, <3>2
  <2>3. CASE f # e /\ f # new
    <3>1. f \in BlocksIn(m, x) /\ n.slot[f] = m.slot[f]
      BY <1>5, <2>3
    <3>2. m.slot[f].PDchild # Null =>
            m.slot[f].PDchild \in L /\ m.pd[m.slot[f].PDchild].parent = x
      BY <1>0, <3>1 DEF Shares
    <3>3. ASSUME n.slot[f].inChild # NullSlot PROVE IsShared(n, f)
      <4>1. IsShared(m, f)
        BY <1>0, <3>1, <3>3 DEF Shares
      <4>2. /\ m.slot[f].PDchild \in L /\ m.slot[f].inChild \in BlocksIn(m, m.slot[f].PDchild)
        BY <3>2, <4>1 DEF IsShared
      <4>3. /\ m.slot[f].inChild \in BlocksIn(n, m.slot[f].PDchild)
            /\ n.slot[m.slot[f].inChild].start = m.slot[m.slot[f].inChild].start
            /\ n.slot[m.slot[f].inChild].origin = m.slot[m.slot[f].inChild].origin
        BY <1>5, <1>9, <4>2
      <4> QED
        BY <3>1, <4>1, <4>3 DEF IsShared
    <3> QED
      BY <1>4, <3>1, <3>2, <3>3
  <2> QED
    BY <2>1, <2>2, <2>3
<1>13. Containment(n, L)
  <2> SUFFICES ASSUME NEW x \in L \ {RootPD}, NEW f \in BlocksIn(n, x)
               PROVE  \E g \in BlocksIn(n, n.pd[x].parent) : IsPartOf(n, x, f, g)
    BY DEF Containment
  <2>1. CASE f \in BlocksIn(m, x)
    <3>1. PICK g \in BlocksIn(m, m.pd[x].parent) : IsPartOf(m, x, f, g)
      BY <1>0, <2>1 DEF Containment
    <3>2. m.pd[x].parent \in L /\ g # e
      BY <1>0, <1>6, <3>1 DEF Tree, IsPartOf
    <3>3. g \in BlocksIn(n, n.pd[x].parent) /\ n.slot[g] = m.slot[g]
      BY <1>4, <1>5, <3>2
    <3> QED
      BY <1>9, <2>1, <3>1, <3>3 DEF IsPartOf, Within
  <2>2. CASE f = new
    <3>1. x = q
      BY <1>1, <1>5, <2>2
    <3>2. IsPartOf(n, q, new, e)
      BY <1>1, <1>2, <1>6 DEF IsPartOf, Within
    <3> QED
      BY <1>4, <1>6, <2>2, <3>1, <3>2
  <2> QED
    BY <1>5, <2>1, <2>2
<1>14. Consistent(n, L)
  BY <1>b, <1>8, <1>10, <1>11, <1>12, <1>13 DEF Consistent
<1>15. \A x \in L : n.pd[x].mpu = m.pd[x].mpu
  <2>1. \A x \in L : x \in PDAddr
    BY ONLY L \in SUBSET PDAddr
  <2> QED
    BY <1>2, <2>1 DEF Popped
<1>16. Guarded(n, L)
  <2>1. \A x \in L : \A f \in BlocksIn(n, x) :
          f \in T /\ n.slot[f].accessible => ~ IsKernel(n, x, f)
    BY <1>1, <1>2, <1>3, <1>4, <1>7 DEF IsKernel
  <2>2. \A x \in L : \A f \in BlocksIn(n, x) :
           /\ f \in T \/ n.slot[f].inChild \in T
           /\ n.slot[f].accessible /\ n.slot[f].inChild # NullSlot
           => /\ ~ IsCut(n, n.slot[f].inChild)
              /\ n.slot[n.slot[f].inChild].accessible
    <3> SUFFICES ASSUME NEW x \in L, NEW f \in BlocksIn(n, x),
                        f \in T \/ n.slot[f].inChild \in T,
                        n.slot[f].accessible, n.slot[f].inChild # NullSlot
                 PROVE  /\ ~ IsCut(n, n.slot[f].inChild)
                        /\ n.slot[n.slot[f].inChild].accessible
      OBVIOUS
    <3>1. CASE f = e
      BY <1>2, <3>1 DEF IsCut
    <3>2. CASE f # e
      <4>1. f # new
        BY <1>2
      <4>2. f \in BlocksIn(m, x) /\ n.slot[f] = m.slot[f]
        BY <1>5, <3>2, <4>1
      <4>3. m.slot[f].inChild \in BlocksIn(m, m.slot[f].PDchild) /\ m.slot[f].PDchild \in L
        BY <1>0, <4>2 DEF Shares, IsShared
      <4>4. m.slot[f].inChild = e
        BY <1>1, <1>3, <3>2, <4>1, <4>2, <4>3
      <4>5. ~ IsCut(m, e)
        BY <1>0, <4>2, <4>4 DEF CopiesAccessible
      <4> QED
        BY <1>2, <4>2, <4>4, <4>5 DEF IsCut
    <3> QED
      BY <3>1, <3>2
  <2>3. \A x \in L : \A r \in Regions : n.pd[x].mpu[r] # NullSlot =>
           /\ n.pd[x].mpu[r] = m.pd[x].mpu[r]
           /\ n.pd[x].mpu[r] \in T => /\ n.pd[x].mpu[r] \in BlocksIn(n, x)
                                      /\ n.slot[n.pd[x].mpu[r]].accessible
    <3>1. \A x \in L : \A r \in Regions : m.pd[x].mpu[r] # NullSlot =>
            m.pd[x].mpu[r] \in BlocksIn(m, x)
      BY <1>0 DEF MPUMapsAccessible
    <3> QED
      BY <1>1, <1>2, <1>3, <1>5, <1>15, <3>1
  <2> QED
    BY <1>2, <2>1, <2>2, <2>3, KeptGuarded
<1> QED
  BY <1>14, <1>16

\* The child gains the block, open, and nothing else changes hands.
Given(m, n, L, p, e, q) ==
  /\ Usable(m, p, e) /\ q \in L \ {RootPD} /\ m.pd[q].parent = p
  /\ Consistent(n, L) /\ Guarded(n, L)
  /\ \A x \in L : n.pd[x].parent = m.pd[x].parent /\ KernIn(n, x) = KernIn(m, x)
  /\ \A x \in L \ {q} : PoolIn(n, x) = PoolIn(m, x) /\ OpenIn(n, x) = OpenIn(m, x)
  /\ PoolIn(n, q) = PoolIn(m, q) \cup Extent(m, e)
  /\ OpenIn(n, q) = OpenIn(m, q) \cup Extent(m, e)
  /\ StaysOpen(m, n, L, L)

\* A block shared with a child is given to it: what the child gains is what the
\* block had.
LEMMA ShareMemory ==
  ASSUME NEW m \in Good, NEW n \in Good, NEW L \in SUBSET PDAddr,
         Consistent(m, L), Guarded(m, L), Consistent(n, L), Guarded(n, L),
         NEW p \in L, NEW e \in BlocksIn(m, p), m.slot[e].accessible,
         m.slot[e].PDchild = Null,
         NEW q \in L \ {RootPD}, m.pd[q].parent = p,
         NEW rights, m.pd[q].nbFree > 0,
         IsShare(m, n, L, p, e, q, m.pd[q].firstFree, rights)
  PROVE  Given(m, n, L, p, e, q)
<1> DEFINE new == m.pd[q].firstFree
<1>1. /\ Popped(m, n, q) /\ Kept(m, n, L, {e, m.pd[q].firstFree})
      /\ n.slot[e].present /\ n.slot[m.pd[q].firstFree].present
  BY DEF IsShare, IsNewBlock
<1>2. /\ \A x \in L \ {q} : BlocksIn(n, x) = BlocksIn(m, x)
      /\ BlocksIn(n, q) = BlocksIn(m, q) \cup {new}
      /\ \A x \in L : new \notin BlocksIn(m, x)
      /\ \A x \in L : \A f \in BlocksIn(m, x) : f # e => n.slot[f] = m.slot[f]
  BY <1>1, TakenBlocks
<1>3. /\ n.slot[e].start = m.slot[e].start /\ n.slot[e].end = m.slot[e].end
      /\ n.slot[e].accessible
      /\ n.slot[new].start = m.slot[e].start /\ n.slot[new].end = m.slot[e].end
      /\ n.slot[new].accessible
  BY DEF IsShare, IsNewBlock
<1> HIDE DEF new
<1>4. \A x \in L : \A f \in BlocksIn(m, x) :
        SameRange(n.slot[f], m.slot[f]) /\ (n.slot[f].accessible <=> m.slot[f].accessible)
  BY <1>2, <1>3 DEF SameRange
<1>5. \A x \in L : n.pd[x].parent = m.pd[x].parent /\ KernIn(n, x) = KernIn(m, x)
  BY <1>1 DEF Kept, StructsOf, KernIn
<1>6. \A x \in L \ {q} : PoolIn(n, x) = PoolIn(m, x) /\ OpenIn(n, x) = OpenIn(m, x)
  BY <1>2, <1>4, RangeMemory
<1>7. \A f \in BlocksIn(m, q) : \A u : Holds(n, q, f, u) <=> Holds(m, q, f, u)
  BY <1>2, <1>4 DEF Holds, SameRange
<1>8. \A u \in Unit : Holds(n, q, new, u) <=> u \in Extent(m, e)
  <2>1. \A u \in Unit : u \in Extent(m, e) <=> Holds(m, p, e, u)
    BY ExtentIn DEF Consistent
  <2> QED
    BY <1>2, <1>3, <2>1 DEF Holds
<1>9. Extent(m, e) \subseteq Unit
  BY ExtentIn DEF Consistent, PoolIn
<1>10. PoolIn(n, q) = PoolIn(m, q) \cup Extent(m, e)
  BY <1>2, <1>7, <1>8, <1>9 DEF PoolIn
<1>11. OpenIn(n, q) = OpenIn(m, q) \cup Extent(m, e)
  BY <1>2, <1>3, <1>4, <1>7, <1>8, <1>9 DEF OpenIn
<1>12. Usable(m, p, e)
  BY NotSharedNoCopy DEF Usable, Consistent
<1>13. StaysOpen(m, n, L, L)
  <2> DEFINE T == {e, new}
  <2>1. Kept(m, n, L, T)
    BY <1>1 DEF new
  <2>2. ASSUME OpenAbove(m, L), NEW x \in L, NEW f \in BlocksIn(n, x),
               f \in T \/ n.slot[f].inChild \in T, n.slot[f].inChild # NullSlot,
               ~ IsCut(n, n.slot[f].inChild)
        PROVE  n.slot[f].accessible
    <3>1. n.slot[new].inChild = NullSlot
      BY DEF new, IsShare, IsNewBlock
    <3>2. CASE f = e
      BY <1>3, <3>2
    <3>3. CASE f # e
      <4>1. f # new
        BY <2>2, <3>1
      <4>2. f \in BlocksIn(m, x) /\ n.slot[f] = m.slot[f]
        BY <1>2, <3>3, <4>1
      <4>3. n.slot[f].inChild # new
        BY <1>2, <2>2, <4>2 DEF Consistent, Shares, IsShared
      <4>4. n.slot[f].inChild = e
        BY <2>2, <3>3, <4>1, <4>3
      <4>5. ~ IsCut(m, e)
        BY <2>2, <4>4 DEF IsShare, IsCut
      <4> QED
        BY <2>2, <4>2, <4>4, <4>5 DEF OpenAbove
    <3> QED
      BY <3>2, <3>3
  <2> HIDE DEF T
  <2> QED
    BY <2>1, <2>2, KeptStaysOpen
<1> QED
  BY <1>5, <1>6, <1>10, <1>11, <1>12, <1>13 DEF Given

\* addMemoryBlock: a child gets a copy of a block that has no child yet.
LEMMA addMemoryBlockSound ==
  ASSUME IInv, NEW L \in SUBSET PDAddr, Consistent(Mem, L), Guarded(Mem, L),
         NEW c \in L, NEW t \in PDAddr, NEW e \in SlotsOf(Mem, c), NEW rights,
         rights \in SUBSET Rights, addMemoryBlock(c, t, e, rights)
  PROVE  SoundFor(Mem', c, L) /\ Given(Mem, Mem', L, c, e, t)
<1> DEFINE b   == slot[e]
           new == pd[t].firstFree
           m1  == insertNewEntry(Mem, t, b.start, b.end, b.start, rights)
           n   == [m1 EXCEPT !.slot[e].PDchild = t, !.slot[e].inChild = new]
<1>0. /\ Mem \in Good /\ Mem.slot = slot /\ Mem.pd = pd /\ e \in Slots /\ b \in Entry
      /\ c \in PDAddr
  BY CallerType
<1>1. /\ b.present /\ b.accessible /\ b.PDchild = Null /\ e \in BlocksIn(Mem, c)
      /\ "r" \in rights /\ rights \ {"r"} \subseteq b.rights
      /\ t \in Children(Mem, c) /\ pd[t].nbFree > 0 /\ Commit(n)
  BY <1>0 DEF addMemoryBlock, IsFound, NotShared, BlocksIn, checkRights
<1>2. t \in L \ {RootPD} /\ pd[t].parent = c
  BY <1>0, <1>1, ChildFacts DEF Consistent
<1>3. rights \subseteq b.rights
  <2>1. "r" \in b.rights
    BY <1>0, <1>1, BlockRange DEF Consistent
  <2> QED
    BY <1>1, <2>1
<1>4. /\ b.start \in 0 .. Top + 1 /\ b.end \in 0 .. Top + 1
  BY <1>0 DEF Entry
<1>5. FreeListOK(Mem, t)
  BY <1>2 DEF Consistent, FreeLists
<1>6. /\ m1 \in Good /\ Popped(Mem, m1, t) /\ new \in Slots
      /\ IsNewBlock(m1.slot[new], b.start, b.end, b.start, rights)
      /\ \A f \in Slots : f # new => m1.slot[f] = slot[f]
  BY <1>0, <1>1, <1>4, <1>5, InsertEffect
<1> HIDE DEF m1
<1>7. new # e
  <2>1. new \in FreeIn(Mem, t)
    BY <1>0, <1>1, <1>5, FreeHead
  <2> QED
    BY <1>0, <1>1, <2>1 DEF FreeIn
<1>8. /\ \A f \in Slots : n.slot[f] =
           IF f = e THEN [b EXCEPT !.PDchild = t, !.inChild = new] ELSE m1.slot[f]
      /\ n.pd = m1.pd /\ n \in Good
  <2> DEFINE d == [b EXCEPT !.PDchild = t, !.inChild = new]
             g == m1.slot
             h == [g EXCEPT ![e] = [b EXCEPT !.PDchild = t]]
  <2>1. g \in [Slots -> Entry] /\ g[e] = b
    BY <1>0, <1>6, <1>7 DEF Good
  <2>2. d \in Entry
    BY <1>0, <1>6 DEF Entry, SlotRef
  <2> HIDE DEF b, g
  <2>3. h = [g EXCEPT ![e].PDchild = t]
    BY <1>0, <2>1
  <2>4. e \in DOMAIN h /\ h[e] = [b EXCEPT !.PDchild = t]
    BY <1>0, <2>1
  <2>5. [h EXCEPT ![e] = d] = [g EXCEPT ![e] = d]
    BY <1>0, <2>1
  <2> HIDE DEF h
  <2>6. [h EXCEPT ![e].inChild = new] = [h EXCEPT ![e] = d]
    BY <2>4
  <2>7. n = [m1 EXCEPT !.slot = [g EXCEPT ![e] = d]]
    <3>1. n = [m1 EXCEPT !.slot = [[g EXCEPT ![e].PDchild = t] EXCEPT ![e].inChild = new]]
      BY ZenonT(30), <1>6 DEF g, Good
    <3> QED
      BY <2>3, <2>5, <2>6, <3>1
  <2> HIDE DEF d, n
  <2>8. n \in Good
    BY <1>0, <1>6, <2>1, <2>2, <2>7 DEF Good
  <2>9. n.pd = m1.pd /\ n.slot = [g EXCEPT ![e] = d]
    BY <1>6, <2>7 DEF Good
  <2> QED
    BY <1>0, <2>1, <2>8, <2>9 DEF d, b, g
<1> HIDE DEF n
<1>9. IsShare(Mem, n, L, c, e, t, new, rights)
  <2>1. Popped(Mem, n, t)
    BY <1>6, <1>8 DEF Popped
  <2>2. Kept(Mem, n, L, {e, new})
    BY <1>0, <1>6, <1>8, <2>1 DEF Kept, Popped
  <2>3. n.slot[e] = [b EXCEPT !.PDchild = t, !.inChild = new]
    BY <1>0, <1>8
  <2>4. n.slot[new] = m1.slot[new]
    BY <1>6, <1>7, <1>8
  <2>5. ~ b.PDflag
    BY <1>0, <1>1, AccessibleApart
  <2> HIDE DEF b
  <2>6. /\ n.slot[e].start = b.start /\ n.slot[e].end = b.end /\ n.slot[e].origin = b.origin
        /\ n.slot[e].rights = b.rights /\ n.slot[e].next = b.next
        /\ n.slot[e].present /\ n.slot[e].accessible /\ ~ n.slot[e].PDflag
        /\ n.slot[e].PDchild = t /\ n.slot[e].inChild = new
    BY <1>0, <1>1, <2>3, <2>5 DEF Entry
  <2>7. Mem.slot[e] = b
    BY <1>0 DEF b
  <2> QED
    BY <1>6, <2>1, <2>2, <2>4, <2>6, <2>7 DEF IsShare
<1>10. Consistent(n, L) /\ Guarded(n, L)
  <2>1. IsShare(Mem, n, L, c, e, t, Mem.pd[t].firstFree, rights)
    BY <1>0, <1>9
  <2>2. /\ Mem.slot[e].accessible /\ Mem.slot[e].PDchild = Null /\ Mem.pd[t].parent = c
        /\ rights \subseteq Mem.slot[e].rights /\ Mem.pd[t].nbFree > 0
    BY <1>0, <1>1, <1>2, <1>3
  <2> QED
    BY <1>0, <1>1, <1>2, <1>8, <2>1, <2>2, ShareKeeps
<1>11. Given(Mem, n, L, c, e, t)
  <2>1. IsShare(Mem, n, L, c, e, t, Mem.pd[t].firstFree, rights)
    BY <1>0, <1>9
  <2>2. /\ Mem.slot[e].accessible /\ Mem.slot[e].PDchild = Null /\ Mem.pd[t].parent = c
        /\ Mem.pd[t].nbFree > 0
    BY <1>0, <1>1, <1>2
  <2> QED
    BY <1>0, <1>1, <1>2, <1>8, <1>10, <2>1, <2>2, ShareMemory
<1>12. SoundFor(Mem', c, L) /\ Mem' = n
  BY <1>1, <1>8, <1>10, CommitSound
<1> QED
  BY <1>11, <1>12

-----------------------------------------------------------------------------
(* Erased memory.                                                          *)

\* The partitions of L and their slots are as they were.
SameOn(m, n, L) ==
  \A p \in L : n.pd[p] = m.pd[p] /\ \A e \in SlotsOf(m, p) : n.slot[e] = m.slot[e]

\* So is all that is said of them.
LEMMA SameOnKeeps ==
  ASSUME NEW m \in Good, NEW n \in Good, NEW L \in SUBSET PDAddr,
         Consistent(m, L), Guarded(m, L), SameOn(m, n, L)
  PROVE  /\ Consistent(n, L) /\ Guarded(n, L) /\ StaysOpen(m, n, L, L)
         /\ \A p \in L : BlocksIn(n, p) = BlocksIn(m, p)
<1> DEFINE T == {e \in Slots : \A p \in L : e \notin SlotsOf(m, p)}
<1>0. /\ Tree(m, L) /\ Homes(m, L) /\ Structures(m, L) /\ Ranges(m, L) /\ Cuts(m, L)
      /\ Shares(m, L) /\ Containment(m, L) /\ FreeLists(m, L) /\ MPUMapsAccessible(m, L)
  BY DEF Consistent, Guarded
<1>1. \A p \in L : \A e \in SlotsOf(m, p) : e \notin T
  OBVIOUS
<1>2. Kept(m, n, L, T)
  BY DEF SameOn, Kept
<1> HIDE DEF T
<1>3. ASSUME NEW p \in L
      PROVE  /\ BlocksIn(n, p) = BlocksIn(m, p) /\ FreeIn(n, p) = FreeIn(m, p)
             /\ \A f \in BlocksIn(m, p) : n.slot[f] = m.slot[f] /\ f \notin T
             /\ \A f \in FreeIn(m, p) : n.slot[f] = m.slot[f]
             /\ n.pd[p] = m.pd[p]
  <2>1. SlotsOf(n, p) = SlotsOf(m, p)
    BY DEF SameOn, SlotsOf
  <2> QED
    BY <1>1, <2>1 DEF SameOn, BlocksIn, FreeIn
<1>4. Tree(n, L) /\ Homes(n, L) /\ Structures(n, L)
  BY <1>2, <1>3, KeptRest DEF NoKernelIn
<1>5. Ranges(n, L)
  BY <1>0, <1>3 DEF Ranges
<1>6. Cuts(n, L)
  BY <1>0, <1>3 DEF Cuts
<1>7. Shares(n, L)
  BY <1>0, <1>3 DEF Shares, IsShared
<1>8. Containment(n, L)
  <2>1. \A q \in L \ {RootPD} : m.pd[q].parent \in L
    BY <1>0 DEF Tree
  <2> QED
    BY <1>0, <1>3, <2>1 DEF Containment, IsPartOf
<1>9. FreeLists(n, L)
  BY <1>0, <1>3, FreeListFrame DEF FreeLists
<1>10. Guarded(n, L) /\ StaysOpen(m, n, L, L)
  <2>1. \A p \in L : \A f \in BlocksIn(n, p) : n.slot[f].inChild # NullSlot =>
          n.slot[f].inChild \notin T
    <3>1. \A p \in L : \A f \in BlocksIn(m, p) : m.slot[f].inChild # NullSlot =>
            m.slot[f].PDchild \in L /\ m.slot[f].inChild \in BlocksIn(m, m.slot[f].PDchild)
      BY <1>0 DEF Shares, IsShared
    <3> QED
      BY <1>3, <3>1
  <2>2. \A p \in L : \A r \in Regions : n.pd[p].mpu[r] # NullSlot =>
          n.pd[p].mpu[r] = m.pd[p].mpu[r] /\ n.pd[p].mpu[r] \notin T
    BY <1>0, <1>3 DEF MPUMapsAccessible
  <2>3. Guarded(n, L)
    BY <1>2, <1>3, <2>1, <2>2, KeptGuarded
  <2>4. StaysOpen(m, n, L, L)
    BY <1>2, <1>3, <2>1, KeptStaysOpen
  <2> QED
    BY <2>3, <2>4
<1> QED
  BY <1>3, <1>4, <1>5, <1>6, <1>7, <1>8, <1>9, <1>10 DEF Consistent

\* So is their memory.
LEMMA SameOnMemory ==
  ASSUME NEW m \in Good, NEW n \in Good, NEW L \in SUBSET PDAddr, SameOn(m, n, L)
  PROVE  SameMemory(m, n, L)
<1> SUFFICES ASSUME NEW p \in L
             PROVE  /\ n.pd[p].parent = m.pd[p].parent
                    /\ PoolIn(n, p) = PoolIn(m, p) /\ KernIn(n, p) = KernIn(m, p)
                    /\ OpenIn(n, p) = OpenIn(m, p)
  BY DEF SameMemory, SameOwners
<1>1. /\ n.pd[p] = m.pd[p] /\ StructsOf(n, p) = StructsOf(m, p)
      /\ BlocksIn(n, p) = BlocksIn(m, p)
  BY DEF SameOn, BlocksIn, SlotsOf, StructsOf
<1>2. \A f \in BlocksIn(m, p) : n.slot[f] = m.slot[f]
  BY DEF SameOn, BlocksIn
<1> QED
  BY <1>1, <1>2, RangeMemory DEF KernIn, SameRange

\* Erasing an accessible block erases no kernel data.
LEMMA EraseEffect ==
  ASSUME NEW m \in Good, NEW L \in SUBSET PDAddr, Consistent(m, L), Guarded(m, L),
         NEW p \in L, NEW e \in BlocksIn(m, p), m.slot[e].accessible
  PROVE  LET n == eraseBlock(m, m.slot[e].start, m.slot[e].end)
         IN  n \in Good /\ SameOn(m, n, L)
<1> DEFINE s == m.slot[e].start
           t == m.slot[e].end
           n == eraseBlock(m, s, t)
<1>1. n \in Good
  BY eraseBlockGood
<1>2. /\ \A q \in L : q \notin s .. t - 1
      /\ \A q \in L : \A k \in StructsOf(m, q) : k \notin s .. t - 1
  BY AccessibleNoKernelData
<1> HIDE DEF s, t
<1>3. /\ \A f \in Slots : f[1] \notin s .. t - 1 => n.slot[f] = m.slot[f]
      /\ \A q \in PDAddr : q \notin s .. t - 1 => n.pd[q] = m.pd[q]
  BY DEF eraseBlock
<1> HIDE DEF n
<1>4. ASSUME NEW q \in L, NEW f \in SlotsOf(m, q) PROVE n.slot[f] = m.slot[f]
  <2>1. f \in Slots /\ f[1] \in StructsOf(m, q)
    BY SlotsOfIs, SlotsOfType
  <2> QED
    BY <1>2, <1>3, <2>1
<1>5. SameOn(m, n, L)
  BY <1>2, <1>3, <1>4 DEF SameOn
<1> QED
  BY <1>1, <1>5 DEF n, s, t

-----------------------------------------------------------------------------
(* create.                                                                 *)

\* Block e of p holds the descriptor of a new child.
IsBirth(m, n, p, e) ==
  LET q == m.slot[e].start
  IN  /\ n.pd[q] = ChildPD(p) /\ \A x \in PDAddr \ {q} : n.pd[x] = m.pd[x]
      /\ n.slot[e] = [m.slot[e] EXCEPT !.PDflag = TRUE]
      /\ \A f \in Slots \ {e} : n.slot[f] = m.slot[f]

\* The others keep their memory, and the new child has none.
LEMMA BirthMemory ==
  ASSUME NEW m \in Good, NEW n \in Good, NEW L \in SUBSET PDAddr,
         Consistent(m, L), Guarded(m, L),
         NEW p \in L, NEW e \in BlocksIn(m, p), m.slot[e].accessible,
         m.slot[e].PDchild = Null, m.slot[e].start \in PDHomes, IsBirth(m, n, p, e)
  PROVE  LET q == m.slot[e].start
         IN  /\ q \notin L /\ SameMemory(m, n, L) /\ StaysOpen(m, n, L, L \cup {q})
             /\ BlocksIn(n, q) = {} /\ StructsOf(n, q) = {} /\ n.pd[q].parent = p
             /\ SameRange(n.slot[e], m.slot[e]) /\ n.slot[e].inChild = NullSlot
<1> DEFINE q == m.slot[e].start
<1>1. /\ n.pd[q] = ChildPD(p) /\ \A x \in PDAddr \ {q} : n.pd[x] = m.pd[x]
      /\ n.slot[e] = [m.slot[e] EXCEPT !.PDflag = TRUE]
      /\ \A f \in Slots \ {e} : n.slot[f] = m.slot[f]
  BY DEF IsBirth
<1>2. /\ e \in Slots /\ m.slot[e] \in Entry /\ m.slot[e].inChild = NullSlot
      /\ m.slot[e].start < m.slot[e].end /\ m.slot[e].start \in Nat
  BY BlockType, BlockRange, NotSharedNoCopy DEF Consistent
<1>3. q \notin L
  <2>1. \A x \in L : ~ (m.slot[e].start <= x /\ x < m.slot[e].end)
    BY AccessibleApart
  <2> QED
    BY <1>2, <2>1
<1>4. BlocksIn(n, q) = {} /\ StructsOf(n, q) = {} /\ n.pd[q].parent = p
  <2> HIDE DEF q
  <2>1. n.pd[q].structs = <<>> /\ n.pd[q].parent = p
    BY <1>1 DEF ChildPD, EmptyPD
  <2>2. StructsOf(n, q) = {}
    BY <2>1 DEF StructsOf
  <2>3. SlotsOf(n, q) = {}
    BY <2>2, SlotsOfIs
  <2> QED
    BY <2>1, <2>2, <2>3 DEF BlocksIn
<1>5. \A f \in Slots : /\ SameRange(n.slot[f], m.slot[f])
                       /\ n.slot[f].accessible = m.slot[f].accessible
                       /\ n.slot[f].present = m.slot[f].present
                       /\ n.slot[f].inChild = m.slot[f].inChild
                       /\ IsCut(n, f) <=> IsCut(m, f)
  <2> DEFINE b == m.slot[e]
  <2>1. b \in Entry /\ n.slot[e] = [b EXCEPT !.PDflag = TRUE]
    BY <1>1, <1>2
  <2> HIDE DEF b
  <2>2. /\ n.slot[e].start = b.start /\ n.slot[e].end = b.end
        /\ n.slot[e].present = b.present /\ n.slot[e].accessible = b.accessible
        /\ n.slot[e].inChild = b.inChild
        /\ n.slot[e].origin = b.origin /\ n.slot[e].next = b.next
    BY <2>1 DEF Entry
  <2> QED
    BY <1>1, <2>2 DEF b, SameRange, IsCut
<1>7. ASSUME OpenAbove(m, L) PROVE OpenAbove(n, L \cup {q})
  <2> SUFFICES ASSUME NEW x \in L \cup {q}, NEW f \in BlocksIn(n, x),
                      n.slot[f].inChild # NullSlot, ~ IsCut(n, n.slot[f].inChild),
                      n.slot[n.slot[f].inChild].accessible
               PROVE  n.slot[f].accessible
    BY DEF OpenAbove
  <2>1. x \in L /\ n.pd[x] = m.pd[x]
    BY <1>1, <1>3, <1>4
  <2>2. f \in Slots /\ f \in BlocksIn(m, x)
    BY <1>5, <2>1, SlotsOfType DEF BlocksIn, SlotsOf
  <2>3. m.slot[f].inChild = n.slot[f].inChild /\ m.slot[f].inChild \in Slots
    BY <1>5, <2>1, <2>2, BlockType DEF Consistent, Shares, IsShared
  <2>4. m.slot[f].accessible
    BY <1>5, <1>7, <2>1, <2>2, <2>3 DEF OpenAbove
  <2> QED
    BY <1>5, <2>2, <2>4
<1>6. SameMemory(m, n, L)
  <2> SUFFICES ASSUME NEW x \in L
               PROVE  /\ n.pd[x].parent = m.pd[x].parent
                      /\ PoolIn(n, x) = PoolIn(m, x) /\ KernIn(n, x) = KernIn(m, x)
                      /\ OpenIn(n, x) = OpenIn(m, x)
    BY DEF SameMemory, SameOwners
  <2>1. n.pd[x] = m.pd[x] /\ StructsOf(n, x) = StructsOf(m, x) /\ SlotsOf(n, x) = SlotsOf(m, x)
    BY <1>1, <1>3 DEF StructsOf, SlotsOf
  <2>2. SlotsOf(m, x) \subseteq Slots
    BY SlotsOfType
  <2>3. BlocksIn(n, x) = BlocksIn(m, x)
    BY <1>5, <2>1, <2>2 DEF BlocksIn
  <2>4. /\ \A f \in BlocksIn(m, x) : SameRange(n.slot[f], m.slot[f])
        /\ \A f \in BlocksIn(m, x) : n.slot[f].accessible <=> m.slot[f].accessible
    BY <1>5, <2>2 DEF BlocksIn
  <2>5. PoolIn(n, x) = PoolIn(m, x) /\ OpenIn(n, x) = OpenIn(m, x)
    BY <2>3, <2>4, RangeMemory
  <2> QED
    BY <2>1, <2>5 DEF KernIn
<1> QED
  BY <1>2, <1>3, <1>4, <1>5, <1>6, <1>7 DEF StaysOpen

\* The new child joins the tree; only its home is accessible kernel data.
LEMMA BirthKeeps ==
  ASSUME NEW m \in Good, NEW n \in Good, NEW L \in SUBSET PDAddr,
         Consistent(m, L), Guarded(m, L),
         NEW p \in L, NEW e \in BlocksIn(m, p), m.slot[e].accessible,
         m.slot[e].PDchild = Null, Size(m.slot[e]) >= PDSize,
         m.slot[e].start \in PDHomes, IsBirth(m, n, p, e)
  PROVE  LET K == L \cup {m.slot[e].start}
         IN  /\ K \in SUBSET PDAddr /\ Consistent(n, K) /\ e \in BlocksIn(n, p)
             /\ CopiesAccessible(n, K) /\ MPUMapsAccessible(n, K)
             /\ \A x \in K : \A f \in BlocksIn(n, x) :
                  n.slot[f].accessible /\ f # e => ~ IsKernel(n, x, f)
<1> DEFINE q == m.slot[e].start
           K == L \cup {q}
<1>0. /\ Tree(m, L) /\ Homes(m, L) /\ Structures(m, L) /\ Ranges(m, L) /\ Cuts(m, L)
      /\ Shares(m, L) /\ Containment(m, L) /\ FreeLists(m, L)
      /\ KernelBlocksHidden(m, L) /\ CopiesAccessible(m, L) /\ MPUMapsAccessible(m, L)
  BY DEF Consistent, Guarded
<1>1. /\ n.pd[q] = ChildPD(p) /\ \A x \in PDAddr \ {q} : n.pd[x] = m.pd[x]
      /\ n.slot[e] = [m.slot[e] EXCEPT !.PDflag = TRUE]
      /\ \A f \in Slots \ {e} : n.slot[f] = m.slot[f]
      /\ q = m.slot[e].start /\ q \in PDHomes
  BY DEF IsBirth
<1>2. /\ q \in PDAddr /\ q # RootPD /\ q # Null /\ e \in Slots /\ m.slot[e] \in Entry
      /\ m.slot[e].start < m.slot[e].end /\ m.slot[e].inChild = NullSlot /\ q \in Nat
  <2>1. q \in 1 .. Top /\ q \in PDAddr
    BY <1>1, ConstantsAssumption DEF PDAddr
  <2> QED
    BY <1>0, <2>1, ConstantsAssumption, BlockType, BlockRange, NotSharedNoCopy DEF Null
<1>3. /\ q \notin L /\ ~ m.slot[e].PDflag
      /\ \A x \in L : q \notin StructsOf(m, x)
  <2>1. \A x \in L : ~ (m.slot[e].start <= x /\ x < m.slot[e].end)
    BY AccessibleApart
  <2>2. q \notin L
    BY <1>1, <1>2, <2>1
  <2> QED
    BY <1>1, <2>2, AccessibleApart
<1> HIDE DEF q
<1>4. /\ SlotsOf(n, q) = {} /\ BlocksIn(n, q) = {} /\ FreeIn(n, q) = {} /\ StructsOf(n, q) = {}
      /\ n.pd[q].parent = p /\ n.pd[q].nbFree = 0 /\ n.pd[q].firstFree = NullSlot
      /\ \A r \in Regions : n.pd[q].mpu[r] = NullSlot
  <2>1. n.pd[q].structs = <<>>
    BY <1>1 DEF ChildPD, EmptyPD
  <2>2. StructsOf(n, q) = {}
    BY <2>1 DEF StructsOf
  <2>3. SlotsOf(n, q) = {}
    BY <2>2, SlotsOfIs
  <2> QED
    BY <1>1, <2>2, <2>3 DEF ChildPD, EmptyPD, BlocksIn, FreeIn
<1>5. /\ \A x \in L : n.pd[x] = m.pd[x]
      /\ \A f \in Slots : f # e => n.slot[f] = m.slot[f]
      /\ \A f \in Slots :
           /\ n.slot[f].start = m.slot[f].start /\ n.slot[f].end = m.slot[f].end
           /\ n.slot[f].origin = m.slot[f].origin /\ n.slot[f].rights = m.slot[f].rights
           /\ n.slot[f].present = m.slot[f].present
           /\ n.slot[f].accessible = m.slot[f].accessible
           /\ n.slot[f].PDchild = m.slot[f].PDchild /\ n.slot[f].inChild = m.slot[f].inChild
           /\ n.slot[f].next = m.slot[f].next
  <2>1. \A x \in L : n.pd[x] = m.pd[x]
    BY <1>1, <1>3
  <2>2. \A f \in Slots : f # e => n.slot[f] = m.slot[f]
    BY <1>1
  <2> DEFINE b == m.slot[e]
  <2>3. b \in Entry /\ n.slot[e] = [b EXCEPT !.PDflag = TRUE]
    BY <1>1, <1>2
  <2> HIDE DEF b
  <2>4. /\ n.slot[e].start = b.start /\ n.slot[e].end = b.end
        /\ n.slot[e].origin = b.origin /\ n.slot[e].rights = b.rights
        /\ n.slot[e].present = b.present /\ n.slot[e].accessible = b.accessible
        /\ n.slot[e].PDchild = b.PDchild /\ n.slot[e].inChild = b.inChild
        /\ n.slot[e].next = b.next
    BY <2>3 DEF Entry
  <2>5. b = m.slot[e]
    BY DEF b
  <2> QED
    BY <2>1, <2>2, <2>4, <2>5
<1>6. n.slot[e].PDflag
  BY <1>1, <1>2 DEF Entry
<1>7. ASSUME NEW x \in L
      PROVE  /\ StructsOf(n, x) = StructsOf(m, x) /\ SlotsOf(n, x) = SlotsOf(m, x)
             /\ BlocksIn(n, x) = BlocksIn(m, x) /\ FreeIn(n, x) = FreeIn(m, x)
             /\ BlocksIn(m, x) \subseteq Slots /\ FreeIn(m, x) \subseteq Slots
             /\ n.pd[x] = m.pd[x]
  <2>1. StructsOf(n, x) = StructsOf(m, x) /\ SlotsOf(n, x) = SlotsOf(m, x)
    BY <1>5 DEF StructsOf, SlotsOf
  <2>2. SlotsOf(m, x) \subseteq Slots
    BY SlotsOfType
  <2> QED
    BY <1>5, <2>1, <2>2 DEF BlocksIn, FreeIn
<1>8. /\ \A x \in K : x # q => x \in L
      /\ \A x \in K : \A f \in BlocksIn(n, x) : x \in L /\ f \in BlocksIn(m, x) /\ f \in Slots
      /\ q \in K /\ L \subseteq K /\ K \in SUBSET PDAddr /\ \A x \in K : x \in L \/ x = q
  BY <1>2, <1>4, <1>7
<1> HIDE DEF K
<1>9. Tree(n, K)
  <2>1. RootPD \in K /\ n.pd[RootPD].parent = Null
    BY <1>0, <1>5, <1>8 DEF Tree
  <2>2. \A x \in K \ {RootPD} : n.pd[x].parent \in K
    BY <1>0, <1>4, <1>5, <1>8 DEF Tree
  <2>3. ASSUME NEW S \in SUBSET (K \ {RootPD}), S # {}
        PROVE  \E x \in S : n.pd[x].parent \notin S
    <3>1. CASE S \cap L = {}
      <4>1. S = {q}
        BY <1>8, <2>3, <3>1
      <4> QED
        BY <1>3, <1>4, <4>1
    <3>2. CASE S \cap L # {}
      <4>1. S \cap L \in SUBSET (L \ {RootPD})
        OBVIOUS
      <4>2. PICK x \in S \cap L : m.pd[x].parent \notin S \cap L
        BY <1>0, <3>2, <4>1 DEF Tree
      <4>3. m.pd[x].parent \in L
        BY <1>0, <4>1 DEF Tree
      <4> QED
        BY <1>5, <4>2, <4>3
    <3> QED
      BY <3>1, <3>2
  <2> QED
    BY <2>1, <2>2, <2>3 DEF Tree
<1>10. Homes(n, K)
  <2>1. ASSUME NEW x \in K, NEW f \in BlocksIn(n, x), n.slot[f].PDflag
        PROVE  IsHome(n, K, x, f)
    <3>1. x \in L /\ f \in BlocksIn(m, x) /\ f \in Slots
      BY <1>8
    <3>2. CASE f = e
      <4>1. x = p
        BY <1>0, <3>1, <3>2, OnePartition DEF BlocksIn
      <4> QED
        BY <1>1, <1>2, <1>4, <1>5, <1>8, <3>2, <4>1 DEF IsHome, Size
    <3>3. CASE f # e
      <4>1. n.slot[f] = m.slot[f] /\ IsHome(m, L, x, f)
        BY <1>0, <1>5, <2>1, <3>1, <3>3 DEF Homes
      <4> QED
        BY <1>5, <1>8, <4>1 DEF IsHome
    <3> QED
      BY <3>2, <3>3
  <2>2. ASSUME NEW x \in K \ {RootPD}
        PROVE  \E f \in BlocksIn(n, n.pd[x].parent) : n.slot[f].start = x /\ n.slot[f].PDflag
    <3>1. CASE x = q
      BY <1>1, <1>2, <1>4, <1>5, <1>6, <1>7, <3>1
    <3>2. CASE x \in L
      <4>1. PICK f \in BlocksIn(m, m.pd[x].parent) : m.slot[f].start = x /\ m.slot[f].PDflag
        BY <1>0, <3>2 DEF Homes
      <4>2. m.pd[x].parent \in L /\ f # e
        BY <1>0, <1>3, <3>2, <4>1 DEF Tree
      <4> QED
        BY <1>5, <1>7, <3>2, <4>1, <4>2
    <3> QED
      BY <1>8, <3>1, <3>2
  <2> QED
    BY <2>1, <2>2 DEF Homes
<1>11. Structures(n, K)
  <2>1. \A x, y \in K : x # y => StructsOf(n, x) \cap StructsOf(n, y) = {}
    BY <1>0, <1>4, <1>7, <1>8 DEF Structures
  <2>2. ASSUME NEW x \in K, NEW k \in StructsOf(n, x) \ {RootKS}
        PROVE  \E y \in {x, n.pd[x].parent} \cap K :
                 \E f \in BlocksIn(n, y) : HoldsStructure(n, y, x, f, k)
    <3>1. x \in L /\ k \in StructsOf(m, x) \ {RootKS}
      BY <1>4, <1>7, <1>8
    <3>2. PICK y \in {x, m.pd[x].parent} \cap L :
                 \E f \in BlocksIn(m, y) : HoldsStructure(m, y, x, f, k)
      BY <1>0, <3>1 DEF Structures
    <3>3. PICK f \in BlocksIn(m, y) : HoldsStructure(m, y, x, f, k)
      BY <3>2
    <3>4. f # e
      BY <1>1, <1>3, <3>1, <3>3 DEF HoldsStructure
    <3>5. f \in BlocksIn(n, y) /\ n.slot[f] = m.slot[f]
      BY <1>5, <1>7, <3>3, <3>4
    <3> QED
      BY <1>5, <1>8, <3>1, <3>2, <3>3, <3>5 DEF HoldsStructure
  <2> QED
    BY <2>1, <2>2 DEF Structures
<1>12. Ranges(n, K)
  BY <1>0, <1>5, <1>8 DEF Ranges, WellFormed, Overlap
<1>13. Cuts(n, K)
  <2> SUFFICES ASSUME NEW x \in K, NEW f \in BlocksIn(n, x), n.slot[f].next # NullSlot
               PROVE  /\ n.slot[f].next \in BlocksIn(n, x)
                      /\ n.slot[n.slot[f].next].start = n.slot[f].end
                      /\ n.slot[n.slot[f].next].origin = n.slot[f].origin
    BY DEF Cuts
  <2>1. x \in L /\ f \in BlocksIn(m, x) /\ f \in Slots
    BY <1>8
  <2>2. /\ m.slot[f].next \in BlocksIn(m, x)
        /\ m.slot[m.slot[f].next].start = m.slot[f].end
        /\ m.slot[m.slot[f].next].origin = m.slot[f].origin
    BY <1>0, <1>5, <2>1 DEF Cuts
  <2> QED
    BY <1>5, <1>7, <2>1, <2>2
<1>14. Shares(n, K)
  <2> SUFFICES ASSUME NEW x \in K, NEW f \in BlocksIn(n, x)
               PROVE  /\ n.slot[f].PDchild # Null =>
                           /\ n.slot[f].PDchild \in K
                           /\ n.pd[n.slot[f].PDchild].parent = x
                      /\ n.slot[f].inChild # NullSlot => IsShared(n, f)
    BY DEF Shares
  <2>1. x \in L /\ f \in BlocksIn(m, x) /\ f \in Slots
    BY <1>8
  <2>2. /\ m.slot[f].PDchild # Null =>
             m.slot[f].PDchild \in L /\ m.pd[m.slot[f].PDchild].parent = x
        /\ m.slot[f].inChild # NullSlot => IsShared(m, f)
    BY <1>0, <2>1 DEF Shares
  <2>3. ASSUME n.slot[f].inChild # NullSlot PROVE IsShared(n, f)
    <3>1. f # e /\ IsShared(m, f)
      BY <1>2, <1>5, <2>1, <2>2, <2>3
    <3>2. m.slot[f].PDchild \in L /\ m.slot[f].inChild \in BlocksIn(m, m.slot[f].PDchild)
      BY <2>2, <3>1 DEF IsShared
    <3>3. m.slot[f].inChild \in BlocksIn(n, m.slot[f].PDchild) /\ m.slot[f].inChild \in Slots
      BY <1>7, <3>2
    <3> QED
      BY <1>5, <2>1, <3>1, <3>3 DEF IsShared
  <2> QED
    BY <1>5, <1>8, <2>1, <2>2, <2>3
<1>15. Containment(n, K)
  <2> SUFFICES ASSUME NEW x \in K \ {RootPD}, NEW f \in BlocksIn(n, x)
               PROVE  \E g \in BlocksIn(n, n.pd[x].parent) : IsPartOf(n, x, f, g)
    BY DEF Containment
  <2>1. x \in L \ {RootPD} /\ f \in BlocksIn(m, x) /\ f \in Slots
    BY <1>8
  <2>2. PICK g \in BlocksIn(m, m.pd[x].parent) : IsPartOf(m, x, f, g)
    BY <1>0, <2>1 DEF Containment
  <2>3. m.pd[x].parent \in L
    BY <1>0, <2>1 DEF Tree
  <2>4. g \in BlocksIn(n, n.pd[x].parent) /\ g \in Slots
    BY <1>5, <1>7, <2>1, <2>3
  <2> QED
    BY <1>5, <2>1, <2>2, <2>4 DEF IsPartOf, Within
<1>16. FreeLists(n, K)
  <2>1. FreeListOK(n, q)
    BY <1>4, FS_EmptySet DEF FreeListOK
  <2>2. ASSUME NEW x \in L PROVE FreeListOK(n, x)
    <3>1. e \notin FreeIn(m, x) /\ FreeIn(n, x) = FreeIn(m, x) /\ n.pd[x] = m.pd[x]
      BY <1>7, BlockType DEF FreeIn
    <3>2. \A f \in FreeIn(m, x) : n.slot[f] = m.slot[f]
      BY <1>5, <1>7, <3>1
    <3> QED
      BY <1>0, <3>1, <3>2, FreeListFrame DEF FreeLists
  <2> QED
    BY <1>8, <2>1, <2>2 DEF FreeLists
<1>17. CopiesAccessible(n, K)
  <2> SUFFICES ASSUME NEW x \in K, NEW f \in BlocksIn(n, x),
                      n.slot[f].accessible, n.slot[f].inChild # NullSlot
               PROVE  ~ IsCut(n, n.slot[f].inChild) /\ n.slot[n.slot[f].inChild].accessible
    BY DEF CopiesAccessible
  <2>1. x \in L /\ f \in BlocksIn(m, x) /\ f \in Slots
    BY <1>8
  <2>2. ~ IsCut(m, m.slot[f].inChild) /\ m.slot[m.slot[f].inChild].accessible
    BY <1>0, <1>5, <2>1 DEF CopiesAccessible
  <2>3. m.slot[f].inChild \in BlocksIn(m, m.slot[f].PDchild) /\ m.slot[f].PDchild \in L
    BY <1>0, <1>5, <2>1 DEF Shares, IsShared
  <2>4. m.slot[f].inChild \in Slots
    BY <1>7, <2>3
  <2> QED
    BY <1>5, <2>1, <2>2, <2>4 DEF IsCut
<1>18. MPUMapsAccessible(n, K)
  <2> SUFFICES ASSUME NEW x \in K, NEW r \in Regions, n.pd[x].mpu[r] # NullSlot
               PROVE  /\ n.pd[x].mpu[r] \in BlocksIn(n, x)
                      /\ n.slot[n.pd[x].mpu[r]].accessible
                      /\ \A k \in Regions : n.pd[x].mpu[k] = n.pd[x].mpu[r] => k = r
    BY DEF MPUMapsAccessible
  <2>1. x \in L /\ n.pd[x] = m.pd[x]
    BY <1>4, <1>5, <1>8
  <2>2. /\ m.pd[x].mpu[r] \in BlocksIn(m, x) /\ m.slot[m.pd[x].mpu[r]].accessible
        /\ \A k \in Regions : m.pd[x].mpu[k] = m.pd[x].mpu[r] => k = r
    BY <1>0, <2>1 DEF MPUMapsAccessible
  <2> QED
    BY <1>5, <1>7, <2>1, <2>2
<1>19. ASSUME NEW x \in K, NEW f \in BlocksIn(n, x), n.slot[f].accessible, f # e
       PROVE  ~ IsKernel(n, x, f)
  <2>1. x \in L /\ f \in BlocksIn(m, x) /\ n.slot[f] = m.slot[f]
    BY <1>5, <1>8, <1>19
  <2> QED
    BY <1>0, <1>7, <1>19, <2>1 DEF KernelBlocksHidden, IsKernel
<1>20. Consistent(n, K) /\ e \in BlocksIn(n, p)
  BY <1>7, <1>9, <1>10, <1>11, <1>12, <1>13, <1>14, <1>15, <1>16 DEF Consistent
<1> QED
  BY <1>8, <1>17, <1>18, <1>19, <1>20 DEF K, q

\* A partition without memory begins, at the start of block e of p.
Created(m, n, L, p, e) ==
  LET q == m.slot[e].start
  IN  /\ Usable(m, p, e) /\ Size(m.slot[e]) >= PDSize /\ q \in PDAddr \ L
      /\ Consistent(n, L \cup {q}) /\ Guarded(n, L \cup {q})
      /\ Seized(m, n, L, e) /\ \A x \in L : KernIn(n, x) = KernIn(m, x)
      /\ StaysOpen(m, n, L, L \cup {q})
      /\ n.pd[q].parent = p /\ BlocksIn(n, q) = {} /\ StructsOf(n, q) = {}

\* createPartition: the block is erased, becomes the descriptor of a child and
\* is hidden.
LEMMA createPartitionSound ==
  ASSUME IInv, NEW L \in SUBSET PDAddr, Consistent(Mem, L), Guarded(Mem, L),
         NEW c \in L, NEW e \in SlotsOf(Mem, c), createPartition(c, e)
  PROVE  SoundFor(Mem', c, L) /\ Created(Mem, Mem', L, c, e)
<1> DEFINE b  == slot[e]
           m1 == eraseBlock(Mem, b.start, b.end)
           m2 == [m1 EXCEPT !.pd[b.start] = ChildPD(c), !.slot[e].PDflag = TRUE]
           K  == L \cup {b.start}
<1>0. /\ Mem \in Good /\ Mem.slot = slot /\ Mem.pd = pd /\ e \in Slots /\ b \in Entry
      /\ c \in PDAddr
  BY CallerType
<1>1. /\ b.present /\ b.accessible /\ b.PDchild = Null /\ e \in BlocksIn(Mem, c)
      /\ Size(b) >= PDSize /\ b.start \in PDHomes /\ Commit(hide(m2, c, e))
  BY <1>0 DEF createPartition, IsFound, NotShared, BlocksIn
<1>2. m1 \in Good /\ SameOn(Mem, m1, L)
  BY <1>0, <1>1, EraseEffect
<1> HIDE DEF m1
<1>3. /\ Consistent(m1, L) /\ Guarded(m1, L) /\ m1.slot[e] = b /\ e \in BlocksIn(m1, c)
      /\ StaysOpen(Mem, m1, L, L)
  <2>1. /\ Consistent(m1, L) /\ Guarded(m1, L) /\ StaysOpen(Mem, m1, L, L)
        /\ \A p \in L : BlocksIn(m1, p) = BlocksIn(Mem, p)
    BY <1>0, <1>2, SameOnKeeps
  <2> QED
    BY <1>0, <1>1, <1>2, <2>1 DEF SameOn
<1>4. m2 \in Good /\ IsBirth(m1, m2, c, e)
  <2> DEFINE q == b.start
             g == m1.slot
             d == [b EXCEPT !.PDflag = TRUE]
  <2>1. /\ q \in PDAddr /\ g \in [Slots -> Entry] /\ g[e] = b /\ d \in Entry
        /\ ChildPD(c) \in GoodPD /\ m1.pd \in [PDAddr -> GoodPD]
    BY <1>0, <1>1, <1>2, <1>3, ChildPDGood, EntryUpdate DEF Good, PDAddr
  <2> HIDE DEF b, q, g
  <2>2. [g EXCEPT ![e].PDflag = TRUE] = [g EXCEPT ![e] = d]
    BY <1>0, <2>1
  <2>3. m2 = [[m1 EXCEPT !.pd = [m1.pd EXCEPT ![q] = ChildPD(c)]]
                EXCEPT !.slot = [g EXCEPT ![e] = d]]
    <3>1. m2 = [[m1 EXCEPT !.pd = [m1.pd EXCEPT ![q] = ChildPD(c)]]
                 EXCEPT !.slot = [g EXCEPT ![e].PDflag = TRUE]]
      BY <1>2 DEF Good, q, g
    <3> QED
      BY <2>2, <3>1
  <2> HIDE DEF m2, d
  <2>4. m2.pd = [m1.pd EXCEPT ![q] = ChildPD(c)] /\ m2.slot = [g EXCEPT ![e] = d]
    BY <1>2, <2>3 DEF Good
  <2>5. m2 \in Good
    BY <1>0, <1>2, <2>1, <2>3 DEF Good
  <2>6. m1.slot[e] = b /\ m1.slot[e].start = q
    BY <1>3 DEF q
  <2>7. m2.slot[e] = [m1.slot[e] EXCEPT !.PDflag = TRUE]
    BY <1>0, <2>1, <2>4, <2>6 DEF d
  <2> QED
    BY <1>0, <2>1, <2>4, <2>5, <2>6, <2>7 DEF IsBirth, g
<1> HIDE DEF m2
<1>5. /\ K \in SUBSET PDAddr /\ Consistent(m2, K) /\ e \in BlocksIn(m2, c)
      /\ CopiesAccessible(m2, K) /\ MPUMapsAccessible(m2, K)
      /\ \A x \in K : \A f \in BlocksIn(m2, x) :
           m2.slot[f].accessible /\ f # e => ~ IsKernel(m2, x, f)
      /\ b.start \notin L /\ SameMemory(m1, m2, L) /\ StaysOpen(m1, m2, L, K)
      /\ BlocksIn(m2, b.start) = {} /\ StructsOf(m2, b.start) = {} /\ m2.pd[b.start].parent = c
      /\ SameRange(m2.slot[e], b) /\ m2.slot[e].inChild = NullSlot
  <2> DEFINE s == m1.slot[e].start
             M == L \cup {s}
  <2>1. s = b.start /\ M = K /\ m1.slot[e] = b
    BY <1>3
  <2>2. /\ M \in SUBSET PDAddr /\ Consistent(m2, M) /\ e \in BlocksIn(m2, c)
        /\ CopiesAccessible(m2, M) /\ MPUMapsAccessible(m2, M)
        /\ \A x \in M : \A f \in BlocksIn(m2, x) :
             m2.slot[f].accessible /\ f # e => ~ IsKernel(m2, x, f)
    BY <1>1, <1>2, <1>3, <1>4, BirthKeeps
  <2>3. /\ s \notin L /\ SameMemory(m1, m2, L) /\ StaysOpen(m1, m2, L, M)
        /\ BlocksIn(m2, s) = {} /\ StructsOf(m2, s) = {} /\ m2.pd[s].parent = c
        /\ SameRange(m2.slot[e], m1.slot[e]) /\ m2.slot[e].inChild = NullSlot
    BY SMTT(60), <1>1, <1>2, <1>3, <1>4, BirthMemory
  <2> HIDE DEF s, M, K, b
  <2> QED
    BY <2>1, <2>2, <2>3
<1>6. c \in K /\ b.start \in K /\ L \subseteq K /\ K \subseteq L \cup {b.start}
  OBVIOUS
<1> HIDE DEF K
<1>7. /\ hide(m2, c, e) \in Good /\ Consistent(hide(m2, c, e), K) /\ Guarded(hide(m2, c, e), K)
      /\ SameShape(m2, hide(m2, c, e), K) /\ HidesOnly(m2, hide(m2, c, e), K, e)
      /\ ~ hide(m2, c, e).slot[e].accessible
  BY <1>4, <1>5, <1>6, HideKeeps
<1>8. ASSUME NEW q \in K \ L, NEW r \in Regions PROVE hide(m2, c, e).pd[q].mpu[r] = NullSlot
  <2>1. q = b.start /\ q \in PDAddr
    BY <1>5 DEF K
  <2>2. m2.pd[q] = ChildPD(c)
    BY <1>3, <1>4, <2>1 DEF IsBirth
  <2>3. m2.pd[q].mpu[r] = NullSlot
    BY <2>2 DEF ChildPD, EmptyPD
  <2>4. PDFades(hide(m2, c, e).pd[q], m2.pd[q])
    BY <1>0, <1>4, <2>1, hideFades DEF Fades
  <2> QED
    BY <2>3, <2>4 DEF PDFades
<1>9. SoundFor(Mem', c, L) /\ Mem' = hide(m2, c, e)
  BY <1>1, <1>5, <1>6, <1>7, <1>8, CommitSound
<1>10. Created(Mem, hide(m2, c, e), L, c, e)
  <2> DEFINE n == hide(m2, c, e)
             q == b.start
  <2>1. SameMemory(Mem, m1, L)
    BY <1>0, <1>2, SameOnMemory
  <2>2. SameMemory(Mem, m2, L)
    BY <1>5, <2>1, SameMemoryTrans
  <2>3. n \in Good /\ SameShape(m2, n, K) /\ Consistent(n, K) /\ Guarded(n, K)
    BY <1>7
  <2> HIDE DEF n
  <2>4. Seized(m2, n, K, e) /\ SameOwners(m2, n, K)
    BY <1>4, <1>5, <1>6, <1>7, <2>3, HiddenMemory DEF n
  <2>5. Extent(m2, e) = Extent(Mem, e)
    BY <1>0, <1>5 DEF Extent, SameRange
  <2>6. Seized(Mem, n, L, e) /\ \A x \in L : KernIn(n, x) = KernIn(Mem, x)
    BY <1>6, <2>2, <2>4, <2>5 DEF Seized, SameMemory, SameOwners
  <2>7. n.pd[q].parent = c
    BY <1>5, <1>6, <2>4 DEF SameOwners
  <2>8. BlocksIn(n, q) = {} /\ StructsOf(n, q) = {}
    BY <1>4, <1>5, <1>6, <2>3, ShapeSlots
  <2>9. Usable(Mem, c, e)
    BY <1>0, <1>1, NotSharedNoCopy DEF Usable, Consistent
  <2>10. q \in PDAddr \ L /\ K = L \cup {q}
    BY <1>5, <1>6
  <2>11. StaysOpen(m2, n, K, K)
    BY <1>4, <1>5, <1>6, <1>7, <2>3, HiddenStaysOpen DEF n
  <2>12. StaysOpen(Mem, n, L, L \cup {q})
    BY <1>3, <1>5, <2>10, <2>11, StaysOpenTrans
  <2> QED
    BY <1>0, <1>1, <2>3, <2>6, <2>7, <2>8, <2>9, <2>10, <2>12 DEF Created, n
<1> QED
  BY <1>9, <1>10

-----------------------------------------------------------------------------
(* prepare.                                                                *)

\* addStructure puts ks in front.
LEMMA AddedStructure ==
  ASSUME NEW d \in GoodPD, NEW ks \in KSAddr
  PROVE  LET a == addStructure(d, ks)
         IN  /\ a.parent = d.parent /\ a.mpu = d.mpu
             /\ a.firstFree = <<ks, 0>> /\ a.nbFree = d.nbFree + Entries
             /\ {a.structs[n] : n \in DOMAIN a.structs}
                  = {d.structs[n] : n \in DOMAIN d.structs} \cup {ks}
<1> DEFINE s == d.structs
           z == <<ks>> \o s
<1>1. s \in Seq(KSAddr) /\ d \in Descriptor
  BY DEF GoodPD, Descriptor
<1>2. /\ addStructure(d, ks).parent = d.parent /\ addStructure(d, ks).mpu = d.mpu
      /\ addStructure(d, ks).firstFree = <<ks, 0>>
      /\ addStructure(d, ks).nbFree = d.nbFree + Entries
      /\ addStructure(d, ks).structs = z
  BY <1>1 DEF addStructure, FreeListAt, Descriptor
<1> HIDE DEF s
<1>3. /\ z \in Seq(KSAddr) /\ Len(z) = 1 + Len(s) /\ z[1] = ks /\ Len(s) \in Nat
      /\ \A n \in 1 .. Len(s) : z[n + 1] = s[n]
      /\ DOMAIN z = 1 .. Len(z) /\ DOMAIN s = 1 .. Len(s)
  BY <1>1
<1> HIDE DEF z
<1>4. {z[n] : n \in DOMAIN z} = {s[n] : n \in DOMAIN s} \cup {ks}
  <2>1. ASSUME NEW n \in DOMAIN z PROVE z[n] \in {s[k] : k \in DOMAIN s} \cup {ks}
    <3>1. CASE n = 1
      BY <1>3, <3>1
    <3>2. CASE n # 1
      <4>1. n - 1 \in 1 .. Len(s) /\ (n - 1) + 1 = n
        BY <1>3, <3>2
      <4>2. z[n] = s[n - 1]
        BY <1>3, <4>1
      <4> QED
        BY <1>3, <4>1, <4>2
    <3> QED
      BY <3>1, <3>2
  <2>2. ASSUME NEW n \in DOMAIN s PROVE s[n] \in {z[k] : k \in DOMAIN z}
    <3>1. n + 1 \in DOMAIN z /\ z[n + 1] = s[n]
      BY <1>3
    <3> QED
      BY <3>1
  <2>3. 1 \in DOMAIN z
    BY <1>3
  <2> QED
    BY ZenonT(30), <1>3, <2>1, <2>2, <2>3
<1> QED
  BY <1>2, <1>4 DEF s

\* Block e of p, hidden and erased, becomes the structure ks of t.
IsFurnished(m, n, p, e, t, ks) ==
  /\ n.pd[t] = addStructure(m.pd[t], ks) /\ \A x \in PDAddr \ {t} : n.pd[x] = m.pd[x]
  /\ n.slot[e] = [m.slot[e] EXCEPT !.PDchild = IF t = p THEN Null ELSE t]
  /\ \A f \in Slots \ {e} : n.slot[f] = m.slot[f]
  /\ \A i \in 0 .. Entries - 1 :
       m.slot[<<ks, i>>] = FreeEntry(IF i = Entries - 1 THEN m.pd[t].firstFree
                                     ELSE <<ks, i + 1>>)

\* t has the structure, and everyone the memory, they had.
Furnished(m, n, L, t, ks) ==
  \A x \in L :
    /\ n.pd[x].parent = m.pd[x].parent
    /\ PoolIn(n, x) = PoolIn(m, x) /\ OpenIn(n, x) = OpenIn(m, x)
    /\ StructsOf(n, x) = IF x = t THEN StructsOf(m, x) \cup {ks} ELSE StructsOf(m, x)

\* It keeps the data consistent and guarded.
LEMMA FurnishKeeps ==
  ASSUME NEW m \in Good, NEW n \in Good, NEW L \in SUBSET PDAddr,
         Consistent(m, L), Guarded(m, L),
         NEW p \in L, NEW e \in BlocksIn(m, p), ~ m.slot[e].accessible,
         ~ m.slot[e].PDflag, m.slot[e].PDchild = Null, Size(m.slot[e]) >= KSSize,
         NEW ks \in KSAddr, ks = m.slot[e].start,
         \A x \in L : ks \notin StructsOf(m, x),
         NEW t \in L, t = p \/ (t # RootPD /\ m.pd[t].parent = p),
         IsFurnished(m, n, p, e, t, ks)
  PROVE  /\ Consistent(n, L) /\ Guarded(n, L) /\ Furnished(m, n, L, t, ks)
         /\ StaysOpen(m, n, L, L)
<1> DEFINE C == {ks} \X (0 .. Entries - 1)
           given == IF t = p THEN Null ELSE t
<1>0. /\ Tree(m, L) /\ Homes(m, L) /\ Structures(m, L) /\ Ranges(m, L) /\ Cuts(m, L)
      /\ Shares(m, L) /\ Containment(m, L) /\ FreeLists(m, L)
      /\ KernelBlocksHidden(m, L) /\ CopiesAccessible(m, L) /\ MPUMapsAccessible(m, L)
  BY DEF Consistent, Guarded
<1>1. /\ n.pd[t] = addStructure(m.pd[t], ks) /\ \A x \in PDAddr \ {t} : n.pd[x] = m.pd[x]
      /\ n.slot[e] = [m.slot[e] EXCEPT !.PDchild = given]
      /\ \A f \in Slots \ {e} : n.slot[f] = m.slot[f]
      /\ \A i \in 0 .. Entries - 1 :
           m.slot[<<ks, i>>] = FreeEntry(IF i = Entries - 1 THEN m.pd[t].firstFree
                                         ELSE <<ks, i + 1>>)
  BY DEF IsFurnished
<1>2. /\ e \in Slots /\ m.slot[e] \in Entry /\ m.slot[e].inChild = NullSlot
      /\ m.slot[e].present /\ m.slot[e].start < m.slot[e].end
      /\ m.slot[e].start \in Nat /\ m.slot[e].end \in Nat
  BY <1>0, BlockType, BlockRange, NotSharedNoCopy
<1>3. /\ \A f \in Slots : f # e => n.slot[f] = m.slot[f]
      /\ \A f \in Slots :
           /\ n.slot[f].start = m.slot[f].start /\ n.slot[f].end = m.slot[f].end
           /\ n.slot[f].origin = m.slot[f].origin /\ n.slot[f].rights = m.slot[f].rights
           /\ n.slot[f].present = m.slot[f].present
           /\ n.slot[f].accessible = m.slot[f].accessible
           /\ n.slot[f].PDflag = m.slot[f].PDflag /\ n.slot[f].inChild = m.slot[f].inChild
           /\ n.slot[f].next = m.slot[f].next
      /\ n.slot[e].PDchild = given
  <2>1. \A f \in Slots : f # e => n.slot[f] = m.slot[f]
    BY <1>1
  <2> DEFINE b == m.slot[e]
  <2> HIDE DEF given
  <2>2. b \in Entry /\ n.slot[e] = [b EXCEPT !.PDchild = given]
    BY <1>1, <1>2
  <2> HIDE DEF b
  <2>3. /\ n.slot[e].start = b.start /\ n.slot[e].end = b.end
        /\ n.slot[e].origin = b.origin /\ n.slot[e].rights = b.rights
        /\ n.slot[e].present = b.present /\ n.slot[e].accessible = b.accessible
        /\ n.slot[e].PDflag = b.PDflag /\ n.slot[e].inChild = b.inChild
        /\ n.slot[e].next = b.next /\ n.slot[e].PDchild = given
    BY <2>2 DEF Entry
  <2> QED
    BY <2>1, <2>3 DEF b
<1>4. /\ \A x \in L : n.pd[x].parent = m.pd[x].parent /\ n.pd[x].mpu = m.pd[x].mpu
      /\ \A x \in L : x # t => n.pd[x] = m.pd[x]
      /\ n.pd[t].firstFree = <<ks, 0>> /\ n.pd[t].nbFree = m.pd[t].nbFree + Entries
      /\ \A x \in L : x # t => StructsOf(n, x) = StructsOf(m, x)
      /\ StructsOf(n, t) = StructsOf(m, t) \cup {ks}
  <2>1. m.pd[t] \in GoodPD /\ t \in PDAddr
    BY DEF Good
  <2>2. \A x \in L : x # t => n.pd[x] = m.pd[x]
    BY <1>1
  <2>3. /\ n.pd[t].parent = m.pd[t].parent /\ n.pd[t].mpu = m.pd[t].mpu
        /\ n.pd[t].firstFree = <<ks, 0>> /\ n.pd[t].nbFree = m.pd[t].nbFree + Entries
        /\ {n.pd[t].structs[k] : k \in DOMAIN n.pd[t].structs}
             = {m.pd[t].structs[k] : k \in DOMAIN m.pd[t].structs} \cup {ks}
    <3> DEFINE d == m.pd[t]
               a == addStructure(d, ks)
    <3>1. d \in GoodPD
      BY <2>1
    <3> HIDE DEF d
    <3>2. /\ a.parent = d.parent /\ a.mpu = d.mpu
          /\ a.firstFree = <<ks, 0>> /\ a.nbFree = d.nbFree + Entries
          /\ {a.structs[k] : k \in DOMAIN a.structs}
               = {d.structs[k] : k \in DOMAIN d.structs} \cup {ks}
      BY <3>1, AddedStructure
    <3> HIDE DEF a
    <3>3. n.pd[t] = a
      BY <1>1 DEF a, d
    <3> QED
      BY <3>2, <3>3 DEF d
  <2> QED
    BY <2>2, <2>3 DEF StructsOf
<1>5. /\ \A f \in C : f \in Slots /\ ~ m.slot[f].present /\ f # e /\ n.slot[f] = m.slot[f]
      /\ \A x \in L : \A f \in SlotsOf(m, x) : f \notin C
  <2>1. ASSUME NEW f \in C PROVE f \in Slots /\ ~ m.slot[f].present
    <3>1. PICK i \in 0 .. Entries - 1 : f = <<ks, i>>
      OBVIOUS
    <3>2. f \in Slots
      BY <3>1 DEF Slots
    <3> DEFINE link == IF i = Entries - 1 THEN m.pd[t].firstFree ELSE <<ks, i + 1>>
    <3>3. m.slot[f] = FreeEntry(link)
      BY <1>1, <3>1
    <3> HIDE DEF link
    <3> QED
      BY <3>2, <3>3 DEF FreeEntry
  <2>2. \A x \in L : \A f \in SlotsOf(m, x) : f \notin C
    BY SlotsOfIs
  <2> QED
    BY <1>1, <1>2, <2>1, <2>2
<1>6. ASSUME NEW x \in L
      PROVE  /\ BlocksIn(n, x) = BlocksIn(m, x) /\ BlocksIn(m, x) \subseteq Slots
             /\ FreeIn(n, x) = FreeIn(m, x) \cup (IF x = t THEN C ELSE {})
             /\ FreeIn(m, x) \subseteq Slots /\ e \notin FreeIn(m, x)
             /\ FreeIn(m, x) \cap C = {}
  <2>1. SlotsOf(m, x) \subseteq Slots
    BY SlotsOfType
  <2>2. SlotsOf(n, x) = SlotsOf(m, x) \cup (IF x = t THEN C ELSE {})
    <3>1. CASE x = t
      BY <1>4, <3>1, SlotsOfIs
    <3>2. CASE x # t
      BY <1>4, <3>2, SlotsOfIs
    <3> QED
      BY <3>1, <3>2
  <2> HIDE DEF C
  <2> QED
    BY <1>2, <1>3, <1>5, <2>1, <2>2 DEF BlocksIn, FreeIn
<1> HIDE DEF C
<1>7. \A x \in L : \A f \in BlocksIn(m, x) : f = e => x = p
  BY <1>0, OnePartition, BlockType
<1>8. Tree(n, L)
  BY <1>0, <1>4 DEF Tree
<1>9. Homes(n, L)
  <2>1. ASSUME NEW x \in L, NEW f \in BlocksIn(n, x), n.slot[f].PDflag
        PROVE  IsHome(n, L, x, f)
    <3>1. f \in BlocksIn(m, x) /\ f \in Slots
      BY <1>6
    <3>2. f # e /\ n.slot[f] = m.slot[f]
      BY <1>3, <2>1, <3>1
    <3>3. IsHome(m, L, x, f)
      BY <1>0, <2>1, <3>1, <3>2 DEF Homes
    <3> QED
      BY <1>4, <3>2, <3>3 DEF IsHome
  <2>2. ASSUME NEW x \in L \ {RootPD}
        PROVE  \E f \in BlocksIn(n, n.pd[x].parent) : n.slot[f].start = x /\ n.slot[f].PDflag
    <3>1. PICK f \in BlocksIn(m, m.pd[x].parent) : m.slot[f].start = x /\ m.slot[f].PDflag
      BY <1>0 DEF Homes
    <3>2. m.pd[x].parent \in L
      BY <1>0 DEF Tree
    <3> QED
      BY <1>3, <1>4, <1>6, <3>1, <3>2
  <2> QED
    BY <2>1, <2>2 DEF Homes
<1>10. Structures(n, L)
  <2>1. \A x, y \in L : x # y => StructsOf(n, x) \cap StructsOf(n, y) = {}
    BY <1>0, <1>4 DEF Structures
  <2>2. ASSUME NEW x \in L, NEW k \in StructsOf(n, x) \ {RootKS}
        PROVE  \E y \in {x, n.pd[x].parent} \cap L :
                 \E f \in BlocksIn(n, y) : HoldsStructure(n, y, x, f, k)
    <3>1. CASE k \in StructsOf(m, x)
      <4>1. PICK y \in {x, m.pd[x].parent} \cap L :
                 \E f \in BlocksIn(m, y) : HoldsStructure(m, y, x, f, k)
        BY <1>0, <3>1 DEF Structures
      <4>2. PICK f \in BlocksIn(m, y) : HoldsStructure(m, y, x, f, k)
        BY <4>1
      <4>3. f # e
        BY <3>1, <4>2 DEF HoldsStructure
      <4>4. f \in BlocksIn(n, y) /\ n.slot[f] = m.slot[f]
        BY <1>3, <1>6, <4>2, <4>3
      <4> QED
        BY <1>4, <4>1, <4>2, <4>4 DEF HoldsStructure
    <3>2. CASE x = t /\ k = ks
      <4>1. p \in {x, n.pd[x].parent} \cap L
        BY <1>4, <3>2
      <4>2. HoldsStructure(n, p, x, e, k)
        BY <1>2, <1>3, <3>2 DEF HoldsStructure, Size
      <4> QED
        BY <1>6, <4>1, <4>2
    <3> QED
      BY <1>4, <3>1, <3>2
  <2> QED
    BY <2>1, <2>2 DEF Structures
<1>11. Ranges(n, L)
  <2>1. ASSUME NEW x \in L, NEW f \in BlocksIn(n, x)
        PROVE  /\ WellFormed(n.slot[f])
               /\ \A g \in BlocksIn(n, x) : Overlap(n.slot[f], n.slot[g]) => f = g
    <3>1. /\ BlocksIn(n, x) = BlocksIn(m, x) /\ BlocksIn(m, x) \subseteq Slots
      BY <1>6
    <3> QED
      BY <1>0, <1>3, <3>1 DEF Ranges, WellFormed, Overlap
  <2> QED
    BY <2>1 DEF Ranges
<1>12. Cuts(n, L)
  <2> SUFFICES ASSUME NEW x \in L, NEW f \in BlocksIn(n, x), n.slot[f].next # NullSlot
               PROVE  /\ n.slot[f].next \in BlocksIn(n, x)
                      /\ n.slot[n.slot[f].next].start = n.slot[f].end
                      /\ n.slot[n.slot[f].next].origin = n.slot[f].origin
    BY DEF Cuts
  <2>1. f \in BlocksIn(m, x) /\ f \in Slots
    BY <1>6
  <2>2. /\ m.slot[f].next \in BlocksIn(m, x)
        /\ m.slot[m.slot[f].next].start = m.slot[f].end
        /\ m.slot[m.slot[f].next].origin = m.slot[f].origin
    BY <1>0, <1>3, <2>1 DEF Cuts
  <2> QED
    BY <1>3, <1>6, <2>1, <2>2
<1>13. Shares(n, L)
  <2> SUFFICES ASSUME NEW x \in L, NEW f \in BlocksIn(n, x)
               PROVE  /\ n.slot[f].PDchild # Null =>
                           /\ n.slot[f].PDchild \in L
                           /\ n.pd[n.slot[f].PDchild].parent = x
                      /\ n.slot[f].inChild # NullSlot => IsShared(n, f)
    BY DEF Shares
  <2>1. f \in BlocksIn(m, x) /\ f \in Slots
    BY <1>6
  <2>2. CASE f = e
    <3>1. x = p /\ n.slot[f].inChild = NullSlot /\ n.slot[f].PDchild = given
      BY <1>2, <1>3, <1>7, <2>1, <2>2
    <3> QED
      BY <1>4, <3>1
  <2>3. CASE f # e
    <3>1. /\ n.slot[f] = m.slot[f]
          /\ m.slot[f].PDchild # Null =>
               m.slot[f].PDchild \in L /\ m.pd[m.slot[f].PDchild].parent = x
          /\ m.slot[f].inChild # NullSlot => IsShared(m, f)
      BY <1>0, <1>3, <2>1, <2>3 DEF Shares
    <3>2. ASSUME n.slot[f].inChild # NullSlot PROVE IsShared(n, f)
      <4>1. IsShared(m, f)
        BY <3>1, <3>2
      <4>2. /\ m.slot[f].PDchild \in L /\ m.slot[f].inChild \in BlocksIn(m, m.slot[f].PDchild)
        BY <3>1, <4>1 DEF IsShared
      <4>3. m.slot[f].inChild \in BlocksIn(n, m.slot[f].PDchild) /\ m.slot[f].inChild \in Slots
        BY <1>6, <4>2
      <4> QED
        BY <1>3, <3>1, <4>1, <4>3 DEF IsShared
    <3> QED
      BY <1>4, <3>1, <3>2
  <2> QED
    BY <2>2, <2>3
<1>14. Containment(n, L)
  <2> SUFFICES ASSUME NEW x \in L \ {RootPD}, NEW f \in BlocksIn(n, x)
               PROVE  \E g \in BlocksIn(n, n.pd[x].parent) : IsPartOf(n, x, f, g)
    BY DEF Containment
  <2>1. f \in BlocksIn(m, x) /\ f \in Slots
    BY <1>6
  <2>2. PICK g \in BlocksIn(m, m.pd[x].parent) : IsPartOf(m, x, f, g)
    BY <1>0, <2>1 DEF Containment
  <2>3. m.pd[x].parent \in L
    BY <1>0 DEF Tree
  <2>4. g # e
    BY <1>2, <2>2 DEF IsPartOf
  <2>5. g \in BlocksIn(n, n.pd[x].parent) /\ n.slot[g] = m.slot[g]
    BY <1>3, <1>4, <1>6, <2>3, <2>4
  <2> QED
    BY <1>3, <2>1, <2>2, <2>5 DEF IsPartOf, Within
<1>15. FreeLists(n, L)
  <2> SUFFICES ASSUME NEW x \in L PROVE FreeListOK(n, x)
    BY DEF FreeLists
  <2>0. /\ x \in PDAddr /\ FreeListOK(m, x) /\ IsFiniteSet(FreeIn(m, x))
        /\ \A f \in FreeIn(m, x) : n.slot[f] = m.slot[f]
    BY <1>0, <1>3, <1>6, FreeType DEF FreeLists
  <2>1. CASE x # t
    <3>1. FreeIn(n, x) = FreeIn(m, x) /\ n.pd[x] = m.pd[x]
      BY ZenonT(30), <1>4, <1>6, <2>1
    <3> QED
      BY <2>0, <3>1, FreeListFrame
  <2>2. CASE x = t
    <3> DEFINE head == m.pd[t].firstFree
               nl == [f \in C |-> m.slot[f].nextFree]
    <3>1. \A i \in 0 .. Entries - 1 :
            /\ <<ks, i>> \in C
            /\ nl[<<ks, i>>] = IF i = Entries - 1 THEN head ELSE <<ks, i + 1>>
      <4>1. ASSUME NEW i \in 0 .. Entries - 1
            PROVE  <<ks, i>> \in C /\ nl[<<ks, i>>] = IF i = Entries - 1 THEN head ELSE <<ks, i + 1>>
        <5> DEFINE link == IF i = Entries - 1 THEN head ELSE <<ks, i + 1>>
        <5>1. <<ks, i>> \in C
          BY DEF C
        <5>2. m.slot[<<ks, i>>] = FreeEntry(link)
          BY <1>1
        <5> HIDE DEF link
        <5>3. m.slot[<<ks, i>>].nextFree = link
          BY <5>2 DEF FreeEntry
        <5> QED
          BY <5>1, <5>3 DEF link
      <4> QED
        BY <4>1
    <3>2. head \notin C
      <4>1. head \in FreeIn(m, t) \cup {NullSlot}
        BY <2>0, <2>2 DEF FreeListOK
      <4>2. NullSlot \notin C
        BY NullOutside DEF C, NullSlot, Null
      <4> QED
        BY <1>6, <4>1, <4>2
    <3>3. \A f \in C : n.slot[f] = FreeEntry(nl[f])
      <4>1. ASSUME NEW f \in C PROVE n.slot[f] = FreeEntry(nl[f])
        <5>1. PICK i \in 0 .. Entries - 1 : f = <<ks, i>>
          BY DEF C
        <5>2. n.slot[f] = m.slot[f]
          BY <1>5
        <5> HIDE DEF nl, head
        <5>3. m.slot[f] = FreeEntry(IF i = Entries - 1 THEN head ELSE <<ks, i + 1>>)
          BY <1>1, <5>1 DEF head
        <5> QED
          BY <3>1, <5>1, <5>2, <5>3
      <4> QED
        BY <4>1
    <3> HIDE DEF nl
    <3> HIDE DEF head
    <3>4. IsSegment(C, nl, <<ks, 0>>, head) /\ Cardinality(C) = Entries
      <4>1. head \notin {ks} \X (0 .. Entries - 1)
        BY <3>2 DEF C
      <4>2. \A i \in 0 .. Entries - 1 :
              nl[<<ks, i>>] = IF i = Entries - 1 THEN head ELSE <<ks, i + 1>>
        BY <3>1
      <4>3. LET D == {ks} \X (0 .. Entries - 1)
            IN  IsSegment(D, nl, <<ks, 0>>, head) /\ Cardinality(D) = Entries
        BY ONLY ks \in KSAddr, <4>1, <4>2, StructureSegment, Zenon
      <4> QED
        BY <4>3 DEF C
    <3>5. /\ C \cap FreeIn(m, t) = {} /\ FreeIn(n, t) = FreeIn(m, t) \cup C
          /\ n.pd[t].firstFree = <<ks, 0>> /\ n.pd[t].nbFree = m.pd[t].nbFree + Cardinality(C)
      BY <1>4, <1>6, <3>4
    <3>6. FreeListOK(n, t)
      <4>1. IsSegment(C, nl, <<ks, 0>>, m.pd[t].firstFree)
        BY <3>4 DEF head
      <4> QED
        BY <2>0, <2>2, <3>3, <4>1, <3>5, FreePush
    <3> QED
      BY <2>2, <3>6
  <2> QED
    BY <2>1, <2>2
<1>16. Consistent(n, L)
  BY <1>8, <1>9, <1>10, <1>11, <1>12, <1>13, <1>14, <1>15 DEF Consistent
<1>17. KernelBlocksHidden(n, L)
  <2> SUFFICES ASSUME NEW x \in L, NEW f \in BlocksIn(n, x), n.slot[f].accessible
               PROVE  ~ IsKernel(n, x, f)
    BY DEF KernelBlocksHidden
  <2>1. f \in BlocksIn(m, x) /\ f \in Slots
    BY <1>6
  <2>2. f # e /\ n.slot[f] = m.slot[f]
    BY <1>3, <2>1
  <2>3. ~ IsKernel(m, x, f)
    BY <1>0, <2>1, <2>2 DEF KernelBlocksHidden
  <2>4. x = t => m.slot[f].start # ks
    <3> SUFFICES ASSUME x = t, m.slot[f].start = ks PROVE FALSE
      OBVIOUS
    <3>1. /\ m.slot[f].start \in Nat /\ m.slot[f].end \in Nat /\ m.slot[f].start < m.slot[f].end
      BY <1>0, <2>1, BlockType, BlockRange
    <3>2. Overlap(m.slot[e], m.slot[f])
      BY <1>2, <3>1 DEF Overlap
    <3>3. CASE t = p
      BY <1>0, <2>1, <2>2, <3>2, <3>3, SameBlock
    <3>4. CASE t # p
      BY <1>0, <1>2, <2>1, <3>2, <3>4, NotInChild
    <3> QED
      BY <3>3, <3>4
  <2> QED
    BY <1>4, <2>2, <2>3, <2>4 DEF IsKernel
<1>18. CopiesAccessible(n, L)
  <2> SUFFICES ASSUME NEW x \in L, NEW f \in BlocksIn(n, x),
                      n.slot[f].accessible, n.slot[f].inChild # NullSlot
               PROVE  ~ IsCut(n, n.slot[f].inChild) /\ n.slot[n.slot[f].inChild].accessible
    BY DEF CopiesAccessible
  <2>1. f \in BlocksIn(m, x) /\ f \in Slots
    BY <1>6
  <2>2. m.slot[f].inChild \in BlocksIn(m, m.slot[f].PDchild) /\ m.slot[f].PDchild \in L
    BY <1>0, <1>3, <2>1 DEF Shares, IsShared
  <2>3. m.slot[f].inChild \in Slots
    BY <1>6, <2>2
  <2>4. ~ IsCut(m, m.slot[f].inChild) /\ m.slot[m.slot[f].inChild].accessible
    BY <1>0, <1>3, <2>1 DEF CopiesAccessible
  <2> QED
    BY <1>3, <2>1, <2>3, <2>4 DEF IsCut
<1>19. MPUMapsAccessible(n, L)
  <2>1. \A x \in L : n.pd[x].mpu = m.pd[x].mpu
    BY <1>4
  <2>2. ASSUME NEW x \in L, NEW r \in Regions, n.pd[x].mpu[r] # NullSlot
        PROVE  /\ n.pd[x].mpu[r] \in BlocksIn(n, x) /\ n.slot[n.pd[x].mpu[r]].accessible
               /\ \A k \in Regions : n.pd[x].mpu[k] = n.pd[x].mpu[r] => k = r
    <3> DEFINE mpu == m.pd[x].mpu
    <3>1. n.pd[x].mpu = mpu
      BY <2>1
    <3>2. mpu[r] # NullSlot
      BY ONLY <2>2, <3>1
    <3>3. /\ mpu[r] \in BlocksIn(m, x) /\ m.slot[mpu[r]].accessible
          /\ \A k \in Regions : mpu[k] = mpu[r] => k = r
      <4>1. MPUMapsAccessible(m, L)
        BY <1>0
      <4> QED
        BY ONLY <3>2, <4>1, x \in L, r \in Regions DEF MPUMapsAccessible
    <3> HIDE DEF mpu
    <3>4. mpu[r] \in BlocksIn(n, x) /\ mpu[r] \in Slots
      BY <1>6, <3>3
    <3>5. n.slot[mpu[r]].accessible
      BY <1>3, <3>3, <3>4
    <3> QED
      BY ONLY <3>1, <3>3, <3>4, <3>5
  <2> QED
    BY ONLY <2>2 DEF MPUMapsAccessible
<1>20. Furnished(m, n, L, t, ks)
  <2> SUFFICES ASSUME NEW x \in L
               PROVE  /\ n.pd[x].parent = m.pd[x].parent
                      /\ PoolIn(n, x) = PoolIn(m, x) /\ OpenIn(n, x) = OpenIn(m, x)
                      /\ StructsOf(n, x) = IF x = t THEN StructsOf(m, x) \cup {ks}
                                           ELSE StructsOf(m, x)
    BY DEF Furnished
  <2>1. BlocksIn(n, x) = BlocksIn(m, x) /\ BlocksIn(m, x) \subseteq Slots
    BY <1>6
  <2>2. /\ \A f \in BlocksIn(m, x) : SameRange(n.slot[f], m.slot[f])
        /\ \A f \in BlocksIn(m, x) : n.slot[f].accessible <=> m.slot[f].accessible
    BY <1>3, <2>1 DEF SameRange
  <2>3. PoolIn(n, x) = PoolIn(m, x) /\ OpenIn(n, x) = OpenIn(m, x)
    BY ONLY <2>1, <2>2, RangeMemory
  <2> QED
    BY <1>4, <2>3
<1>s. StaysOpen(m, n, L, L)
  <2>1. \A f \in Slots : IsCut(n, f) <=> IsCut(m, f)
    BY <1>3 DEF IsCut
  <2>2. \A x \in L : \A f \in BlocksIn(m, x) :
          m.slot[f].inChild # NullSlot => m.slot[f].inChild \in Slots
    BY <1>0, BlockType DEF Shares, IsShared
  <2> QED
    BY <1>3, <1>6, <2>1, <2>2 DEF StaysOpen, OpenAbove
<1> QED
  BY <1>16, <1>17, <1>18, <1>19, <1>20, <1>s DEF Guarded

\* Everyone loses block e of p, and t, p or a child of p, has a structure in it.
Prepared(m, n, L, p, e, t) ==
  /\ Usable(m, p, e) /\ Size(m.slot[e]) >= KSSize
  /\ t \in L /\ (t = p \/ (t # RootPD /\ m.pd[t].parent = p))
  /\ Consistent(n, L) /\ Guarded(n, L) /\ Seized(m, n, L, e) /\ StaysOpen(m, n, L, L)
  /\ \A x \in L : StructsOf(n, x) = IF x = t THEN StructsOf(m, x) \cup {m.slot[e].start}
                                    ELSE StructsOf(m, x)

\* prepare: the block becomes a kernel structure of the caller or a child.
LEMMA prepareSound ==
  ASSUME IInv, NEW L \in SUBSET PDAddr, Consistent(Mem, L), Guarded(Mem, L),
         NEW c \in L, NEW t \in CurrentOrChild(c), NEW e \in SlotsOf(Mem, c),
         prepare(c, t, e)
  PROVE  SoundFor(Mem', c, L) /\ Prepared(Mem, Mem', L, c, e, t)
<1> DEFINE b  == slot[e]
           ks == b.start
           m0 == eraseBlock(Mem, b.start, b.end)
           m1 == initStructure(m0, ks, pd[t].firstFree)
           m2 == hide(m1, c, e)
           m3 == [m2 EXCEPT !.pd[t] = addStructure(@, ks)]
           m4 == IF t = c THEN m3 ELSE [m3 EXCEPT !.slot[e].PDchild = t]
<1>0. /\ Mem \in Good /\ Mem.slot = slot /\ Mem.pd = pd /\ e \in Slots /\ b \in Entry
      /\ c \in PDAddr
  BY CallerType
<1>1. /\ ks \in KSAddr /\ Commit(m4)
      /\ b.present /\ b.accessible /\ b.PDchild = Null /\ Size(b) >= KSSize
      /\ e \in BlocksIn(Mem, c)
  BY <1>0 DEF prepare, KSAddr, IsFound, NotShared, BlocksIn
<1>2. t \in L /\ t \in PDAddr /\ (t = c \/ (t # RootPD /\ pd[t].parent = c))
  BY <1>0, ChildFacts DEF CurrentOrChild, Consistent
<1>3. pd[t].firstFree \in SlotRef
  BY <1>0, <1>2 DEF Good, GoodPD, Descriptor
<1>4. /\ ~ b.PDflag /\ \A x \in L : ks \notin StructsOf(Mem, x)
  BY <1>0, <1>1, AccessibleApart
<1>5. m0 \in Good /\ SameOn(Mem, m0, L)
  BY <1>0, <1>1, EraseEffect
<1> HIDE DEF m0
<1>6. m1 \in Good /\ SameOn(Mem, m1, L)
  <2> HIDE DEF b, ks
  <2>1. m1 \in Good
    BY <1>1, <1>3, <1>5, initStructureGood
  <2>2. m1.pd = m0.pd /\ \A f \in Slots : f[1] # ks => m1.slot[f] = m0.slot[f]
    BY <1>5 DEF initStructure, Good
  <2> HIDE DEF m1
  <2>3. ASSUME NEW x \in L, NEW f \in SlotsOf(Mem, x) PROVE f \in Slots /\ f[1] # ks
    <3>1. f \in StructsOf(Mem, x) \X (0 .. Entries - 1)
      BY SlotsOfIs
    <3>2. f[1] \in StructsOf(Mem, x)
      BY ONLY <3>1
    <3>3. f \in Slots
      BY <1>0, SlotsOfType
    <3> QED
      BY <1>4, <3>2, <3>3
  <2> QED
    BY <1>5, <2>1, <2>2, <2>3 DEF SameOn
<1>7. \A i \in 0 .. Entries - 1 :
        /\ <<ks, i>> \in Slots
        /\ m1.slot[<<ks, i>>] = FreeEntry(IF i = Entries - 1 THEN pd[t].firstFree
                                          ELSE <<ks, i + 1>>)
  <2> SUFFICES ASSUME NEW i \in 0 .. Entries - 1
               PROVE  /\ <<ks, i>> \in Slots
                      /\ m1.slot[<<ks, i>>] = FreeEntry(IF i = Entries - 1 THEN pd[t].firstFree
                                                        ELSE <<ks, i + 1>>)
    OBVIOUS
  <2> DEFINE F(link) == FreeEntry(link)
             k == ks
             new(f) == IF f[1] # k THEN m0.slot[f]
                       ELSE F(IF f[2] = Entries - 1 THEN pd[t].firstFree
                              ELSE <<k, f[2] + 1>>)
  <2>1. m1.slot = [f \in Slots |-> new(f)]
    BY <1>5 DEF initStructure, Good
  <2>2. <<k, i>> \in Slots
    BY <1>1 DEF Slots
  <2> HIDE DEF F, k, m1
  <2>3. new(<<k, i>>) = F(IF i = Entries - 1 THEN pd[t].firstFree ELSE <<k, i + 1>>)
    OBVIOUS
  <2> HIDE DEF new
  <2>4. m1.slot[<<k, i>>] = new(<<k, i>>)
    BY <2>1, <2>2
  <2> QED
    BY <2>2, <2>3, <2>4 DEF k, F
<1> HIDE DEF m1
<1>8. /\ Consistent(m1, L) /\ Guarded(m1, L) /\ m1.slot[e] = b /\ e \in BlocksIn(m1, c)
      /\ m1.pd[t] = pd[t] /\ StaysOpen(Mem, m1, L, L)
  <2>1. /\ Consistent(m1, L) /\ Guarded(m1, L) /\ StaysOpen(Mem, m1, L, L)
        /\ \A p \in L : BlocksIn(m1, p) = BlocksIn(Mem, p)
    BY <1>0, <1>6, SameOnKeeps
  <2> QED
    BY <1>0, <1>1, <1>2, <1>6, <2>1 DEF SameOn
<1>9. /\ m2 \in Good /\ SameShape(m1, m2, L) /\ ~ m2.slot[e].accessible
      /\ Consistent(m2, L) /\ Guarded(m2, L) /\ HidesOnly(m1, m2, L, e)
  <2>1. /\ CopiesAccessible(m1, L) /\ MPUMapsAccessible(m1, L)
        /\ \A q \in L : \A f \in BlocksIn(m1, q) :
             m1.slot[f].accessible /\ f # e => ~ IsKernel(m1, q, f)
    BY <1>8 DEF Guarded, KernelBlocksHidden
  <2> QED
    BY <1>6, <1>8, <2>1, HideKeeps
<1> HIDE DEF m2
<1>10. /\ e \in BlocksIn(m2, c) /\ ~ m2.slot[e].PDflag /\ m2.slot[e].PDchild = Null
       /\ Size(m2.slot[e]) >= KSSize /\ ks = m2.slot[e].start
       /\ \A x \in L : ks \notin StructsOf(m2, x)
       /\ m2.pd[t].parent = pd[t].parent /\ m2.pd[t].firstFree = pd[t].firstFree
       /\ \A i \in 0 .. Entries - 1 : m2.slot[<<ks, i>>] = m1.slot[<<ks, i>>]
  <2>1. /\ BlocksIn(m2, c) = BlocksIn(m1, c) /\ SameEntry(m2.slot[e], m1.slot[e])
        /\ SameLinks(m2.pd[t], m1.pd[t])
    BY <1>2, <1>6, <1>8, <1>9, ShapeSlots
  <2>2. \A x \in L : StructsOf(m2, x) = StructsOf(m1, x)
    BY <1>6, <1>9, ShapeSlots
  <2>3. \A x \in L : StructsOf(m1, x) = StructsOf(Mem, x)
    BY <1>6 DEF SameOn, StructsOf
  <2>4. ASSUME NEW i \in 0 .. Entries - 1
        PROVE  m2.slot[<<ks, i>>] = m1.slot[<<ks, i>>]
    <3> DEFINE link == IF i = Entries - 1 THEN pd[t].firstFree ELSE <<ks, i + 1>>
    <3>1. <<ks, i>> \in Slots /\ m1.slot[<<ks, i>>] = FreeEntry(link)
      BY <1>7
    <3> HIDE DEF link
    <3>2. ~ m1.slot[<<ks, i>>].present
      BY <3>1 DEF FreeEntry
    <3> QED
      BY <1>9, <3>1, <3>2 DEF SameShape
  <2> QED
    BY <1>1, <1>4, <1>8, <2>1, <2>2, <2>3, <2>4 DEF SameEntry, SameLinks, Size
<1>11. m4.slot = [m2.slot EXCEPT ![e] = [m2.slot[e] EXCEPT !.PDchild =
                                           IF t = c THEN Null ELSE t]]
       /\ m4.pd = [m2.pd EXCEPT ![t] = addStructure(m2.pd[t], ks)]
       /\ m4 = [slot |-> m4.slot, pd |-> m4.pd]
  <2> DEFINE d == addStructure(m2.pd[t], ks)
             g == m2.slot
             h == m2.slot[e]
  <2>0. g \in [Slots -> Entry] /\ h \in Entry /\ m2.pd \in [PDAddr -> GoodPD] /\ g[e] = h
        /\ h.PDchild = Null
    BY <1>0, <1>9, <1>10 DEF Good
  <2>1. m3 = [m2 EXCEPT !.pd = [m2.pd EXCEPT ![t] = d]]
    BY <1>2, <1>9 DEF Good
  <2> HIDE DEF d, m3
  <2>2. m3.slot = g /\ m3.pd = [m2.pd EXCEPT ![t] = d] /\ m3 = [slot |-> m3.slot, pd |-> m3.pd]
    BY <1>9, <2>1 DEF Good
  <2> HIDE DEF g, h
  <2>3. CASE t = c
    <3>1. m4 = m3
      BY <2>3
    <3>2. [h EXCEPT !.PDchild = Null] = h
      BY <2>0 DEF Entry
    <3>3. g = [g EXCEPT ![e] = [h EXCEPT !.PDchild = Null]]
      BY <1>0, <2>0, <3>2
    <3> QED
      BY <2>2, <2>3, <3>1, <3>3 DEF g, h, d
  <2>4. CASE t # c
    <3>1. m4 = [m3 EXCEPT !.slot = [g EXCEPT ![e].PDchild = t]]
      BY <2>2, <2>4
    <3>2. [g EXCEPT ![e].PDchild = t] = [g EXCEPT ![e] = [h EXCEPT !.PDchild = t]]
      BY <1>0, <2>0
    <3>3. m4.slot = [g EXCEPT ![e] = [h EXCEPT !.PDchild = t]] /\ m4.pd = m3.pd
          /\ m4 = [slot |-> m4.slot, pd |-> m4.pd]
      BY <2>2, <3>1, <3>2
    <3> QED
      BY <2>2, <2>4, <3>3 DEF g, h, d
  <2> QED
    BY <2>3, <2>4
<1>12. m4 \in Good
  <2>1. IInv'
    BY <1>0, <1>2, prepareGood
  <2> HIDE DEF m4
  <2>2. m4.slot = slot' /\ m4.pd = pd'
    BY <1>1 DEF Commit
  <2> QED
    BY <1>11, <2>1, <2>2 DEF IInv, Mem
<1> HIDE DEF m4
<1>13. IsFurnished(m2, m4, c, e, t, ks)
  <2>1. m2.slot \in [Slots -> Entry] /\ m2.pd \in [PDAddr -> GoodPD]
    BY <1>9 DEF Good
  <2> DEFINE d == addStructure(m2.pd[t], ks)
             h == [m2.slot[e] EXCEPT !.PDchild = IF t = c THEN Null ELSE t]
  <2>2. m4.slot = [m2.slot EXCEPT ![e] = h] /\ m4.pd = [m2.pd EXCEPT ![t] = d]
    BY <1>11
  <2> HIDE DEF d, h
  <2>3. /\ m4.pd[t] = d /\ \A x \in PDAddr \ {t} : m4.pd[x] = m2.pd[x]
        /\ m4.slot[e] = h /\ \A f \in Slots \ {e} : m4.slot[f] = m2.slot[f]
    BY <1>0, <1>2, <2>1, <2>2
  <2>4. \A i \in 0 .. Entries - 1 :
          m2.slot[<<ks, i>>] = FreeEntry(IF i = Entries - 1 THEN m2.pd[t].firstFree
                                         ELSE <<ks, i + 1>>)
    BY <1>7, <1>10
  <2> QED
    BY <2>3, <2>4 DEF IsFurnished, d, h
<1>14. t = c \/ (t # RootPD /\ m2.pd[t].parent = c)
  BY <1>2, <1>10
<1> HIDE DEF ks
<1>15. /\ Consistent(m4, L) /\ Guarded(m4, L) /\ Furnished(m2, m4, L, t, ks)
       /\ StaysOpen(m2, m4, L, L)
  BY <1>1, <1>2, <1>9, <1>10, <1>12, <1>13, <1>14, FurnishKeeps
<1>16. SoundFor(Mem', c, L) /\ Mem' = m4
  BY <1>1, <1>12, <1>15, CommitSound
<1>17. Prepared(Mem, m4, L, c, e, t)
  <2>1. SameMemory(Mem, m1, L)
    BY <1>0, <1>6, SameOnMemory
  <2>2. Shares(Mem, L) /\ Shares(m1, L) /\ m1.slot[e].inChild = NullSlot
    BY <1>1, <1>6, <1>8, NotSharedNoCopy DEF Consistent
  <2>3. Seized(m1, m2, L, e) /\ SameOwners(m1, m2, L)
    BY <1>6, <1>8, <1>9, <2>2, HiddenMemory
  <2>4. Extent(m1, e) = Extent(Mem, e)
    BY <1>0, <1>8 DEF Extent
  <2>5. Seized(Mem, m4, L, e)
    BY <1>15, <2>1, <2>3, <2>4 DEF Seized, SameMemory, SameOwners, Furnished
  <2>6. \A x \in L : StructsOf(m2, x) = StructsOf(Mem, x)
    <3>1. \A x \in L : StructsOf(m2, x) = StructsOf(m1, x)
      BY <1>6, <1>9, ShapeSlots
    <3>2. \A x \in L : StructsOf(m1, x) = StructsOf(Mem, x)
      BY <1>6 DEF SameOn, StructsOf
    <3> QED
      BY <3>1, <3>2
  <2>7. Usable(Mem, c, e)
    BY <1>0, <1>1, <1>8, <2>2 DEF Usable
  <2>8. ks = Mem.slot[e].start
    BY <1>0 DEF ks
  <2>9. StaysOpen(m1, m2, L, L)
    BY <1>6, <1>8, <1>9, <2>2, HiddenStaysOpen
  <2>10. StaysOpen(Mem, m4, L, L)
    BY <1>8, <1>15, <2>9, StaysOpenTrans
  <2> QED
    BY <1>0, <1>1, <1>2, <1>15, <2>5, <2>6, <2>7, <2>8, <2>10 DEF Prepared, Furnished
<1> QED
  BY <1>16, <1>17

-----------------------------------------------------------------------------
(* merge.                                                                  *)

\* Everyone keeps what they have, and may access at most the joined block again.
Merged(m, n, L, p, e1, e2) ==
  /\ Usable(m, p, e1) /\ Usable(m, p, e2) /\ Consistent(n, L) /\ Guarded(n, L)
  /\ Opened(m, n, L, Extent(m, e1) \cup Extent(m, e2)) /\ StaysOpen(m, n, L, L)

\* The slots of C are put back on the free list of p, a first.
PushedAt(m, n, p, C, a) ==
  /\ n.pd[p].parent = m.pd[p].parent /\ n.pd[p].structs = m.pd[p].structs
  /\ \A r \in Regions : n.pd[p].mpu[r] = IF m.pd[p].mpu[r] \in C THEN NullSlot
                                         ELSE m.pd[p].mpu[r]
  /\ n.pd[p].firstFree = a
  /\ n.pd[p].nbFree = m.pd[p].nbFree + Cardinality(C)

Pushed(m, n, p, C, a) ==
  PushedAt(m, n, p, C, a) /\ \A q \in PDAddr : q # p => n.pd[q] = m.pd[q]

\* Block e1 of p takes over its next subblock e2.
IsJoin(m, n, L, p, e1, e2) ==
  /\ Pushed(m, n, p, {e2}, e2) /\ Kept(m, n, L, {e1, e2})
  /\ n.slot[e2] = FreeEntry(m.pd[p].firstFree)
  /\ LET b == m.slot[e1]
         d == n.slot[e1]
     IN  /\ d.start = b.start /\ d.end = m.slot[e2].end /\ d.origin = b.origin
         /\ d.rights = b.rights /\ d.present /\ d.accessible /\ ~ d.PDflag
         /\ d.PDchild = Null /\ d.inChild = NullSlot /\ d.next = m.slot[e2].next

\* It keeps the data consistent and guarded.
LEMMA JoinKeeps ==
  ASSUME NEW m \in Good, NEW n \in Good, NEW L \in SUBSET PDAddr,
         Consistent(m, L), Guarded(m, L),
         NEW p \in L, NEW e1 \in BlocksIn(m, p), NEW e2 \in BlocksIn(m, p),
         m.slot[e1].accessible, m.slot[e1].PDchild = Null,
         m.slot[e2].accessible, m.slot[e2].PDchild = Null,
         m.slot[e1].next = e2, IsJoin(m, n, L, p, e1, e2)
  PROVE  Consistent(n, L) /\ Guarded(n, L) /\ e1 \in BlocksIn(n, p)
<1> DEFINE T == {e1, e2}
<1>0. /\ Tree(m, L) /\ Homes(m, L) /\ Structures(m, L) /\ Ranges(m, L) /\ Cuts(m, L)
      /\ Shares(m, L) /\ Containment(m, L) /\ FreeLists(m, L)
      /\ KernelBlocksHidden(m, L) /\ CopiesAccessible(m, L) /\ MPUMapsAccessible(m, L)
  BY DEF Consistent, Guarded
<1>1. /\ Pushed(m, n, p, {e2}, e2) /\ Kept(m, n, L, T)
      /\ n.slot[e2] = FreeEntry(m.pd[p].firstFree) /\ ~ n.slot[e2].present
      /\ n.slot[e1].start = m.slot[e1].start /\ n.slot[e1].end = m.slot[e2].end
      /\ n.slot[e1].origin = m.slot[e1].origin /\ n.slot[e1].rights = m.slot[e1].rights
      /\ n.slot[e1].present /\ n.slot[e1].accessible /\ ~ n.slot[e1].PDflag
      /\ n.slot[e1].PDchild = Null /\ n.slot[e1].inChild = NullSlot
      /\ n.slot[e1].next = m.slot[e2].next
  BY DEF IsJoin, FreeEntry
<1>2. /\ e1 \in T /\ e2 \in T /\ \A f : f \in T => f = e1 \/ f = e2
  OBVIOUS
<1> HIDE DEF T
<1>3. /\ m.slot[e1].start \in Nat /\ m.slot[e1].end \in Nat /\ m.slot[e1].origin \in Nat
      /\ m.slot[e2].start \in Nat /\ m.slot[e2].end \in Nat
      /\ 1 <= m.slot[e1].origin /\ m.slot[e1].origin <= m.slot[e1].start
      /\ m.slot[e1].start < m.slot[e1].end /\ m.slot[e2].start < m.slot[e2].end
      /\ m.slot[e2].end <= Top + 1 /\ "r" \in m.slot[e1].rights
      /\ e1 \in Slots /\ e2 \in Slots /\ m.slot[e1].present /\ m.slot[e2].present
      /\ e2 # NullSlot
  BY <1>0, BlockType, BlockRange
<1>4. /\ m.slot[e2].start = m.slot[e1].end /\ m.slot[e2].origin = m.slot[e1].origin
      /\ e1 # e2
  <2>1. m.slot[e2].start = m.slot[e1].end /\ m.slot[e2].origin = m.slot[e1].origin
    BY <1>0, <1>3 DEF Cuts
  <2> QED
    BY <1>3, <2>1
<1>5. m.slot[e1].inChild = NullSlot /\ m.slot[e2].inChild = NullSlot
  BY <1>0, NotSharedNoCopy
<1>6. ASSUME NEW q \in L
      PROVE  /\ StructsOf(n, q) = StructsOf(m, q) /\ n.pd[q].parent = m.pd[q].parent
             /\ \A f \in BlocksIn(m, q) : (f = e1 \/ f = e2 => q = p)
             /\ \A f \in BlocksIn(m, q) : f # e1 /\ f # e2 => n.slot[f] = m.slot[f]
             /\ \A f \in BlocksIn(m, q) : f # e2 => f \in BlocksIn(n, q)
             /\ \A f \in BlocksIn(n, q) : f \in BlocksIn(m, q) /\ f # e2
             /\ e1 \notin FreeIn(m, q) /\ e2 \notin FreeIn(m, q) /\ e1 \notin FreeIn(n, q)
             /\ \A f : f # e1 /\ f # e2 => (f \in FreeIn(n, q) <=> f \in FreeIn(m, q))
             /\ e2 \in FreeIn(n, q) <=> q = p
  <2>1. /\ StructsOf(n, q) = StructsOf(m, q) /\ SlotsOf(n, q) = SlotsOf(m, q)
        /\ SlotsOf(m, q) \subseteq Slots
        /\ \A f : f \notin T => /\ f \in BlocksIn(n, q) <=> f \in BlocksIn(m, q)
                                /\ f \in FreeIn(n, q) <=> f \in FreeIn(m, q)
        /\ \A f \in SlotsOf(m, q) : f \notin T => n.slot[f] = m.slot[f]
    <3>1. Kept(m, n, L, T)
      BY <1>1
    <3>2. q \in L
      OBVIOUS
    <3> QED
      BY ONLY m \in Good, n \in Good, L \in SUBSET PDAddr, <3>1, <3>2, KeptSlots
  <2>2. e1 \in SlotsOf(m, p) /\ e2 \in SlotsOf(m, p)
    BY BlockType
  <2>3. (e1 \in SlotsOf(m, q) => q = p) /\ (e2 \in SlotsOf(m, q) => q = p)
    BY <1>0, <2>2, OnePartition
  <2>4. n.pd[q].parent = m.pd[q].parent
    BY <1>1 DEF Kept
  <2> QED
    BY <1>1, <1>2, <1>3, <1>4, <2>1, <2>2, <2>3, <2>4 DEF BlocksIn, FreeIn
<1>7. e1 \in BlocksIn(n, p)
  BY <1>4, <1>6
<1>8. NoKernelIn(m, L, T)
  <2>1. /\ ~ m.slot[e1].PDflag /\ ~ m.slot[e2].PDflag
        /\ \A q \in L : m.slot[e1].start \notin StructsOf(m, q)
        /\ \A q \in L : m.slot[e2].start \notin StructsOf(m, q)
    BY AccessibleApart
  <2> QED
    BY <1>2, <2>1 DEF NoKernelIn
<1>9. Tree(n, L) /\ Homes(n, L) /\ Structures(n, L)
  <2>1. \A q \in L : \A f \in BlocksIn(n, q) : f \in T => ~ n.slot[f].PDflag
    BY <1>1, <1>2, <1>6
  <2> QED
    BY <1>1, <1>8, <2>1, KeptRest
<1>10. Ranges(n, L)
  <2>1. ASSUME NEW q \in L, NEW f \in BlocksIn(n, q)
        PROVE  /\ WellFormed(n.slot[f])
               /\ f # e1 => n.slot[f] = m.slot[f]
               /\ m.slot[f].start \in Nat /\ m.slot[f].end \in Nat
               /\ m.slot[f].start < m.slot[f].end
    <3>1. f \in BlocksIn(m, q) /\ f # e2
      BY <1>6
    <3>2. /\ m.slot[f].start \in Nat /\ m.slot[f].end \in Nat /\ WellFormed(m.slot[f])
      BY <1>0, <3>1, BlockType DEF Ranges
    <3>3. CASE f = e1
      BY <1>1, <1>3, <1>4, <3>2, <3>3, ConstantsAssumption DEF WellFormed
    <3>4. CASE f # e1
      BY <1>6, <3>1, <3>2, <3>4 DEF WellFormed
    <3> QED
      BY <3>3, <3>4
  <2>2. ASSUME NEW q \in L, NEW f \in BlocksIn(n, q), f # e1,
               Overlap(n.slot[f], n.slot[e1]) \/ Overlap(n.slot[e1], n.slot[f]), q = p
        PROVE  FALSE
    <3>1. f \in BlocksIn(m, p) /\ f # e2 /\ n.slot[f] = m.slot[f]
      BY <1>6, <2>1, <2>2
    <3>2. Overlap(m.slot[f], m.slot[e1]) \/ Overlap(m.slot[f], m.slot[e2])
      BY <1>1, <1>3, <1>4, <2>1, <2>2, <3>1 DEF Overlap
    <3> QED
      BY <1>0, <2>2, <3>1, <3>2, SameBlock
  <2>3. ASSUME NEW q \in L, NEW f \in BlocksIn(n, q), NEW g \in BlocksIn(n, q),
               Overlap(n.slot[f], n.slot[g])
        PROVE  f = g
    <3>1. CASE f # e1 /\ g # e1
      BY <1>0, <1>6, <2>1, <2>3, <3>1, SameBlock
    <3>2. CASE f # e1 /\ g = e1
      BY <1>6, <2>2, <2>3, <3>2
    <3>3. CASE f = e1 /\ g # e1
      BY <1>6, <2>2, <2>3, <3>3
    <3> QED
      BY <3>1, <3>2, <3>3
  <2> QED
    BY <2>1, <2>3 DEF Ranges
<1>11. Cuts(n, L)
  <2> SUFFICES ASSUME NEW q \in L, NEW f \in BlocksIn(n, q), n.slot[f].next # NullSlot
               PROVE  /\ n.slot[f].next \in BlocksIn(n, q)
                      /\ n.slot[n.slot[f].next].start = n.slot[f].end
                      /\ n.slot[n.slot[f].next].origin = n.slot[f].origin
    BY DEF Cuts
  <2>1. f \in BlocksIn(m, q) /\ f # e2
    BY <1>6
  <2>2. PICK g \in BlocksIn(m, q) :
          /\ g = e1 => f # e1
          /\ n.slot[f].next = m.slot[g].next
          /\ n.slot[f].end = m.slot[g].end /\ n.slot[f].origin = m.slot[g].origin
          /\ f = e1 => g = e2
          /\ f # e1 => g = f
    <3>1. CASE f = e1
      BY <1>1, <1>4, <1>6, <2>1, <3>1
    <3>2. CASE f # e1
      BY <1>6, <2>1, <3>2
    <3> QED
      BY <3>1, <3>2
  <2> DEFINE h == m.slot[g].next
  <2>3. h \in BlocksIn(m, q) /\ m.slot[h].start = m.slot[g].end
        /\ m.slot[h].origin = m.slot[g].origin
    BY <1>0, <2>2 DEF Cuts
  <2>4. h # e2
    <3> SUFFICES ASSUME h = e2 PROVE FALSE
      OBVIOUS
    <3>1. /\ m.slot[g].start \in Nat /\ m.slot[g].end \in Nat
          /\ m.slot[g].start < m.slot[g].end
      BY <1>0, BlockType, BlockRange
    <3>2. Overlap(m.slot[g], m.slot[e1]) /\ q = p
      BY <1>3, <1>4, <1>6, <2>3, <3>1 DEF Overlap
    <3>3. g = e1
      BY <1>0, <3>2, SameBlock
    <3> QED
      BY <2>1, <2>2, <3>3
  <2>5. /\ h \in BlocksIn(n, q) /\ n.slot[h].start = m.slot[h].start
        /\ n.slot[h].origin = m.slot[h].origin
    BY <1>1, <1>6, <2>3, <2>4
  <2> QED
    BY <2>2, <2>3, <2>5
<1>12. Shares(n, L)
  <2> SUFFICES ASSUME NEW q \in L, NEW f \in BlocksIn(n, q)
               PROVE  /\ n.slot[f].PDchild # Null =>
                           /\ n.slot[f].PDchild \in L
                           /\ n.pd[n.slot[f].PDchild].parent = q
                      /\ n.slot[f].inChild # NullSlot => IsShared(n, f)
    BY DEF Shares
  <2>1. CASE f = e1
    BY <1>1, <2>1
  <2>2. CASE f # e1
    <3>1. f \in BlocksIn(m, q) /\ n.slot[f] = m.slot[f]
      BY <1>6, <2>2
    <3>2. m.slot[f].PDchild # Null =>
            m.slot[f].PDchild \in L /\ m.pd[m.slot[f].PDchild].parent = q
      BY <1>0, <3>1 DEF Shares
    <3>3. ASSUME n.slot[f].inChild # NullSlot PROVE IsShared(n, f)
      <4>1. IsShared(m, f)
        BY <1>0, <3>1, <3>3 DEF Shares
      <4>2. /\ m.slot[f].PDchild \in L /\ m.slot[f].inChild \in BlocksIn(m, m.slot[f].PDchild)
        BY <3>2, <4>1 DEF IsShared
      <4>3. m.slot[f].inChild # e2
        BY <1>3, <1>4, <4>1 DEF IsShared
      <4>4. /\ m.slot[f].inChild \in BlocksIn(n, m.slot[f].PDchild)
            /\ n.slot[m.slot[f].inChild].start = m.slot[m.slot[f].inChild].start
            /\ n.slot[m.slot[f].inChild].origin = m.slot[m.slot[f].inChild].origin
        BY <1>1, <1>6, <4>2, <4>3
      <4> QED
        BY <3>1, <4>1, <4>4 DEF IsShared
    <3> QED
      BY <1>6, <3>1, <3>2, <3>3
  <2> QED
    BY <2>1, <2>2
<1>13. Containment(n, L)
  <2> SUFFICES ASSUME NEW q \in L \ {RootPD}, NEW f \in BlocksIn(n, q)
               PROVE  \E x \in BlocksIn(n, n.pd[q].parent) : IsPartOf(n, q, f, x)
    BY DEF Containment
  <2>1. f \in BlocksIn(m, q) /\ f # e2 /\ m.pd[q].parent \in L /\ q # Null
    BY <1>0, <1>6, NullOutside DEF Tree
  <2>2. ASSUME NEW h \in BlocksIn(m, q)
        PROVE  \E x \in BlocksIn(m, m.pd[q].parent) :
                 /\ IsPartOf(m, q, h, x) /\ x # e1 /\ x # e2
                 /\ x \in BlocksIn(n, n.pd[q].parent) /\ n.slot[x] = m.slot[x]
    <3>1. PICK x \in BlocksIn(m, m.pd[q].parent) : IsPartOf(m, q, h, x)
      BY <1>0 DEF Containment
    <3>2. x # e1 /\ x # e2
      BY <2>1, <3>1 DEF IsPartOf
    <3> QED
      BY <1>6, <2>1, <3>1, <3>2
  <2>3. PICK x \in BlocksIn(m, m.pd[q].parent) :
                 /\ IsPartOf(m, q, f, x) /\ x # e1 /\ x # e2
                 /\ x \in BlocksIn(n, n.pd[q].parent) /\ n.slot[x] = m.slot[x]
    BY <2>1, <2>2
  <2>4. CASE f # e1
    BY <1>6, <2>1, <2>3, <2>4 DEF IsPartOf
  <2>5. CASE f = e1
    <3>1. q = p /\ e2 \in BlocksIn(m, q)
      BY <1>6, <2>1, <2>5
    <3>2. PICK y \in BlocksIn(m, m.pd[q].parent) : IsPartOf(m, q, e2, y)
      BY <2>2, <3>1
    <3>3. /\ m.slot[x].start \in Nat /\ m.slot[x].end \in Nat
          /\ m.slot[y].start \in Nat /\ m.slot[y].end \in Nat
          /\ m.slot[x].start < m.slot[x].end /\ m.slot[y].start < m.slot[y].end
      BY <1>0, <2>1, BlockType, BlockRange
    <3>4. Overlap(m.slot[x], m.slot[y])
      BY <1>4, <2>3, <2>5, <3>2, <3>3 DEF IsPartOf, Overlap
    <3>5. x = y
      BY <1>0, <2>1, <3>4, SameBlock
    <3>6. IsPartOf(n, q, f, x)
      BY <1>1, <1>3, <1>4, <2>3, <2>5, <3>2, <3>3, <3>5 DEF IsPartOf, Within
    <3> QED
      BY <2>3, <3>6
  <2> QED
    BY <2>4, <2>5
<1>14. FreeLists(n, L)
  <2> SUFFICES ASSUME NEW q \in L PROVE FreeListOK(n, q)
    BY DEF FreeLists
  <2>1. q \in PDAddr /\ FreeListOK(m, q) /\ IsFiniteSet(FreeIn(m, q))
    BY <1>0, FreeType DEF FreeLists
  <2>2. CASE q # p
    <3>1. FreeIn(m, q) \cap T = {} /\ FreeIn(n, q) \cap T = {}
      BY <1>2, <1>6, <2>2
    <3>2. n.pd[q] = m.pd[q]
      BY <1>1, <2>1, <2>2 DEF Pushed, PushedAt
    <3> QED
      BY <1>1, <2>1, <3>1, <3>2, KeptFree
  <2>3. CASE q = p
    <3> DEFINE head == m.pd[p].firstFree
               nl == [f \in {e2} |-> head]
               C == {e2}
    <3>1. head # e2
      BY <1>3, <1>6, <2>1, <2>3 DEF FreeListOK
    <3>2. nl[e2] = head
      OBVIOUS
    <3> HIDE DEF nl
    <3>3. IsSegment(C, nl, e2, head) /\ Cardinality(C) = 1
      BY <1>3, <3>1, <3>2, OneSegment
    <3>4. \A f \in C : n.slot[f] = FreeEntry(nl[f])
      BY <1>1, <3>2
    <3>5. /\ n.pd[p].firstFree = e2 /\ n.pd[p].nbFree = m.pd[p].nbFree + Cardinality(C)
      BY <1>1 DEF Pushed, PushedAt
    <3>6. /\ C \cap FreeIn(m, p) = {} /\ FreeIn(n, p) = FreeIn(m, p) \cup C
          /\ \A f \in FreeIn(m, p) : n.slot[f] = m.slot[f]
      <4>1. C \cap FreeIn(m, p) = {} /\ FreeIn(n, p) = FreeIn(m, p) \cup C
        BY <1>6
      <4>2. FreeIn(m, p) \subseteq Slots
        BY <2>1, <2>3, FreeType
      <4>3. \A f \in Slots \ T : n.slot[f] = m.slot[f]
        BY <1>1 DEF Kept
      <4> QED
        BY <1>2, <1>6, <4>1, <4>2, <4>3
    <3> HIDE DEF C
    <3>7. FreeListOK(n, p)
      BY <2>1, <2>3, <3>3, <3>4, <3>5, <3>6, FreePush
    <3> QED
      BY <2>3, <3>7
  <2> QED
    BY <2>2, <2>3
<1>15. Consistent(n, L)
  BY <1>9, <1>10, <1>11, <1>12, <1>13, <1>14 DEF Consistent
<1>16. Guarded(n, L)
  <2>1. \A q \in L : \A f \in BlocksIn(n, q) :
          f \in T /\ n.slot[f].accessible => ~ IsKernel(n, q, f)
    <3>1. \A q \in L : m.slot[e1].start \notin StructsOf(m, q)
      BY AccessibleApart
    <3> QED
      BY <1>1, <1>2, <1>6, <3>1 DEF IsKernel
  <2>2. \A q \in L : \A f \in BlocksIn(n, q) :
           /\ f \in T \/ n.slot[f].inChild \in T
           /\ n.slot[f].accessible /\ n.slot[f].inChild # NullSlot
           => /\ ~ IsCut(n, n.slot[f].inChild)
              /\ n.slot[n.slot[f].inChild].accessible
    <3> SUFFICES ASSUME NEW q \in L, NEW f \in BlocksIn(n, q),
                        f \in T \/ n.slot[f].inChild \in T,
                        n.slot[f].accessible, n.slot[f].inChild # NullSlot
                 PROVE  FALSE
      OBVIOUS
    <3>1. f \in BlocksIn(m, q) /\ f # e2 /\ f # e1 /\ n.slot[f] = m.slot[f]
      BY <1>1, <1>6
    <3>2. m.slot[f].inChild = e1 \/ m.slot[f].inChild = e2
      BY <1>2, <3>1
    <3>3. IsShared(m, f)
      BY <1>0, <3>1 DEF Shares
    <3>4. m.slot[f].inChild = e1
      BY <1>3, <1>4, <3>2, <3>3 DEF IsShared
    <3>5. ~ IsCut(m, e1)
      BY <1>0, <3>1, <3>4 DEF CopiesAccessible
    <3> QED
      BY <1>3, <3>5 DEF IsCut
  <2>3. \A q \in L : \A r \in Regions : n.pd[q].mpu[r] # NullSlot =>
           /\ n.pd[q].mpu[r] = m.pd[q].mpu[r]
           /\ n.pd[q].mpu[r] \in T => /\ n.pd[q].mpu[r] \in BlocksIn(n, q)
                                      /\ n.slot[n.pd[q].mpu[r]].accessible
    <3> SUFFICES ASSUME NEW q \in L, NEW r \in Regions, n.pd[q].mpu[r] # NullSlot
                 PROVE  /\ n.pd[q].mpu[r] = m.pd[q].mpu[r]
                        /\ n.pd[q].mpu[r] \in T => /\ n.pd[q].mpu[r] \in BlocksIn(n, q)
                                                   /\ n.slot[n.pd[q].mpu[r]].accessible
      OBVIOUS
    <3>1. m.pd[q].mpu[r] # NullSlot => m.pd[q].mpu[r] \in BlocksIn(m, q)
      BY <1>0 DEF MPUMapsAccessible
    <3>2. n.pd[q].mpu[r] = m.pd[q].mpu[r] /\ (q = p => n.pd[q].mpu[r] # e2)
      BY <1>1 DEF Pushed, PushedAt
    <3> QED
      BY <1>1, <1>2, <1>6, <3>1, <3>2
  <2> QED
    BY <1>1, <2>1, <2>2, <2>3, KeptGuarded
<1> QED
  BY <1>7, <1>15, <1>16

\* freeSlots empties the slots of C and puts them on the free list.
LEMMA FreedEffect ==
  ASSUME NEW m \in Good, NEW p \in PDAddr, NEW C \in SUBSET Slots
  PROVE  LET n         == freeSlots(m, p, C)
             before(e) == {f \in C : m.slot[f].next = e}
             last      == {e \in C : m.slot[e].next \notin C}
         IN  /\ n \in Good
             /\ \A f \in Slots : f \notin C => n.slot[f] = m.slot[f]
             /\ \A e \in C : n.slot[e] =
                  FreeEntry(IF before(e) = {} THEN m.pd[p].firstFree
                            ELSE CHOOSE f \in before(e) : TRUE)
             /\ Pushed(m, n, p, C, IF last = {} THEN m.pd[p].firstFree
                                   ELSE CHOOSE e \in last : TRUE)
<1> DEFINE n         == freeSlots(m, p, C)
           before(e) == {f \in C : m.slot[f].next = e}
           last      == {e \in C : m.slot[e].next \notin C}
           a         == IF last = {} THEN m.pd[p].firstFree ELSE CHOOSE e \in last : TRUE
           d         == FreeListAt(Unmap(m.pd[p], C), a, Cardinality(C))
           emptied(e) == FreeEntry(IF before(e) = {} THEN m.pd[p].firstFree
                                   ELSE CHOOSE f \in before(e) : TRUE)
<1>1. n \in Good
  BY freeSlotsGood
<1>2. /\ n.slot = [e \in Slots |-> IF e \in C THEN emptied(e) ELSE m.slot[e]]
      /\ n.pd = [m.pd EXCEPT ![p] = d]
  BY DEF freeSlots
<1> HIDE DEF n, emptied, d
<1>3. /\ \A f \in Slots : f \notin C => n.slot[f] = m.slot[f]
      /\ \A e \in C : n.slot[e] = emptied(e)
  BY <1>2
<1>4. m.pd \in [PDAddr -> GoodPD] /\ m.pd[p] \in GoodPD
  BY DEF Good
<1>5. n.pd[p] = d /\ \A q \in PDAddr : q # p => n.pd[q] = m.pd[q]
  BY <1>2, <1>4
<1>6. /\ d.parent = m.pd[p].parent /\ d.structs = m.pd[p].structs
      /\ d.mpu = Unmap(m.pd[p], C).mpu
      /\ d.firstFree = a /\ d.nbFree = m.pd[p].nbFree + Cardinality(C)
  <2> DEFINE u == Unmap(m.pd[p], C)
  <2>1. u \in GoodPD /\ SameLinks(u, m.pd[p])
    BY <1>4, UnmapGood, UnmapLinks
  <2> HIDE DEF u, a
  <2>2. d = [u EXCEPT !.firstFree = a, !.nbFree = u.nbFree + Cardinality(C)]
    BY DEF d, u, FreeListAt
  <2>3. /\ d.parent = u.parent /\ d.structs = u.structs /\ d.mpu = u.mpu
        /\ d.firstFree = a /\ d.nbFree = u.nbFree + Cardinality(C)
    BY <2>1, <2>2 DEF GoodPD, Descriptor
  <2> QED
    BY <2>1, <2>3 DEF SameLinks, u
<1>7. \A r \in Regions : Unmap(m.pd[p], C).mpu[r] = IF m.pd[p].mpu[r] \in C THEN NullSlot
                                                  ELSE m.pd[p].mpu[r]
  BY <1>4, UnmapLinks
<1>8. Pushed(m, n, p, C, a)
  BY <1>5, <1>6, <1>7 DEF Pushed, PushedAt
<1> QED
  BY <1>1, <1>3, <1>8 DEF n, emptied

\* A join leaves everyone the memory they had.
LEMMA JoinMemory ==
  ASSUME NEW m \in Good, NEW n \in Good, NEW L \in SUBSET PDAddr, Consistent(m, L),
         NEW p \in L, NEW e1 \in BlocksIn(m, p), NEW e2 \in BlocksIn(m, p),
         m.slot[e1].accessible, m.slot[e2].accessible,
         m.slot[e1].next = e2, IsJoin(m, n, L, p, e1, e2)
  PROVE  /\ SameMemory(m, n, L) /\ e1 \in BlocksIn(n, p)
         /\ Extent(n, e1) = Extent(m, e1) \cup Extent(m, e2)
<1>1. /\ n.slot[e1].start = m.slot[e1].start /\ n.slot[e1].end = m.slot[e2].end
      /\ n.slot[e1].present /\ n.slot[e1].accessible /\ ~ n.slot[e2].present
      /\ Kept(m, n, L, {e1, e2})
  BY DEF IsJoin, FreeEntry
<1>2. /\ Structures(m, L) /\ e1 \in SlotsOf(m, p) /\ e2 \in SlotsOf(m, p)
      /\ m.slot[e1].start \in Nat /\ m.slot[e1].end \in Nat
      /\ m.slot[e2].start \in Nat /\ m.slot[e2].end \in Nat
      /\ m.slot[e1].start < m.slot[e1].end /\ m.slot[e2].start < m.slot[e2].end
      /\ m.slot[e2].start = m.slot[e1].end /\ e1 # e2
  <2>1. /\ Ranges(m, L) /\ Cuts(m, L) /\ Structures(m, L)
    BY DEF Consistent
  <2>2. e2 # NullSlot
    BY BlockType
  <2>3. m.slot[e2].start = m.slot[e1].end
    BY <2>1, <2>2 DEF Cuts
  <2> QED
    BY <2>1, <2>3, BlockType, BlockRange
<1>3. Extent(n, e1) = Extent(m, e1) \cup Extent(m, e2)
  BY <1>1, <1>2 DEF Extent
<1>4. \A x \in L : n.pd[x].parent = m.pd[x].parent /\ KernIn(n, x) = KernIn(m, x)
  BY <1>1 DEF Kept, StructsOf, KernIn
<1>5. ASSUME NEW x \in L
      PROVE  /\ SlotsOf(n, x) = SlotsOf(m, x)
             /\ \A f : f # e1 /\ f # e2 => (f \in BlocksIn(n, x) <=> f \in BlocksIn(m, x))
             /\ \A f \in BlocksIn(m, x) : f # e1 /\ f # e2 => n.slot[f] = m.slot[f]
  <2> DEFINE T == {e1, e2}
  <2>1. Kept(m, n, L, T) /\ \A f : f \in T <=> f = e1 \/ f = e2
    BY <1>1
  <2> HIDE DEF T
  <2>2. /\ SlotsOf(n, x) = SlotsOf(m, x)
        /\ \A f : f \notin T => (f \in BlocksIn(n, x) <=> f \in BlocksIn(m, x))
        /\ \A f \in SlotsOf(m, x) : f \notin T => n.slot[f] = m.slot[f]
    BY SMTT(30), <2>1, KeptSlots
  <2> QED
    BY <2>1, <2>2 DEF BlocksIn
<1>6. ASSUME NEW x \in L \ {p}
      PROVE  PoolIn(n, x) = PoolIn(m, x) /\ OpenIn(n, x) = OpenIn(m, x)
  <2>1. e1 \notin SlotsOf(m, x) /\ e2 \notin SlotsOf(m, x)
    BY <1>2, OnePartition
  <2>2. e1 \notin BlocksIn(m, x) /\ e2 \notin BlocksIn(m, x) /\ e1 \notin BlocksIn(n, x)
        /\ e2 \notin BlocksIn(n, x)
    BY <1>5, <2>1 DEF BlocksIn
  <2>3. BlocksIn(n, x) = BlocksIn(m, x) /\ \A f \in BlocksIn(m, x) : n.slot[f] = m.slot[f]
    BY <1>5, <2>2
  <2> QED
    BY <2>3, RangeMemory DEF SameRange
<1>7. e1 \in BlocksIn(n, p) /\ e2 \notin BlocksIn(n, p)
  BY <1>1, <1>2, <1>5 DEF BlocksIn
<1>8. \A u \in Unit : Holds(n, p, e1, u) <=> Holds(m, p, e1, u) \/ Holds(m, p, e2, u)
  BY <1>1, <1>2, <1>7 DEF Holds, Unit
<1>9. \A f \in BlocksIn(m, p) : f # e1 /\ f # e2 =>
        /\ f \in BlocksIn(n, p) /\ n.slot[f] = m.slot[f]
        /\ \A u : Holds(n, p, f, u) <=> Holds(m, p, f, u)
  BY <1>5 DEF Holds
<1>10. \A f \in BlocksIn(n, p) : f = e1 \/ (f # e1 /\ f # e2 /\ f \in BlocksIn(m, p))
  BY <1>5, <1>7
<1>11. PoolIn(n, p) = PoolIn(m, p)
  <2>1. \A u \in Unit : (\E f \in BlocksIn(m, p) : Holds(m, p, f, u))
                        <=> \E f \in BlocksIn(n, p) : Holds(n, p, f, u)
    BY <1>7, <1>8, <1>9, <1>10
  <2> QED
    BY <2>1 DEF PoolIn
<1>12. OpenIn(n, p) = OpenIn(m, p)
  <2>1. \A u \in Unit :
          (\E f \in BlocksIn(m, p) : m.slot[f].accessible /\ Holds(m, p, f, u))
          <=> \E f \in BlocksIn(n, p) : n.slot[f].accessible /\ Holds(n, p, f, u)
    BY <1>1, <1>7, <1>8, <1>9, <1>10
  <2> QED
    BY <2>1 DEF OpenIn
<1> QED
  BY <1>3, <1>4, <1>6, <1>7, <1>11, <1>12 DEF SameMemory, SameOwners

\* mergeMemoryBlocks: the second block is freed, and the ancestors get the
\* first one back when it is whole again.
LEMMA mergeMemoryBlocksSound ==
  ASSUME IInv, NEW L \in SUBSET PDAddr, Consistent(Mem, L), Guarded(Mem, L),
         NEW c \in L, NEW e1 \in SlotsOf(Mem, c), NEW e2 \in SlotsOf(Mem, c), NEW r,
         mergeMemoryBlocks(c, e1, e2, r)
  PROVE  SoundFor(Mem', c, L) /\ Merged(Mem, Mem', L, c, e1, e2)
<1> DEFINE b  == slot[e1]
           m1 == [Mem EXCEPT !.slot[e1].next = slot[e2].next, !.slot[e1].end = slot[e2].end]
           m2 == freeSlots(m1, c, {e2})
           bit == TRUE
           m3 == writeAccessibleToAncestorsIfNotCutRec(m2, c, e1, bit)
           m4 == [m3 EXCEPT !.pd[c] = Unmap(@, {e1, e2})]
<1>b. bit = TRUE
  OBVIOUS
<1> HIDE DEF bit
<1>0. /\ Mem \in Good /\ Mem.slot = slot /\ Mem.pd = pd /\ c \in PDAddr
      /\ e1 \in Slots /\ e2 \in Slots /\ b \in Entry /\ slot[e2] \in Entry
  BY CallerType
<1>1. /\ e1 \in BlocksIn(Mem, c) /\ e2 \in BlocksIn(Mem, c)
      /\ b.accessible /\ slot[e2].accessible
      /\ b.PDchild = Null /\ slot[e2].PDchild = Null /\ b.next = e2
      /\ Commit(enableBlockInMPU(m4, c, e1, r))
  BY <1>0, <1>b DEF mergeMemoryBlocks, IsFound, BothUnshared, NotShared, BlocksIn
<1>2. /\ Tree(Mem, L) /\ Ranges(Mem, L) /\ Cuts(Mem, L) /\ Shares(Mem, L)
  BY DEF Consistent
<1>3. e1 # e2 /\ slot[e2].next # e2 /\ b.inChild = NullSlot /\ ~ b.PDflag /\ b.present
  <2>1. /\ b.start \in Nat /\ b.end \in Nat /\ b.start < b.end
        /\ slot[e2].start \in Nat /\ slot[e2].end \in Nat /\ slot[e2].start < slot[e2].end
        /\ e2 # NullSlot /\ b.present
    BY <1>0, <1>1, <1>2, BlockType, BlockRange
  <2>2. slot[e2].start = b.end
    BY <1>0, <1>1, <1>2, <2>1 DEF Cuts
  <2>3. slot[e2].next # NullSlot => slot[slot[e2].next].start = slot[e2].end
    BY <1>0, <1>1, <1>2 DEF Cuts
  <2>4. b.inChild = NullSlot
    BY <1>0, <1>1, <1>2, NotSharedNoCopy
  <2>5. ~ b.PDflag
    BY <1>0, <1>1, AccessibleApart
  <2> QED
    BY <2>1, <2>2, <2>3, <2>4, <2>5
<1>4. /\ m1 \in Good /\ m1.pd = pd
      /\ m1.slot[e1] = [b EXCEPT !.next = slot[e2].next, !.end = slot[e2].end]
      /\ \A f \in Slots : f # e1 => m1.slot[f] = slot[f]
  <2> DEFINE x == slot[e2].next
             y == slot[e2].end
             d == [b EXCEPT !.next = x, !.end = y]
             g == slot
             h == [g EXCEPT ![e1] = [b EXCEPT !.next = x]]
  <2>1. g \in [Slots -> Entry] /\ g[e1] = b /\ x \in SlotRef /\ y \in 0 .. Top + 1
    BY <1>0 DEF Good, Entry
  <2>2. m1 = [Mem EXCEPT !.slot = [[g EXCEPT ![e1].next = x] EXCEPT ![e1].end = y]]
    BY <1>0 DEF Good
  <2> HIDE DEF b, x, y, g
  <2>3. d \in Entry
    BY <1>0, <2>1 DEF Entry
  <2>4. [g EXCEPT ![e1].next = x] = h
    BY <1>0, <2>1
  <2>5. h[e1] = [b EXCEPT !.next = x] /\ [h EXCEPT ![e1] = d] = [g EXCEPT ![e1] = d]
        /\ e1 \in DOMAIN h
    BY <1>0, <2>1
  <2> HIDE DEF h
  <2>6. [h EXCEPT ![e1].end = y] = [h EXCEPT ![e1] = d]
    BY <2>5
  <2>7. m1 = [Mem EXCEPT !.slot = [g EXCEPT ![e1] = d]]
    BY <2>2, <2>4, <2>5, <2>6
  <2> HIDE DEF m1, d
  <2>8. m1 \in Good /\ m1.pd = pd /\ m1.slot = [g EXCEPT ![e1] = d]
    BY <1>0, <2>1, <2>3, <2>7 DEF Good
  <2> QED
    BY <1>0, <2>1, <2>8 DEF d, g, x, y
<1> HIDE DEF m1
<1>5. /\ m2 \in Good /\ Pushed(m1, m2, c, {e2}, e2)
      /\ m2.slot[e2] = FreeEntry(pd[c].firstFree)
      /\ \A f \in Slots : f # e2 => m2.slot[f] = m1.slot[f]
  <2> DEFINE C         == {e2}
             before(e) == {f \in C : m1.slot[f].next = e}
             last      == {e \in C : m1.slot[e].next \notin C}
  <2>1. C \in SUBSET Slots
    BY <1>0
  <2>2. m1.slot[e2].next # e2
    BY <1>0, <1>3, <1>4
  <2>3. before(e2) = {} /\ last = {e2}
    BY <2>2
  <2>a. \A f : f \in C <=> f = e2
    OBVIOUS
  <2> HIDE DEF C
  <2>4. /\ m2 \in Good
        /\ \A f \in Slots : f \notin C => m2.slot[f] = m1.slot[f]
        /\ \A e \in C : m2.slot[e] =
             FreeEntry(IF before(e) = {} THEN m1.pd[c].firstFree
                       ELSE CHOOSE f \in before(e) : TRUE)
        /\ Pushed(m1, m2, c, C, IF last = {} THEN m1.pd[c].firstFree
                                ELSE CHOOSE e \in last : TRUE)
    BY <1>0, <1>4, <2>1, FreedEffect DEF C
  <2> HIDE DEF m2, before, last
  <2>5. m2.slot[e2] = FreeEntry(pd[c].firstFree)
    BY <1>4, <2>3, <2>4, <2>a
  <2>6. (CHOOSE e \in last : TRUE) = e2 /\ last # {}
    BY <2>3
  <2>7. Pushed(m1, m2, c, C, e2)
    BY <2>4, <2>6
  <2> QED
    BY <2>4, <2>5, <2>7, <2>a DEF C
<1> HIDE DEF m2
<1>6. IsJoin(Mem, m2, L, c, e1, e2)
  <2>1. Pushed(Mem, m2, c, {e2}, e2)
    BY <1>0, <1>4, <1>5 DEF Pushed, PushedAt
  <2>2. Kept(Mem, m2, L, {e1, e2})
    BY <1>0, <1>4, <1>5, <2>1 DEF Kept, Pushed, PushedAt
  <2>3. m2.slot[e1] = [b EXCEPT !.next = slot[e2].next, !.end = slot[e2].end]
    BY <1>0, <1>3, <1>4, <1>5
  <2> HIDE DEF b
  <2>4. /\ m2.slot[e1].start = b.start /\ m2.slot[e1].end = slot[e2].end
        /\ m2.slot[e1].origin = b.origin /\ m2.slot[e1].rights = b.rights
        /\ m2.slot[e1].present /\ m2.slot[e1].accessible /\ ~ m2.slot[e1].PDflag
        /\ m2.slot[e1].PDchild = Null /\ m2.slot[e1].inChild = NullSlot
        /\ m2.slot[e1].next = slot[e2].next
    BY <1>0, <1>1, <1>3, <2>3 DEF Entry
  <2> QED
    BY <1>0, <1>5, <2>1, <2>2, <2>4 DEF IsJoin, b
<1>x. /\ SameMemory(Mem, m2, L)
      /\ Extent(m2, e1) = Extent(Mem, e1) \cup Extent(Mem, e2)
  BY <1>0, <1>1, <1>5, <1>6, JoinMemory
<1>7. Consistent(m2, L) /\ Guarded(m2, L) /\ e1 \in BlocksIn(m2, c) /\ m2.slot[e1].accessible
  <2>1. Consistent(m2, L) /\ Guarded(m2, L) /\ e1 \in BlocksIn(m2, c)
    BY <1>0, <1>1, <1>5, <1>6, JoinKeeps
  <2> QED
    BY <1>6, <2>1 DEF IsJoin
<1>y. ASSUME OpenAbove(Mem, L)
      PROVE  OpenBut(m2, L, {e1}) /\ (IsCut(m2, e1) => OpenAbove(m2, L))
  <2> DEFINE T == {e1, e2}
             V == IF IsCut(m2, e1) THEN {} ELSE {e1}
  <2>1. Kept(Mem, m2, L, T) /\ m2.slot[e1].inChild = NullSlot /\ ~ m2.slot[e2].present
    BY <1>6 DEF IsJoin, FreeEntry
  <2>2. \A q \in L : \A f \in BlocksIn(m2, q) : f \in T =>
          m2.slot[f].inChild = NullSlot /\ (f \in V \/ IsCut(m2, f))
    BY <2>1 DEF BlocksIn
  <2> HIDE DEF T, V
  <2>3. OpenBut(m2, L, V)
    BY <1>0, <1>5, <1>7, <1>y, <2>1, <2>2, KeptOpenBut DEF Loosened
  <2> QED
    BY <2>3 DEF OpenBut, OpenAbove, V
<1>8. /\ m3 \in Good /\ Consistent(m3, L) /\ Guarded(m3, L)
      /\ e1 \in BlocksIn(m3, c) /\ m3.slot[e1].accessible
      /\ Opened(m2, m3, L, Extent(m2, e1)) /\ StaysOpen(Mem, m3, L, L)
  <2>1. CASE IsCut(m2, e1)
    <3>1. m3 = m2
      BY <2>1 DEF writeAccessibleToAncestorsIfNotCutRec
    <3> HIDE DEF m3
    <3> QED
      BY <1>5, <1>7, <1>y, <2>1, <3>1 DEF Opened, SameOwners, StaysOpen
  <2>2. CASE ~ IsCut(m2, e1)
    <3> DEFINE s == m2.slot[e1].start
               t == m2.slot[e1].end
               n == writeAccessibleRec(m2, c, s, t, TRUE)
    <3>1. m3 = n
      BY <1>b, <2>2 DEF writeAccessibleToAncestorsIfNotCutRec
    <3> HIDE DEF m3
    <3>2. /\ n \in Good /\ SameShape(m2, n, L) /\ Consistent(n, L) /\ Guarded(n, L)
          /\ Shows(m2, n, L, Hits(m2, c, s, t))
      BY <1>5, <1>7, ShowAbove
    <3>a. m2.slot[e1].start = s /\ m2.slot[e1].end = t
      OBVIOUS
    <3> HIDE DEF n, s, t
    <3>3. BlocksIn(n, c) = BlocksIn(m2, c)
      BY <1>5, <3>2, ShapeSlots
    <3>4. Opened(m2, n, L, Extent(m2, e1))
      BY <1>5, <1>7, <3>2, <3>a, ShownMemory
    <3>5. OpenBut(m2, L, {e1}) => OpenAbove(n, L)
      BY <1>5, <1>7, <3>2, <3>a, ShownStaysOpen
    <3>6. StaysOpen(Mem, n, L, L)
      BY <1>y, <3>5 DEF StaysOpen
    <3> QED
      BY <1>0, <1>7, <3>1, <3>2, <3>3, <3>4, <3>6 DEF Shows
  <2> QED
    BY <2>1, <2>2
<1> HIDE DEF m3
<1>9. /\ m4 \in Good /\ Consistent(m4, L) /\ Guarded(m4, L) /\ m4.slot = m3.slot
      /\ SameMemory(m3, m4, L) /\ StaysOpen(m3, m4, L, L)
      /\ \A k \in Regions : m4.pd[c].mpu[k] # e1
  <2> DEFINE E == {e1, e2}
             n == [m3 EXCEPT !.pd[c] = Unmap(@, E)]
  <2>1. e1 \in E /\ e1 # NullSlot /\ m4 = n
    BY <1>0, NullSlotNoSlot
  <2> HIDE DEF E, m4
  <2>2. /\ n \in Good /\ Consistent(n, L) /\ Guarded(n, L) /\ n.slot = m3.slot
        /\ SameMemory(m3, n, L) /\ StaysOpen(m3, n, L, L)
        /\ \A k \in Regions : n.pd[c].mpu[k] = IF m3.pd[c].mpu[k] \in E THEN NullSlot
                                               ELSE m3.pd[c].mpu[k]
    BY <1>8, UnmapKeeps
  <2> QED
    BY <2>1, <2>2
<1>10. e1 \in BlocksIn(m4, c) /\ m4.slot[e1].accessible /\ e1 \in SlotRef
  <2>1. m4.pd[c].structs = m3.pd[c].structs
    BY <1>0, <1>8, UnmapLinks DEF Good, SameLinks
  <2> HIDE DEF m4
  <2> QED
    BY <1>0, <1>8, <1>9, <2>1 DEF BlocksIn, SlotsOf, SlotRef
<1> HIDE DEF m4
<1> DEFINE n == enableBlockInMPU(m4, c, e1, r)
<1>11. /\ n \in Good /\ Consistent(n, L) /\ Guarded(n, L) /\ SameMemory(m4, n, L)
       /\ StaysOpen(m4, n, L, L)
  BY <1>9, <1>10, EnableKeeps
<1>12. Commit(n)
  BY <1>1
<1> HIDE DEF n
<1>13. Merged(Mem, n, L, c, e1, e2)
  <2>1. SameMemory(m3, n, L)
    BY <1>9, <1>11, SameMemoryTrans
  <2>2. Opened(Mem, n, L, Extent(Mem, e1) \cup Extent(Mem, e2))
    BY <1>x, <1>8, <2>1 DEF Opened, SameMemory, SameOwners
  <2>3. slot[e2].inChild = NullSlot
    BY <1>0, <1>1, <1>2, NotSharedNoCopy
  <2>4. StaysOpen(Mem, n, L, L)
    BY <1>8, <1>9, <1>11 DEF StaysOpen
  <2> QED
    BY <1>0, <1>1, <1>3, <1>11, <2>2, <2>3, <2>4 DEF Merged, Usable
<1>14. SoundFor(Mem', c, L) /\ Mem' = n
  BY <1>11, <1>12, CommitSound
<1> QED
  BY <1>13, <1>14

-----------------------------------------------------------------------------
(* remove.                                                                 *)

\* The slots of T can go when block e of p is no longer shared: the copy of e
\* is among them, they are accessible, and no other block that stays is
\* linked to them or has them as its parts.
CanDrop(m, L, p, e, T) ==
  /\ T \in SUBSET Slots /\ e \notin T /\ m.slot[e].inChild \in T
  /\ \A x \in L : \A f \in BlocksIn(m, x) :
       /\ f \in T => m.slot[f].accessible
       /\ m.slot[f].inChild \in T => f \in T \/ f = e
       /\ m.slot[f].next \in T => f \in T
  /\ \A x \in L \ {RootPD} : \A k \in BlocksIn(m, x) :
       \A w \in BlocksIn(m, m.pd[x].parent) :
         IsPartOf(m, x, k, w) /\ (w \in T \/ w = e) => k \in T

\* They are freed and e is no longer shared.
IsDrop(m, n, L, e, T) ==
  /\ Kept(m, n, L, T \cup {e}) /\ \A f \in T : ~ n.slot[f].present
  /\ \A x \in L : \A r \in Regions : n.pd[x].mpu[r] # NullSlot =>
       n.pd[x].mpu[r] = m.pd[x].mpu[r] /\ n.pd[x].mpu[r] \notin T
  /\ LET b == m.slot[e]
         d == n.slot[e]
     IN  /\ d.start = b.start /\ d.end = b.end /\ d.origin = b.origin /\ d.rights = b.rights
         /\ d.present /\ (b.accessible => d.accessible) /\ d.next = b.next
         /\ d.PDchild = Null /\ d.inChild = NullSlot /\ ~ d.PDflag

\* The partitions that held part of block e of p, which was shared, lose what of
\* it was open to them; others may access it again.
Dropped(m, n, L, p, e) ==
  /\ e \in BlocksIn(m, p) /\ m.slot[e].inChild # NullSlot
  /\ e \in BlocksIn(n, p) /\ n.slot[e].inChild = NullSlot
  /\ SameRange(n.slot[e], m.slot[e])
  /\ \A x \in L :
       /\ n.pd[x].parent = m.pd[x].parent /\ KernIn(n, x) = KernIn(m, x)
       /\ PoolIn(n, x) \subseteq PoolIn(m, x)
       /\ PoolIn(m, x) \ PoolIn(n, x) \subseteq Extent(m, e) \cap OpenIn(m, x)
       /\ OpenIn(m, x) \ OpenIn(n, x) \subseteq PoolIn(m, x) \ PoolIn(n, x)
       /\ OpenIn(n, x) \ OpenIn(m, x) \subseteq Extent(m, e)

\* That is what the drop of parts of e does.
LEMMA DropMemory ==
  ASSUME NEW m \in Good, NEW n \in Good, NEW L \in SUBSET PDAddr, Consistent(m, L),
         NEW p \in L, NEW e \in BlocksIn(m, p), m.slot[e].inChild # NullSlot,
         NEW T, CanDrop(m, L, p, e, T), IsDrop(m, n, L, e, T),
         \A x \in L : \A f \in BlocksIn(m, x) : f \in T => Within(m.slot[f], m.slot[e])
  PROVE  Dropped(m, n, L, p, e)
<1> DEFINE U == T \cup {e}
<1>0. Structures(m, L) /\ Ranges(m, L)
  BY DEF Consistent
<1>1. /\ e \notin T /\ \A x \in L : \A f \in BlocksIn(m, x) : f \in T => m.slot[f].accessible
  BY DEF CanDrop
<1>2. /\ Kept(m, n, L, U) /\ \A f \in T : ~ n.slot[f].present
      /\ n.slot[e].start = m.slot[e].start /\ n.slot[e].end = m.slot[e].end
      /\ n.slot[e].present /\ (m.slot[e].accessible => n.slot[e].accessible)
      /\ n.slot[e].inChild = NullSlot
  BY DEF IsDrop
<1>3. \A f : f \in U <=> f \in T \/ f = e
  OBVIOUS
<1> HIDE DEF U
<1>4. \A x \in L : n.pd[x].parent = m.pd[x].parent /\ KernIn(n, x) = KernIn(m, x)
  BY <1>2 DEF Kept, StructsOf, KernIn
<1>5. ASSUME NEW x \in L
      PROVE  /\ \A f \in BlocksIn(m, x) : f \notin T =>
                  /\ f \in BlocksIn(n, x) /\ SameRange(n.slot[f], m.slot[f])
                  /\ m.slot[f].accessible => n.slot[f].accessible
                  /\ f # e => n.slot[f] = m.slot[f]
             /\ \A f \in BlocksIn(n, x) : f \notin T /\ f \in BlocksIn(m, x)
  <2>1. /\ StructsOf(n, x) = StructsOf(m, x) /\ SlotsOf(n, x) = SlotsOf(m, x)
        /\ SlotsOf(m, x) \subseteq Slots
        /\ \A f : f \notin U => /\ f \in BlocksIn(n, x) <=> f \in BlocksIn(m, x)
                                /\ f \in FreeIn(n, x) <=> f \in FreeIn(m, x)
        /\ \A f \in SlotsOf(m, x) : f \notin U => n.slot[f] = m.slot[f]
    <3>1. Kept(m, n, L, U) /\ x \in L
      BY <1>2
    <3> QED
      BY ONLY m \in Good, n \in Good, L \in SUBSET PDAddr, <3>1, KeptSlots
  <2>2. e \in BlocksIn(n, x) => e \in BlocksIn(m, x)
    BY <2>1, BlockType DEF BlocksIn
  <2>3. ASSUME NEW f \in BlocksIn(m, x), f \notin T
        PROVE  /\ f \in BlocksIn(n, x) /\ SameRange(n.slot[f], m.slot[f])
               /\ m.slot[f].accessible => n.slot[f].accessible
               /\ f # e => n.slot[f] = m.slot[f]
    <3>1. CASE f = e
      BY <1>2, <2>1, <3>1 DEF BlocksIn, SameRange
    <3>2. CASE f # e
      <4>1. f \notin U /\ f \in SlotsOf(m, x)
        BY <1>3, <2>3, <3>2 DEF BlocksIn
      <4>2. f \in BlocksIn(n, x) /\ n.slot[f] = m.slot[f]
        BY <2>1, <4>1
      <4> QED
        BY <4>2 DEF SameRange
    <3> QED
      BY <3>1, <3>2
  <2>4. ASSUME NEW f \in BlocksIn(n, x) PROVE f \notin T /\ f \in BlocksIn(m, x)
    BY <1>2, <1>3, <2>1, <2>2 DEF BlocksIn
  <2> QED
    BY <2>3, <2>4
<1>6. \A x \in L : \A f \in BlocksIn(m, x) : \A u : f \notin T =>
        (Holds(n, x, f, u) <=> Holds(m, x, f, u))
  BY <1>5 DEF Holds, SameRange
<1>7. ASSUME NEW x \in L, NEW f \in BlocksIn(m, x), f \in T, NEW u \in Unit, Holds(m, x, f, u)
      PROVE  u \in Extent(m, e) /\ u \in OpenIn(m, x) /\ u \notin PoolIn(n, x)
  <2>1. Within(m.slot[f], m.slot[e]) /\ m.slot[f].accessible
    BY <1>1, <1>7
  <2>2. /\ m.slot[e].start \in Nat /\ m.slot[e].end \in Nat
        /\ m.slot[f].start \in Nat /\ m.slot[f].end \in Nat
    BY BlockType
  <2>3. u \in Extent(m, e)
    BY <1>7, <2>1, <2>2 DEF Extent, Holds, Within, Unit
  <2>4. u \in OpenIn(m, x)
    BY <1>7, <2>1 DEF OpenIn
  <2>5. ASSUME NEW g \in BlocksIn(n, x), Holds(n, x, g, u) PROVE FALSE
    <3>1. g \in BlocksIn(m, x) /\ g \notin T /\ Holds(m, x, g, u)
      BY <1>5, <1>6, <2>5
    <3>2. m.slot[g].start \in Nat /\ m.slot[g].end \in Nat
      BY <3>1, BlockType
    <3>3. Overlap(m.slot[g], m.slot[f])
      BY <1>7, <2>2, <3>1, <3>2 DEF Holds, Overlap, Unit
    <3> QED
      BY <1>0, <1>7, <3>1, <3>3 DEF Ranges
  <2> QED
    BY <2>3, <2>4, <2>5 DEF PoolIn
<1>8. ASSUME NEW x \in L
      PROVE  /\ PoolIn(n, x) \subseteq PoolIn(m, x)
             /\ PoolIn(m, x) \ PoolIn(n, x) \subseteq Extent(m, e) \cap OpenIn(m, x)
             /\ OpenIn(m, x) \ OpenIn(n, x) \subseteq PoolIn(m, x) \ PoolIn(n, x)
             /\ OpenIn(n, x) \ OpenIn(m, x) \subseteq Extent(m, e)
  <2>1. PoolIn(n, x) \subseteq PoolIn(m, x)
    BY <1>5, <1>6 DEF PoolIn
  <2>2. PoolIn(m, x) \ PoolIn(n, x) \subseteq Extent(m, e) \cap OpenIn(m, x)
    BY <1>5, <1>6, <1>7 DEF PoolIn
  <2>3. OpenIn(m, x) \ OpenIn(n, x) \subseteq PoolIn(m, x) \ PoolIn(n, x)
    <3> SUFFICES ASSUME NEW u \in OpenIn(m, x), u \notin OpenIn(n, x)
                 PROVE  u \in PoolIn(m, x) /\ u \notin PoolIn(n, x)
      OBVIOUS
    <3>1. PICK f \in BlocksIn(m, x) : m.slot[f].accessible /\ Holds(m, x, f, u)
      BY DEF OpenIn
    <3>2. u \in Unit
      BY DEF OpenIn
    <3>3. f \in T
      BY <1>5, <1>6, <3>1, <3>2 DEF OpenIn
    <3> QED
      BY <1>7, <3>1, <3>2, <3>3 DEF PoolIn
  <2>4. OpenIn(n, x) \ OpenIn(m, x) \subseteq Extent(m, e)
    <3> SUFFICES ASSUME NEW u \in OpenIn(n, x), u \notin OpenIn(m, x)
                 PROVE  u \in Extent(m, e)
      OBVIOUS
    <3>1. PICK f \in BlocksIn(n, x) : n.slot[f].accessible /\ Holds(n, x, f, u)
      BY DEF OpenIn
    <3>2. u \in Unit /\ f \in BlocksIn(m, x) /\ f \notin T /\ Holds(m, x, f, u)
      BY <1>5, <1>6, <3>1 DEF OpenIn
    <3>3. f = e
      BY <1>5, <3>1, <3>2 DEF OpenIn
    <3>4. Holds(m, p, e, u)
      BY <3>2, <3>3 DEF Holds
    <3> QED
      BY <1>0, <3>2, <3>4, ExtentIn
  <2> QED
    BY <2>1, <2>2, <2>3, <2>4
<1>9. e \in BlocksIn(n, p) /\ SameRange(n.slot[e], m.slot[e])
  BY <1>1, <1>5
<1> QED
  BY <1>2, <1>4, <1>8, <1>9 DEF Dropped

\* The memory it leaves is sound, and the block is open where it was shared.
Removed(m, n, L, p, e) ==
  /\ Dropped(m, n, L, p, e) /\ Consistent(n, L) /\ Guarded(n, L) /\ StaysOpen(m, n, L, L)
  /\ OpenAbove(m, L) => Extent(m, e) \subseteq OpenIn(n, p)

\* So it does when the ancestors see e again after it.
LEMMA DroppedShown ==
  ASSUME NEW m, NEW n \in Good, NEW o \in Good, NEW L \in SUBSET PDAddr,
         NEW p \in L, NEW e, Dropped(m, n, L, p, e),
         SameShape(n, o, L), Opened(n, o, L, Extent(n, e))
  PROVE  Dropped(m, o, L, p, e)
<1>1. Extent(n, e) = Extent(m, e)
  BY DEF Dropped, Extent, SameRange
<1>2. /\ e \in BlocksIn(o, p) /\ o.slot[e].inChild = n.slot[e].inChild
      /\ SameRange(o.slot[e], n.slot[e])
  <2>1. e \in BlocksIn(n, p)
    BY DEF Dropped
  <2> QED
    BY <2>1, ShapeSlots DEF SameEntry, SameRange
<1>3. \A x \in L : OpenIn(n, x) \subseteq PoolIn(n, x)
  BY DEF OpenIn, PoolIn
<1> QED
  BY <1>1, <1>2, <1>3 DEF Dropped, Opened, SameOwners, SameRange

\* It keeps the data consistent and guarded.
LEMMA DropKeeps ==
  ASSUME NEW m \in Good, NEW n \in Good, NEW L \in SUBSET PDAddr,
         Consistent(m, L), Guarded(m, L),
         NEW p \in L, NEW e \in BlocksIn(m, p), m.slot[e].inChild # NullSlot,
         NEW T, CanDrop(m, L, p, e, T), IsDrop(m, n, L, e, T), FreeLists(n, L)
  PROVE  Consistent(n, L) /\ Guarded(n, L)
<1> DEFINE U == T \cup {e}
<1>0. /\ Tree(m, L) /\ Homes(m, L) /\ Structures(m, L) /\ Ranges(m, L) /\ Cuts(m, L)
      /\ Shares(m, L) /\ Containment(m, L)
      /\ KernelBlocksHidden(m, L) /\ CopiesAccessible(m, L) /\ MPUMapsAccessible(m, L)
  BY DEF Consistent, Guarded
<1>1. /\ T \in SUBSET Slots /\ e \notin T /\ m.slot[e].inChild \in T
      /\ \A x \in L : \A f \in BlocksIn(m, x) :
           /\ f \in T => m.slot[f].accessible
           /\ m.slot[f].inChild \in T => f \in T \/ f = e
           /\ m.slot[f].next \in T => f \in T
      /\ \A x \in L \ {RootPD} : \A k \in BlocksIn(m, x) :
           \A w \in BlocksIn(m, m.pd[x].parent) :
             IsPartOf(m, x, k, w) /\ (w \in T \/ w = e) => k \in T
  BY DEF CanDrop
<1>2. /\ Kept(m, n, L, U) /\ \A f \in T : ~ n.slot[f].present
      /\ \A x \in L : \A r \in Regions : n.pd[x].mpu[r] # NullSlot =>
           n.pd[x].mpu[r] = m.pd[x].mpu[r] /\ n.pd[x].mpu[r] \notin T
      /\ n.slot[e].start = m.slot[e].start /\ n.slot[e].end = m.slot[e].end
      /\ n.slot[e].origin = m.slot[e].origin /\ n.slot[e].rights = m.slot[e].rights
      /\ n.slot[e].present /\ (m.slot[e].accessible => n.slot[e].accessible)
      /\ n.slot[e].next = m.slot[e].next
      /\ n.slot[e].PDchild = Null /\ n.slot[e].inChild = NullSlot /\ ~ n.slot[e].PDflag
  BY DEF IsDrop
<1>3. /\ e \in U /\ T \subseteq U /\ \A f : f \in U => f \in T \/ f = e
  OBVIOUS
<1> HIDE DEF U
<1>4. ASSUME NEW x \in L
      PROVE  /\ StructsOf(n, x) = StructsOf(m, x) /\ n.pd[x].parent = m.pd[x].parent
             /\ \A f \in BlocksIn(m, x) : f = e => x = p
             /\ \A f \in BlocksIn(m, x) : f \notin T /\ f # e => n.slot[f] = m.slot[f]
             /\ \A f \in BlocksIn(m, x) : f \notin T => f \in BlocksIn(n, x)
             /\ \A f \in BlocksIn(n, x) : f \in BlocksIn(m, x) /\ f \notin T
  <2>1. /\ StructsOf(n, x) = StructsOf(m, x) /\ SlotsOf(n, x) = SlotsOf(m, x)
        /\ SlotsOf(m, x) \subseteq Slots
        /\ \A f : f \notin U => /\ f \in BlocksIn(n, x) <=> f \in BlocksIn(m, x)
                                /\ f \in FreeIn(n, x) <=> f \in FreeIn(m, x)
        /\ \A f \in SlotsOf(m, x) : f \notin U => n.slot[f] = m.slot[f]
    <3>1. Kept(m, n, L, U)
      BY <1>2
    <3>2. x \in L
      OBVIOUS
    <3> QED
      BY ONLY m \in Good, n \in Good, L \in SUBSET PDAddr, <3>1, <3>2, KeptSlots
  <2>2. e \in SlotsOf(m, p) /\ m.slot[e].present
    BY BlockType
  <2>3. e \in SlotsOf(m, x) => x = p
    BY <1>0, <2>2, OnePartition
  <2>4. n.pd[x].parent = m.pd[x].parent
    BY <1>2 DEF Kept
  <2> QED
    BY <1>1, <1>2, <1>3, <2>1, <2>2, <2>3, <2>4 DEF BlocksIn
<1>5. ASSUME NEW x \in L, NEW f \in BlocksIn(n, x)
      PROVE  /\ n.slot[f].start = m.slot[f].start /\ n.slot[f].end = m.slot[f].end
             /\ n.slot[f].origin = m.slot[f].origin /\ n.slot[f].rights = m.slot[f].rights
             /\ n.slot[f].next = m.slot[f].next
             /\ m.slot[f].accessible => n.slot[f].accessible
             /\ n.slot[f].PDchild # Null \/ n.slot[f].inChild # NullSlot =>
                  f # e /\ n.slot[f] = m.slot[f]
  BY <1>2, <1>4
<1>6. \A q \in L : m.slot[e].start \notin StructsOf(m, q)
  <2> DEFINE h == m.slot[e].inChild
  <2>1. m.slot[e].PDchild \in L /\ IsShared(m, e)
    BY <1>0 DEF Shares, IsShared
  <2>2. h \in BlocksIn(m, m.slot[e].PDchild) /\ m.slot[h].start = m.slot[e].start
    BY <2>1 DEF IsShared
  <2>3. m.slot[h].accessible
    BY <1>1, <2>1, <2>2
  <2> HIDE DEF h
  <2>4. \A q \in L : m.slot[h].start \notin StructsOf(m, q)
    BY <2>1, <2>2, <2>3, AccessibleApart
  <2> QED
    BY <2>2, <2>4
<1>7. NoKernelIn(m, L, U)
  <2> SUFFICES ASSUME NEW x \in L, NEW f \in BlocksIn(m, x), f \in U
               PROVE  /\ ~ m.slot[f].PDflag
                      /\ \A q \in L : m.slot[f].start \notin StructsOf(m, q)
    BY DEF NoKernelIn
  <2>1. CASE f \in T
    BY <1>1, <2>1, AccessibleApart
  <2>2. CASE f = e
    <3>1. ~ m.slot[e].PDflag
      BY <1>0 DEF Shares, IsShared
    <3> QED
      BY <1>6, <2>2, <3>1
  <2> QED
    BY <1>3, <2>1, <2>2
<1>8. Tree(n, L) /\ Homes(n, L) /\ Structures(n, L)
  <2>1. \A x \in L : \A f \in BlocksIn(n, x) : f \in U => ~ n.slot[f].PDflag
    BY <1>2, <1>3, <1>4
  <2> QED
    BY <1>2, <1>7, <2>1, KeptRest
<1>9. Ranges(n, L)
  <2> SUFFICES ASSUME NEW x \in L, NEW f \in BlocksIn(n, x)
               PROVE  /\ WellFormed(n.slot[f])
                      /\ \A g \in BlocksIn(n, x) : Overlap(n.slot[f], n.slot[g]) => f = g
    BY DEF Ranges
  <2>1. \A g \in BlocksIn(n, x) :
          g \in BlocksIn(m, x) /\ n.slot[g].start = m.slot[g].start /\ n.slot[g].end = m.slot[g].end
    BY <1>4, <1>5
  <2>2. \A g \in BlocksIn(m, x) : Overlap(m.slot[f], m.slot[g]) => f = g
    BY <1>0, <2>1 DEF Ranges
  <2>3. WellFormed(m.slot[f])
    BY <1>0, <2>1 DEF Ranges
  <2> QED
    BY <1>5, <2>1, <2>2, <2>3 DEF WellFormed, Overlap
<1>10. Cuts(n, L)
  <2> SUFFICES ASSUME NEW x \in L, NEW f \in BlocksIn(n, x), n.slot[f].next # NullSlot
               PROVE  /\ n.slot[f].next \in BlocksIn(n, x)
                      /\ n.slot[n.slot[f].next].start = n.slot[f].end
                      /\ n.slot[n.slot[f].next].origin = n.slot[f].origin
    BY DEF Cuts
  <2>1. f \in BlocksIn(m, x) /\ f \notin T /\ m.slot[f].next # NullSlot
    BY <1>4, <1>5
  <2>2. /\ m.slot[f].next \in BlocksIn(m, x)
        /\ m.slot[m.slot[f].next].start = m.slot[f].end
        /\ m.slot[m.slot[f].next].origin = m.slot[f].origin
    BY <1>0, <2>1 DEF Cuts
  <2>3. m.slot[f].next \in BlocksIn(n, x)
    BY <1>1, <1>4, <2>1, <2>2
  <2> QED
    BY <1>5, <2>2, <2>3
<1>11. Shares(n, L)
  <2> SUFFICES ASSUME NEW x \in L, NEW f \in BlocksIn(n, x)
               PROVE  /\ n.slot[f].PDchild # Null =>
                           /\ n.slot[f].PDchild \in L
                           /\ n.pd[n.slot[f].PDchild].parent = x
                      /\ n.slot[f].inChild # NullSlot => IsShared(n, f)
    BY DEF Shares
  <2>1. f \in BlocksIn(m, x) /\ f \notin T
    BY <1>4
  <2>2. n.slot[f].PDchild # Null =>
           n.slot[f].PDchild \in L /\ n.pd[n.slot[f].PDchild].parent = x
    BY <1>0, <1>4, <1>5, <2>1 DEF Shares
  <2>3. ASSUME n.slot[f].inChild # NullSlot PROVE IsShared(n, f)
    <3>1. f # e /\ n.slot[f] = m.slot[f]
      BY <1>5, <2>3
    <3>2. IsShared(m, f) /\ m.slot[f].PDchild \in L
      BY <1>0, <2>1, <2>3, <3>1 DEF Shares, IsShared
    <3>3. m.slot[f].inChild \in BlocksIn(m, m.slot[f].PDchild) /\ m.slot[f].inChild \notin T
      BY <1>1, <2>1, <3>1, <3>2 DEF IsShared
    <3>4. m.slot[f].inChild \in BlocksIn(n, m.slot[f].PDchild)
      BY <1>4, <3>2, <3>3
    <3> QED
      BY <1>5, <3>1, <3>2, <3>4 DEF IsShared
  <2> QED
    BY <2>2, <2>3
<1>12. Containment(n, L)
  <2> SUFFICES ASSUME NEW x \in L \ {RootPD}, NEW f \in BlocksIn(n, x)
               PROVE  \E w \in BlocksIn(n, n.pd[x].parent) : IsPartOf(n, x, f, w)
    BY DEF Containment
  <2>1. f \in BlocksIn(m, x) /\ f \notin T /\ m.pd[x].parent \in L
    BY <1>0, <1>4 DEF Tree
  <2>2. PICK w \in BlocksIn(m, m.pd[x].parent) : IsPartOf(m, x, f, w)
    BY <1>0, <2>1 DEF Containment
  <2>3. w \notin T /\ w # e
    BY <1>1, <2>1, <2>2
  <2>4. w \in BlocksIn(n, n.pd[x].parent) /\ n.slot[w] = m.slot[w]
    BY <1>4, <2>1, <2>3
  <2>5. IsPartOf(n, x, f, w)
    BY <1>5, <2>2, <2>4 DEF IsPartOf, Within
  <2> QED
    BY <2>4, <2>5
<1>13. Consistent(n, L)
  BY SMTT(30), <1>8, <1>9, <1>10, <1>11, <1>12 DEF Consistent
<1>14. Guarded(n, L)
  <2>1. \A x \in L : \A f \in BlocksIn(n, x) :
          f \in U /\ n.slot[f].accessible => ~ IsKernel(n, x, f)
    BY <1>2, <1>3, <1>4, <1>6 DEF IsKernel
  <2>2. \A x \in L : \A f \in BlocksIn(n, x) :
           /\ f \in U \/ n.slot[f].inChild \in U
           /\ n.slot[f].accessible /\ n.slot[f].inChild # NullSlot
           => /\ ~ IsCut(n, n.slot[f].inChild)
              /\ n.slot[n.slot[f].inChild].accessible
    <3> SUFFICES ASSUME NEW x \in L, NEW f \in BlocksIn(n, x),
                        f \in U \/ n.slot[f].inChild \in U,
                        n.slot[f].accessible, n.slot[f].inChild # NullSlot
                 PROVE  ~ IsCut(n, n.slot[f].inChild) /\ n.slot[n.slot[f].inChild].accessible
      OBVIOUS
    <3>1. f # e /\ n.slot[f] = m.slot[f] /\ f \in BlocksIn(m, x) /\ f \notin T
      BY <1>4, <1>5
    <3>2. n.slot[f].inChild = e
      BY <1>1, <1>3, <3>1
    <3>3. ~ IsCut(m, e) /\ m.slot[e].accessible
      BY <1>0, <3>1, <3>2 DEF CopiesAccessible
    <3> QED
      BY <1>2, <3>2, <3>3 DEF IsCut
  <2>3. \A x \in L : \A r \in Regions : n.pd[x].mpu[r] # NullSlot =>
           /\ n.pd[x].mpu[r] = m.pd[x].mpu[r]
           /\ n.pd[x].mpu[r] \in U => /\ n.pd[x].mpu[r] \in BlocksIn(n, x)
                                      /\ n.slot[n.pd[x].mpu[r]].accessible
    <3> SUFFICES ASSUME NEW x \in L, NEW r \in Regions, n.pd[x].mpu[r] # NullSlot
                 PROVE  /\ n.pd[x].mpu[r] = m.pd[x].mpu[r]
                        /\ n.pd[x].mpu[r] \in U => /\ n.pd[x].mpu[r] \in BlocksIn(n, x)
                                                   /\ n.slot[n.pd[x].mpu[r]].accessible
      OBVIOUS
    <3>1. n.pd[x].mpu[r] = m.pd[x].mpu[r] /\ n.pd[x].mpu[r] \notin T
      BY <1>2
    <3>2. m.pd[x].mpu[r] \in BlocksIn(m, x) /\ m.slot[m.pd[x].mpu[r]].accessible
      BY <1>0, <3>1 DEF MPUMapsAccessible
    <3> QED
      BY <1>2, <1>3, <1>4, <3>1, <3>2
  <2> QED
    BY <1>2, <2>1, <2>2, <2>3, KeptGuarded
<1> QED
  BY <1>13, <1>14

\* A block is the copy of one block.
LEMMA OneSharer ==
  ASSUME NEW m \in Good, NEW L \in SUBSET PDAddr, Consistent(m, L),
         NEW x \in L, NEW f \in BlocksIn(m, x), m.slot[f].inChild # NullSlot,
         NEW y \in L, NEW o \in BlocksIn(m, y), m.slot[o].inChild = m.slot[f].inChild
  PROVE  o = f /\ y = x
<1> DEFINE g == m.slot[f].inChild
<1>0. Structures(m, L) /\ Ranges(m, L) /\ Shares(m, L)
  BY DEF Consistent
<1>1. IsShared(m, f) /\ IsShared(m, o)
  BY <1>0 DEF Shares
<1>2. /\ m.slot[f].PDchild \in L /\ m.pd[m.slot[f].PDchild].parent = x
      /\ m.slot[o].PDchild \in L /\ m.pd[m.slot[o].PDchild].parent = y
  BY <1>0, <1>1 DEF Shares, IsShared
<1>3. /\ g \in BlocksIn(m, m.slot[f].PDchild) /\ g \in BlocksIn(m, m.slot[o].PDchild)
      /\ m.slot[g].start = m.slot[f].start /\ m.slot[g].start = m.slot[o].start
  BY <1>1 DEF IsShared
<1>4. m.slot[f].PDchild = m.slot[o].PDchild
  <2>1. g \in SlotsOf(m, m.slot[f].PDchild) /\ g \in SlotsOf(m, m.slot[o].PDchild)
    BY <1>2, <1>3, BlockType
  <2> HIDE DEF g
  <2> QED
    BY <1>0, <1>2, <2>1, OnePartition
<1>5. y = x
  BY <1>2, <1>4
<1>6. Overlap(m.slot[f], m.slot[o])
  <2>1. /\ m.slot[f].start \in Nat /\ m.slot[f].end \in Nat /\ m.slot[f].start < m.slot[f].end
        /\ m.slot[o].start \in Nat /\ m.slot[o].end \in Nat /\ m.slot[o].start < m.slot[o].end
    BY <1>0, BlockType, BlockRange
  <2> QED
    BY <1>3, <2>1 DEF Overlap
<1> QED
  BY <1>0, <1>5, <1>6, SameBlock

\* What SharedCopies finds below an accessible, uncut copy: accessible, uncut
\* copies of the same range, each shared by e or by another one found.
LEMMA SharedCopiesAre ==
  ASSUME NEW m \in Good, NEW L \in SUBSET PDAddr, Consistent(m, L), Guarded(m, L),
         NEW p \in L, NEW e \in BlocksIn(m, p), m.slot[e].inChild # NullSlot,
         ~ IsCut(m, m.slot[e].inChild), m.slot[m.slot[e].inChild].accessible
  PROVE  LET S == SharedCopies(m, m.slot[e].PDchild, m.slot[e].inChild)
         IN  /\ <<m.slot[e].PDchild, m.slot[e].inChild>> \in S
             /\ S \subseteq PDAddr \X Slots
             /\ \A x \in S :
                  /\ x[1] \in L \ {RootPD} /\ x[2] \in BlocksIn(m, x[1])
                  /\ m.slot[x[2]].accessible /\ ~ IsCut(m, x[2])
                  /\ SameRange(m.slot[x[2]], m.slot[e])
             /\ \A x \in S : m.slot[x[2]].inChild # NullSlot =>
                  <<m.slot[x[2]].PDchild, m.slot[x[2]].inChild>> \in S
             /\ \A x \in S : \A y \in L : \A o \in BlocksIn(m, y) :
                  m.slot[o].inChild = x[2] => o = e \/ <<y, o>> \in S
<1> DEFINE q0   == m.slot[e].PDchild
           h0   == m.slot[e].inChild
           D    == PDAddr \X Slots
           copy == [x \in D |-> <<m.slot[x[2]].PDchild, m.slot[x[2]].inChild>>]
           R    == Reached(copy, <<q0, h0>>)
           S    == SharedCopies(m, q0, h0)
           Fine(x) == /\ x[1] \in L \ {RootPD} /\ x[2] \in BlocksIn(m, x[1])
                      /\ m.slot[x[2]].accessible /\ ~ IsCut(m, x[2])
                      /\ SameRange(m.slot[x[2]], m.slot[e])
           V    == {x \in (PDAddr \cup {Null}) \X SlotRef : x \in D => Fine(x)}
<1>0. /\ Tree(m, L) /\ Structures(m, L) /\ Ranges(m, L) /\ Shares(m, L) /\ Containment(m, L)
      /\ CopiesAccessible(m, L)
  BY DEF Consistent, Guarded
<1>1. S = R \cap D
  BY DEF SharedCopies
<1>2. IsFiniteSet(DOMAIN copy) /\ DOMAIN copy = D
  BY PDAddrFinite, SlotsFinite, FS_Product
<1>3. \A x \in D : copy[x] = <<m.slot[x[2]].PDchild, m.slot[x[2]].inChild>>
  OBVIOUS
<1> HIDE DEF copy
<1>4. /\ <<q0, h0>> \in R
      /\ \A y \in R : y \in D => copy[y] \in R
      /\ \A W : <<q0, h0>> \in W /\ (\A y \in W : y \in D => copy[y] \in W) => R \subseteq W
  <2>1. /\ <<q0, h0>> \in Reached(copy, <<q0, h0>>)
        /\ \A y \in Reached(copy, <<q0, h0>>) :
             y \in DOMAIN copy => copy[y] \in Reached(copy, <<q0, h0>>)
        /\ \A W : <<q0, h0>> \in W /\ (\A y \in W : y \in DOMAIN copy => copy[y] \in W)
                    => Reached(copy, <<q0, h0>>) \subseteq W
    BY <1>2, ReachedLeast
  <2> QED
    BY <1>2, <2>1
<1> HIDE DEF R, S
<1>5. ASSUME NEW x \in L, NEW f \in BlocksIn(m, x), m.slot[f].inChild # NullSlot,
             ~ IsCut(m, m.slot[f].inChild), m.slot[m.slot[f].inChild].accessible,
             SameRange(m.slot[f], m.slot[e])
      PROVE  /\ <<m.slot[f].PDchild, m.slot[f].inChild>> \in D
             /\ Fine(<<m.slot[f].PDchild, m.slot[f].inChild>>)
  <2> DEFINE q == m.slot[f].PDchild
             h == m.slot[f].inChild
  <2>1. /\ q \in L \ {RootPD} /\ h \in BlocksIn(m, q)
        /\ SameRange(m.slot[h], m.slot[f])
    BY <1>0, <1>5, CopyRange
  <2>2. h \in Slots /\ q \in PDAddr
    BY <2>1, BlockType
  <2>3. SameRange(m.slot[h], m.slot[e]) /\ ~ IsCut(m, h) /\ m.slot[h].accessible
    BY <1>5, <2>1 DEF SameRange
  <2> HIDE DEF q, h
  <2>4. <<q, h>>[1] = q /\ <<q, h>>[2] = h
    OBVIOUS
  <2>5. Fine(<<q, h>>)
    BY <2>1, <2>3, <2>4
  <2> HIDE DEF Fine
  <2> QED
    BY <2>2, <2>5 DEF q, h
<1>6. <<q0, h0>> \in D /\ Fine(<<q0, h0>>)
  <2>1. SameRange(m.slot[e], m.slot[e])
    BY DEF SameRange
  <2> HIDE DEF Fine, D
  <2> QED
    BY <1>5, <2>1
<1>7. ASSUME NEW y \in D, Fine(y)
      PROVE  /\ copy[y] \in (PDAddr \cup {Null}) \X SlotRef
             /\ copy[y] \in D => Fine(copy[y])
             /\ copy[y] \in D => m.slot[y[2]].inChild # NullSlot
             /\ m.slot[y[2]].inChild # NullSlot => copy[y] \in D
  <2> DEFINE f == y[2]
             q == m.slot[f].PDchild
             h == m.slot[f].inChild
  <2>1. f \in Slots /\ m.slot[f] \in Entry
    BY DEF Good
  <2>2. q \in PDAddr \cup {Null} /\ h \in SlotRef
    BY <2>1 DEF Entry
  <2>3. copy[y] = <<q, h>>
    BY <1>3
  <2>4. CASE h = NullSlot
    <3>1. <<q, h>> \notin D
      BY <2>4, NullSlotNoSlot
    <3> QED
      BY <2>2, <2>3, <2>4, <3>1
  <2>5. CASE h # NullSlot
    <3>1. y[1] \in L /\ f \in BlocksIn(m, y[1]) /\ m.slot[f].accessible
          /\ SameRange(m.slot[f], m.slot[e])
      BY <1>7
    <3>2. ~ IsCut(m, h) /\ m.slot[h].accessible
      BY <1>0, <2>5, <3>1 DEF CopiesAccessible
    <3> HIDE DEF Fine, D
    <3>3. <<q, h>> \in D /\ Fine(<<q, h>>)
      BY <1>5, <2>5, <3>1, <3>2
    <3> QED
      BY <2>2, <2>3, <2>5, <3>3
  <2> QED
    BY <2>4, <2>5
<1>8. R \subseteq V
  <2>1. <<q0, h0>> \in V
    <3>1. <<q0, h0>> \in (PDAddr \cup {Null}) \X SlotRef
      BY <1>6 DEF SlotRef
    <3> HIDE DEF Fine, D
    <3> QED
      BY <1>6, <3>1
  <2>2. ASSUME NEW y \in V, y \in D PROVE copy[y] \in V
    <3> HIDE DEF Fine, D
    <3> QED
      BY <1>7, <2>2
  <2> HIDE DEF V
  <2> QED
    BY <1>4, <2>1, <2>2
<1>9. \A x \in S : x \in D /\ Fine(x)
  <2> HIDE DEF Fine, D
  <2> QED
    BY <1>1, <1>8
<1>10. \A x \in S : m.slot[x[2]].inChild # NullSlot => copy[x] \in S
  <2> HIDE DEF Fine
  <2> QED
    BY <1>1, <1>4, <1>7, <1>9
<1>11. ASSUME NEW x \in S, NEW y \in L, NEW o \in BlocksIn(m, y), m.slot[o].inChild = x[2]
       PROVE  o = e \/ <<y, o>> \in S
  <2> DEFINE W == {z \in R : z \in D => \A v \in L : \A k \in BlocksIn(m, v) :
                               m.slot[k].inChild = z[2] => k = e \/ <<v, k>> \in S}
  <2>1. <<q0, h0>> \in W
    <3>1. ASSUME NEW v \in L, NEW k \in BlocksIn(m, v), m.slot[k].inChild = h0
          PROVE  k = e
      BY <3>1, OneSharer
    <3>2. <<q0, h0>>[2] = h0
      OBVIOUS
    <3> HIDE DEF q0, h0
    <3> QED
      BY <1>4, <3>1, <3>2
  <2>2. ASSUME NEW z \in W, z \in D PROVE copy[z] \in W
    <3> DEFINE f == z[2]
               q == m.slot[f].PDchild
               h == m.slot[f].inChild
    <3>1. copy[z] \in R /\ z \in S /\ copy[z] = <<q, h>>
      BY <1>1, <1>3, <1>4, <2>2
    <3>2. z[1] \in L /\ f \in BlocksIn(m, z[1]) /\ z = <<z[1], f>>
      BY <1>9, <3>1
    <3>3. ASSUME copy[z] \in D, NEW v \in L, NEW k \in BlocksIn(m, v), m.slot[k].inChild = h
          PROVE  <<v, k>> \in S
      <4>1. h # NullSlot
        BY <3>1, <3>3, NullSlotNoSlot
      <4>2. k = f /\ v = z[1]
        BY <3>2, <3>3, <4>1, OneSharer
      <4> QED
        BY <3>1, <3>2, <4>2
    <3>4. <<q, h>>[2] = h
      OBVIOUS
    <3> HIDE DEF q, h
    <3> QED
      BY <3>1, <3>3, <3>4
  <2>3. R \subseteq W
    <3> HIDE DEF W
    <3> QED
      BY <1>4, <2>1, <2>2
  <2>4. x \in R /\ x \in D
    BY <1>1
  <2> QED
    BY <1>11, <2>3, <2>4
<1>12. <<q0, h0>> \in S
  BY <1>1, <1>4, <1>6
<1>13. /\ <<q0, h0>> \in S /\ S \subseteq D
       /\ \A x \in S : Fine(x)
       /\ \A x \in S : m.slot[x[2]].inChild # NullSlot =>
            <<m.slot[x[2]].PDchild, m.slot[x[2]].inChild>> \in S
       /\ \A x \in S : \A y \in L : \A o \in BlocksIn(m, y) :
            m.slot[o].inChild = x[2] => o = e \/ <<y, o>> \in S
  BY <1>3, <1>9, <1>10, <1>11, <1>12
<1> QED
  BY <1>13 DEF S

\* removeBlockInDescendantsRec frees them, one slot per partition.
LEMMA CopiesFreed ==
  ASSUME NEW m \in Good, NEW p, NEW e,
         SharedCopies(m, p, e) \subseteq PDAddr \X Slots,
         \A x, y \in SharedCopies(m, p, e) : x[1] = y[1] \/ x[2] = y[2] => x = y
  PROVE  LET n == removeBlockInDescendantsRec(m, p, e)
             S == SharedCopies(m, p, e)
         IN  /\ n \in Good
             /\ \A f \in Slots : (\A x \in S : x[2] # f) => n.slot[f] = m.slot[f]
             /\ \A x \in S : n.slot[x[2]] = FreeEntry(m.pd[x[1]].firstFree)
             /\ \A q \in PDAddr : (\A x \in S : x[1] # q) => n.pd[q] = m.pd[q]
             /\ \A x \in S : PushedAt(m, n, x[1], {x[2]}, x[2])
<1> DEFINE n == removeBlockInDescendantsRec(m, p, e)
           S == SharedCopies(m, p, e)
           at(q) == {x[2] : x \in {y \in S : y[1] = q}}
           owner(f) == (CHOOSE x \in S : x[2] = f)[1]
           pushed(q) == FreeListAt(Unmap(m.pd[q], at(q)), CHOOSE f \in at(q) : TRUE, 1)
<1>1. n \in Good
  BY removeBlockInDescendantsGood
<1>2. /\ n.slot = [f \in Slots |-> IF \E x \in S : x[2] = f
                                   THEN FreeEntry(m.pd[owner(f)].firstFree)
                                   ELSE m.slot[f]]
      /\ n.pd = [q \in PDAddr |-> IF at(q) = {} THEN m.pd[q] ELSE pushed(q)]
  BY DEF removeBlockInDescendantsRec
<1>3. /\ S \subseteq PDAddr \X Slots
      /\ \A x, y \in S : x[1] = y[1] \/ x[2] = y[2] => x = y
  OBVIOUS
<1> HIDE DEF n, S
<1>4. \A f \in Slots : (\A x \in S : x[2] # f) => n.slot[f] = m.slot[f]
  <2> HIDE DEF owner
  <2> QED
    BY <1>2
<1>5. \A x \in S : n.slot[x[2]] = FreeEntry(m.pd[x[1]].firstFree)
  <2> SUFFICES ASSUME NEW x \in S PROVE n.slot[x[2]] = FreeEntry(m.pd[x[1]].firstFree)
    OBVIOUS
  <2>1. (CHOOSE y \in S : y[2] = x[2]) = x
    BY <1>3
  <2>2. owner(x[2]) = x[1]
    BY <2>1
  <2>3. x[2] \in Slots
    BY <1>3
  <2> HIDE DEF owner
  <2> QED
    BY <1>2, <2>2, <2>3
<1>6. \A q \in PDAddr : (\A x \in S : x[1] # q) => n.pd[q] = m.pd[q]
  <2> SUFFICES ASSUME NEW q \in PDAddr, \A x \in S : x[1] # q PROVE n.pd[q] = m.pd[q]
    OBVIOUS
  <2>1. at(q) = {}
    OBVIOUS
  <2> HIDE DEF at, pushed
  <2> QED
    BY <1>2, <2>1
<1>7. ASSUME NEW x \in S
      PROVE  PushedAt(m, n, x[1], {x[2]}, x[2])
  <2> DEFINE q == x[1]
             f == x[2]
             C == {f}
             u == Unmap(m.pd[q], C)
  <2>1. q \in PDAddr /\ f \in Slots /\ m.pd[q] \in GoodPD
    BY <1>3 DEF Good
  <2>2. at(q) = C
    BY <1>3
  <2>3. n.pd[q] = FreeListAt(u, f, 1)
    <3>1. at(q) # {} /\ (CHOOSE y \in at(q) : TRUE) = f
      BY <2>2
    <3>2. pushed(q) = FreeListAt(u, f, 1)
      BY <2>2, <3>1
    <3> HIDE DEF pushed, at
    <3> QED
      BY <1>2, <2>1, <3>1, <3>2
  <2> HIDE DEF q, f, C
  <2>5. u \in GoodPD /\ SameLinks(u, m.pd[q])
        /\ \A r \in Regions : u.mpu[r] = IF m.pd[q].mpu[r] \in C THEN NullSlot
                                         ELSE m.pd[q].mpu[r]
    BY <2>1, UnmapGood, UnmapLinks
  <2> HIDE DEF u
  <2>6. /\ n.pd[q].parent = u.parent /\ n.pd[q].structs = u.structs /\ n.pd[q].mpu = u.mpu
        /\ n.pd[q].firstFree = f /\ n.pd[q].nbFree = u.nbFree + 1
    BY <2>3, <2>5 DEF FreeListAt, GoodPD, Descriptor
  <2>7. Cardinality(C) = 1
    BY FS_Singleton DEF C
  <2>8. PushedAt(m, n, q, C, f)
    BY <2>5, <2>6, <2>7 DEF PushedAt, SameLinks
  <2> QED
    BY <2>8 DEF q, f, C
<1>8. /\ n \in Good
      /\ \A f \in Slots : (\A x \in S : x[2] # f) => n.slot[f] = m.slot[f]
      /\ \A x \in S : n.slot[x[2]] = FreeEntry(m.pd[x[1]].firstFree)
      /\ \A q \in PDAddr : (\A x \in S : x[1] # q) => n.pd[q] = m.pd[q]
      /\ \A x \in S : PushedAt(m, n, x[1], {x[2]}, x[2])
  BY <1>1, <1>4, <1>5, <1>6, <1>7
<1> QED
  BY <1>8 DEF n, S

\* All those copies can go.
LEMMA CopiesCanDrop ==
  ASSUME NEW m \in Good, NEW L \in SUBSET PDAddr, Consistent(m, L), Guarded(m, L),
         NEW p \in L, NEW e \in BlocksIn(m, p), m.slot[e].inChild # NullSlot,
         ~ IsCut(m, m.slot[e].inChild), m.slot[m.slot[e].inChild].accessible
  PROVE  LET S == SharedCopies(m, m.slot[e].PDchild, m.slot[e].inChild)
         IN  /\ CanDrop(m, L, p, e, {x[2] : x \in S})
             /\ \A x, y \in S : x[1] = y[1] \/ x[2] = y[2] => x = y
<1> DEFINE q0 == m.slot[e].PDchild
           h0 == m.slot[e].inChild
           S  == SharedCopies(m, q0, h0)
           T  == {x[2] : x \in S}
<1>0. /\ Tree(m, L) /\ Structures(m, L) /\ Ranges(m, L) /\ Cuts(m, L) /\ Shares(m, L)
      /\ Containment(m, L) /\ CopiesAccessible(m, L)
  BY DEF Consistent, Guarded
<1>1. /\ <<q0, h0>> \in S /\ S \subseteq PDAddr \X Slots
      /\ \A x \in S :
           /\ x[1] \in L \ {RootPD} /\ x[2] \in BlocksIn(m, x[1])
           /\ m.slot[x[2]].accessible /\ ~ IsCut(m, x[2])
           /\ SameRange(m.slot[x[2]], m.slot[e])
      /\ \A x \in S : m.slot[x[2]].inChild # NullSlot =>
           <<m.slot[x[2]].PDchild, m.slot[x[2]].inChild>> \in S
      /\ \A x \in S : \A y \in L : \A o \in BlocksIn(m, y) :
           m.slot[o].inChild = x[2] => o = e \/ <<y, o>> \in S
  BY SharedCopiesAre
<1>2. /\ \A f : f \in T <=> \E x \in S : f = x[2]
      /\ <<q0, h0>>[2] = h0
  OBVIOUS
<1> HIDE DEF S, T
<1>3. /\ m.slot[e].start \in Nat /\ m.slot[e].end \in Nat /\ m.slot[e].start < m.slot[e].end
      /\ e \in SlotsOf(m, p)
  BY <1>0, BlockType, BlockRange
<1>4. ASSUME NEW x \in S, NEW k \in BlocksIn(m, x[1]),
             Overlap(m.slot[k], m.slot[e]) \/ m.slot[k].start = m.slot[e].start
      PROVE  k = x[2]
  <2>1. /\ m.slot[k].start \in Nat /\ m.slot[k].end \in Nat /\ m.slot[k].start < m.slot[k].end
    BY <1>0, <1>1, BlockType, BlockRange
  <2>2. Overlap(m.slot[k], m.slot[x[2]])
    BY <1>1, <1>3, <1>4, <2>1 DEF Overlap, SameRange
  <2> QED
    BY <1>0, <1>1, <2>2, SameBlock
<1>5. ASSUME NEW x \in S, NEW y \in S, x[1] = y[1] \/ x[2] = y[2]
      PROVE  x = y
  <2>1. x = <<x[1], x[2]>> /\ y = <<y[1], y[2]>>
    BY <1>1
  <2>2. CASE x[1] = y[1]
    <3>1. m.slot[x[2]].start = m.slot[e].start /\ x[2] \in BlocksIn(m, y[1])
      BY <1>1, <2>2 DEF SameRange
    <3>2. x[2] = y[2]
      BY <1>4, <3>1
    <3> QED
      BY <2>1, <2>2, <3>2
  <2>3. CASE x[2] = y[2]
    <3>1. /\ x[1] \in L /\ y[1] \in L
          /\ x[2] \in SlotsOf(m, x[1]) /\ x[2] \in SlotsOf(m, y[1])
      BY <1>1, <2>3, BlockType
    <3>2. x[1] = y[1]
      BY <1>0, <3>1, OnePartition
    <3> QED
      BY <2>1, <2>3, <3>2
  <2> QED
    BY <1>5, <2>2, <2>3
<1>6. e \notin T
  <2> SUFFICES ASSUME e \in T PROVE FALSE
    OBVIOUS
  <2> DEFINE P == {x[1] : x \in S}
  <2>1. PICK z \in S : z[2] = e
    BY <1>2
  <2>2. z[1] = p
    <3>1. z[1] \in L /\ e \in SlotsOf(m, z[1])
      BY <1>1, <2>1, BlockType
    <3> QED
      BY <1>0, <1>3, <3>1, OnePartition
  <2>3. ASSUME NEW q \in P PROVE m.pd[q].parent \in P
    <3>1. PICK x \in S : q = x[1]
      OBVIOUS
    <3>2. q \in L \ {RootPD} /\ x[2] \in BlocksIn(m, q) /\ ~ IsCut(m, x[2])
          /\ SameRange(m.slot[x[2]], m.slot[e])
      BY <1>1, <3>1
    <3>3. PICK w \in BlocksIn(m, m.pd[q].parent) : IsPartOf(m, q, x[2], w)
      BY <1>0, <3>2 DEF Containment
    <3>4. m.pd[q].parent \in L /\ m.slot[w].inChild # NullSlot /\ m.slot[w].PDchild = q
      BY <1>0, <3>2, <3>3 DEF Tree, IsPartOf
    <3>5. /\ m.slot[w].inChild \in BlocksIn(m, q)
          /\ m.slot[m.slot[w].inChild].start = m.slot[w].start
      BY <1>0, <3>4 DEF Shares, IsShared
    <3>6. m.slot[m.slot[w].inChild].start = m.slot[e].start
      BY <3>2, <3>3, <3>5 DEF IsPartOf, IsCut, SameRange
    <3>7. m.slot[w].inChild = x[2]
      BY <1>4, <3>1, <3>5, <3>6
    <3>8. CASE w = e
      <4>1. w \in SlotsOf(m, m.pd[q].parent)
        BY <3>4, BlockType
      <4>2. m.pd[q].parent = p
        BY <1>0, <1>3, <3>4, <3>8, <4>1, OnePartition
      <4> QED
        BY <2>1, <2>2, <4>2
    <3>9. CASE <<m.pd[q].parent, w>> \in S
      BY <3>9
    <3> QED
      BY <1>1, <3>4, <3>7, <3>8, <3>9
  <2>4. P \in SUBSET (L \ {RootPD}) /\ p \in P
    BY <1>1, <2>1, <2>2
  <2> HIDE DEF P
  <2>5. PICK q \in P : m.pd[q].parent \notin P
    BY <1>0, <2>4 DEF Tree
  <2> QED
    BY <2>3, <2>5
<1>7. ASSUME NEW x \in L, NEW f \in BlocksIn(m, x)
      PROVE  /\ f \in T => m.slot[f].accessible
             /\ m.slot[f].inChild \in T => f \in T \/ f = e
             /\ m.slot[f].next \notin T
  <2>1. f \in T => m.slot[f].accessible
    BY <1>1, <1>2
  <2>2. ASSUME m.slot[f].inChild \in T PROVE f \in T \/ f = e
    <3>1. PICK y \in S : m.slot[f].inChild = y[2]
      BY <1>2, <2>2
    <3>2. f = e \/ <<x, f>> \in S
      BY <1>1, <3>1
    <3>3. <<x, f>>[2] = f
      OBVIOUS
    <3> QED
      BY <1>2, <3>2, <3>3
  <2>3. ASSUME m.slot[f].next \in T PROVE FALSE
    <3>1. PICK y \in S : m.slot[f].next = y[2]
      BY <1>2, <2>3
    <3>2. y[2] \in BlocksIn(m, y[1]) /\ y[1] \in L /\ ~ IsCut(m, y[2])
      BY <1>1
    <3>3. y[2] # NullSlot /\ m.slot[y[2]].start = m.slot[y[2]].origin
      BY <3>2, BlockType DEF IsCut
    <3>4. /\ m.slot[y[2]].start = m.slot[f].end /\ m.slot[y[2]].origin = m.slot[f].origin
      BY <1>0, <3>1, <3>3 DEF Cuts
    <3>5. /\ m.slot[f].origin \in Nat /\ m.slot[f].start \in Nat /\ m.slot[f].end \in Nat
          /\ m.slot[f].origin <= m.slot[f].start /\ m.slot[f].start < m.slot[f].end
      BY <1>0, BlockType, BlockRange
    <3>6. m.slot[f].end = m.slot[f].origin
      BY <3>3, <3>4
    <3> QED
      BY <3>5, <3>6
  <2> QED
    BY <2>1, <2>2, <2>3
<1>8. ASSUME NEW x \in L \ {RootPD}, NEW k \in BlocksIn(m, x),
             NEW w \in BlocksIn(m, m.pd[x].parent), IsPartOf(m, x, k, w), w \in T \/ w = e
      PROVE  k \in T
  <2>1. m.slot[w].inChild # NullSlot /\ m.slot[w].PDchild = x /\ Within(m.slot[k], m.slot[w])
    BY <1>8 DEF IsPartOf
  <2>2. /\ <<x, m.slot[w].inChild>> \in S /\ SameRange(m.slot[w], m.slot[e])
    <3>1. CASE w = e
      BY <1>1, <2>1, <3>1 DEF SameRange
    <3>2. CASE w \in T
      <4>1. PICK y \in S : w = y[2]
        BY <1>2, <3>2
      <4> QED
        BY <1>1, <2>1, <4>1
    <3> QED
      BY <1>8, <3>1, <3>2
  <2> DEFINE z == <<x, m.slot[w].inChild>>
  <2>3. z[1] = x /\ z \in S
    BY <2>2
  <2> HIDE DEF z
  <2>4. /\ m.slot[k].start \in Nat /\ m.slot[k].end \in Nat /\ m.slot[k].start < m.slot[k].end
    BY <1>0, BlockType, BlockRange
  <2>5. Overlap(m.slot[k], m.slot[e])
    BY <1>3, <2>1, <2>2, <2>4 DEF Within, Overlap, SameRange
  <2>6. k = z[2]
    BY <1>4, <2>3, <2>5
  <2> QED
    BY <1>2, <2>3, <2>6
<1>9. CanDrop(m, L, p, e, T)
  <2>1. T \in SUBSET Slots
    BY <1>1, <1>2
  <2>2. h0 \in T
    BY <1>1, <1>2
  <2> QED
    BY <1>6, <1>7, <1>8, <2>1, <2>2 DEF CanDrop
<1> QED
  BY <1>5, <1>9 DEF S, T

\* removeMemoryBlock of a block the child has not cut.
LEMMA removeUncutBlockSound ==
  ASSUME IInv, NEW L \in SUBSET PDAddr, Consistent(Mem, L), Guarded(Mem, L),
         NEW c \in L, NEW e \in SlotsOf(Mem, c), removeUncutBlock(c, e)
  PROVE  SoundFor(Mem', c, L) /\ Removed(Mem, Mem', L, c, e)
<1> DEFINE b  == slot[e]
           S  == SharedCopies(Mem, b.PDchild, b.inChild)
           T  == {x[2] : x \in S}
           m1 == removeBlockInDescendantsRec(Mem, b.PDchild, b.inChild)
           m2 == [m1 EXCEPT !.slot[e] = Unshared(@)]
<1>0. /\ Mem \in Good /\ Mem.slot = slot /\ Mem.pd = pd /\ e \in Slots /\ b \in Entry
      /\ c \in PDAddr
  BY CallerType
<1>1. /\ e \in BlocksIn(Mem, c) /\ b.present /\ b.inChild # NullSlot
      /\ ~ IsCut(Mem, b.inChild) /\ slot[b.inChild].accessible
      /\ Commit(m2)
  BY <1>0 DEF removeUncutBlock, IsRemovable, IsFound, BlocksIn
<1>2. /\ CanDrop(Mem, L, c, e, T)
      /\ \A x, y \in S : x[1] = y[1] \/ x[2] = y[2] => x = y
  BY <1>0, <1>1, CopiesCanDrop
<1>3. /\ S \subseteq PDAddr \X Slots
      /\ \A x \in S : /\ x[1] \in L \ {RootPD} /\ x[2] \in BlocksIn(Mem, x[1])
                      /\ SameRange(Mem.slot[x[2]], Mem.slot[e])
  <2> DEFINE R == SharedCopies(Mem, Mem.slot[e].PDchild, Mem.slot[e].inChild)
  <2>1. /\ <<Mem.slot[e].PDchild, Mem.slot[e].inChild>> \in R
        /\ R \subseteq PDAddr \X Slots
        /\ \A x \in R :
             /\ x[1] \in L \ {RootPD} /\ x[2] \in BlocksIn(Mem, x[1])
             /\ Mem.slot[x[2]].accessible /\ ~ IsCut(Mem, x[2])
             /\ SameRange(Mem.slot[x[2]], Mem.slot[e])
        /\ \A x \in R : Mem.slot[x[2]].inChild # NullSlot =>
             <<Mem.slot[x[2]].PDchild, Mem.slot[x[2]].inChild>> \in R
        /\ \A x \in R : \A y \in L : \A o \in BlocksIn(Mem, y) :
             Mem.slot[o].inChild = x[2] => o = e \/ <<y, o>> \in R
    BY <1>0, <1>1, SharedCopiesAre
  <2> QED
    BY <1>0, <2>1
<1>4. /\ m1 \in Good
      /\ \A f \in Slots : (\A x \in S : x[2] # f) => m1.slot[f] = slot[f]
      /\ \A x \in S : m1.slot[x[2]] = FreeEntry(pd[x[1]].firstFree)
      /\ \A q \in PDAddr : (\A x \in S : x[1] # q) => m1.pd[q] = pd[q]
      /\ \A x \in S : PushedAt(Mem, m1, x[1], {x[2]}, x[2])
  <2> DEFINE m == Mem
             p == b.PDchild
             h == b.inChild
             R == SharedCopies(m, p, h)
             n == removeBlockInDescendantsRec(m, p, h)
  <2>1. m \in Good /\ m.slot = slot /\ m.pd = pd /\ S = R /\ m1 = n
    BY <1>0
  <2>2. /\ R \subseteq PDAddr \X Slots
        /\ \A x, y \in R : x[1] = y[1] \/ x[2] = y[2] => x = y
    BY <1>2, <1>3, <2>1
  <2> HIDE DEF b, S, m1, m, p, h
  <2>3. /\ n \in Good
        /\ \A f \in Slots : (\A x \in R : x[2] # f) => n.slot[f] = m.slot[f]
        /\ \A x \in R : n.slot[x[2]] = FreeEntry(m.pd[x[1]].firstFree)
        /\ \A q \in PDAddr : (\A x \in R : x[1] # q) => n.pd[q] = m.pd[q]
        /\ \A x \in R : PushedAt(m, n, x[1], {x[2]}, x[2])
    BY <2>1, <2>2, CopiesFreed
  <2> HIDE DEF R, n
  <2> QED
    BY <2>1, <2>3 DEF m
<1> HIDE DEF S, m1
<1>5. T \in SUBSET Slots /\ e \notin T /\ b.inChild \in T
  BY <1>0, <1>2 DEF CanDrop
<1>6. /\ m1.slot[e] = b /\ m2 \in Good /\ m2.pd = m1.pd /\ m2.slot[e] = Unshared(b)
      /\ \A f \in Slots : f # e => m2.slot[f] = m1.slot[f]
  <2>1. m1.slot[e] = b
    BY <1>0, <1>4, <1>5
  <2> DEFINE u == Unshared(b)
             g == m1.slot
  <2>2. u \in Entry /\ g \in [Slots -> Entry]
    BY <1>0, <1>4, UnsharedType DEF Good
  <2>3. m2 = [m1 EXCEPT !.slot = [g EXCEPT ![e] = u]]
    BY <1>0, <1>4, <2>1 DEF Good
  <2> HIDE DEF u, g, m2
  <2>4. m2 \in Good /\ m2.pd = m1.pd /\ m2.slot = [g EXCEPT ![e] = u]
    BY <1>0, <1>4, <2>2, <2>3 DEF Good
  <2> QED
    BY <1>0, <2>1, <2>2, <2>4 DEF g, u
<1> HIDE DEF m2
<1>7. /\ m2.slot[e].start = b.start /\ m2.slot[e].end = b.end
      /\ m2.slot[e].origin = b.origin /\ m2.slot[e].rights = b.rights
      /\ m2.slot[e].present /\ (b.accessible => m2.slot[e].accessible)
      /\ m2.slot[e].next = b.next
      /\ m2.slot[e].PDchild = Null /\ m2.slot[e].inChild = NullSlot /\ ~ m2.slot[e].PDflag
  <2> HIDE DEF b
  <2> QED
    BY <1>0, <1>1, <1>6 DEF Unshared, Entry
<1>8. /\ \A f : f \in T <=> \E x \in S : f = x[2]
      /\ \A x \in S : x[2] \in T
  OBVIOUS
<1> HIDE DEF T
<1>9. Kept(Mem, m2, L, T \cup {e})
  <2>1. ASSUME NEW q \in L
        PROVE  m2.pd[q].parent = Mem.pd[q].parent /\ m2.pd[q].structs = Mem.pd[q].structs
    <3>0. q \in PDAddr
      OBVIOUS
    <3>1. CASE \A x \in S : x[1] # q
      BY <1>0, <1>4, <1>6, <3>0, <3>1
    <3>2. CASE \E x \in S : x[1] = q
      <4>1. PICK x \in S : x[1] = q
        BY <3>2
      <4>2. PushedAt(Mem, m1, q, {x[2]}, x[2])
        BY <1>4, <4>1
      <4> QED
        BY <1>6, <4>2 DEF PushedAt
    <3> QED
      BY <3>1, <3>2
  <2>2. ASSUME NEW f \in Slots \ (T \cup {e}) PROVE m2.slot[f] = Mem.slot[f]
    BY <1>0, <1>4, <1>6, <1>8
  <2> QED
    BY <2>1, <2>2 DEF Kept
<1>10. IsDrop(Mem, m2, L, e, T)
  <2>1. \A f \in T : ~ m2.slot[f].present
    <3> SUFFICES ASSUME NEW f \in T PROVE ~ m2.slot[f].present
      OBVIOUS
    <3>1. PICK x \in S : f = x[2]
      BY <1>8
    <3> DEFINE link == pd[x[1]].firstFree
    <3>2. m2.slot[f] = FreeEntry(link)
      BY <1>4, <1>5, <1>6, <3>1
    <3> HIDE DEF link
    <3> QED
      BY <3>2 DEF FreeEntry
  <2>2. ASSUME NEW x \in L, NEW r \in Regions, m2.pd[x].mpu[r] # NullSlot
        PROVE  m2.pd[x].mpu[r] = Mem.pd[x].mpu[r] /\ m2.pd[x].mpu[r] \notin T
    <3>1. ASSUME NEW y \in S, Mem.pd[x].mpu[r] = y[2], y[2] # NullSlot PROVE y[1] = x
      <4>1. Mem.pd[x].mpu[r] \in BlocksIn(Mem, x)
        BY <3>1 DEF Guarded, MPUMapsAccessible
      <4>2. y[2] \in SlotsOf(Mem, x) /\ y[2] \in SlotsOf(Mem, y[1]) /\ y[1] \in L
        BY <1>0, <1>3, <3>1, <4>1, BlockType
      <4> QED
        BY <4>2, OnePartition DEF Consistent
    <3>2. CASE \A y \in S : y[1] # x
      BY <1>0, <1>4, <1>6, <1>8, <2>2, <3>1, <3>2
    <3>3. CASE \E y \in S : y[1] = x
      <4>1. PICK y \in S : y[1] = x
        BY <3>3
      <4>2. PushedAt(Mem, m1, x, {y[2]}, y[2])
        BY <1>4, <4>1
      <4>3. m2.pd[x].mpu[r] = Mem.pd[x].mpu[r] /\ m2.pd[x].mpu[r] # y[2]
        BY <1>6, <2>2, <4>2 DEF PushedAt
      <4>4. \A z \in S : z[1] = x => z = y
        BY <1>2, <4>1 DEF S
      <4> QED
        BY <1>8, <2>2, <3>1, <4>3, <4>4
    <3> QED
      BY <3>2, <3>3
  <2> QED
    BY <1>0, <1>7, <1>9, <2>1, <2>2 DEF IsDrop
<1>11. FreeLists(m2, L)
  <2> SUFFICES ASSUME NEW q \in L PROVE FreeListOK(m2, q)
    BY DEF FreeLists
  <2>1. q \in PDAddr /\ FreeListOK(Mem, q) /\ IsFiniteSet(FreeIn(Mem, q))
        /\ FreeIn(Mem, q) \subseteq Slots
    BY <1>0, FreeType DEF Consistent, FreeLists
  <2> DEFINE U == T \cup {e}
  <2>2. /\ SlotsOf(m2, q) = SlotsOf(Mem, q) /\ SlotsOf(Mem, q) \subseteq Slots
        /\ \A f : f \notin U => /\ f \in BlocksIn(m2, q) <=> f \in BlocksIn(Mem, q)
                                /\ f \in FreeIn(m2, q) <=> f \in FreeIn(Mem, q)
    <3> DEFINE m == Mem
    <3>1. Kept(m, m2, L, U)
      BY <1>9
    <3>2. q \in L
      OBVIOUS
    <3>4. m \in Good
      BY <1>0
    <3>5. m2 \in Good
      BY <1>6
    <3> HIDE DEF U, m
    <3>3. /\ StructsOf(m2, q) = StructsOf(m, q) /\ SlotsOf(m2, q) = SlotsOf(m, q)
          /\ SlotsOf(m, q) \subseteq Slots
          /\ \A f : f \notin U => /\ f \in BlocksIn(m2, q) <=> f \in BlocksIn(m, q)
                                  /\ f \in FreeIn(m2, q) <=> f \in FreeIn(m, q)
          /\ \A f \in SlotsOf(m, q) : f \notin U => m2.slot[f] = m.slot[f]
      BY ONLY L \in SUBSET PDAddr, <3>1, <3>2, <3>4, <3>5, KeptSlots
    <3> QED
      BY <3>3 DEF m
  <2>3. /\ \A f \in T : \E x \in S : f = x[2] /\ Mem.slot[f].present /\ ~ m2.slot[f].present
                                     /\ (f \in SlotsOf(Mem, q) => x[1] = q)
        /\ \A x \in S : x[1] = q => x[2] \in SlotsOf(Mem, q)
    <3>1. ASSUME NEW x \in S
          PROVE  /\ Mem.slot[x[2]].present /\ (x[2] \in SlotsOf(Mem, q) => x[1] = q)
                 /\ x[2] \in SlotsOf(Mem, x[1])
      <4>1. x[1] \in L /\ x[2] \in SlotsOf(Mem, x[1]) /\ Mem.slot[x[2]].present
        BY <1>3 DEF BlocksIn
      <4> QED
        BY <4>1, OnePartition DEF Consistent
    <3>2. \A f \in T : ~ m2.slot[f].present
      BY <1>10 DEF IsDrop
    <3> QED
      BY <1>8, <3>1, <3>2
  <2>4. e \notin FreeIn(Mem, q) /\ e \notin FreeIn(m2, q)
        /\ \A f \in FreeIn(Mem, q) : f \notin U /\ m2.slot[f] = Mem.slot[f]
    <3>1. e \notin FreeIn(Mem, q) /\ e \notin FreeIn(m2, q)
      BY <1>0, <1>1, <1>7 DEF FreeIn
    <3>2. \A f \in FreeIn(Mem, q) : f \notin T
      BY <2>3 DEF FreeIn
    <3> QED
      BY <1>9, <2>1, <3>1, <3>2 DEF Kept
  <2>5. CASE \A x \in S : x[1] # q
    <3>1. \A f \in T : f \notin FreeIn(m2, q)
      BY <2>2, <2>3, <2>5 DEF FreeIn
    <3>2. FreeIn(m2, q) = FreeIn(Mem, q)
      BY <2>2, <2>4, <3>1
    <3>3. m2.pd[q] = Mem.pd[q]
      BY <1>0, <1>4, <1>6, <2>1, <2>5
    <3> QED
      BY <2>1, <2>4, <3>2, <3>3, FreeListFrame
  <2>6. CASE \E x \in S : x[1] = q
    <3>1. PICK x \in S : x[1] = q
      BY <2>6
    <3> DEFINE a == x[2]
               C == {a}
               head == Mem.pd[q].firstFree
               nl == [f \in {a} |-> head]
    <3>2. PushedAt(Mem, m1, q, C, a)
      BY <1>4, <3>1
    <3>3. /\ a \in T /\ a \in SlotsOf(Mem, q) /\ a \in Slots /\ a # e /\ a # NullSlot
          /\ Mem.slot[a].present /\ ~ m2.slot[a].present
          /\ m2.slot[a] = FreeEntry(head)
      <4>1. a \in T /\ a \in SlotsOf(Mem, q) /\ a \in Slots /\ a # e
        BY <1>3, <1>5, <1>8, <2>3, <3>1
      <4>2. Mem.slot[a].present /\ ~ m2.slot[a].present
        BY <2>3, <4>1
      <4>3. m2.slot[a] = FreeEntry(head)
        BY <1>0, <1>4, <1>6, <3>1, <4>1
      <4> QED
        BY <4>1, <4>2, <4>3, NullSlotNoSlot
    <3>4. head # a /\ nl[a] = head
      BY <2>1, <3>3 DEF FreeListOK, FreeIn
    <3>5. \A f \in T : f \in SlotsOf(Mem, q) => f = a
      BY <1>2, <2>3, <3>1 DEF S
    <3>6. FreeIn(m2, q) = FreeIn(Mem, q) \cup C /\ C \cap FreeIn(Mem, q) = {}
      <4>1. a \in FreeIn(m2, q) /\ a \notin FreeIn(Mem, q)
        BY <2>2, <3>3 DEF FreeIn
      <4>2. \A f \in FreeIn(m2, q) : f \in T => f = a
        BY <2>2, <3>5 DEF FreeIn
      <4>3. \A f : f \in FreeIn(m2, q) <=> f \in FreeIn(Mem, q) \/ f = a
        BY <2>2, <2>4, <4>1, <4>2
      <4> QED
        BY <4>1, <4>3
    <3> HIDE DEF nl
    <3>7. IsSegment(C, nl, a, head)
      <4> HIDE DEF a, head
      <4> QED
        BY <3>3, <3>4, OneSegment
    <3>8. /\ m2.pd[q].firstFree = a /\ m2.pd[q].nbFree = Mem.pd[q].nbFree + Cardinality(C)
      BY <1>6, <3>2 DEF PushedAt
    <3>9. \A f \in C : m2.slot[f] = FreeEntry(nl[f])
      BY <3>3, <3>4
    <3> HIDE DEF C
    <3> QED
      BY <2>1, <2>4, <3>6, <3>7, <3>8, <3>9, FreePush
  <2> QED
    BY <2>5, <2>6
<1>12. Consistent(m2, L) /\ Guarded(m2, L)
  BY <1>0, <1>1, <1>2, <1>6, <1>10, <1>11, DropKeeps
<1>13. Dropped(Mem, m2, L, c, e)
  <2>1. \A f \in T : Within(Mem.slot[f], Mem.slot[e])
    <3> SUFFICES ASSUME NEW f \in T PROVE Within(Mem.slot[f], Mem.slot[e])
      OBVIOUS
    <3>1. PICK x \in S : f = x[2]
      BY <1>8
    <3>2. SameRange(Mem.slot[f], Mem.slot[e])
      BY <1>3, <3>1
    <3>3. Mem.slot[e].start \in Nat /\ Mem.slot[e].end \in Nat
      BY <1>0, <1>1, BlockType
    <3> QED
      BY <3>2, <3>3 DEF SameRange, Within
  <2> QED
    BY <1>0, <1>1, <1>2, <1>6, <1>10, <2>1, DropMemory
<1>14. SoundFor(Mem', c, L) /\ Mem' = m2
  BY <1>1, <1>6, <1>12, CommitSound
<1>15. StaysOpen(Mem, m2, L, L)
  <2> SUFFICES ASSUME OpenAbove(Mem, L) PROVE OpenAbove(m2, L)
    BY DEF StaysOpen
  <2> DEFINE U == T \cup {e}
             V == {}
  <2>1. m2.slot[e].accessible = b.accessible
    <3> HIDE DEF b
    <3> QED
      BY <1>0, <1>6 DEF Unshared, Entry
  <2>2. /\ IsCut(m2, e) <=> IsCut(Mem, e)
        /\ m2.slot[e].accessible => Mem.slot[e].accessible
    BY <1>0, <1>7, <2>1 DEF IsCut
  <2>3. \A q \in L : \A f \in BlocksIn(m2, q) : f \in U =>
          /\ m2.slot[f].inChild = NullSlot
          /\ IsCut(m2, f) \/ (m2.slot[f].accessible => Mem.slot[f].accessible
                                                      /\ ~ IsCut(Mem, f))
    BY <1>7, <1>10, <2>2 DEF BlocksIn, IsDrop
  <2> HIDE DEF U, V
  <2>4. OpenBut(m2, L, V)
    BY <1>0, <1>6, <1>9, <1>12, <2>3, KeptOpenBut DEF U, Loosened
  <2> QED
    BY <2>4 DEF OpenBut, OpenAbove, V
<1>16. ASSUME OpenAbove(Mem, L)
       PROVE  Extent(Mem, e) \subseteq OpenIn(m2, c)
  <2>1. Mem.slot[e].accessible
    BY <1>0, <1>1, <1>16 DEF OpenAbove
  <2>2. e \in BlocksIn(m2, c) /\ Extent(m2, e) = Extent(Mem, e)
    BY <1>13 DEF Dropped, Extent, SameRange
  <2>3. m2.slot[e].accessible /\ Ranges(m2, L)
    BY <1>0, <1>7, <1>12, <2>1 DEF Consistent
  <2> QED
    BY <1>6, <2>2, <2>3, ExtentIn
<1> QED
  BY <1>12, <1>13, <1>14, <1>15, <1>16 DEF Removed

\* The subblocks of the copy of e: the pieces the child has cut the block
\* into, linked from the copy on.
LEMMA SubblocksAre ==
  ASSUME NEW m \in Good, NEW L \in SUBSET PDAddr, Consistent(m, L),
         NEW p \in L, NEW e \in BlocksIn(m, p), m.slot[e].inChild # NullSlot
  PROVE  LET q == m.slot[e].PDchild
             h == m.slot[e].inChild
             T == Subblocks(m, h)
         IN  /\ T \in SUBSET Slots /\ h \in T /\ T \subseteq BlocksIn(m, q)
             /\ \A f \in T : m.slot[f].origin = m.slot[e].start
             /\ \A f \in T : m.slot[f].next \in T \cup {NullSlot}
             /\ \A f \in T : f = h \/ \E g \in T : m.slot[g].next = f
<1> DEFINE q  == m.slot[e].PDchild
           h  == m.slot[e].inChild
           nx == [f \in Slots |-> m.slot[f].next]
           R  == Reached(nx, h)
           T  == Subblocks(m, h)
           Fine(f) == f \in BlocksIn(m, q) /\ m.slot[f].origin = m.slot[e].start
           V  == {f \in SlotRef : f \in Slots => Fine(f)}
<1>0. /\ Tree(m, L) /\ Ranges(m, L) /\ Cuts(m, L) /\ Shares(m, L) /\ Containment(m, L)
  BY DEF Consistent
<1>1. q \in L /\ h \in BlocksIn(m, q) /\ m.slot[h].origin = m.slot[e].start
  BY <1>0, CopyRange
<1>2. T = R \cap Slots
  BY DEF Subblocks
<1>3. h \in Slots /\ NullSlot \notin Slots
  BY <1>1, BlockType, NullSlotNoSlot
<1>4. DOMAIN nx = Slots /\ \A f \in Slots : nx[f] = m.slot[f].next
  OBVIOUS
<1>5. \A f \in Slots : m.slot[f].next \in SlotRef
  BY DEF Good, Entry
<1> HIDE DEF nx
<1>6. /\ h \in R
      /\ \A y \in R : y \in Slots => nx[y] \in R
      /\ \A W : h \in W /\ (\A y \in W : y \in Slots => nx[y] \in W) => R \subseteq W
  BY <1>4, SlotsFinite, ReachedLeast
<1> HIDE DEF R, T
<1>7. R \subseteq V
  <2>1. h \in V
    BY <1>1, <1>3 DEF SlotRef
  <2>2. ASSUME NEW y \in V, y \in Slots PROVE nx[y] \in V
    <3>1. Fine(y)
      BY <2>2
    <3> DEFINE z == m.slot[y].next
    <3>2. z \in Slots => Fine(z)
      <4> SUFFICES ASSUME z \in Slots PROVE Fine(z)
        OBVIOUS
      <4>1. z # NullSlot
        BY <1>3
      <4> QED
        BY <1>0, <1>1, <3>1, <4>1 DEF Cuts
    <3>3. z \in SlotRef
      BY <1>5, <2>2
    <3>4. nx[y] = z
      BY <1>4, <2>2
    <3> HIDE DEF z
    <3> QED
      BY <3>2, <3>3, <3>4
  <2> HIDE DEF V
  <2> QED
    BY <1>6, <2>1, <2>2
<1>8. \A f \in T : f \in Slots /\ Fine(f)
  BY <1>2, <1>7
<1>9. h \in T
  BY <1>2, <1>3, <1>6
<1>10. ASSUME NEW f \in T PROVE m.slot[f].next \in T \cup {NullSlot}
  <2>1. m.slot[f].next \in R /\ m.slot[f].next \in SlotRef
    BY <1>2, <1>4, <1>5, <1>6
  <2> QED
    BY <1>2, <2>1 DEF SlotRef
<1>11. ASSUME NEW f \in T PROVE f = h \/ \E g \in T : m.slot[g].next = f
  <2> DEFINE W == {y \in R : y \in Slots => y = h \/ \E g \in T : m.slot[g].next = y}
  <2>1. h \in W
    BY <1>6
  <2>2. ASSUME NEW y \in W, y \in Slots PROVE nx[y] \in W
    <3>1. y \in T
      BY <1>2, <2>2
    <3> QED
      BY <1>2, <1>4, <1>6, <3>1
  <2>3. R \subseteq W
    <3> HIDE DEF W
    <3> QED
      BY <1>6, <2>1, <2>2
  <2> QED
    BY <1>2, <2>3
<1> QED
  BY <1>8, <1>9, <1>10, <1>11 DEF T

\* They lie within e.
LEMMA SubblockWithin ==
  ASSUME NEW m \in Good, NEW L \in SUBSET PDAddr, Consistent(m, L),
         NEW p \in L, NEW e \in BlocksIn(m, p), m.slot[e].inChild # NullSlot,
         NEW x \in L, NEW f \in BlocksIn(m, x), f \in Subblocks(m, m.slot[e].inChild)
  PROVE  Within(m.slot[f], m.slot[e])
<1> DEFINE q == m.slot[e].PDchild
           T == Subblocks(m, m.slot[e].inChild)
<1>0. /\ Tree(m, L) /\ Structures(m, L) /\ Ranges(m, L) /\ Shares(m, L) /\ Containment(m, L)
  BY DEF Consistent
<1>1. T \subseteq BlocksIn(m, q) /\ \A g \in T : m.slot[g].origin = m.slot[e].start
  BY SubblocksAre
<1>2. q \in L \ {RootPD} /\ m.pd[q].parent = p
  BY <1>0, CopyRange
<1>3. f \in BlocksIn(m, q) /\ m.slot[f].origin = m.slot[e].start
  BY <1>1
<1> HIDE DEF q, T
<1>4. PICK w \in BlocksIn(m, p) : IsPartOf(m, q, f, w)
  BY <1>0, <1>2, <1>3 DEF Containment
<1>5. w = e
  <2>1. /\ m.slot[w].start \in Nat /\ m.slot[w].end \in Nat
        /\ m.slot[e].start \in Nat /\ m.slot[e].end \in Nat
        /\ m.slot[w].start < m.slot[w].end /\ m.slot[e].start < m.slot[e].end
    BY <1>0, BlockType, BlockRange
  <2>2. Overlap(m.slot[w], m.slot[e])
    BY <1>3, <1>4, <2>1 DEF IsPartOf, Overlap
  <2> QED
    BY <1>0, <2>2 DEF Ranges
<1> QED
  BY <1>4, <1>5 DEF IsPartOf

\* They are the whole of what the child has of the block: a block of the child
\* that is a part of e, or is linked to a subblock, is one of them.
LEMMA SubblocksAll ==
  ASSUME NEW m \in Good, NEW L \in SUBSET PDAddr, Consistent(m, L),
         NEW p \in L, NEW e \in BlocksIn(m, p), m.slot[e].inChild # NullSlot,
         NEW q, q = m.slot[e].PDchild, NEW h, h = m.slot[e].inChild,
         NEW T, T = Subblocks(m, h)
  PROVE  /\ \A f \in T : m.slot[f].start = m.slot[e].start => f = h
         /\ \A f \in T, g \in BlocksIn(m, q) : m.slot[g].next = f => f # h /\ g \in T
         /\ \A k \in BlocksIn(m, q) : IsPartOf(m, q, k, e) => k \in T
<1>0. /\ Tree(m, L) /\ Ranges(m, L) /\ Cuts(m, L) /\ Shares(m, L) /\ Containment(m, L)
  BY DEF Consistent
<1>1. /\ T \in SUBSET Slots /\ h \in T /\ T \subseteq BlocksIn(m, q)
      /\ \A f \in T : m.slot[f].origin = m.slot[e].start
      /\ \A f \in T : m.slot[f].next \in T \cup {NullSlot}
      /\ \A f \in T : f = h \/ \E g \in T : m.slot[g].next = f
  BY SubblocksAre
<1>2. /\ q \in L \ {RootPD} /\ m.pd[q].parent = p /\ m.slot[h].start = m.slot[e].start
  BY <1>0, CopyRange
<1>3. ASSUME NEW g \in BlocksIn(m, q)
      PROVE  /\ m.slot[g].start \in Nat /\ m.slot[g].end \in Nat /\ m.slot[g].origin \in Nat
             /\ m.slot[g].origin <= m.slot[g].start /\ m.slot[g].start < m.slot[g].end
             /\ g \in Slots /\ g # NullSlot
  BY <1>0, <1>2, BlockType, BlockRange
<1>4. ASSUME NEW f \in BlocksIn(m, q), NEW g \in BlocksIn(m, q),
             m.slot[f].start = m.slot[g].start \/ m.slot[f].end = m.slot[g].end
      PROVE  f = g
  <2>1. Overlap(m.slot[f], m.slot[g])
    BY <1>3, <1>4 DEF Overlap
  <2> QED
    BY <1>0, <1>2, <2>1, SameBlock
<1>5. ASSUME NEW f \in T, NEW g \in BlocksIn(m, q), m.slot[g].next = f
      PROVE  f # h /\ g \in T
  <2>1. m.slot[f].start = m.slot[g].end /\ m.slot[f].origin = m.slot[g].origin
    BY <1>0, <1>1, <1>2, <1>3, <1>5 DEF Cuts
  <2>2. f # h
    <3> SUFFICES ASSUME f = h PROVE FALSE
      OBVIOUS
    <3>1. m.slot[g].end = m.slot[g].origin
      BY <1>1, <1>2, <2>1
    <3> QED
      BY <1>3, <3>1
  <2>3. PICK u \in T : m.slot[u].next = f
    BY <1>1, <2>2
  <2>4. m.slot[f].start = m.slot[u].end
    BY <1>0, <1>1, <1>2, <1>3, <2>3 DEF Cuts
  <2>5. u = g
    BY <1>1, <1>4, <2>1, <2>4
  <2> QED
    BY <2>2, <2>3, <2>5
<1>6. ASSUME NEW k \in BlocksIn(m, q), IsPartOf(m, q, k, e), k \notin T PROVE FALSE
  <2> DEFINE D == {m.slot[k].start - m.slot[t].start :
                     t \in {x \in T : m.slot[x].start <= m.slot[k].start}}
  <2>1. m.slot[h].start <= m.slot[k].start
    BY <1>2, <1>6 DEF IsPartOf, Within
  <2>2. D \in SUBSET Nat
    BY <1>1, <1>3
  <2>3. D # {}
    <3>1. m.slot[k].start - m.slot[h].start \in D
      BY <1>1, <2>1
    <3> QED
      BY <3>1
  <2> HIDE DEF D
  <2>4. PICK d \in D : \A y \in D : d <= y
    BY <2>2, <2>3, LeastNat
  <2>5. PICK t \in T : m.slot[t].start <= m.slot[k].start /\ d = m.slot[k].start - m.slot[t].start
    BY <2>4 DEF D
  <2>6. \A x \in T : m.slot[x].start <= m.slot[k].start => m.slot[x].start <= m.slot[t].start
    <3> SUFFICES ASSUME NEW x \in T, m.slot[x].start <= m.slot[k].start
                 PROVE  m.slot[x].start <= m.slot[t].start
      OBVIOUS
    <3>1. m.slot[k].start - m.slot[x].start \in D
      BY DEF D
    <3>2. m.slot[k].start - m.slot[t].start <= m.slot[k].start - m.slot[x].start
      BY <2>4, <2>5, <3>1
    <3>3. x \in BlocksIn(m, q) /\ t \in BlocksIn(m, q)
      BY <1>1
    <3> QED
      BY <1>3, <3>2, <3>3
  <2>7. t \in BlocksIn(m, q) /\ t # k
    BY <1>1, <1>6
  <2>8. m.slot[t].end <= m.slot[k].start
    <3>1. ~ Overlap(m.slot[t], m.slot[k])
      BY <1>0, <1>2, <2>7, SameBlock
    <3> QED
      BY <1>3, <2>5, <2>7, <3>1 DEF Overlap
  <2>9. CASE m.slot[t].next = NullSlot
    <3>1. PICK w \in BlocksIn(m, m.pd[q].parent) : IsPartOf(m, q, t, w)
      BY <1>0, <1>2, <2>7 DEF Containment
    <3>2. /\ m.slot[w].start \in Nat /\ m.slot[w].end \in Nat /\ m.slot[w].start < m.slot[w].end
          /\ m.slot[e].start \in Nat /\ m.slot[e].end \in Nat /\ m.slot[e].start < m.slot[e].end
      BY <1>0, <1>2, BlockType, BlockRange
    <3>3. m.slot[w].start = m.slot[e].start /\ m.slot[t].end = m.slot[w].end
      BY <1>1, <2>9, <3>1 DEF IsPartOf
    <3>4. Overlap(m.slot[w], m.slot[e])
      BY <3>2, <3>3 DEF Overlap
    <3>5. w = e
      BY <1>0, <1>2, <3>4, SameBlock
    <3>6. m.slot[k].end <= m.slot[t].end
      BY <1>6, <3>3, <3>5 DEF IsPartOf, Within
    <3> QED
      BY <1>3, <2>7, <2>8, <3>6
  <2>10. CASE m.slot[t].next # NullSlot
    <3> DEFINE z == m.slot[t].next
    <3>1. z \in T /\ m.slot[z].start = m.slot[t].end
      BY <1>0, <1>1, <1>2, <2>7, <2>10 DEF Cuts
    <3> HIDE DEF z
    <3>2. m.slot[z].start <= m.slot[t].start
      BY <2>6, <2>8, <3>1
    <3> QED
      BY <1>3, <2>7, <3>1, <3>2
  <2> QED
    BY <2>9, <2>10
<1> QED
  BY <1>1, <1>2, <1>4, <1>5, <1>6

\* When they are accessible and not shared, they can go.
LEMMA SubblocksCanDrop ==
  ASSUME NEW m \in Good, NEW L \in SUBSET PDAddr, Consistent(m, L),
         NEW p \in L, NEW e \in BlocksIn(m, p), m.slot[e].inChild # NullSlot,
         NEW q, q = m.slot[e].PDchild, NEW h, h = m.slot[e].inChild,
         NEW T, T = Subblocks(m, h),
         \A f \in T : m.slot[f].accessible /\ m.slot[f].PDchild = Null
  PROVE  CanDrop(m, L, p, e, T)
<1>0. /\ Tree(m, L) /\ Structures(m, L) /\ Ranges(m, L) /\ Shares(m, L) /\ Containment(m, L)
  BY DEF Consistent
<1>1. /\ T \in SUBSET Slots /\ h \in T /\ T \subseteq BlocksIn(m, q)
      /\ \A f \in T : m.slot[f].origin = m.slot[e].start
      /\ \A f \in T : m.slot[f].next \in T \cup {NullSlot}
      /\ \A f \in T : f = h \/ \E g \in T : m.slot[g].next = f
  BY SubblocksAre
<1>2. /\ q \in L \ {RootPD} /\ m.pd[q].parent = p /\ m.slot[h].start = m.slot[e].start
  BY <1>0, CopyRange
<1>3. /\ \A f \in T : m.slot[f].start = m.slot[e].start => f = h
      /\ \A f \in T, g \in BlocksIn(m, q) : m.slot[g].next = f => f # h /\ g \in T
      /\ \A k \in BlocksIn(m, q) : IsPartOf(m, q, k, e) => k \in T
  BY SubblocksAll
<1>4. ASSUME NEW x \in L, NEW f \in BlocksIn(m, x), f \in T PROVE x = q
  <2>1. f \in SlotsOf(m, x) /\ f \in SlotsOf(m, q)
    BY <1>1, <1>2, <1>4, BlockType
  <2> QED
    BY <1>0, <1>2, <2>1, OnePartition
<1>5. p # q
  <2>1. {q} \in SUBSET (L \ {RootPD}) /\ {q} # {}
    BY <1>2
  <2>2. PICK y \in {q} : m.pd[y].parent \notin {q}
    BY <1>0, <2>1 DEF Tree
  <2> QED
    BY <1>2, <2>2
<1>6. e \notin T
  BY <1>4, <1>5
<1>7. ASSUME NEW x \in L, NEW f \in BlocksIn(m, x)
      PROVE  /\ f \in T => m.slot[f].accessible
             /\ m.slot[f].inChild \in T => f \in T \/ f = e
             /\ m.slot[f].next \in T => f \in T
  <2>1. ASSUME m.slot[f].inChild \in T PROVE f = e
    <3> DEFINE t == m.slot[f].inChild
    <3>1. t # NullSlot
      BY <1>1, <2>1, NullSlotNoSlot
    <3>2. m.slot[t].start = m.slot[f].start /\ m.slot[t].origin = m.slot[f].start
      BY <1>0, <3>1 DEF Shares, IsShared
    <3>3. t = h
      BY <1>1, <1>3, <2>1, <3>2
    <3>4. m.slot[f].inChild # NullSlot /\ m.slot[e].inChild = m.slot[f].inChild
      BY <3>1, <3>3
    <3> HIDE DEF t
    <3> QED
      BY <3>4, OneSharer
  <2>2. ASSUME m.slot[f].next \in T PROVE f \in T
    <3> DEFINE t == m.slot[f].next
    <3>1. t \in BlocksIn(m, x)
      <4>1. t # NullSlot
        BY <1>1, <2>2, NullSlotNoSlot
      <4> QED
        BY <4>1 DEF Consistent, Cuts
    <3>2. x = q
      BY <1>4, <2>2, <3>1
    <3> QED
      BY <1>3, <2>2, <3>2
  <2> QED
    BY <2>1, <2>2
<1>8. ASSUME NEW x \in L \ {RootPD}, NEW k \in BlocksIn(m, x),
             NEW w \in BlocksIn(m, m.pd[x].parent), IsPartOf(m, x, k, w), w \in T \/ w = e
      PROVE  k \in T
  <2>1. m.slot[w].PDchild = x
    BY <1>8 DEF IsPartOf
  <2>2. w = e
    BY <1>8, <2>1, NullOutside
  <2> QED
    BY <1>3, <1>8, <2>1, <2>2
<1> QED
  BY <1>1, <1>6, <1>7, <1>8 DEF CanDrop

\* The links freeSlots gives the slots of T, and where it ends.
LinkIn(m, T, head, f) ==
  LET before == {g \in T : m.slot[g].next = f}
  IN  IF before = {} THEN head ELSE CHOOSE g \in before : TRUE

LastOf(m, T) == {g \in T : m.slot[g].next \notin T}

\* Freed in the order of their cut links, they form a piece of a free list.
LEMMA SubblocksSegment ==
  ASSUME NEW m \in Good, NEW L \in SUBSET PDAddr, Consistent(m, L),
         NEW p \in L, NEW e \in BlocksIn(m, p), m.slot[e].inChild # NullSlot,
         NEW q, q = m.slot[e].PDchild, NEW h, h = m.slot[e].inChild,
         NEW T, T = Subblocks(m, h),
         NEW head, head \notin T,
         NEW nl, \A f \in T : nl[f] = LinkIn(m, T, head, f)
  PROVE  /\ LastOf(m, T) # {}
         /\ IsSegment(T, nl, CHOOSE g \in LastOf(m, T) : TRUE, head)
<1>0. Ranges(m, L) /\ Cuts(m, L) /\ Tree(m, L) /\ Shares(m, L) /\ Containment(m, L)
  BY DEF Consistent
<1>1. /\ T \in SUBSET Slots /\ h \in T /\ T \subseteq BlocksIn(m, q)
      /\ \A f \in T : m.slot[f].origin = m.slot[e].start
      /\ \A f \in T : m.slot[f].next \in T \cup {NullSlot}
      /\ \A f \in T : f = h \/ \E g \in T : m.slot[g].next = f
  BY ONLY m \in Good, L \in SUBSET PDAddr, Consistent(m, L), p \in L, e \in BlocksIn(m, p),
          m.slot[e].inChild # NullSlot, q = m.slot[e].PDchild, h = m.slot[e].inChild,
          T = Subblocks(m, h), SubblocksAre
<1> DEFINE last == LastOf(m, T)
           before(f) == {g \in T : m.slot[g].next = f}
<1>2. q \in L
  BY <1>0, CopyRange
<1>3. IsFiniteSet(T) /\ NullSlot \notin T
  BY <1>1, SlotsFinite, FS_Subset, NullSlotNoSlot
<1>4. ASSUME NEW f \in T
      PROVE  /\ m.slot[f].start \in 0 .. Top + 1
             /\ m.slot[f].next # NullSlot =>
                  m.slot[m.slot[f].next].start > m.slot[f].start
  <2>1. f \in BlocksIn(m, q)
    BY <1>1
  <2>2. /\ m.slot[f].start \in Nat /\ m.slot[f].end \in Nat
        /\ m.slot[f].start < m.slot[f].end /\ m.slot[f].end <= Top + 1
    BY <1>0, <1>2, <2>1, BlockType, BlockRange
  <2>3. m.slot[f].next # NullSlot => m.slot[m.slot[f].next].start = m.slot[f].end
    BY <1>0, <1>2, <2>1 DEF Cuts
  <2> QED
    BY <2>2, <2>3, ConstantsAssumption
<1>5. last # {}
  <2> DEFINE D == {Top + 1 - m.slot[t].start : t \in T}
  <2>1. D \in SUBSET Nat /\ D # {}
    BY <1>1, <1>4, ConstantsAssumption
  <2> HIDE DEF D
  <2>2. PICK d \in D : \A y \in D : d <= y
    BY <2>1, LeastNat
  <2>3. PICK t \in T : d = Top + 1 - m.slot[t].start
    BY <2>2 DEF D
  <2>4. m.slot[t].next \notin T
    <3> SUFFICES ASSUME m.slot[t].next \in T PROVE FALSE
      OBVIOUS
    <3> DEFINE z == m.slot[t].next
    <3>1. z \in T /\ m.slot[z].start > m.slot[t].start /\ m.slot[z].start \in 0 .. Top + 1
      BY <1>3, <1>4
    <3> HIDE DEF z
    <3>2. Top + 1 - m.slot[z].start \in D
      BY <3>1 DEF D
    <3>3. Top + 1 - m.slot[t].start <= Top + 1 - m.slot[z].start
      BY <2>2, <2>3, <3>2
    <3> QED
      BY <1>4, <3>1, <3>3, ConstantsAssumption
  <2> QED
    BY <2>4 DEF LastOf
<1> DEFINE a == CHOOSE g \in last : TRUE
<1>6. a \in T /\ m.slot[a].next \notin T
  <2>1. a \in last
    BY <1>5
  <2> HIDE DEF a
  <2> QED
    BY <2>1 DEF LastOf
<1> HIDE DEF a
<1>7. ASSUME NEW f \in T
      PROVE  \/ f = h /\ nl[f] = head
             \/ nl[f] \in T /\ m.slot[nl[f]].next = f
  <2>0. nl[f] = IF before(f) = {} THEN head ELSE CHOOSE g \in before(f) : TRUE
    BY DEF LinkIn
  <2>1. CASE before(f) = {}
    BY <1>1, <2>0, <2>1
  <2>2. CASE before(f) # {}
    <3> DEFINE g == CHOOSE x \in before(f) : TRUE
    <3>1. g \in before(f) /\ nl[f] = g
      BY <2>0, <2>2
    <3> HIDE DEF g
    <3> QED
      BY <3>1
  <2> QED
    BY <2>1, <2>2
<1>8. \A f \in T : nl[f] \in (T \cup {head}) \ {a}
  BY <1>6, <1>7
<1>9. \A f, g \in T : nl[f] = nl[g] => f = g
  BY <1>7
<1>10. ASSUME NEW S \in SUBSET T, S # {} PROVE \E f \in S : nl[f] \notin S
  <2> DEFINE D == {m.slot[t].start : t \in S}
  <2>1. D \in SUBSET Nat /\ D # {}
    BY <1>4, <1>10
  <2> HIDE DEF D
  <2>2. PICK d \in D : \A y \in D : d <= y
    BY <2>1, LeastNat
  <2>3. PICK t \in S : d = m.slot[t].start
    BY <2>2 DEF D
  <2>4. nl[t] \notin S
    <3> SUFFICES ASSUME nl[t] \in S PROVE FALSE
      OBVIOUS
    <3> DEFINE g == nl[t]
    <3>1. g \in T /\ m.slot[g].next = t
      BY <1>7
    <3>2. m.slot[t].start > m.slot[g].start /\ m.slot[g].start \in D
      BY <1>3, <1>4, <3>1 DEF D
    <3>3. m.slot[t].start <= m.slot[g].start
      BY <2>2, <2>3, <3>2
    <3> HIDE DEF g
    <3>4. m.slot[t].start \in Int /\ m.slot[g].start \in Int
      BY <1>4, <3>1
    <3> QED
      BY <3>2, <3>3, <3>4
  <2> QED
    BY <2>4
<1>11. IsSegment(T, nl, a, head)
  BY <1>3, <1>6, <1>8, <1>9, <1>10 DEF IsSegment
<1> QED
  BY <1>5, <1>11 DEF a

\* A search and a climb look at ranges and parents only.
LEMMA SameSearch ==
  ASSUME NEW m \in Good, NEW n \in Good, n.pd = m.pd,
         \A f \in Slots : /\ n.slot[f].start = m.slot[f].start
                          /\ n.slot[f].end = m.slot[f].end
                          /\ n.slot[f].present = m.slot[f].present,
         NEW s, NEW t
  PROVE  /\ \A q \in PDAddr : findExactBlockInKS(n, q, s, t) = findExactBlockInKS(m, q, s, t)
         /\ \A p : Above(n, p, s, t) = Above(m, p, s, t)
<1>1. ASSUME NEW q \in PDAddr
      PROVE  findExactBlockInKS(n, q, s, t) = findExactBlockInKS(m, q, s, t)
  <2> DEFINE hits  == {e \in SlotsOf(m, q) : m.slot[e].present
                                             /\ m.slot[e].start = s /\ m.slot[e].end = t}
             first == {e \in hits : \A f \in hits : ~ Precedes(m, q, f, e)}
             hitsn == {e \in SlotsOf(n, q) : n.slot[e].present
                                             /\ n.slot[e].start = s /\ n.slot[e].end = t}
             firstn == {e \in hitsn : \A f \in hitsn : ~ Precedes(n, q, f, e)}
  <2>1. findExactBlockInKS(m, q, s, t)
          = IF first = {} THEN NullSlot ELSE CHOOSE e \in first : TRUE
    BY DEF findExactBlockInKS, FirstMatch
  <2>2. findExactBlockInKS(n, q, s, t)
          = IF firstn = {} THEN NullSlot ELSE CHOOSE e \in firstn : TRUE
    BY DEF findExactBlockInKS, FirstMatch
  <2>3. SlotsOf(n, q) = SlotsOf(m, q) /\ \A f, e : Precedes(n, q, f, e) <=> Precedes(m, q, f, e)
    BY DEF SlotsOf, Precedes
  <2>4. SlotsOf(m, q) \subseteq Slots
    BY SlotsOfType
  <2>5. hitsn = hits
    BY <2>3, <2>4
  <2> HIDE DEF hits, hitsn
  <2>6. firstn = first
    BY <2>3, <2>5
  <2> HIDE DEF first, firstn
  <2> QED
    BY <2>1, <2>2, <2>6
<1>2. Up(n, s, t) = Up(m, s, t)
  <2>1. ASSUME NEW q \in PDAddr PROVE m.pd[q].parent # Null => m.pd[q].parent \in PDAddr
    BY DEF Good, GoodPD, Descriptor
  <2> QED
    BY <1>1, <2>1 DEF Up
<1>3. ASSUME NEW p PROVE Above(n, p, s, t) = Above(m, p, s, t)
  BY <1>2 DEF Above, Up
<1> QED
  BY <1>1, <1>3

\* Block e is no longer shared.
Unshare(m, e) == [m EXCEPT !.slot[e] = Unshared(@)]

\* The ancestors of p get their blocks of this range back.
Showing(m, p, s, t) == writeAccessibleRec(m, p, s, t, TRUE)

\* Unshare changes nothing else.
LEMMA UnshareEffect ==
  ASSUME NEW m \in Good, NEW e \in Slots
  PROVE  LET n == Unshare(m, e)
         IN  /\ n \in Good /\ n.pd = m.pd /\ n.slot[e] = Unshared(m.slot[e])
             /\ \A f \in Slots : f # e => n.slot[f] = m.slot[f]
<1> DEFINE n == Unshare(m, e)
           u == Unshared(m.slot[e])
           g == [m.slot EXCEPT ![e] = u]
<1>1. /\ n = [m EXCEPT !.slot = g] /\ u \in Entry
      /\ m.slot \in [Slots -> Entry] /\ m = [slot |-> m.slot, pd |-> m.pd]
  BY UnsharedType DEF Good, Unshare
<1> HIDE DEF n, u
<1>2. /\ g \in [Slots -> Entry] /\ g[e] = u
      /\ \A f \in Slots : f # e => g[f] = m.slot[f]
  BY <1>1
<1> HIDE DEF g
<1>3. n.slot = g /\ n.pd = m.pd /\ n \in Good
  BY <1>1, <1>2 DEF Good
<1> QED
  BY <1>2, <1>3 DEF n, u

\* Showing the ancestors' blocks and clearing the share commute.
LEMMA ShowThenUnshare ==
  ASSUME NEW m \in Good, NEW p \in PDAddr, NEW e \in Slots, m.slot[e].accessible,
         NEW s, NEW t
  PROVE  Unshare(Showing(m, p, s, t), e) = Showing(Unshare(m, e), p, s, t)
<1> DEFINE b  == m.slot[e]
           u  == Unshared(b)
           n  == Unshare(m, e)
           w  == writeAccessibleRec(m, p, s, t, TRUE)
           o  == writeAccessibleRec(n, p, s, t, TRUE)
           H  == {findExactBlockInKS(m, q, s, t) : q \in Above(m, p, s, t)}
           Hn == {findExactBlockInKS(n, q, s, t) : q \in Above(n, p, s, t)}
           Show(x) == [x EXCEPT !.accessible = TRUE]
<1>1. b \in Entry /\ b.accessible = TRUE /\ u \in Entry
  <2>1. b \in Entry
    BY DEF Good
  <2> HIDE DEF b
  <2>2. b.accessible \in BOOLEAN /\ u \in Entry
    BY <2>1, UnsharedType DEF Entry
  <2> QED
    BY <2>1, <2>2 DEF b
<1>2. /\ u.start = b.start /\ u.end = b.end /\ u.present = b.present
      /\ u.accessible = TRUE
  <2> HIDE DEF b
  <2> QED
    BY <1>1 DEF Unshared, Entry
<1>3. Show(b) = b /\ Show(u) = u
  <2> HIDE DEF b, u
  <2> QED
    BY <1>1, <1>2 DEF Entry
<1> HIDE DEF b, n
<1>5. /\ n \in Good /\ n.pd = m.pd /\ n.slot[e] = u
      /\ \A f \in Slots : f # e => n.slot[f] = m.slot[f]
  BY UnshareEffect DEF n, b
<1> HIDE DEF u
<1>6. /\ \A q \in PDAddr : findExactBlockInKS(n, q, s, t) = findExactBlockInKS(m, q, s, t)
      /\ Above(n, p, s, t) = Above(m, p, s, t)
  <2>1. \A f \in Slots : /\ n.slot[f].start = m.slot[f].start
                         /\ n.slot[f].end = m.slot[f].end
                         /\ n.slot[f].present = m.slot[f].present
    BY <1>2, <1>5 DEF b
  <2>2. n \in Good /\ n.pd = m.pd
    BY <1>5
  <2>3. /\ \A q \in PDAddr : findExactBlockInKS(n, q, s, t) = findExactBlockInKS(m, q, s, t)
        /\ \A x : Above(n, x, s, t) = Above(m, x, s, t)
    BY ONLY m \in Good, <2>1, <2>2, SameSearch
  <2> QED
    BY <2>3
<1>7. Hn = H
  <2>1. Above(m, p, s, t) \subseteq PDAddr
    BY DEF Above
  <2> QED
    BY <1>6, <2>1
<1>8. /\ w.slot = [f \in Slots |-> IF f \in H THEN Show(m.slot[f]) ELSE m.slot[f]]
      /\ w.pd = [q \in PDAddr |-> m.pd[q]]
      /\ w = [slot |-> w.slot, pd |-> w.pd]
  BY DEF writeAccessibleRec
<1>9. /\ o.slot = [f \in Slots |-> IF f \in Hn THEN Show(n.slot[f]) ELSE n.slot[f]]
      /\ o.pd = [q \in PDAddr |-> n.pd[q]]
      /\ o = [slot |-> o.slot, pd |-> o.pd]
  BY DEF writeAccessibleRec
<1> HIDE DEF H, Hn, w, o
<1>10. w.slot[e] = b
  BY <1>3, <1>8 DEF b
<1>11. [w.slot EXCEPT ![e] = u] = o.slot
  <2> DEFINE g == [w.slot EXCEPT ![e] = u]
  <2>1. g = [f \in Slots |-> IF f = e THEN u ELSE w.slot[f]]
    BY <1>8
  <2> HIDE DEF g
  <2>2. ASSUME NEW f \in Slots
        PROVE  (IF f = e THEN u ELSE w.slot[f])
                 = (IF f \in Hn THEN Show(n.slot[f]) ELSE n.slot[f])
    <3> HIDE DEF Show
    <3>1. CASE f = e
      BY <1>3, <1>5, <3>1
    <3>2. CASE f # e
      BY <1>5, <1>7, <1>8, <3>2
    <3> QED
      BY <3>1, <3>2
  <2> HIDE DEF Show
  <2> QED
    BY <1>9, <2>1, <2>2 DEF g
<1>12. Unshare(w, e) = o
  <2>1. [w EXCEPT !.slot[e] = Unshared(@)] = [slot |-> [w.slot EXCEPT ![e] = u], pd |-> w.pd]
    <3> DEFINE W == [w EXCEPT !.slot[e] = Unshared(@)]
               ws == w.slot
               wp == w.pd
    <3>1. Unshared(w.slot[e]) = u
      BY <1>10 DEF u
    <3>2. w = [slot |-> ws, pd |-> wp]
      BY <1>8
    <3>3. W = [w EXCEPT !.slot = [ws EXCEPT ![e] = u]]
      BY <3>1
    <3> HIDE DEF ws, wp, W
    <3>4. W = [slot |-> [ws EXCEPT ![e] = u], pd |-> wp]
      BY <3>2, <3>3
    <3> QED
      BY <3>4 DEF ws, wp, W
  <2>2. w.pd = o.pd
    BY <1>5, <1>8, <1>9
  <2> QED
    BY <1>9, <1>11, <2>1, <2>2 DEF Unshare
<1> QED
  BY <1>12 DEF n, w, o, Showing

\* removeMemoryBlock of a block the child has cut, when it completes.
LEMMA removeCutBlockSound ==
  ASSUME IInv, NEW L \in SUBSET PDAddr, Consistent(Mem, L), Guarded(Mem, L),
         NEW c \in L, NEW e \in SlotsOf(Mem, c), removeCutBlock(c, e),
         slot'[e].PDchild = Null
  PROVE  SoundFor(Mem', c, L) /\ Removed(Mem, Mem', L, c, e)
<1> DEFINE b  == slot[e]
           q  == b.PDchild
           h  == b.inChild
           T  == Subblocks(Mem, h)
           m1 == freeSlots(Mem, q, T)
           m2 == [m1 EXCEPT !.slot[e].accessible = TRUE]
           s  == b.start
           t  == m2.slot[e].end
           m3 == writeAccessibleRec(m2, c, s, t, TRUE)
           n  == Unshare(m2, e)
           o  == writeAccessibleRec(n, c, s, t, TRUE)
<1>0. /\ Mem \in Good /\ Mem.slot = slot /\ Mem.pd = pd /\ e \in Slots /\ b \in Entry
      /\ c \in PDAddr
  BY SMTT(30), CallerType
<1> DEFINE final == IF ReachesRoot(m2, c, s, t) THEN Unshare(m3, e) ELSE m3
<1>a. /\ IsRemovable(c, e) /\ Commit(final)
      /\ \A f \in T : slot[f].accessible /\ slot[f].present /\ NotShared(slot[f])
  <2>1. IsRemovable(c, e)
    BY ZenonT(30) DEF removeCutBlock
  <2>2. \A f \in T : slot[f].accessible /\ slot[f].present /\ NotShared(slot[f])
    BY ZenonT(30) DEF removeCutBlock
  <2>3. Commit(final)
    BY ZenonT(30) DEF removeCutBlock, Unshare
  <2> QED
    BY ZenonT(30), <2>1, <2>2, <2>3
<1> HIDE DEF T, m1, m2, m3, n, o, final
<1>1. /\ e \in BlocksIn(Mem, c) /\ b.present /\ q # Null /\ h # NullSlot
      /\ \A f \in T : slot[f].accessible /\ slot[f].present /\ slot[f].PDchild = Null
  BY <1>0, <1>a DEF IsRemovable, IsFound, BlocksIn, NotShared
<1>b. Mem.slot[e].inChild # NullSlot /\ q = Mem.slot[e].PDchild /\ h = Mem.slot[e].inChild
  BY <1>0, <1>1
<1>2. /\ Tree(Mem, L) /\ Structures(Mem, L) /\ Ranges(Mem, L) /\ Shares(Mem, L)
      /\ Containment(Mem, L) /\ FreeLists(Mem, L) /\ MPUMapsAccessible(Mem, L)
  BY DEF Consistent, Guarded
<1>3. /\ T \in SUBSET Slots /\ h \in T /\ T \subseteq BlocksIn(Mem, q)
      /\ q \in L \ {RootPD} /\ q \in PDAddr
  <2>1. Mem.slot[e] = b
    BY <1>0
  <2> HIDE DEF b, T
  <2>2. LET q0 == Mem.slot[e].PDchild
            h0 == Mem.slot[e].inChild
            T0 == Subblocks(Mem, h0)
        IN  /\ T0 \in SUBSET Slots /\ h0 \in T0 /\ T0 \subseteq BlocksIn(Mem, q0)
            /\ \A f \in T0 : Mem.slot[f].origin = Mem.slot[e].start
            /\ \A f \in T0 : Mem.slot[f].next \in T0 \cup {NullSlot}
            /\ \A f \in T0 : f = h0 \/ \E g \in T0 : Mem.slot[g].next = f
    BY <1>0, <1>1, <2>1, SubblocksAre
  <2>3. q \in L /\ Mem.pd[q].parent = c
    BY <1>1, <1>2, <1>b DEF Shares
  <2>4. q # RootPD
    BY <1>0, <1>2, <2>3, NullOutside DEF Tree
  <2> QED
    BY <2>1, <2>2, <2>3, <2>4 DEF T
<1>4. CanDrop(Mem, L, c, e, T)
  <2> DEFINE m == Mem
  <2>1. m.slot[e].inChild # NullSlot /\ q = m.slot[e].PDchild /\ h = m.slot[e].inChild
    BY <1>b
  <2>2. \A f \in T : m.slot[f].accessible /\ m.slot[f].PDchild = Null
    BY <1>0, <1>1
  <2>3. T = Subblocks(m, h)
    BY DEF T
  <2>4. m \in Good /\ Consistent(m, L) /\ e \in BlocksIn(m, c)
    BY <1>0, <1>1
  <2> HIDE DEF q, h, b, m
  <2>5. CanDrop(m, L, c, e, T)
    BY ONLY L \in SUBSET PDAddr, c \in L, <2>1, <2>2, <2>3, <2>4, SubblocksCanDrop
  <2> QED
    BY <2>5 DEF m
<1> DEFINE last == LastOf(Mem, T)
           head == pd[q].firstFree
           nl   == [f \in T |-> LinkIn(Mem, T, head, f)]
           a    == CHOOSE g \in last : TRUE
<1>5. /\ m1 \in Good
      /\ \A f \in Slots : f \notin T => m1.slot[f] = slot[f]
      /\ \A f \in T : m1.slot[f] = FreeEntry(LinkIn(Mem, T, head, f))
      /\ Pushed(Mem, m1, q, T, IF last = {} THEN head ELSE a)
  <2> DEFINE bef(f) == {g \in T : Mem.slot[g].next = f}
             m == Mem
  <2>1. /\ m1 \in Good
        /\ \A f \in Slots : f \notin T => m1.slot[f] = m.slot[f]
        /\ \A f \in T : m1.slot[f] =
             FreeEntry(IF bef(f) = {} THEN m.pd[q].firstFree ELSE CHOOSE g \in bef(f) : TRUE)
        /\ Pushed(m, m1, q, T, IF last = {} THEN m.pd[q].firstFree ELSE a)
    <3>1. m \in Good /\ q \in PDAddr /\ T \in SUBSET Slots
      BY <1>0, <1>3
    <3> HIDE DEF q, T, m
    <3> QED
      BY <3>1, FreedEffect DEF m1, m, LastOf
  <2> HIDE DEF q
  <2> QED
    BY <1>0, <2>1 DEF LinkIn, LastOf
<1>6. /\ e \notin T /\ head \notin T
  <2>1. e \notin T
    BY <1>4 DEF CanDrop
  <2>2. head \in FreeIn(Mem, q) \cup {NullSlot}
    BY <1>0, <1>2, <1>3 DEF FreeLists, FreeListOK
  <2>3. NullSlot \notin T /\ \A f \in T : f \notin FreeIn(Mem, q)
    BY <1>3, NullSlotNoSlot DEF BlocksIn, FreeIn
  <2> QED
    BY <2>1, <2>2, <2>3
<1>7. last # {} /\ IsSegment(T, nl, a, head)
  <2> DEFINE m == Mem
  <2>1. m.slot[e].inChild # NullSlot /\ q = m.slot[e].PDchild /\ h = m.slot[e].inChild
    BY <1>b
  <2>2. T = Subblocks(m, h)
    BY DEF T
  <2>4. \A f \in T : nl[f] = LinkIn(m, T, head, f)
    OBVIOUS
  <2>5. last = LastOf(m, T)
    OBVIOUS
  <2>6. m \in Good /\ Consistent(m, L) /\ e \in BlocksIn(m, c)
    BY <1>0, <1>1
  <2>7. head \notin T
    BY <1>6
  <2> HIDE DEF q, h, b, m, last, nl, head
  <2>8. LastOf(m, T) # {} /\ IsSegment(T, nl, CHOOSE g \in LastOf(m, T) : TRUE, head)
    BY ONLY SMTT(30), L \in SUBSET PDAddr, c \in L, <2>1, <2>2, <2>4, <2>6, <2>7, SubblocksSegment
  <2> QED
    BY <2>5, <2>8
<1>8. /\ \A f \in T : m1.slot[f] = FreeEntry(nl[f])
      /\ Pushed(Mem, m1, q, T, a)
  BY <1>5, <1>7
<1> HIDE DEF nl, last, a, head
<1> DEFINE b2 == [b EXCEPT !.accessible = TRUE]
<1>9. /\ m2 \in Good /\ m2.pd = m1.pd /\ m2.slot[e] = b2
      /\ \A f \in Slots : f # e => m2.slot[f] = m1.slot[f]
  <2> DEFINE g == m1.slot
             y == b2
             k == [g EXCEPT ![e] = y]
  <2>1. m1.slot[e] = b
    BY <1>0, <1>5, <1>6
  <2>2. g \in [Slots -> Entry] /\ y \in Entry
    <3> HIDE DEF b
    <3> QED
      BY <1>0, <1>5 DEF Good, Entry
  <2>3. m2 = [m1 EXCEPT !.slot = k]
    BY <1>0, <1>5, <2>1 DEF Good, m2
  <2> HIDE DEF y, g
  <2>4. k \in [Slots -> Entry] /\ k[e] = y /\ \A f \in Slots : f # e => k[f] = g[f]
    BY <1>0, <2>2
  <2> HIDE DEF k
  <2>5. m2 \in Good /\ m2.pd = m1.pd /\ m2.slot = k
    BY <1>5, <2>3, <2>4 DEF Good
  <2> QED
    BY <2>4, <2>5 DEF y, g
<1>10. /\ b2 \in Entry /\ b2.accessible = TRUE /\ b2.start = b.start /\ b2.end = b.end
       /\ b2.origin = b.origin /\ b2.rights = b.rights /\ b2.present = b.present
       /\ b2.PDchild = b.PDchild /\ b2.next = b.next
  <2> HIDE DEF b
  <2> QED
    BY <1>0 DEF Entry
<1> HIDE DEF b2
<1>11. t = b.end
  BY <1>9, <1>10
<1>12. /\ n \in Good /\ n.pd = m2.pd /\ n.slot[e] = Unshared(b2)
       /\ \A f \in Slots : f # e => n.slot[f] = m2.slot[f]
       /\ Unshare(m3, e) = o
  <2>1. m2 \in Good /\ e \in Slots /\ c \in PDAddr /\ m2.slot[e].accessible
    BY <1>0, <1>9, <1>10
  <2> HIDE DEF s, t
  <2>2. LET w == Unshare(m2, e)
        IN  /\ w \in Good /\ w.pd = m2.pd /\ w.slot[e] = Unshared(m2.slot[e])
            /\ \A f \in Slots : f # e => w.slot[f] = m2.slot[f]
    BY ONLY <2>1, UnshareEffect
  <2>4. Unshare(Showing(m2, c, s, t), e) = Showing(Unshare(m2, e), c, s, t)
    BY ONLY <2>1, ShowThenUnshare
  <2>3. /\ n \in Good /\ n.pd = m2.pd /\ n.slot[e] = Unshared(m2.slot[e])
        /\ \A f \in Slots : f # e => n.slot[f] = m2.slot[f]
        /\ Unshare(m3, e) = o
    BY <2>2, <2>4 DEF n, m3, o, Showing
  <2> QED
    BY <1>9, <2>3
<1>13. /\ n.slot[e].start = b.start /\ n.slot[e].end = b.end
       /\ n.slot[e].origin = b.origin /\ n.slot[e].rights = b.rights
       /\ n.slot[e].present /\ n.slot[e].accessible /\ n.slot[e].next = b.next
       /\ n.slot[e].PDchild = Null /\ n.slot[e].inChild = NullSlot /\ ~ n.slot[e].PDflag
  BY ZenonT(30), <1>1, <1>10, <1>12 DEF Unshared, Entry
<1>14. Kept(Mem, n, L, T \cup {e})
  <2>1. ASSUME NEW x \in L
        PROVE  n.pd[x].parent = Mem.pd[x].parent /\ n.pd[x].structs = Mem.pd[x].structs
    BY <1>8, <1>9, <1>12 DEF Pushed, PushedAt
  <2>2. ASSUME NEW f \in Slots \ (T \cup {e}) PROVE n.slot[f] = Mem.slot[f]
    BY <1>0, <1>5, <1>9, <1>12
  <2> QED
    BY <2>1, <2>2 DEF Kept
<1>15. \A f \in T : n.slot[f] = FreeEntry(nl[f]) /\ ~ n.slot[f].present
  <2>1. \A f \in T : n.slot[f] = FreeEntry(nl[f])
    BY <1>3, <1>6, <1>8, <1>9, <1>12
  <2> QED
    BY <2>1 DEF FreeEntry
<1>16. IsDrop(Mem, n, L, e, T)
  <2>1. ASSUME NEW x \in L, NEW r \in Regions, n.pd[x].mpu[r] # NullSlot
        PROVE  n.pd[x].mpu[r] = Mem.pd[x].mpu[r] /\ n.pd[x].mpu[r] \notin T
    <3>1. CASE x = q
      BY <1>8, <1>9, <1>12, <2>1, <3>1 DEF Pushed, PushedAt
    <3>2. CASE x # q
      <4>1. n.pd[x] = Mem.pd[x]
        BY <1>8, <1>9, <1>12, <3>2 DEF Pushed
      <4> DEFINE f == Mem.pd[x].mpu[r]
      <4>2. f \in SlotsOf(Mem, x)
        BY <1>2, <2>1, <4>1 DEF MPUMapsAccessible, BlocksIn
      <4> HIDE DEF f
      <4>3. f \in T => f \in SlotsOf(Mem, q)
        BY <1>3 DEF BlocksIn
      <4>4. f \notin T
        BY <1>2, <1>3, <3>2, <4>2, <4>3, OnePartition
      <4> QED
        BY <4>1, <4>4 DEF f
    <3> QED
      BY <3>1, <3>2
  <2> QED
    BY <1>0, <1>13, <1>14, <1>15, <2>1 DEF IsDrop
<1>17. FreeLists(n, L)
  <2> SUFFICES ASSUME NEW x \in L PROVE FreeListOK(n, x)
    BY DEF FreeLists
  <2>1. x \in PDAddr /\ FreeListOK(Mem, x) /\ IsFiniteSet(FreeIn(Mem, x))
        /\ FreeIn(Mem, x) \subseteq Slots
    BY <1>0, <1>2, FreeType DEF FreeLists
  <2> DEFINE U == T \cup {e}
  <2>2. /\ SlotsOf(n, x) = SlotsOf(Mem, x)
        /\ \A f : f \notin U => (f \in FreeIn(n, x) <=> f \in FreeIn(Mem, x))
    <3> DEFINE m == Mem
    <3>1. Kept(m, n, L, U)
      BY <1>14
    <3>2. x \in L
      OBVIOUS
    <3>4. m \in Good
      BY <1>0
    <3>5. n \in Good
      BY <1>12
    <3> HIDE DEF U, m
    <3>3. /\ StructsOf(n, x) = StructsOf(m, x) /\ SlotsOf(n, x) = SlotsOf(m, x)
          /\ SlotsOf(m, x) \subseteq Slots
          /\ \A f : f \notin U => /\ f \in BlocksIn(n, x) <=> f \in BlocksIn(m, x)
                                  /\ f \in FreeIn(n, x) <=> f \in FreeIn(m, x)
          /\ \A f \in SlotsOf(m, x) : f \notin U => n.slot[f] = m.slot[f]
      BY ONLY L \in SUBSET PDAddr, <3>1, <3>2, <3>4, <3>5, KeptSlots
    <3> QED
      BY <3>3 DEF m
  <2>3. e \notin FreeIn(Mem, x) /\ e \notin FreeIn(n, x)
    BY <1>0, <1>1, <1>13 DEF FreeIn
  <2>4. \A f \in T : f \in SlotsOf(Mem, q) /\ f \notin FreeIn(Mem, x)
    BY <1>3 DEF BlocksIn, FreeIn
  <2>5. \A f \in FreeIn(Mem, x) : f \notin U /\ n.slot[f] = Mem.slot[f]
    BY <1>14, <2>1, <2>3, <2>4 DEF Kept
  <2>6. CASE x # q
    <3>1. \A f \in T : f \notin FreeIn(n, x)
      <4>1. \A f \in T : f \notin SlotsOf(Mem, x)
        BY <1>2, <1>3, <2>4, <2>6, OnePartition
      <4> QED
        BY <2>2, <4>1 DEF FreeIn
    <3>2. FreeIn(n, x) = FreeIn(Mem, x)
      BY <2>2, <2>3, <2>4, <3>1
    <3>3. n.pd[x] = Mem.pd[x]
      BY <1>8, <1>9, <1>12, <2>1, <2>6 DEF Pushed
    <3> QED
      BY <2>1, <2>5, <3>2, <3>3, FreeListFrame
  <2>7. CASE x = q
    <3>1. FreeIn(n, q) = FreeIn(Mem, q) \cup T /\ T \cap FreeIn(Mem, q) = {}
      <4>1. \A f \in T : f \in FreeIn(n, q)
        BY <1>15, <2>2, <2>4, <2>7 DEF FreeIn
      <4> QED
        BY <2>2, <2>3, <2>4, <2>7, <4>1
    <3>2. /\ n.pd[q].firstFree = a /\ n.pd[q].nbFree = Mem.pd[q].nbFree + Cardinality(T)
      BY <1>8, <1>9, <1>12 DEF Pushed, PushedAt
    <3>3. IsSegment(T, nl, a, Mem.pd[q].firstFree)
      BY <1>0, <1>7 DEF head
    <3>4. FreeListOK(n, q)
      BY <1>15, <2>1, <2>5, <2>7, <3>1, <3>2, <3>3, FreePush
    <3> QED
      BY <2>7, <3>4
  <2> QED
    BY <2>6, <2>7
<1>18. Consistent(n, L) /\ Guarded(n, L)
  BY <1>0, <1>1, <1>4, <1>12, <1>16, <1>17, DropKeeps
<1>19. e \in BlocksIn(n, c)
  <2>1. e \in SlotsOf(Mem, c) /\ n.pd[c].structs = Mem.pd[c].structs
    BY <1>14 DEF Kept
  <2> QED
    BY <1>13, <2>1 DEF BlocksIn, SlotsOf
<1>20. o \in Good /\ Consistent(o, L) /\ Guarded(o, L)
       /\ SameShape(n, o, L) /\ Opened(n, o, L, Extent(n, e))
       /\ (OpenBut(n, L, {e}) => OpenAbove(o, L))
  <2>1. n.slot[e].start = s /\ n.slot[e].end = t
    BY <1>11, <1>13
  <2> HIDE DEF s, t
  <2>2. LET w == writeAccessibleRec(n, c, s, t, TRUE)
        IN  w \in Good /\ SameShape(n, w, L) /\ Consistent(w, L) /\ Guarded(w, L)
            /\ Shows(n, w, L, Hits(n, c, s, t))
    BY <1>12, <1>13, <1>18, <1>19, <2>1, ShowAbove
  <2>3. Opened(n, o, L, Extent(n, e))
    BY <1>12, <1>18, <1>19, <2>1, <2>2, ShownMemory DEF o
  <2>4. OpenBut(n, L, {e}) => OpenAbove(o, L)
    BY <1>12, <1>13, <1>18, <1>19, <2>1, <2>2, ShownStaysOpen DEF o
  <2> QED
    BY <2>2, <2>3, <2>4 DEF o
<1>21. m3.slot[e].PDchild = b.PDchild
  <2> DEFINE H == {findExactBlockInKS(m2, x, s, t) : x \in Above(m2, c, s, t)}
  <2>1. m3.slot[e] = IF e \in H THEN [b2 EXCEPT !.accessible = TRUE] ELSE b2
    BY <1>0, <1>9 DEF writeAccessibleRec, m3
  <2> HIDE DEF H
  <2> QED
    BY <1>10, <2>1 DEF Entry
<1>22. ReachesRoot(m2, c, s, t)
  <2> SUFFICES ASSUME ~ ReachesRoot(m2, c, s, t) PROVE FALSE
    OBVIOUS
  <2>1. Commit(m3)
    BY <1>a DEF final
  <2> QED
    BY <1>1, <1>21, <2>1 DEF Commit
<1>23. Commit(o)
  BY <1>a, <1>12, <1>22 DEF final
<1>24. Dropped(Mem, n, L, c, e)
  <2>1. ASSUME NEW x \in L, NEW f \in BlocksIn(Mem, x), f \in T
        PROVE  Within(Mem.slot[f], Mem.slot[e])
    BY <1>0, <1>1, <1>b, <2>1, SubblockWithin DEF T
  <2> QED
    BY <1>0, <1>1, <1>b, <1>4, <1>12, <1>16, <2>1, DropMemory
<1>25. Dropped(Mem, o, L, c, e)
  BY <1>12, <1>20, <1>24, DroppedShown
<1>26. SoundFor(Mem', c, L) /\ Mem' = o
  BY <1>20, <1>23, CommitSound
<1>27. StaysOpen(Mem, o, L, L)
  <2> SUFFICES ASSUME OpenAbove(Mem, L) PROVE OpenBut(n, L, {e})
    BY <1>20 DEF StaysOpen
  <2> DEFINE U == T \cup {e}
             W == {e}
  <2>1. \A x \in L : \A f \in BlocksIn(n, x) : f \in U =>
          n.slot[f].inChild = NullSlot /\ f \in W
    BY <1>13, <1>15 DEF BlocksIn
  <2> HIDE DEF U, W
  <2>2. OpenBut(n, L, W)
    BY <1>0, <1>12, <1>14, <1>18, <2>1, KeptOpenBut DEF U, Loosened
  <2> QED
    BY <2>2 DEF W
<1>28. Extent(Mem, e) \subseteq OpenIn(o, c)
  <2>1. Extent(n, e) = Extent(Mem, e)
    BY <1>24 DEF Dropped, Extent, SameRange
  <2>2. n.slot[e].accessible /\ Ranges(n, L)
    BY <1>13, <1>18 DEF Consistent
  <2>3. Extent(n, e) \subseteq OpenIn(n, c)
    BY <1>12, <1>19, <2>2, ExtentIn
  <2> QED
    BY <1>20, <2>1, <2>3 DEF Opened
<1> QED
  BY <1>20, <1>25, <1>26, <1>27, <1>28 DEF Removed

-----------------------------------------------------------------------------
(* delete.                                                                 *)

\* K is L without q and its descendants.
IsPruned(m, L, q, K) ==
  /\ K \in SUBSET L /\ RootPD \in K /\ q \in L \ K /\ m.pd[q].parent \in K
  /\ \A x \in K \ {RootPD} : m.pd[x].parent \in K
  /\ \A x \in L \ K : x = q \/ m.pd[x].parent \notin K

\* There is such a set.
LEMMA Pruned ==
  ASSUME NEW m, NEW L, Tree(m, L), NEW q \in L \ {RootPD}
  PROVE  \E K : IsPruned(m, L, q, K)
<1> DEFINE Closed(S) == q \in S /\ \A y \in L \ {RootPD} : m.pd[y].parent \in S => y \in S
           D == {x \in L : \A S \in SUBSET L : Closed(S) => x \in S}
           K == L \ D
<1>0. /\ RootPD \in L /\ \A y \in L \ {RootPD} : m.pd[y].parent \in L
      /\ \A S \in SUBSET (L \ {RootPD}) : S # {} => \E y \in S : m.pd[y].parent \notin S
  BY DEF Tree
<1>1. q \in D /\ D \subseteq L
  OBVIOUS
<1>2. ASSUME NEW y \in L \ {RootPD}, m.pd[y].parent \in D PROVE y \in D
  <2> SUFFICES ASSUME NEW S \in SUBSET L, Closed(S) PROVE y \in S
    OBVIOUS
  <2>1. m.pd[y].parent \in S
    BY <1>2
  <2> QED
    BY <2>1
<1>3. ASSUME NEW S \in SUBSET L, Closed(S) PROVE D \subseteq S
  BY <1>3
<1> HIDE DEF D
<1>4. RootPD \notin D
  <2> DEFINE S == L \ {RootPD}
  <2>1. S \in SUBSET L /\ Closed(S)
    OBVIOUS
  <2> QED
    BY <1>3, <2>1
<1>5. ASSUME NEW x \in D, x # q PROVE m.pd[x].parent \in D
  <2> DEFINE S == {y \in D : y = q \/ m.pd[y].parent \in D}
  <2>1. S \in SUBSET L
    BY <1>1
  <2>2. Closed(S)
    BY <1>1, <1>2
  <2> HIDE DEF S
  <2>3. x \in S
    BY <1>3, <2>1, <2>2
  <2> QED
    BY <1>5, <2>3 DEF S
<1>6. PICK y \in D : m.pd[y].parent \notin D
  BY <1>0, <1>1, <1>4
<1>7. m.pd[q].parent \notin D
  BY <1>5, <1>6
<1>8. IsPruned(m, L, q, K)
  BY <1>0, <1>1, <1>2, <1>4, <1>5, <1>7 DEF IsPruned
<1> QED
  BY <1>8

\* The blocks of p tied to the child whose descriptor block e holds.
Tied(m, p, e) == {f \in SlotsOf(m, p) : m.slot[f].PDchild = m.slot[e].start} \cup {e}

Released(b) == [Unshared(b) EXCEPT !.accessible = TRUE]

\* They are given back to p, and the child and its descendants forgotten.
IsRelease(m, u, K, p, e) ==
  /\ \A x \in K : /\ u.pd[x] = m.pd[x]
                  /\ \A f \in SlotsOf(m, x) : f \notin Tied(m, p, e) => u.slot[f] = m.slot[f]
  /\ \A f \in Tied(m, p, e) : u.slot[f] = Released(m.slot[f])

\* The fields of a released block.
LEMMA ReleasedKeeps ==
  ASSUME NEW b \in Entry
  PROVE  LET d == Released(b)
         IN  /\ d.start = b.start /\ d.end = b.end /\ d.origin = b.origin
             /\ d.rights = b.rights /\ d.present = b.present /\ d.next = b.next
             /\ d.nextFree = b.nextFree
             /\ d.accessible = TRUE /\ d.PDchild = Null /\ d.inChild = NullSlot
             /\ d.PDflag = FALSE
<1> DEFINE u == Unshared(b)
           d == Released(b)
<1>1. /\ u \in Entry /\ u.start = b.start /\ u.end = b.end /\ u.origin = b.origin
      /\ u.rights = b.rights /\ u.present = b.present /\ u.next = b.next
      /\ u.nextFree = b.nextFree
      /\ u.PDchild = Null /\ u.inChild = NullSlot /\ u.PDflag = FALSE
  BY UnsharedType DEF Unshared, Entry
<1>2. d = [u EXCEPT !.accessible = TRUE]
  BY DEF Released
<1> HIDE DEF u, d
<1>3. /\ d \in Entry /\ d.start = u.start /\ d.end = u.end /\ d.origin = u.origin
      /\ d.rights = u.rights /\ d.present = u.present /\ d.next = u.next
      /\ d.nextFree = u.nextFree
      /\ d.PDchild = u.PDchild /\ d.inChild = u.inChild /\ d.PDflag = u.PDflag
      /\ d.accessible = TRUE
  BY <1>1, <1>2 DEF Entry
<1> QED
  BY <1>1, <1>3 DEF d

\* It is an entry.
LEMMA ReleasedFields ==
  ASSUME NEW b \in Entry
  PROVE  LET d == Released(b)
         IN  /\ d.start = b.start /\ d.end = b.end /\ d.origin = b.origin
             /\ d.rights = b.rights /\ d.present = b.present /\ d.next = b.next
             /\ d.nextFree = b.nextFree
             /\ d.accessible = TRUE /\ d.PDchild = Null /\ d.inChild = NullSlot
             /\ d.PDflag = FALSE /\ d \in Entry
<1>1. Released(b) \in Entry
  <2>1. Unshared(b) \in Entry
    BY UnsharedType
  <2> DEFINE u == Unshared(b)
  <2> HIDE DEF u
  <2>2. u \in Entry => [u EXCEPT !.accessible = TRUE] \in Entry
    BY DEF Entry
  <2> QED
    BY <2>1, <2>2 DEF u, Released
<1> QED
  BY <1>1, ReleasedKeeps

\* The tied blocks are blocks of p that neither hold a structure nor the
\* descriptor of another child.
LEMMA TiedFacts ==
  ASSUME NEW m \in Good, NEW L \in SUBSET PDAddr, Consistent(m, L),
         NEW p \in L, NEW e \in BlocksIn(m, p), m.slot[e].PDflag
  PROVE  /\ Tied(m, p, e) \subseteq BlocksIn(m, p)
         /\ \A f \in Tied(m, p, e) : /\ f # e => ~ m.slot[f].PDflag
                                     /\ m.slot[f].start \notin StructsOf(m, p)
         /\ m.slot[e].start \in L \ {RootPD} /\ m.pd[m.slot[e].start].parent = p
         /\ m.slot[e].PDchild = Null /\ m.slot[e].inChild = NullSlot
<1> DEFINE q == m.slot[e].start
           E == Tied(m, p, e)
<1>0. /\ Tree(m, L) /\ Homes(m, L) /\ Structures(m, L) /\ Ranges(m, L)
      /\ Containment(m, L) /\ FreeLists(m, L)
  BY DEF Consistent
<1>1. /\ q \in L \ {RootPD} /\ m.pd[q].parent = p
      /\ m.slot[e].PDchild = Null /\ m.slot[e].inChild = NullSlot
  BY <1>0 DEF Homes, IsHome
<1>2. ASSUME NEW f \in E, f # e
      PROVE  f \in BlocksIn(m, p) /\ m.slot[f].PDchild = q /\ ~ m.slot[f].PDflag
  <2>1. f \in SlotsOf(m, p) /\ m.slot[f].PDchild = q
    BY <1>2 DEF Tied
  <2>2. q # Null
    BY <1>1, NullOutside
  <2>3. m.slot[f].present
    <3> SUFFICES ASSUME ~ m.slot[f].present PROVE FALSE
      OBVIOUS
    <3> DEFINE link == m.slot[f].nextFree
    <3>1. f \in FreeIn(m, p)
      BY <2>1 DEF FreeIn
    <3>2. m.slot[f] = FreeEntry(link)
      BY <1>0, <3>1 DEF FreeLists, FreeListOK
    <3> HIDE DEF link
    <3>3. m.slot[f].PDchild = Null
      BY <3>2 DEF FreeEntry
    <3> QED
      BY <2>1, <2>2, <3>3
  <2>4. f \in BlocksIn(m, p)
    BY <2>1, <2>3 DEF BlocksIn
  <2> QED
    BY <1>0, <2>1, <2>2, <2>4 DEF Homes, IsHome
<1>3. E \subseteq BlocksIn(m, p)
  BY <1>2
<1>4. ASSUME NEW f \in E, m.slot[f].start \in StructsOf(m, p) PROVE FALSE
  <2>0. f \in BlocksIn(m, p)
    BY <1>3
  <2> DEFINE k == m.slot[f].start
  <2>1. k # RootKS
    <3>1. k \in 0 .. Top + 1 /\ m.slot[f].end \in Nat /\ k < m.slot[f].end
          /\ m.slot[f].end <= Top + 1
      BY <1>0, <2>0, BlockType, BlockRange DEF Entry
    <3> QED
      BY <3>1, NullOutside, ConstantsAssumption
  <2>2. PICK x \in {p, m.pd[p].parent} \cap L : \E g \in BlocksIn(m, x) :
          HoldsStructure(m, x, p, g, k)
    BY <1>0, <1>4, <2>1 DEF Structures
  <2>3. PICK g \in BlocksIn(m, x) : HoldsStructure(m, x, p, g, k)
    BY <2>2
  <2>4. /\ m.slot[g].start = m.slot[f].start /\ m.slot[g].inChild = NullSlot
        /\ ~ m.slot[g].PDflag
        /\ m.slot[g].PDchild = (IF x = p THEN Null ELSE p)
    BY <2>3 DEF HoldsStructure
  <2> HIDE DEF k
  <2>5. Overlap(m.slot[g], m.slot[f])
    <3>1. /\ m.slot[g].start \in Nat /\ m.slot[g].end \in Nat /\ m.slot[g].start < m.slot[g].end
          /\ m.slot[f].start \in Nat /\ m.slot[f].end \in Nat /\ m.slot[f].start < m.slot[f].end
      BY <1>0, <2>0, BlockType, BlockRange
    <3> QED
      BY <2>4, <3>1 DEF Overlap
  <2>6. CASE x = p
    <3>1. g = f
      BY <1>0, <2>0, <2>5, <2>6, SameBlock
    <3>2. f # e /\ m.slot[f].PDchild = Null
      BY <2>4, <2>6, <3>1
    <3> QED
      BY <1>1, <1>2, <3>2, NullOutside
  <2>7. CASE x # p
    <3>1. x = m.pd[p].parent /\ x \in L /\ p # RootPD
      BY <1>0, <2>2, <2>7, NullOutside DEF Tree
    <3> QED
      BY <1>0, <2>0, <2>4, <2>5, <3>1, NotInChild
  <2> QED
    BY <2>6, <2>7
<1> QED
  BY <1>1, <1>2, <1>3, <1>4

\* What is left of the tree stays consistent and guarded.
LEMMA ReleaseKeeps ==
  ASSUME NEW m \in Good, NEW u \in Good, NEW L \in SUBSET PDAddr,
         Consistent(m, L), Guarded(m, L),
         NEW p \in L, NEW e \in BlocksIn(m, p), m.slot[e].PDflag,
         NEW K, IsPruned(m, L, m.slot[e].start, K), IsRelease(m, u, K, p, e)
  PROVE  /\ Consistent(u, K) /\ Guarded(u, K) /\ p \in K
         /\ \A f \in Tied(m, p, e) : f \in BlocksIn(u, p) /\ u.slot[f].accessible
<1> DEFINE q == m.slot[e].start
           E == Tied(m, p, e)
<1>0. /\ Tree(m, L) /\ Homes(m, L) /\ Structures(m, L) /\ Ranges(m, L) /\ Cuts(m, L)
      /\ Shares(m, L) /\ Containment(m, L) /\ FreeLists(m, L)
      /\ KernelBlocksHidden(m, L) /\ CopiesAccessible(m, L) /\ MPUMapsAccessible(m, L)
  BY DEF Consistent, Guarded
<1>1. /\ E \subseteq BlocksIn(m, p)
      /\ \A f \in E : (f # e => ~ m.slot[f].PDflag) /\ m.slot[f].start \notin StructsOf(m, p)
      /\ q \in L \ {RootPD} /\ m.pd[q].parent = p
      /\ m.slot[e].PDchild = Null /\ m.slot[e].inChild = NullSlot
  BY TiedFacts
<1>2. /\ K \in SUBSET L /\ K \in SUBSET PDAddr /\ RootPD \in K /\ q \in L \ K /\ p \in K
      /\ \A x \in K \ {RootPD} : m.pd[x].parent \in K
      /\ \A x \in L \ K : x = q \/ m.pd[x].parent \notin K
  BY <1>1 DEF IsPruned
<1>3. /\ e \in E /\ \A f \in SlotsOf(m, p) : m.slot[f].PDchild = q => f \in E
      /\ \A f \in E : f # e => m.slot[f].PDchild = q
  BY DEF Tied
<1>4. /\ \A x \in K : u.pd[x] = m.pd[x]
      /\ \A x \in K : \A f \in SlotsOf(m, x) : f \notin E => u.slot[f] = m.slot[f]
      /\ \A f \in E : u.slot[f] = Released(m.slot[f])
  BY DEF IsRelease
<1> HIDE DEF E
<1>5. ASSUME NEW f \in E
      PROVE  /\ u.slot[f].start = m.slot[f].start /\ u.slot[f].end = m.slot[f].end
             /\ u.slot[f].origin = m.slot[f].origin /\ u.slot[f].rights = m.slot[f].rights
             /\ u.slot[f].present = m.slot[f].present /\ u.slot[f].next = m.slot[f].next
             /\ u.slot[f].accessible = TRUE /\ u.slot[f].PDchild = Null
             /\ u.slot[f].inChild = NullSlot /\ u.slot[f].PDflag = FALSE
  <2> DEFINE b == m.slot[f]
  <2>1. b \in Entry
    BY <1>1, BlockType
  <2>2. u.slot[f] = Released(b)
    BY <1>4
  <2> HIDE DEF b
  <2>3. /\ u.slot[f].start = b.start /\ u.slot[f].end = b.end
        /\ u.slot[f].origin = b.origin /\ u.slot[f].rights = b.rights
        /\ u.slot[f].present = b.present /\ u.slot[f].next = b.next
        /\ u.slot[f].accessible = TRUE /\ u.slot[f].PDchild = Null
        /\ u.slot[f].inChild = NullSlot /\ u.slot[f].PDflag = FALSE
    BY <2>1, <2>2, ReleasedKeeps
  <2> QED
    BY <2>3 DEF b
<1>6. ASSUME NEW x \in K
      PROVE  /\ StructsOf(u, x) = StructsOf(m, x) /\ SlotsOf(u, x) = SlotsOf(m, x)
             /\ BlocksIn(u, x) = BlocksIn(m, x) /\ FreeIn(u, x) = FreeIn(m, x)
             /\ \A f \in BlocksIn(m, x) : f \notin E => u.slot[f] = m.slot[f]
             /\ \A f \in BlocksIn(m, x) : f \in E => x = p
             /\ \A f \in FreeIn(m, x) : u.slot[f] = m.slot[f]
             /\ u.pd[x] = m.pd[x]
  <2>1. u.pd[x] = m.pd[x]
    BY <1>4
  <2>2. StructsOf(u, x) = StructsOf(m, x) /\ SlotsOf(u, x) = SlotsOf(m, x)
    BY <2>1 DEF StructsOf, SlotsOf
  <2>3. \A f \in SlotsOf(m, x) : u.slot[f].present = m.slot[f].present
    BY <1>4, <1>5
  <2>4. BlocksIn(u, x) = BlocksIn(m, x) /\ FreeIn(u, x) = FreeIn(m, x)
    BY <2>2, <2>3 DEF BlocksIn, FreeIn
  <2>5. \A f \in BlocksIn(m, x) : f \in SlotsOf(m, x)
    BY DEF BlocksIn
  <2>6. ASSUME NEW f \in BlocksIn(m, x), f \in E PROVE x = p
    <3>1. f \in SlotsOf(m, x) /\ f \in SlotsOf(m, p)
      BY <1>1, <2>5, <2>6 DEF BlocksIn
    <3> QED
      BY <1>0, <1>2, <3>1, OnePartition
  <2>7. \A f \in FreeIn(m, x) : f \in SlotsOf(m, x) /\ f \notin E
    BY <1>1 DEF FreeIn, BlocksIn
  <2> QED
    BY <1>4, <2>1, <2>2, <2>4, <2>5, <2>6, <2>7
<1>7. ASSUME NEW x \in K, NEW f \in BlocksIn(m, x)
      PROVE  /\ u.slot[f].start = m.slot[f].start /\ u.slot[f].end = m.slot[f].end
             /\ u.slot[f].origin = m.slot[f].origin /\ u.slot[f].rights = m.slot[f].rights
             /\ u.slot[f].next = m.slot[f].next
             /\ m.slot[f].accessible => u.slot[f].accessible
             /\ (u.slot[f].PDchild # Null \/ u.slot[f].inChild # NullSlot \/ u.slot[f].PDflag) =>
                  f \notin E /\ u.slot[f] = m.slot[f]
  BY ZenonT(30), <1>5, <1>6
<1>8. \A x \in K, y \in L : m.pd[y].parent = x /\ y \notin K => y = q /\ x = p
  BY <1>1, <1>2
<1>9. Tree(u, K)
  <2>1. u.pd[RootPD].parent = Null
    BY <1>0, <1>2, <1>6 DEF Tree
  <2>2. \A x \in K \ {RootPD} : u.pd[x].parent \in K
    BY <1>2, <1>6
  <2>3. ASSUME NEW S \in SUBSET (K \ {RootPD}), S # {} PROVE \E x \in S : u.pd[x].parent \notin S
    <3>1. S \in SUBSET (L \ {RootPD})
      BY <1>2
    <3>2. PICK x \in S : m.pd[x].parent \notin S
      BY <1>0, <2>3, <3>1 DEF Tree
    <3>3. u.pd[x].parent = m.pd[x].parent
      BY <1>6
    <3> QED
      BY <3>2, <3>3
  <2> QED
    BY <1>2, <2>1, <2>2, <2>3 DEF Tree
<1>10. Homes(u, K)
  <2>1. ASSUME NEW x \in K, NEW f \in BlocksIn(u, x), u.slot[f].PDflag
        PROVE  IsHome(u, K, x, f)
    <3>1. f \in BlocksIn(m, x) /\ f \notin E /\ u.slot[f] = m.slot[f]
      BY <1>6, <1>7, <2>1
    <3>2. IsHome(m, L, x, f)
      BY <1>0, <1>2, <2>1, <3>1 DEF Homes
    <3>3. m.slot[f].start \in K
      <4> SUFFICES ASSUME m.slot[f].start \notin K PROVE FALSE
        OBVIOUS
      <4>1. m.slot[f].start = q /\ x = p
        BY <1>8, <3>2 DEF IsHome
      <4>2. Overlap(m.slot[f], m.slot[e])
        <5>1. /\ m.slot[e].start \in Nat /\ m.slot[e].end \in Nat /\ m.slot[e].start < m.slot[e].end
              /\ m.slot[f].start \in Nat /\ m.slot[f].end \in Nat /\ m.slot[f].start < m.slot[f].end
          BY <1>0, <1>2, <3>1, BlockType, BlockRange
        <5> QED
          BY <4>1, <5>1 DEF Overlap
      <4>3. f = e
        BY <1>0, <3>1, <4>1, <4>2, SameBlock
      <4> QED
        BY <1>3, <3>1, <4>3
    <3>4. u.pd[m.slot[f].start].parent = m.pd[m.slot[f].start].parent
      BY <1>6, <3>3
    <3> QED
      BY <3>1, <3>2, <3>3, <3>4 DEF IsHome
  <2>2. ASSUME NEW x \in K \ {RootPD}
        PROVE  \E f \in BlocksIn(u, u.pd[x].parent) : u.slot[f].start = x /\ u.slot[f].PDflag
    <3>1. x \in L \ {RootPD} /\ m.pd[x].parent \in K /\ u.pd[x].parent = m.pd[x].parent
      BY <1>2, <1>6
    <3>2. PICK f \in BlocksIn(m, m.pd[x].parent) : m.slot[f].start = x /\ m.slot[f].PDflag
      BY <1>0, <3>1 DEF Homes
    <3>3. f \notin E
      BY <1>1, <1>2, <3>2
    <3>4. f \in BlocksIn(u, u.pd[x].parent) /\ u.slot[f] = m.slot[f]
      BY <1>6, <3>1, <3>3
    <3> QED
      BY <3>2, <3>4
  <2> QED
    BY <2>1, <2>2 DEF Homes
<1>11. Structures(u, K)
  <2>1. \A x, y \in K : x # y => StructsOf(u, x) \cap StructsOf(u, y) = {}
    <3>1. \A x, y \in L : x # y => StructsOf(m, x) \cap StructsOf(m, y) = {}
      BY <1>0 DEF Structures
    <3> QED
      BY <1>2, <1>6, <3>1
  <2>2. ASSUME NEW y \in K, NEW k \in StructsOf(u, y) \ {RootKS}
        PROVE  \E x \in {y, u.pd[y].parent} \cap K :
                 \E f \in BlocksIn(u, x) : HoldsStructure(u, x, y, f, k)
    <3>1. y \in L /\ k \in StructsOf(m, y) \ {RootKS} /\ u.pd[y].parent = m.pd[y].parent
      BY <1>2, <1>6
    <3>2. PICK x \in {y, m.pd[y].parent} \cap L :
            \E f \in BlocksIn(m, x) : HoldsStructure(m, x, y, f, k)
      BY <1>0, <3>1 DEF Structures
    <3>3. PICK f \in BlocksIn(m, x) : HoldsStructure(m, x, y, f, k)
      BY <3>2
    <3>4. x \in K
      <4>1. y = RootPD => m.pd[y].parent = Null
        BY <1>0 DEF Tree
      <4>2. Null \notin L
        BY NullOutside
      <4> QED
        BY <1>2, <3>2, <4>1, <4>2
    <3>5. f \notin E
      <4>1. ~ m.slot[f].PDflag /\ m.slot[f].PDchild # q
        <5>1. q # Null /\ q # y
          BY <1>1, <1>2, NullOutside
        <5> QED
          BY <3>3, <5>1 DEF HoldsStructure
      <4> QED
        BY <1>3, <4>1
    <3>6. f \in BlocksIn(u, x) /\ u.slot[f] = m.slot[f]
      BY <1>6, <3>4, <3>5
    <3>7. HoldsStructure(u, x, y, f, k)
      BY <3>3, <3>6 DEF HoldsStructure
    <3> QED
      BY <3>1, <3>2, <3>4, <3>6, <3>7
  <2> QED
    BY <2>1, <2>2 DEF Structures
<1>12. Ranges(u, K)
  <2> SUFFICES ASSUME NEW x \in K, NEW f \in BlocksIn(u, x)
               PROVE  /\ WellFormed(u.slot[f])
                      /\ \A g \in BlocksIn(u, x) : Overlap(u.slot[f], u.slot[g]) => f = g
    BY DEF Ranges
  <2>1. x \in L /\ BlocksIn(u, x) = BlocksIn(m, x)
    BY <1>2, <1>6
  <2>2. WellFormed(m.slot[f]) /\ \A g \in BlocksIn(m, x) : Overlap(m.slot[f], m.slot[g]) => f = g
    BY <1>0, <2>1 DEF Ranges
  <2>3. \A g \in BlocksIn(m, x) : u.slot[g].start = m.slot[g].start /\ u.slot[g].end = m.slot[g].end
    BY <1>7
  <2>4. u.slot[f].origin = m.slot[f].origin /\ u.slot[f].rights = m.slot[f].rights
    BY <1>7, <2>1
  <2> QED
    BY <2>1, <2>2, <2>3, <2>4 DEF WellFormed, Overlap
<1>13. Cuts(u, K)
  <2> SUFFICES ASSUME NEW x \in K, NEW f \in BlocksIn(u, x), u.slot[f].next # NullSlot
               PROVE  /\ u.slot[f].next \in BlocksIn(u, x)
                      /\ u.slot[u.slot[f].next].start = u.slot[f].end
                      /\ u.slot[u.slot[f].next].origin = u.slot[f].origin
    BY DEF Cuts
  <2>1. x \in L /\ f \in BlocksIn(m, x) /\ BlocksIn(u, x) = BlocksIn(m, x)
        /\ u.slot[f].next = m.slot[f].next
    BY <1>2, <1>6, <1>7
  <2>2. /\ m.slot[f].next \in BlocksIn(m, x)
        /\ m.slot[m.slot[f].next].start = m.slot[f].end
        /\ m.slot[m.slot[f].next].origin = m.slot[f].origin
    BY <1>0, <2>1 DEF Cuts
  <2> QED
    BY <1>7, <2>1, <2>2
<1>14. ASSUME NEW x \in K, NEW f \in BlocksIn(m, x), m.slot[f].PDchild # Null, f \notin E
       PROVE  m.slot[f].PDchild \in K /\ m.pd[m.slot[f].PDchild].parent = x
  <2>1. m.slot[f].PDchild \in L /\ m.pd[m.slot[f].PDchild].parent = x
    BY <1>0, <1>2, <1>14 DEF Shares
  <2>2. f \in SlotsOf(m, x)
    BY DEF BlocksIn
  <2>3. m.slot[f].PDchild \in K
    BY <1>3, <1>8, <1>14, <2>1, <2>2
  <2> QED
    BY <2>1, <2>3
<1>15. Shares(u, K)
  <2> SUFFICES ASSUME NEW x \in K, NEW f \in BlocksIn(u, x)
               PROVE  /\ u.slot[f].PDchild # Null =>
                           u.slot[f].PDchild \in K /\ u.pd[u.slot[f].PDchild].parent = x
                      /\ u.slot[f].inChild # NullSlot => IsShared(u, f)
    BY DEF Shares
  <2>1. x \in L /\ f \in BlocksIn(m, x)
    BY <1>2, <1>6
  <2>2. ASSUME u.slot[f].PDchild # Null
        PROVE  u.slot[f].PDchild \in K /\ u.pd[u.slot[f].PDchild].parent = x
    BY <1>6, <1>7, <1>14, <2>1, <2>2
  <2>3. ASSUME u.slot[f].inChild # NullSlot PROVE IsShared(u, f)
    <3>1. f \notin E /\ u.slot[f] = m.slot[f]
      BY <1>7, <2>1, <2>3
    <3>2. IsShared(m, f)
      BY <1>0, <2>1, <2>3, <3>1 DEF Shares
    <3>3. m.slot[f].PDchild \in K
      BY <1>14, <2>1, <3>1, <3>2 DEF IsShared
    <3>4. m.slot[f].inChild \in BlocksIn(m, m.slot[f].PDchild)
      BY <3>2 DEF IsShared
    <3>5. /\ m.slot[f].inChild \in BlocksIn(u, m.slot[f].PDchild)
          /\ u.slot[m.slot[f].inChild].start = m.slot[m.slot[f].inChild].start
          /\ u.slot[m.slot[f].inChild].origin = m.slot[m.slot[f].inChild].origin
      BY <1>6, <1>7, <3>3, <3>4
    <3> QED
      BY <3>1, <3>2, <3>5 DEF IsShared
  <2> QED
    BY <2>2, <2>3
<1>16. Containment(u, K)
  <2> SUFFICES ASSUME NEW x \in K \ {RootPD}, NEW f \in BlocksIn(u, x)
               PROVE  \E w \in BlocksIn(u, u.pd[x].parent) : IsPartOf(u, x, f, w)
    BY DEF Containment
  <2>1. /\ x \in L \ {RootPD} /\ f \in BlocksIn(m, x) /\ m.pd[x].parent \in K
        /\ u.pd[x].parent = m.pd[x].parent
    BY <1>2, <1>6
  <2>2. PICK w \in BlocksIn(m, m.pd[x].parent) : IsPartOf(m, x, f, w)
    BY <1>0, <2>1 DEF Containment
  <2>3. w \notin E
    <3>1. m.slot[w].PDchild # q /\ m.slot[w].inChild # NullSlot
      BY <1>2, <2>2 DEF IsPartOf
    <3> QED
      BY <1>1, <1>3, <3>1
  <2>4. w \in BlocksIn(u, u.pd[x].parent) /\ u.slot[w] = m.slot[w]
    BY <1>6, <2>1, <2>3
  <2>5. /\ u.slot[f].start = m.slot[f].start /\ u.slot[f].end = m.slot[f].end
        /\ u.slot[f].origin = m.slot[f].origin /\ u.slot[f].rights = m.slot[f].rights
        /\ u.slot[f].next = m.slot[f].next
    BY <1>7, <2>1
  <2>6. IsPartOf(u, x, f, w)
    BY <2>2, <2>4, <2>5 DEF IsPartOf, Within
  <2> QED
    BY <2>4, <2>6
<1>17. FreeLists(u, K)
  <2> SUFFICES ASSUME NEW x \in K PROVE FreeListOK(u, x)
    BY DEF FreeLists
  <2>1. FreeListOK(m, x)
    BY <1>0, <1>2 DEF FreeLists
  <2> QED
    BY <1>6, <2>1, FreeListFrame
<1>18. Consistent(u, K)
  BY <1>9, <1>10, <1>11, <1>12, <1>13, <1>15, <1>16, <1>17 DEF Consistent
<1>19. KernelBlocksHidden(u, K)
  <2> SUFFICES ASSUME NEW x \in K, NEW f \in BlocksIn(u, x), u.slot[f].accessible
               PROVE  ~ IsKernel(u, x, f)
    BY DEF KernelBlocksHidden
  <2>1. x \in L /\ f \in BlocksIn(m, x) /\ StructsOf(u, x) = StructsOf(m, x)
    BY <1>2, <1>6
  <2>2. CASE f \in E
    <3>1. x = p /\ m.slot[f].start \notin StructsOf(m, p)
      BY <1>1, <1>6, <2>1, <2>2
    <3> QED
      BY <1>5, <2>1, <2>2, <3>1 DEF IsKernel
  <2>3. CASE f \notin E
    <3>1. u.slot[f] = m.slot[f]
      BY <1>6, <2>1, <2>3
    <3>2. ~ IsKernel(m, x, f)
      BY <1>0, <2>1, <3>1 DEF KernelBlocksHidden
    <3> QED
      BY <2>1, <3>1, <3>2 DEF IsKernel
  <2> QED
    BY <2>2, <2>3
<1>20. CopiesAccessible(u, K)
  <2> SUFFICES ASSUME NEW x \in K, NEW f \in BlocksIn(u, x),
                      u.slot[f].accessible, u.slot[f].inChild # NullSlot
               PROVE  ~ IsCut(u, u.slot[f].inChild) /\ u.slot[u.slot[f].inChild].accessible
    BY DEF CopiesAccessible
  <2>1. x \in L /\ f \in BlocksIn(m, x)
    BY <1>2, <1>6
  <2>2. f \notin E /\ u.slot[f] = m.slot[f]
    BY <1>7, <2>1
  <2> DEFINE g == m.slot[f].inChild
  <2>3. ~ IsCut(m, g) /\ m.slot[g].accessible
    BY <1>0, <2>1, <2>2 DEF CopiesAccessible
  <2>4. IsShared(m, f)
    BY <1>0, <2>1, <2>2 DEF Shares
  <2>5. m.slot[f].PDchild \in K /\ g \in BlocksIn(m, m.slot[f].PDchild)
    BY <1>14, <2>1, <2>2, <2>4 DEF IsShared
  <2> HIDE DEF g
  <2>6. /\ u.slot[g].start = m.slot[g].start /\ u.slot[g].origin = m.slot[g].origin
        /\ u.slot[g].next = m.slot[g].next /\ u.slot[g].accessible
    BY <1>7, <2>3, <2>5
  <2> QED
    BY <2>2, <2>3, <2>6 DEF IsCut, g
<1>21. MPUMapsAccessible(u, K)
  <2> SUFFICES ASSUME NEW x \in K, NEW r \in Regions, u.pd[x].mpu[r] # NullSlot
               PROVE  /\ u.pd[x].mpu[r] \in BlocksIn(u, x) /\ u.slot[u.pd[x].mpu[r]].accessible
                      /\ \A k \in Regions : u.pd[x].mpu[k] = u.pd[x].mpu[r] => k = r
    BY DEF MPUMapsAccessible
  <2>1. x \in L /\ u.pd[x] = m.pd[x] /\ BlocksIn(u, x) = BlocksIn(m, x)
    BY <1>2, <1>6
  <2>2. /\ m.pd[x].mpu[r] \in BlocksIn(m, x) /\ m.slot[m.pd[x].mpu[r]].accessible
        /\ \A k \in Regions : m.pd[x].mpu[k] = m.pd[x].mpu[r] => k = r
    BY <1>0, <2>1 DEF MPUMapsAccessible
  <2>3. u.slot[m.pd[x].mpu[r]].accessible
    BY <1>7, <2>2
  <2> QED
    BY <2>1, <2>2, <2>3
<1>22. Guarded(u, K)
  BY <1>19, <1>20, <1>21 DEF Guarded
<1>23. \A f \in E : f \in BlocksIn(u, p) /\ u.slot[f].accessible
  BY <1>1, <1>2, <1>5, <1>6
<1> QED
  BY <1>2, <1>18, <1>22, <1>23 DEF E

\* The memory of the blocks tied to the child.
TiedUnits(m, p, e) == UNION {Extent(m, f) : f \in Tied(m, p, e)}

\* They are blocks of p, open to it and in no child.
Returned(m, n, p, e) ==
  \A f \in Tied(m, p, e) :
    /\ f \in BlocksIn(m, p) /\ f \in BlocksIn(n, p) /\ SameRange(n.slot[f], m.slot[f])
    /\ n.slot[f].accessible /\ n.slot[f].inChild = NullSlot

\* The child and its descendants end, and at most the memory tied to the child
\* is opened to the others.
Deleted(m, n, L, K, p, e) ==
  /\ e \in BlocksIn(m, p) /\ m.slot[e].PDflag /\ IsPruned(m, L, m.slot[e].start, K)
  /\ Consistent(n, K) /\ Guarded(n, K)
  /\ Returned(m, n, p, e) /\ Opened(m, n, K, TiedUnits(m, p, e))
  /\ StaysOpen(m, n, L, K)

\* The release of the tied blocks opens them to p.
LEMMA ReleaseMemory ==
  ASSUME NEW m \in Good, NEW u \in Good, NEW L \in SUBSET PDAddr, Consistent(m, L),
         NEW p \in L, NEW e \in BlocksIn(m, p), m.slot[e].PDflag,
         NEW K, IsPruned(m, L, m.slot[e].start, K), IsRelease(m, u, K, p, e)
  PROVE  Returned(m, u, p, e) /\ Opened(m, u, K, TiedUnits(m, p, e))
<1> DEFINE E == Tied(m, p, e)
<1>0. Structures(m, L) /\ Ranges(m, L)
  BY DEF Consistent
<1>1. E \subseteq BlocksIn(m, p)
  BY TiedFacts
<1>2. K \in SUBSET L /\ p \in K
  BY TiedFacts DEF IsPruned
<1>3. /\ \A x \in K : u.pd[x] = m.pd[x]
      /\ \A x \in K : \A f \in SlotsOf(m, x) : f \notin E => u.slot[f] = m.slot[f]
      /\ \A f \in E : u.slot[f] = Released(m.slot[f])
  BY DEF IsRelease
<1>4. TiedUnits(m, p, e) = UNION {Extent(m, f) : f \in E}
  BY DEF TiedUnits
<1>5. E = Tied(m, p, e)
  OBVIOUS
<1> HIDE DEF E
<1>6. ASSUME NEW f \in E
      PROVE  /\ u.slot[f].start = m.slot[f].start /\ u.slot[f].end = m.slot[f].end
             /\ u.slot[f].present /\ u.slot[f].accessible /\ u.slot[f].inChild = NullSlot
             /\ m.slot[f].present /\ f \in SlotsOf(m, p)
  <2> DEFINE b == m.slot[f]
  <2>1. b \in Entry /\ b.present /\ f \in SlotsOf(m, p)
    BY <1>1, BlockType
  <2>2. u.slot[f] = Released(b)
    BY <1>3
  <2> HIDE DEF b
  <2>3. /\ u.slot[f].start = b.start /\ u.slot[f].end = b.end
        /\ u.slot[f].present = b.present
        /\ u.slot[f].accessible = TRUE /\ u.slot[f].inChild = NullSlot
    BY <2>1, <2>2, ReleasedKeeps
  <2> QED
    BY <2>1, <2>3 DEF b
<1>7. \A x \in K : /\ SlotsOf(u, x) = SlotsOf(m, x) /\ KernIn(u, x) = KernIn(m, x)
                   /\ u.pd[x].parent = m.pd[x].parent
  BY <1>3 DEF SlotsOf, KernIn, StructsOf
<1>8. ASSUME NEW x \in K
      PROVE  /\ BlocksIn(u, x) = BlocksIn(m, x)
             /\ \A f \in BlocksIn(m, x) : SameRange(u.slot[f], m.slot[f])
             /\ \A f \in BlocksIn(m, x) : f \notin E => u.slot[f] = m.slot[f]
  BY <1>3, <1>6, <1>7 DEF BlocksIn, SameRange
<1>9. Returned(m, u, p, e)
  BY <1>1, <1>2, <1>5, <1>6, <1>8 DEF Returned
<1>10. ASSUME NEW x \in K
       PROVE  PoolIn(u, x) = PoolIn(m, x) /\ \A f, v : Holds(u, x, f, v) <=> Holds(m, x, f, v)
  BY <1>8, RangeMemory
<1>11. ASSUME NEW x \in K
       PROVE  /\ OpenIn(m, x) \subseteq OpenIn(u, x)
              /\ OpenIn(u, x) \subseteq OpenIn(m, x) \cup TiedUnits(m, p, e)
  <2>1. \A f \in BlocksIn(m, x) : m.slot[f].accessible => u.slot[f].accessible
    BY <1>6, <1>8
  <2>2. OpenIn(m, x) \subseteq OpenIn(u, x)
    BY <1>8, <1>10, <2>1 DEF OpenIn
  <2>3. ASSUME NEW v \in OpenIn(u, x), v \notin OpenIn(m, x)
        PROVE  v \in TiedUnits(m, p, e)
    <3>1. PICK f \in BlocksIn(u, x) : u.slot[f].accessible /\ Holds(u, x, f, v)
      BY DEF OpenIn
    <3>2. v \in Unit /\ f \in BlocksIn(m, x) /\ Holds(m, x, f, v)
      BY <1>8, <1>10, <3>1 DEF OpenIn
    <3>3. f \in E
      BY <1>8, <2>3, <3>1, <3>2 DEF OpenIn
    <3>4. v \in Extent(m, f)
      BY <1>0, <1>2, <3>2, ExtentIn
    <3> QED
      BY <1>4, <3>3, <3>4
  <2> QED
    BY <2>2, <2>3
<1>12. Opened(m, u, K, TiedUnits(m, p, e))
  BY <1>7, <1>10, <1>11 DEF Opened, SameOwners
<1> QED
  BY <1>9, <1>12

\* Erasing a block with the descriptor of a child erases nothing else of L.
LEMMA EraseHome ==
  ASSUME NEW m \in Good, NEW L \in SUBSET PDAddr, Consistent(m, L),
         NEW p \in L, NEW e \in BlocksIn(m, p), m.slot[e].PDflag
  PROVE  LET n == eraseBlock(m, m.slot[e].start, m.slot[e].end)
         IN  n \in Good /\ SameOn(m, n, L \ {m.slot[e].start})
<1> DEFINE s == m.slot[e].start
           t == m.slot[e].end
           n == eraseBlock(m, s, t)
<1>0. /\ Tree(m, L) /\ Homes(m, L) /\ Structures(m, L) /\ Ranges(m, L) /\ Containment(m, L)
  BY DEF Consistent
<1>1. n \in Good
  BY eraseBlockGood
<1>2. /\ s \in Nat /\ t \in Nat /\ s < t /\ t <= Top + 1
      /\ m.slot[e].inChild = NullSlot
  BY <1>0, BlockType, BlockRange DEF Homes, IsHome
<1>3. ASSUME NEW x \in L, NEW f \in BlocksIn(m, x), m.slot[f].inChild = NullSlot,
             m.slot[f].start \in s .. t - 1
      PROVE  f = e
  <2>1. /\ m.slot[f].start \in Nat /\ m.slot[f].end \in Nat /\ m.slot[f].start < m.slot[f].end
    BY <1>0, BlockType, BlockRange
  <2>2. Overlap(m.slot[e], m.slot[f])
    BY <1>2, <1>3, <2>1 DEF Overlap
  <2> QED
    BY <1>0, <1>2, <1>3, <2>2, UnsharedApart
<1>4. ASSUME NEW q \in L \ {s} PROVE q \notin s .. t - 1
  <2>1. CASE q = RootPD
    BY <1>2, <2>1, NullOutside, ConstantsAssumption
  <2>2. CASE q # RootPD
    <3>1. m.pd[q].parent \in L
      BY <1>0, <2>2 DEF Tree
    <3>2. PICK f \in BlocksIn(m, m.pd[q].parent) : m.slot[f].start = q /\ m.slot[f].PDflag
      BY <1>0, <2>2 DEF Homes
    <3>3. m.slot[f].inChild = NullSlot
      BY <1>0, <3>1, <3>2 DEF Homes, IsHome
    <3> QED
      BY <1>3, <3>1, <3>2, <3>3
  <2> QED
    BY <2>1, <2>2
<1>5. ASSUME NEW q \in L, NEW k \in StructsOf(m, q) PROVE k \notin s .. t - 1
  <2>1. CASE k = RootKS
    BY <1>2, <2>1, NullOutside, ConstantsAssumption
  <2>2. CASE k # RootKS
    <3>1. PICK x \in {q, m.pd[q].parent} \cap L :
            \E f \in BlocksIn(m, x) : HoldsStructure(m, x, q, f, k)
      BY <1>0, <2>2 DEF Structures
    <3>2. PICK f \in BlocksIn(m, x) : HoldsStructure(m, x, q, f, k)
      BY <3>1
    <3>3. m.slot[f].start = k /\ m.slot[f].inChild = NullSlot /\ f # e
      BY <3>2 DEF HoldsStructure
    <3> QED
      BY <1>3, <3>1, <3>3
  <2> QED
    BY <2>1, <2>2
<1> HIDE DEF s, t
<1>6. /\ \A f \in Slots : f[1] \notin s .. t - 1 => n.slot[f] = m.slot[f]
      /\ \A q \in PDAddr : q \notin s .. t - 1 => n.pd[q] = m.pd[q]
  BY DEF eraseBlock
<1> HIDE DEF n
<1>7. ASSUME NEW q \in L, NEW f \in SlotsOf(m, q) PROVE n.slot[f] = m.slot[f]
  <2>1. f \in Slots /\ f[1] \in StructsOf(m, q)
    BY SlotsOfIs, SlotsOfType
  <2> QED
    BY <1>5, <1>6, <2>1
<1>8. SameOn(m, n, L \ {s})
  BY <1>4, <1>6, <1>7 DEF SameOn
<1> QED
  BY <1>1, <1>8 DEF n, s, t

Shown(b) == [b EXCEPT !.accessible = TRUE]

\* An entry made accessible keeps the rest.
LEMMA ShownFields ==
  ASSUME NEW b \in Entry
  PROVE  /\ Shown(b) \in Entry /\ SameEntry(Shown(b), b) /\ Shown(b).accessible
         /\ Shown(Shown(b)) = Shown(b)
<1> DEFINE d == Shown(b)
<1>1. d \in Entry /\ SameEntry(d, b) /\ d.accessible = TRUE
  BY DEF Shown, Entry, SameEntry
<1> HIDE DEF d
<1>2. Shown(d) = d
  BY <1>1 DEF Shown, Entry
<1> QED
  BY <1>1, <1>2 DEF d

\* Showing the ancestors' blocks of several accessible blocks of p at once.
LEMMA ShowAboveAll ==
  ASSUME NEW m \in Good, NEW n \in Good, NEW L \in SUBSET PDAddr,
         Consistent(m, L), Guarded(m, L), NEW p \in L,
         NEW W, \A f \in W : f \in BlocksIn(m, p) /\ m.slot[f].accessible,
         NEW X, X = AllHits(m, p, W),
         \A f \in Slots : n.slot[f] = IF f \in X THEN Shown(m.slot[f]) ELSE m.slot[f],
         n.pd = m.pd
  PROVE  /\ Consistent(n, L) /\ Guarded(n, L) /\ SameShape(m, n, L)
         /\ Opened(m, n, L, UNION {Extent(m, f) : f \in W})
<1>0. Tree(m, L) /\ Ranges(m, L) /\ Structures(m, L)
  BY DEF Consistent
<1>1. ASSUME NEW h \in X
      PROVE  \E f \in W : h \in Hits(m, p, m.slot[f].start, m.slot[f].end)
  BY DEF AllHits
<1>2. ASSUME NEW f \in W, NEW h \in Hits(m, p, m.slot[f].start, m.slot[f].end) PROVE h \in X
  BY DEF AllHits
<1>3. ASSUME NEW f \in Slots PROVE m.slot[f] \in Entry
  BY DEF Good
<1>4. ASSUME NEW h \in X PROVE \E x \in L : h \in BlocksIn(m, x)
  <2>1. PICK f \in W : h \in Hits(m, p, m.slot[f].start, m.slot[f].end)
    BY <1>1
  <2> DEFINE s == m.slot[f].start
             t == m.slot[f].end
  <2>2. PICK x \in Above(m, p, s, t) : h = findExactBlockInKS(m, x, s, t)
    BY <2>1 DEF Hits
  <2> HIDE DEF s, t
  <2>3. x \in L /\ findExactBlockInKS(m, x, s, t) # NullSlot
    BY <1>0, <2>2, AboveFacts
  <2>4. h \in BlocksIn(m, x)
    BY <2>2, <2>3, FindExactIs
  <2> QED
    BY <2>3, <2>4
<1>5. SameShape(m, n, L)
  <2>1. ASSUME NEW f \in Slots PROVE SameEntry(n.slot[f], m.slot[f])
    <3>1. CASE f \in X
      BY <1>3, <3>1, ShownFields
    <3>2. CASE f \notin X
      BY <3>2 DEF SameEntry
    <3> QED
      BY <3>1, <3>2
  <2>2. \A f \in Slots : ~ m.slot[f].present => n.slot[f] = m.slot[f]
    BY <1>4 DEF BlocksIn
  <2>3. \A x \in L : SameLinks(n.pd[x], m.pd[x])
    BY DEF SameLinks
  <2> QED
    BY <2>1, <2>2, <2>3 DEF SameShape
<1>6. Shows(m, n, L, X)
  <2>1. ASSUME NEW f \in Slots
        PROVE  n.slot[f].accessible <=> m.slot[f].accessible \/ f \in X
    <3>1. CASE f \in X
      BY <1>3, <3>1, ShownFields
    <3>2. CASE f \notin X
      BY <3>2
    <3> QED
      BY <3>1, <3>2
  <2> QED
    BY <2>1 DEF Shows
<1>7. ASSUME NEW x \in L, NEW g \in BlocksIn(m, x), g \in X
      PROVE  /\ ~ IsKernel(m, x, g)
             /\ m.slot[g].inChild # NullSlot =>
                  /\ ~ IsCut(m, m.slot[g].inChild)
                  /\ m.slot[m.slot[g].inChild].accessible \/ m.slot[g].inChild \in X
  <2>1. PICK f \in W : g \in Hits(m, p, m.slot[f].start, m.slot[f].end)
    BY <1>1, <1>7
  <2> DEFINE s == m.slot[f].start
             t == m.slot[f].end
             H == Hits(m, p, s, t)
  <2>2. /\ m.slot[f].start = s /\ m.slot[f].end = t /\ f \in BlocksIn(m, p)
        /\ m.slot[f].accessible /\ g \in Hits(m, p, s, t)
        /\ \A h \in Hits(m, p, s, t) : h \in X
    BY <1>2, <2>1
  <2> HIDE DEF s, t
  <2>3. /\ ~ IsKernel(m, x, g) /\ m.slot[g].inChild # NullSlot
        /\ ~ IsCut(m, m.slot[g].inChild)
        /\ m.slot[g].inChild \in Hits(m, p, s, t) \cup {f}
    BY ONLY m \in Good, L \in SUBSET PDAddr, Consistent(m, L), p \in L, x \in L,
            g \in BlocksIn(m, x), <2>2, HitShared
  <2> QED
    BY <2>2, <2>3
<1>8. Guarded(n, L)
  BY <1>5, <1>6, <1>7, ShowGuarded
<1>9. Consistent(n, L)
  BY <1>5, ShapeConsistent
<1>10. \A g \in X : \E f \in W : SameRange(m.slot[g], m.slot[f])
  <2> SUFFICES ASSUME NEW g \in X PROVE \E f \in W : SameRange(m.slot[g], m.slot[f])
    OBVIOUS
  <2>1. PICK f \in W : g \in Hits(m, p, m.slot[f].start, m.slot[f].end)
    BY <1>1
  <2>2. f \in BlocksIn(m, p)
    OBVIOUS
  <2>3. SameRange(m.slot[g], m.slot[f])
    BY <1>0, <2>1, <2>2, HitFacts
  <2> QED
    BY <2>3
<1>11. Opened(m, n, L, UNION {Extent(m, f) : f \in W})
  <2>1. \A f \in W : f \in BlocksIn(m, p)
    OBVIOUS
  <2> QED
    BY <1>0, <1>5, <1>6, <1>10, <2>1, AllShownMemory
<1> QED
  BY <1>5, <1>8, <1>9, <1>11

\* The blocks of E returned to their owner, before the ancestors are told.
Releasing(m, E) ==
  [slot |-> [f \in Slots |-> IF f \in E THEN Released(m.slot[f]) ELSE m.slot[f]],
   pd   |-> m.pd]

\* releaseBlocks is that, and then the ancestors of the uncut blocks see them.
LEMMA ReleaseBlocksEffect ==
  ASSUME NEW m \in Good, NEW c \in PDAddr, NEW E \in SUBSET Slots
  PROVE  LET n == releaseBlocks(m, c, E)
             u == Releasing(m, E)
             W == {f \in E : ~ IsCut(m, f)}
             X == UNION {Hits(u, c, u.slot[f].start, u.slot[f].end) : f \in W}
         IN  /\ n \in Good /\ u \in Good /\ n.pd = u.pd
             /\ \A f \in Slots : n.slot[f] = IF f \in X THEN Shown(u.slot[f])
                                             ELSE u.slot[f]
<1> DEFINE n == releaseBlocks(m, c, E)
           u == Releasing(m, E)
           W == {f \in E : ~ IsCut(m, f)}
           Y == UNION {{findExactBlockInKS(m, q, m.slot[f].start, m.slot[f].end)
                          : q \in Above(m, c, m.slot[f].start, m.slot[f].end)} : f \in W}
<1>1. ASSUME NEW f \in Slots
      PROVE  /\ m.slot[f] \in Entry /\ Unshared(m.slot[f]) \in Entry
             /\ u.slot[f] = IF f \in E THEN Released(m.slot[f]) ELSE m.slot[f]
  BY UnsharedType DEF Good, Releasing
<1>2. u \in Good /\ u.pd = m.pd
  <2>1. \A f \in Slots : (IF f \in E THEN Released(m.slot[f]) ELSE m.slot[f]) \in Entry
    BY <1>1, ReleasedFields
  <2> QED
    BY <2>1 DEF Good, Releasing
<1>3. n \in Good
  BY releaseBlocksGood
<1>4. /\ n.pd = m.pd
      /\ \A f \in Slots : n.slot[f] =
           IF f \in E \cup Y
           THEN Shown(IF f \in E THEN Unshared(m.slot[f]) ELSE m.slot[f])
           ELSE IF f \in E THEN Unshared(m.slot[f]) ELSE m.slot[f]
  BY DEF releaseBlocks, Good, Shown
<1>5. ASSUME NEW f \in Slots
      PROVE  /\ u.slot[f].start = m.slot[f].start /\ u.slot[f].end = m.slot[f].end
             /\ u.slot[f].present = m.slot[f].present
  <2>1. m.slot[f] \in Entry /\ u.slot[f] \in {Released(m.slot[f]), m.slot[f]}
    BY <1>1
  <2>2. Released(m.slot[f]).start = m.slot[f].start /\ Released(m.slot[f]).end = m.slot[f].end
        /\ Released(m.slot[f]).present = m.slot[f].present
    BY ONLY <2>1, ReleasedKeeps
  <2> QED
    BY <2>1, <2>2
<1> HIDE DEF n, u
<1>6. ASSUME NEW f \in W
      PROVE  Hits(u, c, u.slot[f].start, u.slot[f].end)
               = {findExactBlockInKS(m, q, m.slot[f].start, m.slot[f].end)
                    : q \in Above(m, c, m.slot[f].start, m.slot[f].end)}
  <2> DEFINE s == m.slot[f].start
             t == m.slot[f].end
  <2>1. u.slot[f].start = s /\ u.slot[f].end = t
    BY <1>5
  <2> HIDE DEF s, t
  <2>2. /\ \A q \in PDAddr : findExactBlockInKS(u, q, s, t) = findExactBlockInKS(m, q, s, t)
        /\ \A p : Above(u, p, s, t) = Above(m, p, s, t)
    BY <1>2, <1>5, SameSearch
  <2>3. Above(m, c, s, t) \subseteq PDAddr
    BY DEF Above
  <2>4. Hits(u, c, s, t) = {findExactBlockInKS(m, q, s, t) : q \in Above(m, c, s, t)}
    BY <2>2, <2>3 DEF Hits
  <2> QED
    BY <2>1, <2>4 DEF s, t
<1>7. UNION {Hits(u, c, u.slot[f].start, u.slot[f].end) : f \in W} = Y
  BY <1>6
<1> HIDE DEF Y
<1>8. ASSUME NEW f \in Slots
      PROVE  n.slot[f] = IF f \in Y THEN Shown(u.slot[f]) ELSE u.slot[f]
  <2>1. CASE f \in E
    <3>1. n.slot[f] = Shown(Unshared(m.slot[f])) /\ u.slot[f] = Released(m.slot[f])
      BY <1>1, <1>4, <2>1
    <3>2. Released(m.slot[f]) = Shown(Unshared(m.slot[f]))
      BY DEF Released, Shown
    <3>3. Shown(Shown(Unshared(m.slot[f]))) = Shown(Unshared(m.slot[f]))
      BY <1>1, ShownFields
    <3> QED
      BY <3>1, <3>2, <3>3
  <2>2. CASE f \notin E
    BY <1>1, <1>4, <2>2
  <2> QED
    BY <2>1, <2>2
<1> QED
  BY <1>2, <1>3, <1>4, <1>7, <1>8 DEF n, u

\* deletePartition.
LEMMA deletePartitionSound ==
  ASSUME IInv, NEW L \in SUBSET PDAddr, Consistent(Mem, L), Guarded(Mem, L),
         NEW c \in L, NEW e \in SlotsOf(Mem, c), deletePartition(c, e)
  PROVE  SoundFor(Mem', c, L) /\ \E K \in SUBSET PDAddr : Deleted(Mem, Mem', L, K, c, e)
<1> DEFINE m  == Mem
           s  == slot[e].start
           m1 == eraseBlock(m, slot[e].start, slot[e].end)
           E  == Tied(m, c, e)
           u  == Releasing(m1, E)
           n  == releaseBlocks(m1, c, E)
<1>1. m \in Good /\ m.slot = slot /\ c \in PDAddr
  BY DEF IInv, Mem
<1>2. /\ e \in BlocksIn(m, c) /\ m.slot[e].PDflag /\ Commit(n)
  <2>1. {f \in SlotsOf(Mem, c) : slot[f].PDchild = slot[e].start} \cup {e} = E
    BY <1>1 DEF Tied
  <2> QED
    BY <1>1, <2>1 DEF deletePartition, IsFound, BlocksIn
<1>3. m.slot[e].start = s /\ m.slot[e].end = slot[e].end
  BY <1>1
<1>4. Consistent(m, L) /\ Guarded(m, L)
  OBVIOUS
<1> HIDE DEF m
<1>5. m1 \in Good /\ SameOn(m, m1, L \ {s})
  <2>1. m1 = eraseBlock(m, m.slot[e].start, m.slot[e].end)
    BY <1>3
  <2> HIDE DEF m1
  <2> QED
    BY <1>1, <1>2, <1>3, <1>4, <2>1, EraseHome
<1>6. /\ E \subseteq BlocksIn(m, c) /\ s \in L \ {RootPD} /\ m.pd[s].parent = c
  BY <1>1, <1>2, <1>3, <1>4, TiedFacts
<1> HIDE DEF m1, s
<1>7. PICK K : IsPruned(m, L, s, K)
  BY <1>4, <1>6, Pruned DEF Consistent
<1>8. K \subseteq L \ {s} /\ c \in K /\ K \in SUBSET PDAddr
  BY <1>6, <1>7 DEF IsPruned
<1>9. E \in SUBSET Slots
  BY <1>1, <1>6, SlotsOfType DEF BlocksIn
<1>10. LET n0 == releaseBlocks(m1, c, E)
           u0 == Releasing(m1, E)
           W == {f \in E : ~ IsCut(m1, f)}
           X == UNION {Hits(u0, c, u0.slot[f].start, u0.slot[f].end) : f \in W}
       IN  /\ n0 \in Good /\ u0 \in Good /\ n0.pd = u0.pd
           /\ \A f \in Slots : n0.slot[f] = IF f \in X THEN Shown(u0.slot[f])
                                            ELSE u0.slot[f]
  <2> HIDE DEF E
  <2> QED
    BY <1>1, <1>5, <1>9, ReleaseBlocksEffect
<1>11. IsRelease(m, u, K, c, e)
  <2>1. /\ u.pd = m1.pd
        /\ \A f \in Slots : u.slot[f] = IF f \in E THEN Released(m1.slot[f]) ELSE m1.slot[f]
    BY DEF Releasing
  <2> HIDE DEF u
  <2>2. ASSUME NEW x \in K
        PROVE  u.pd[x] = m.pd[x] /\ \A f \in SlotsOf(m, x) : m1.slot[f] = m.slot[f]
    BY <1>5, <1>8, <2>1 DEF SameOn
  <2>3. \A x \in K : SlotsOf(m, x) \subseteq Slots
    BY <1>1, <1>8, SlotsOfType
  <2>4. \A f \in E : f \in SlotsOf(m, c)
    BY <1>6 DEF BlocksIn
  <2>5. ASSUME NEW f \in E PROVE u.slot[f] = Released(m.slot[f])
    BY <1>8, <1>9, <2>1, <2>2, <2>4
  <2>6. ASSUME NEW x \in K, NEW f \in SlotsOf(m, x), f \notin E
        PROVE  u.slot[f] = m.slot[f]
    BY <2>1, <2>2, <2>3, <2>6
  <2> QED
    BY <2>2, <2>5, <2>6 DEF IsRelease
<1> DEFINE W == {f \in E : ~ IsCut(m1, f)}
           X == AllHits(u, c, W)
<1>12. /\ n \in Good /\ u \in Good /\ n.pd = u.pd
       /\ \A f \in Slots : n.slot[f] = IF f \in X THEN Shown(u.slot[f]) ELSE u.slot[f]
  BY <1>10 DEF AllHits
<1>d. W \subseteq E /\ E = Tied(m, c, e)
  OBVIOUS
<1> HIDE DEF n, u
<1>13. /\ Consistent(u, K) /\ Guarded(u, K)
       /\ \A f \in Tied(m, c, e) : f \in BlocksIn(u, c) /\ u.slot[f].accessible
  BY <1>1, <1>2, <1>3, <1>4, <1>7, <1>11, <1>12, ReleaseKeeps
<1>14. \A f \in W : f \in BlocksIn(u, c) /\ u.slot[f].accessible
  BY <1>13
<1>e. \A f \in E : u.slot[f].inChild = NullSlot /\ (f \in W \/ IsCut(u, f))
  <2>1. ASSUME NEW f \in E
        PROVE  u.slot[f] = Released(m.slot[f]) /\ m1.slot[f] = m.slot[f]
               /\ m.slot[f] \in Entry
    <3>1. f \in SlotsOf(m, c) /\ f \in Slots
      BY <1>6, <1>9 DEF BlocksIn
    <3> QED
      BY <1>1, <1>5, <1>8, <1>11, <1>d, <3>1 DEF SameOn, IsRelease, Good
  <2> SUFFICES ASSUME NEW f \in E
               PROVE  u.slot[f].inChild = NullSlot /\ (f \in W \/ IsCut(u, f))
    OBVIOUS
  <2> DEFINE b == m.slot[f]
  <2>2. u.slot[f] = Released(b) /\ m1.slot[f] = b /\ b \in Entry
    BY <2>1
  <2> HIDE DEF b
  <2>3. /\ u.slot[f].inChild = NullSlot /\ u.slot[f].start = b.start
        /\ u.slot[f].origin = b.origin /\ u.slot[f].next = b.next
    <3>1. b \in Entry
      BY <2>2
    <3>2. /\ Released(b).inChild = NullSlot /\ Released(b).start = b.start
          /\ Released(b).origin = b.origin /\ Released(b).next = b.next
      BY ONLY <3>1, ReleasedKeeps
    <3> QED
      BY <2>2, <3>2
  <2> QED
    BY <2>2, <2>3 DEF W, IsCut
<1>15. X = AllHits(u, c, W)
  OBVIOUS
<1> HIDE DEF W, X, E
<1>16. /\ Consistent(n, K) /\ Guarded(n, K) /\ SameShape(u, n, K)
       /\ Opened(u, n, K, UNION {Extent(u, f) : f \in W})
  <2>1. n \in Good
    BY <1>12
  <2>2. u \in Good
    BY <1>12
  <2>3. K \in SUBSET PDAddr
    BY <1>8
  <2>4. c \in K
    BY <1>8
  <2>5. Consistent(u, K)
    BY <1>13
  <2>6. Guarded(u, K)
    BY <1>13
  <2>7. \A f \in Slots : n.slot[f] = IF f \in X THEN Shown(u.slot[f]) ELSE u.slot[f]
    BY <1>12
  <2>8. n.pd = u.pd
    BY <1>12
  <2> QED
    BY ONLY <2>1, <2>2, <2>3, <2>4, <2>5, <2>6, <1>14, <1>15, <2>7, <2>8, ShowAboveAll
<1>17. Returned(m, u, c, e) /\ Opened(m, u, K, TiedUnits(m, c, e))
  BY <1>1, <1>2, <1>3, <1>4, <1>7, <1>11, <1>12, ReleaseMemory
<1>18. Returned(m, n, c, e)
  <2>1. \A f \in BlocksIn(u, c) : /\ f \in BlocksIn(n, c) /\ SameEntry(n.slot[f], u.slot[f])
                                  /\ f \in Slots
    BY <1>8, <1>12, <1>16, ShapeSlots, BlockType
  <2>2. ASSUME NEW f \in Tied(m, c, e) PROVE n.slot[f].accessible
    <3>1. u.slot[f].accessible /\ f \in Slots /\ u.slot[f] \in Entry
      BY <1>12, <1>17, <2>1 DEF Returned, Good
    <3>2. CASE f \in X
      BY <1>12, <3>1, <3>2, ShownFields
    <3>3. CASE f \notin X
      BY <1>12, <3>1, <3>3
    <3> QED
      BY <3>2, <3>3
  <2> QED
    BY <1>17, <2>1, <2>2 DEF Returned, SameEntry, SameRange
<1>19. Opened(m, n, K, TiedUnits(m, c, e))
  <2>1. \A f \in W : Extent(u, f) = Extent(m, f)
    BY <1>17, <1>d DEF Returned, SameRange, Extent
  <2>2. UNION {Extent(u, f) : f \in W} \subseteq TiedUnits(m, c, e)
    BY <2>1, <1>d DEF TiedUnits
  <2> QED
    BY <1>16, <1>17, <2>2 DEF Opened, SameOwners
<1>o. StaysOpen(m, n, L, K)
  <2> SUFFICES ASSUME OpenAbove(m, L) PROVE OpenAbove(n, K)
    BY DEF StaysOpen
  <2>1. OpenAbove(m, K)
    BY <1>8 DEF OpenAbove
  <2>2. \A x \in K : \A f \in BlocksIn(u, x) :
          f \notin E => f \in BlocksIn(m, x) /\ u.slot[f] = m.slot[f]
    BY <1>11, <1>d DEF IsRelease, BlocksIn, SlotsOf
  <2>3. Loosened(m, u, K, E, W)
    BY <1>e DEF Loosened
  <2>4. OpenBut(u, K, W)
    BY <1>1, <1>8, <1>12, <1>13, <2>1, <2>2, <2>3, RestOpenBut
  <2>5. Shows(u, n, K, AllHits(u, c, W))
    <3>1. ASSUME NEW f \in Slots
          PROVE  n.slot[f].accessible <=> u.slot[f].accessible \/ f \in X
      <4>1. u.slot[f] \in Entry
        BY <1>12 DEF Good
      <4>2. CASE f \in X
        BY <1>12, <4>1, <4>2, ShownFields
      <4>3. CASE f \notin X
        BY <1>12, <4>3
      <4> QED
        BY <4>2, <4>3
    <3> QED
      BY <1>12, <1>15, <3>1 DEF Shows
  <2> QED
    BY <1>8, <1>12, <1>13, <1>14, <1>16, <2>4, <2>5, ShowsStayOpen
<1>20. Deleted(m, n, L, K, c, e)
  BY <1>2, <1>3, <1>7, <1>16, <1>18, <1>19, <1>o DEF Deleted
<1>21. SoundFor(Mem', c, L) /\ Mem' = n
  BY <1>2, <1>8, <1>12, <1>16, CommitSound
<1> QED
  BY <1>8, <1>20, <1>21 DEF m

-----------------------------------------------------------------------------
(* Where the services leave blocks, regions and VIDTs.                     *)

\* What a service commits is the memory of the next state.
LEMMA CommitMem ==
  ASSUME NEW n \in Good, Commit(n)
  PROVE  Mem' = n
<1>1. n = [slot |-> n.slot, pd |-> n.pd]
  BY DEF Good
<1> QED
  BY <1>1 DEF Commit, Mem

\* One entry or one descriptor is written.
LEMMA WrittenFades ==
  ASSUME NEW m \in Good
  PROVE  /\ \A e \in Slots : \A b : BlockFades(b, m.slot[e]) => Fades(m, [m EXCEPT !.slot[e] = b], {})
         /\ \A p \in PDAddr : \A d : PDFades(d, m.pd[p]) => Fades(m, [m EXCEPT !.pd[p] = d], {})
<1>0. m.slot \in [Slots -> Entry] /\ m.pd \in [PDAddr -> GoodPD] /\ m = [slot |-> m.slot, pd |-> m.pd]
  BY DEF Good
<1>1. ASSUME NEW e \in Slots, NEW b, BlockFades(b, m.slot[e])
      PROVE  Fades(m, [m EXCEPT !.slot[e] = b], {})
  <2> DEFINE n == [m EXCEPT !.slot[e] = b]
  <2>1. n.pd = m.pd /\ \A f \in Slots : n.slot[f] = IF f = e THEN b ELSE m.slot[f]
    BY <1>0
  <2> HIDE DEF n
  <2>2. Fades(m, n, {})
    BY <1>1, <2>1, BlockSelf, PDFadesSelf DEF Fades
  <2> QED
    BY <2>2 DEF n
<1>2. ASSUME NEW p \in PDAddr, NEW d, PDFades(d, m.pd[p])
      PROVE  Fades(m, [m EXCEPT !.pd[p] = d], {})
  <2> DEFINE n == [m EXCEPT !.pd[p] = d]
  <2>1. n.slot = m.slot /\ \A q \in PDAddr : n.pd[q] = IF q = p THEN d ELSE m.pd[q]
    BY <1>0
  <2> HIDE DEF n
  <2>2. Fades(m, n, {})
    BY <1>2, <2>1, BlockSelf, PDFadesSelf DEF Fades
  <2> QED
    BY <2>2 DEF n
<1> QED
  BY <1>1, <1>2

\* createPartition: the block stays where it is and leaves the MPU.
LEMMA createFades ==
  ASSUME IInv, NEW c \in PDAddr, NEW e \in SlotsOf(Mem, c), createPartition(c, e)
  PROVE  Fades(Mem, Mem', {})
<1> DEFINE b  == slot[e]
           m1 == eraseBlock(Mem, b.start, b.end)
           m2 == [m1 EXCEPT !.pd[b.start] = ChildPD(c), !.slot[e].PDflag = TRUE]
           m3 == hide(m2, c, e)
<1>0. Mem \in Good /\ e \in Slots
  BY CallerType
<1>1. m1 \in Good /\ Fades(Mem, m1, {})
  BY <1>0, eraseBlockGood, eraseFades
<1> HIDE DEF m1
<1>2. [m1.slot[e] EXCEPT !.PDflag = TRUE] \in Entry
  BY <1>0, <1>1, EntryOf, EntryUpdate
<1>3. m2 \in Good
  BY <1>1, <1>2, ChildPDGood DEF Good
<1>4. Fades(m1, m2, {})
  <2> DEFINE q == b.start
             d == [m1.slot[e] EXCEPT !.PDflag = TRUE]
  <2>1. m1.slot \in [Slots -> Entry] /\ m1.pd \in [PDAddr -> GoodPD]
    BY <1>1 DEF Good
  <2>2. /\ \A f \in Slots : m2.slot[f] = IF f = e THEN d ELSE m1.slot[f]
        /\ \A x \in PDAddr : m2.pd[x] = IF x = q THEN ChildPD(c) ELSE m1.pd[x]
    BY <1>1, <2>1 DEF Good
  <2>3. BlockFades(d, m1.slot[e])
    BY <1>0, <2>1 DEF BlockFades, SameArea, Entry
  <2>4. \A x : PDFades(ChildPD(c), x)
    BY DEF PDFades, ChildPD, EmptyPD, Null
  <2> HIDE DEF m2, q, d
  <2> QED
    BY <2>2, <2>3, <2>4, BlockSelf, PDFadesSelf DEF Fades
<1> HIDE DEF m2
<1>5. m3 \in Good /\ Fades(m2, m3, {})
  BY <1>0, <1>3, hideGood, hideFades
<1>6. Commit(m3)
  BY DEF createPartition, m1, m2
<1> HIDE DEF m3
<1>7. Fades(Mem, m2, {})
  BY <1>1, <1>4, FadesTrans
<1>8. Fades(Mem, m3, {})
  BY <1>5, <1>7, FadesTrans
<1> QED
  BY <1>5, <1>6, <1>8, CommitMem

\* prepare: what the new structure overwrites is gone.
LEMMA prepareFades ==
  ASSUME IInv, NEW c \in PDAddr, NEW t \in PDAddr, NEW e \in SlotsOf(Mem, c), prepare(c, t, e)
  PROVE  Fades(Mem, Mem', {})
<1> DEFINE b  == slot[e]
           ks == b.start
           m0 == eraseBlock(Mem, b.start, b.end)
           m1 == initStructure(m0, ks, pd[t].firstFree)
           m2 == hide(m1, c, e)
           m3 == [m2 EXCEPT !.pd[t] = addStructure(@, ks)]
           m4 == IF t = c THEN m3 ELSE [m3 EXCEPT !.slot[e].PDchild = t]
<1>0. Mem \in Good /\ e \in Slots
  BY CallerType
<1>1. ks \in KSAddr /\ pd[t].nbPrepare < MaxPrepare /\ pd[t].firstFree \in SlotRef /\ Commit(m4)
  BY DEF prepare, CanPrepare, KSAddr, IInv, Mem, Good, GoodPD, Descriptor
<1>2. m0 \in Good /\ Fades(Mem, m0, {})
  BY <1>0, eraseBlockGood, eraseFades
<1>3. m0.pd[t].nbPrepare < MaxPrepare
  <2>1. EmptyPD.nbPrepare = 0 /\ 0 < MaxPrepare
    BY ConstantsAssumption DEF EmptyPD
  <2>2. m0.pd[t] = EmptyPD \/ m0.pd[t] = pd[t]
    BY DEF eraseBlock, Mem
  <2> HIDE DEF m0
  <2> QED
    BY <1>1, <2>1, <2>2
<1> HIDE DEF m0
<1>4. m1 \in Good /\ m1.pd = m0.pd
  <2>1. m1 \in Good
    BY <1>1, <1>2, initStructureGood
  <2>2. m1.pd = m0.pd
    BY <1>2 DEF initStructure, Good
  <2> QED
    BY <2>1, <2>2
<1>5. Fades(m0, m1, {})
  <2>1. \A f \in Slots : m1.slot[f] = m0.slot[f] \/ \E l : m1.slot[f] = FreeEntry(l)
    BY <1>2, Zenon DEF initStructure, Good
  <2> HIDE DEF m1
  <2> QED
    BY <1>4, <2>1, FreeFades, BlockSelf, PDFadesSelf DEF Fades
<1> HIDE DEF m1
<1>6. m2 \in Good /\ Fades(m1, m2, {})
  BY <1>0, <1>4, hideGood, hideFades
<1>7. m2.pd[t].nbPrepare < MaxPrepare
  BY <1>0, <1>3, <1>4, hideKeepsStructures
<1> HIDE DEF m2
<1>8. m3 \in Good /\ Fades(m2, m3, {})
  <2>1. m2.pd[t] \in GoodPD
    BY <1>6 DEF Good
  <2>2. addStructure(m2.pd[t], ks) \in GoodPD
    BY <1>1, <1>7, <2>1, addStructureGood
  <2>3. PDFades(addStructure(m2.pd[t], ks), m2.pd[t])
    BY <2>1 DEF PDFades, addStructure, FreeListAt, GoodPD, Descriptor
  <2> HIDE DEF ks
  <2>4. m3 \in Good
    BY <1>6, <2>2 DEF Good
  <2> QED
    BY <1>6, <2>3, <2>4, WrittenFades
<1> HIDE DEF m3
<1>9. m4 \in Good /\ Fades(m3, m4, {})
  <2>1. [m3.slot[e] EXCEPT !.PDchild = t] \in Entry /\ m3.slot[e] \in Entry
    BY <1>0, <1>8, EntryOf, EntryUpdate
  <2>2. BlockFades([m3.slot[e] EXCEPT !.PDchild = t], m3.slot[e])
    BY <2>1, MarkFades
  <2>3. [m3 EXCEPT !.slot[e].PDchild = t] = [m3 EXCEPT !.slot[e] = [m3.slot[e] EXCEPT !.PDchild = t]]
    BY <1>8 DEF Good
  <2>4. [m3 EXCEPT !.slot[e].PDchild = t] \in Good
    BY <1>8, <2>1 DEF Good
  <2> QED
    BY <1>0, <1>8, <2>2, <2>3, <2>4, WrittenFades, FadesSelf
<1> HIDE DEF m4
<1>10. Fades(Mem, m1, {})
  BY <1>2, <1>5, FadesTrans
<1>11. Fades(Mem, m2, {})
  BY <1>6, <1>10, FadesTrans
<1>12. Fades(Mem, m3, {})
  BY <1>8, <1>11, FadesTrans
<1>13. Fades(Mem, m4, {})
  BY <1>9, <1>12, FadesTrans
<1> QED
  BY <1>1, <1>9, <1>13, CommitMem

\* addMemoryBlock: the copy in the child is the only new block.
LEMMA addFades ==
  ASSUME IInv, NEW c \in PDAddr, NEW t \in PDAddr, NEW e \in SlotsOf(Mem, c),
         NEW rights \in GrantRights, addMemoryBlock(c, t, e, rights)
  PROVE  Fades(Mem, Mem', {pd[t].firstFree})
<1> DEFINE b   == slot[e]
           new == pd[t].firstFree
           m1  == insertNewEntry(Mem, t, b.start, b.end, b.start, rights)
           m2  == [m1 EXCEPT !.slot[e].PDchild = t, !.slot[e].inChild = new]
<1>0. Mem \in Good /\ e \in Slots /\ Mem.pd = pd
  BY CallerType
<1>1. Commit(m2)
  BY DEF addMemoryBlock
<1>3. m1 \in Good /\ Fades(Mem, m1, {new})
  <2>1. b.start \in 0 .. Top + 1 /\ b.end \in 0 .. Top + 1
    BY CallerType DEF Entry
  <2>2. rights \in SUBSET Rights
    BY ConstantsAssumption
  <2> QED
    BY <1>0, <2>1, <2>2, insertNewEntryGood, insertFades
<1> HIDE DEF m1, new
<1>4. Fades(m1, m2, {})
  <2> DEFINE d == [m1.slot[e] EXCEPT !.PDchild = t]
             s == [m1 EXCEPT !.slot[e] = d]
  <2>1. d \in Entry /\ m1.slot[e] \in Entry
    BY <1>0, <1>3, EntryOf, EntryUpdate
  <2>2. BlockFades(d, m1.slot[e])
    BY <2>1, MarkFades
  <2>3. Fades(m1, s, {})
    BY <1>0, <1>3, <2>2, WrittenFades
  <2>4. s \in Good
    BY <1>3, <2>1 DEF Good
  <2>5. s.slot[e] \in Entry
    BY <1>0, <2>4, EntryOf
  <2> DEFINE g == [m1.slot EXCEPT ![e].PDchild = t]
  <2>a. g = [m1.slot EXCEPT ![e] = d]
    BY <1>0, <1>3 DEF Good
  <2>b. m2 = [m1 EXCEPT !.slot = [g EXCEPT ![e].inChild = new]]
    BY <1>3 DEF Good
  <2>c. s = [m1 EXCEPT !.slot = g]
    BY <2>a
  <2> HIDE DEF g, d, m2, s
  <2>d. s.slot = g
    BY <1>3, <2>c DEF Good
  <2>e. [s EXCEPT !.slot = [g EXCEPT ![e].inChild = new]]
          = [m1 EXCEPT !.slot = [g EXCEPT ![e].inChild = new]]
    BY <1>3, <2>c DEF Good
  <2>f. [g EXCEPT ![e].inChild = new] = [g EXCEPT ![e] = [g[e] EXCEPT !.inChild = new]]
    OBVIOUS
  <2>6. m2 = [s EXCEPT !.slot[e] = [s.slot[e] EXCEPT !.inChild = new]]
    BY <2>b, <2>d, <2>e, <2>f
  <2>7. BlockFades([s.slot[e] EXCEPT !.inChild = new], s.slot[e])
    BY <2>5, MarkFades
  <2>8. Fades(s, m2, {})
    BY <1>0, <2>4, <2>6, <2>7, WrittenFades
  <2> QED
    BY <2>3, <2>8, FadesTrans
<1> HIDE DEF m2
<1>5. Mem'.slot = m2.slot /\ Mem'.pd = m2.pd
  BY <1>1 DEF Commit, Mem
<1>6. Fades(Mem, m2, {new})
  BY <1>3, <1>4, FadesTrans
<1> QED
  BY <1>5, <1>6 DEF new, Fades

\* removeMemoryBlock: the copies are gone.
LEMMA removeServiceFades ==
  ASSUME IInv, NEW c \in PDAddr, NEW e \in SlotsOf(Mem, c), removeMemoryBlock(c, e)
  PROVE  Fades(Mem, Mem', {})
<1>0. Mem \in Good /\ e \in Slots /\ slot[e] \in Entry
  BY CallerType
<1>u. ASSUME NEW m \in Good
      PROVE  /\ [m EXCEPT !.slot[e] = Unshared(@)] \in Good
             /\ Fades(m, [m EXCEPT !.slot[e] = Unshared(@)], {})
  <2>1. m.slot[e] \in Entry
    BY <1>0, EntryOf
  <2>2. Unshared(m.slot[e]) \in Entry /\ BlockFades(Unshared(m.slot[e]), m.slot[e])
    BY <2>1, UnsharedType, MarkFades
  <2>3. [m EXCEPT !.slot[e] = Unshared(@)] \in Good
    BY <2>2 DEF Good
  <2> QED
    BY <1>0, <2>2, <2>3, WrittenFades
<1>1. CASE removeUncutBlock(c, e)
  <2> DEFINE m1 == removeBlockInDescendantsRec(Mem, slot[e].PDchild, slot[e].inChild)
             m2 == [m1 EXCEPT !.slot[e] = Unshared(@)]
  <2>1. m1 \in Good /\ Fades(Mem, m1, {})
    BY <1>0, removeBlockInDescendantsGood, removeFades
  <2>2. Commit(m2)
    BY <1>1 DEF removeUncutBlock
  <2> HIDE DEF m1
  <2>3. m2 \in Good /\ Fades(m1, m2, {})
    BY <1>u, <2>1
  <2> HIDE DEF m2
  <2>4. Fades(Mem, m2, {})
    BY <2>1, <2>3, FadesTrans
  <2> QED
    BY <2>2, <2>3, <2>4, CommitMem
<1>2. CASE removeCutBlock(c, e)
  <2> DEFINE b    == slot[e]
             subs == Subblocks(Mem, b.inChild)
             m1   == freeSlots(Mem, b.PDchild, subs)
             m2   == [m1 EXCEPT !.slot[e].accessible = TRUE]
             m3   == writeAccessibleRec(m2, c, b.start, m2.slot[e].end, TRUE)
             n    == [m3 EXCEPT !.slot[e] = Unshared(@)]
  <2>1. subs \in SUBSET Slots /\ b.PDchild \in PDAddr
    BY <1>0, <1>2 DEF Subblocks, removeCutBlock, IsRemovable, Entry
  <2>2. m1 \in Good /\ Fades(Mem, m1, {})
    BY <1>0, <2>1, freeSlotsGood, freeSlotsFades
  <2>3. Commit(m3) \/ Commit(n)
    BY <1>2, Zenon DEF removeCutBlock
  <2> HIDE DEF m1
  <2>4. m2 \in Good /\ Fades(m1, m2, {})
    <3>1. m1.slot[e] \in Entry /\ [m1.slot[e] EXCEPT !.accessible = TRUE] \in Entry
      BY <1>0, <2>2, EntryOf, EntryUpdate
    <3>2. BlockFades([m1.slot[e] EXCEPT !.accessible = TRUE], m1.slot[e])
      BY <3>1, MarkFades
    <3>3. m2 \in Good
      BY <2>2, <3>1 DEF Good
    <3> QED
      BY <1>0, <2>2, <3>2, <3>3, WrittenFades
  <2> HIDE DEF m2
  <2>5. m3 \in Good /\ Fades(m2, m3, {})
    BY <2>4, writeAccessibleRecGood, writeFades
  <2> HIDE DEF m3
  <2>6. n \in Good /\ Fades(m3, n, {})
    BY <1>u, <2>5
  <2> HIDE DEF n
  <2>7. Fades(Mem, m2, {})
    BY <2>2, <2>4, FadesTrans
  <2>8. Fades(Mem, m3, {})
    BY <2>5, <2>7, FadesTrans
  <2>9. Fades(Mem, n, {})
    BY <2>6, <2>8, FadesTrans
  <2> QED
    BY SMTT(30), <2>3, <2>5, <2>6, <2>8, <2>9, CommitMem
<1> QED
  BY <1>1, <1>2 DEF removeMemoryBlock

\* deletePartition: the descriptor goes, the blocks of the caller stay.
LEMMA deleteFades ==
  ASSUME IInv, NEW c \in PDAddr, NEW e \in SlotsOf(Mem, c), deletePartition(c, e)
  PROVE  Fades(Mem, Mem', {})
<1> DEFINE m1 == eraseBlock(Mem, slot[e].start, slot[e].end)
<1>1. PICK E : Commit(releaseBlocks(m1, c, E))
  BY DEF deletePartition
<1>2. m1 \in Good /\ Fades(Mem, m1, {})
  BY CallerType, eraseBlockGood, eraseFades
<1> HIDE DEF m1
<1>3. releaseBlocks(m1, c, E) \in Good /\ Fades(m1, releaseBlocks(m1, c, E), {})
  BY <1>2, releaseBlocksGood, releaseFades
<1>4. Fades(Mem, releaseBlocks(m1, c, E), {})
  BY <1>2, <1>3, FadesTrans
<1> QED
  BY <1>1, <1>3, <1>4, CommitMem

\* As Fades, but for the regions R of p, which get a block of their own.
FadesBut(m, n, X, p, R) ==
  /\ \A f \in Slots : f \notin X => BlockFades(n.slot[f], m.slot[f])
  /\ \A q \in PDAddr : \A k \in Regions :
       (q = p /\ k \in R) \/ n.pd[q].mpu[k] \in {m.pd[q].mpu[k], NullSlot}

\* Where blocks only fade, they do so outside any regions.
LEMMA FadesAll == \A m, n, X, p, R : Fades(m, n, X) => FadesBut(m, n, X, p, R)
  BY DEF Fades, FadesBut, PDFades

\* A VIDT is as it was, or nothing is left of its partition.
VidtsKept(m, n) == \A q \in PDAddr : n.pd[q].vidt \in {m.pd[q].vidt, Null}

\* Where blocks only fade, the VIDTs stay.
LEMMA FadesVidts == \A m, n, X : Fades(m, n, X) => VidtsKept(m, n)
  BY DEF Fades, PDFades, VidtsKept

\* setVIDT writes the VIDT only.
LEMMA setVIDTFades ==
  ASSUME IInv, NEW c, NEW t \in PDAddr, NEW a, setVIDT(c, t, a)
  PROVE  /\ Mem'.slot = Mem.slot
         /\ \A p : FadesBut(Mem, Mem', {}, p, {})
         /\ \A q \in PDAddr : /\ Mem'.pd[q].structs = Mem.pd[q].structs
                              /\ Mem'.pd[q].vidt = IF q = t THEN a ELSE Mem.pd[q].vidt
<1>0. Mem \in Good /\ Mem.pd[t] \in GoodPD
  BY DEF IInv, Good
<1> DEFINE n == [Mem EXCEPT !.pd[t].vidt = a]
<1>1. Commit(n)
  BY DEF setVIDT
<1>2. n = [Mem EXCEPT !.pd[t] = [Mem.pd[t] EXCEPT !.vidt = a]]
  BY <1>0 DEF Good
<1> DEFINE d == [Mem.pd[t] EXCEPT !.vidt = a]
<1>3. d.mpu = Mem.pd[t].mpu /\ d.structs = Mem.pd[t].structs /\ d.vidt = a
  BY <1>0 DEF GoodPD, Descriptor
<1> HIDE DEF d
<1>4. n.slot = Mem.slot /\ \A q \in PDAddr : n.pd[q] = IF q = t THEN d ELSE Mem.pd[q]
  BY <1>0, <1>2 DEF Good, d
<1>5. n = [slot |-> n.slot, pd |-> n.pd]
  BY <1>0 DEF Good
<1> HIDE DEF n
<1>6. Mem' = n
  BY <1>1, <1>5 DEF Commit, Mem
<1>7. /\ \A f \in Slots : BlockFades(n.slot[f], Mem.slot[f])
      /\ \A q \in PDAddr : n.pd[q].mpu = Mem.pd[q].mpu /\ n.pd[q].structs = Mem.pd[q].structs
  BY <1>3, <1>4, BlockSelf
<1>8. \A p : FadesBut(Mem, n, {}, p, {})
  BY <1>7 DEF FadesBut
<1>9. \A q \in PDAddr : n.pd[q].vidt = IF q = t THEN a ELSE Mem.pd[q].vidt
  BY <1>3, <1>4
<1> QED
  BY <1>4, <1>6, <1>7, <1>8, <1>9

\* enableBlockInMPU writes one region.
LEMMA EnableEffect ==
  ASSUME NEW m \in Good, NEW p \in PDAddr, NEW e, NEW r
  PROVE  LET n == enableBlockInMPU(m, p, e, r)
         IN  /\ n.slot = m.slot
             /\ \A q \in PDAddr : n.pd[q].vidt = m.pd[q].vidt
             /\ \A q \in PDAddr : \A k \in Regions :
                  n.pd[q].mpu[k] = IF q = p /\ k = r THEN e ELSE m.pd[q].mpu[k]
<1>0. m.pd \in [PDAddr -> GoodPD]
  BY DEF Good
<1>1. CASE r \notin Regions
  BY <1>1 DEF enableBlockInMPU
<1>2. CASE r \in Regions
  <2> DEFINE d == [m.pd[p] EXCEPT !.mpu[r] = e]
             n == enableBlockInMPU(m, p, e, r)
  <2>1. n = [m EXCEPT !.pd[p] = d]
    BY <1>0, <1>2 DEF enableBlockInMPU
  <2>2. /\ d.vidt = m.pd[p].vidt
        /\ \A k \in Regions : d.mpu[k] = IF k = r THEN e ELSE m.pd[p].mpu[k]
    BY <1>0 DEF GoodPD, Descriptor
  <2> HIDE DEF d, n
  <2>3. n.slot = m.slot /\ \A q \in PDAddr : n.pd[q] = IF q = p THEN d ELSE m.pd[q]
    BY <1>0, <2>1 DEF Good
  <2>4. /\ n.slot = m.slot
        /\ \A q \in PDAddr : n.pd[q].vidt = m.pd[q].vidt
        /\ \A q \in PDAddr : \A k \in Regions :
             n.pd[q].mpu[k] = IF q = p /\ k = r THEN e ELSE m.pd[q].mpu[k]
    BY <2>2, <2>3
  <2> QED
    BY <2>4 DEF n
<1> QED
  BY <1>1, <1>2

\* enableBlockInMPU writes to one region of one partition.
LEMMA EnabledFades ==
  ASSUME NEW m, NEW n \in Good, NEW X, Fades(m, n, X), NEW p \in PDAddr, NEW e, NEW r
  PROVE  /\ FadesBut(m, enableBlockInMPU(n, p, e, r), X, p, {r})
         /\ VidtsKept(m, enableBlockInMPU(n, p, e, r))
<1> DEFINE o == enableBlockInMPU(n, p, e, r)
<1>1. /\ o.slot = n.slot /\ \A q \in PDAddr : o.pd[q].vidt = n.pd[q].vidt
      /\ \A q \in PDAddr : \A k \in Regions :
           o.pd[q].mpu[k] = IF q = p /\ k = r THEN e ELSE n.pd[q].mpu[k]
  BY EnableEffect
<1> HIDE DEF o
<1>2. \A q \in PDAddr : \A k \in Regions : n.pd[q].mpu[k] \in {m.pd[q].mpu[k], NullSlot}
  BY DEF Fades, PDFades
<1>3. \A f \in Slots : f \notin X => BlockFades(o.slot[f], m.slot[f])
  BY <1>1 DEF Fades
<1>4. \A q \in PDAddr : \A k \in Regions :
        (q = p /\ k \in {r}) \/ o.pd[q].mpu[k] \in {m.pd[q].mpu[k], NullSlot}
  BY <1>1, <1>2
<1>5. FadesBut(m, o, X, p, {r})
  BY <1>3, <1>4 DEF FadesBut
<1>6. VidtsKept(m, o)
  BY <1>1, FadesVidts DEF VidtsKept
<1> QED
  BY <1>5, <1>6 DEF o

\* cutMemoryBlock: the block shrinks and its second part appears.
LEMMA cutFades ==
  ASSUME IInv, NEW c \in PDAddr, NEW e \in SlotsOf(Mem, c), NEW a \in CutPoints, NEW r,
         cutMemoryBlock(c, e, a, r)
  PROVE  FadesBut(Mem, Mem', {e, pd[c].firstFree}, c, {r}) /\ VidtsKept(Mem, Mem')
<1> DEFINE b   == slot[e]
           new == pd[c].firstFree
           m1  == writeAccessibleToAncestorsIfNotCutRec(Mem, c, e, FALSE)
           m2  == insertNewEntry(m1, c, a, b.end, b.origin, b.rights)
           m3  == [m2 EXCEPT !.slot = [@ EXCEPT ![new].next = b.next,
                                                ![e].end = a,
                                                ![e].next = new]]
<1>0. Mem \in Good /\ e \in Slots /\ Mem.pd = pd
  BY CallerType
<1>1. /\ new \in SlotRef /\ a \in 0 .. Top + 1
      /\ b.end \in 0 .. Top + 1 /\ b.origin \in 0 .. Top + 1
      /\ b.rights \in SUBSET Rights /\ b.next \in SlotRef
  BY SMTT(30), CallerType, ConstantsAssumption DEF Good, GoodPD, Descriptor, Entry, Mem, IInv
<1>a. Commit(enableBlockInMPU(m3, c, new, r))
  BY DEF cutMemoryBlock
<1>2. m1 \in Good /\ Fades(Mem, m1, {})
  BY <1>0, writeAccessibleToAncestorsGood, toldFades
<1>3. m1.pd[c].firstFree = new
  <2>1. m1.pd[c] = pd[c] \/ \E E : m1.pd[c] = Unmap(pd[c], E)
    BY <1>0 DEF writeAccessibleToAncestorsIfNotCutRec, writeAccessibleRec
  <2>2. pd[c] \in GoodPD
    BY <1>0 DEF Good
  <2> HIDE DEF m1
  <2> QED
    BY <2>1, <2>2 DEF Unmap, GoodPD, Descriptor
<1> HIDE DEF m1
<1>4. m2 \in Good /\ Fades(m1, m2, {new})
  BY <1>1, <1>2, <1>3, insertNewEntryGood, insertFades
<1> HIDE DEF m2
<1>5. m3 \in Good /\ Fades(m2, m3, {e})
  <2> DEFINE s1 == [m2.slot EXCEPT ![new].next = b.next]
             s2 == [s1 EXCEPT ![e].end = a]
             s3 == [s2 EXCEPT ![e].next = new]
  <2>1. \A f \in Slots : m2.slot[f] \in Entry /\ [m2.slot[f] EXCEPT !.next = b.next] \in Entry
    BY <1>1, <1>4 DEF Good, Entry
  <2>2. s1 \in [Slots -> Entry]
    BY <1>4, <2>1 DEF Good
  <2>3. \A f \in Slots : s1[f] \in {m2.slot[f], [m2.slot[f] EXCEPT !.next = b.next]}
    BY <1>4 DEF Good
  <2> HIDE DEF s1
  <2>4. [s1[e] EXCEPT !.end = a] \in Entry
    BY <1>0, <1>1, <2>2 DEF Entry
  <2>5. s2 \in [Slots -> Entry] /\ \A f \in Slots : f # e => s2[f] = s1[f]
    BY <2>2, <2>4
  <2> HIDE DEF s2
  <2>6. [s2[e] EXCEPT !.next = new] \in Entry
    BY <1>0, <1>1, <2>5 DEF Entry
  <2>7. s3 \in [Slots -> Entry] /\ \A f \in Slots : f # e => s3[f] = s2[f]
    BY <2>5, <2>6
  <2>8. m3 = [m2 EXCEPT !.slot = s3]
    BY <1>4 DEF Good, s1, s2
  <2> HIDE DEF s3, m3
  <2>9. m3 \in Good /\ m3.slot = s3 /\ m3.pd = m2.pd
    BY <1>4, <2>7, <2>8 DEF Good
  <2>10. ASSUME NEW f \in Slots, f # e PROVE BlockFades(m3.slot[f], m2.slot[f])
    <3>1. m3.slot[f] \in {m2.slot[f], [m2.slot[f] EXCEPT !.next = b.next]}
      BY <2>3, <2>5, <2>7, <2>9, <2>10
    <3> QED
      BY <2>1, <3>1 DEF BlockFades, SameArea, Entry
  <2> QED
    BY <2>9, <2>10, PDFadesSelf DEF Fades
<1> HIDE DEF m3
<1>6. Fades(Mem, m2, {new})
  <2>1. Fades(Mem, m2, {} \cup {new})
    BY <1>2, <1>4, FadesTrans
  <2> QED
    BY <2>1
<1>7. Fades(Mem, m3, {new} \cup {e})
  BY <1>5, <1>6, FadesTrans
<1>8. {new} \cup {e} = {e, new}
  OBVIOUS
<1>9. /\ FadesBut(Mem, enableBlockInMPU(m3, c, new, r), {e, new}, c, {r})
      /\ VidtsKept(Mem, enableBlockInMPU(m3, c, new, r))
  BY <1>5, <1>7, <1>8, EnabledFades
<1>10. enableBlockInMPU(m3, c, new, r) \in Good
  BY <1>1, <1>5, enableBlockInMPUGood
<1> QED
  BY <1>9, <1>10, <1>a, CommitMem

\* mergeMemoryBlocks: the block grows, and leaves the regions but for r.
LEMMA mergeFades ==
  ASSUME IInv, NEW c \in PDAddr,
         NEW e1 \in SlotsOf(Mem, c), NEW e2 \in SlotsOf(Mem, c), NEW r,
         mergeMemoryBlocks(c, e1, e2, r)
  PROVE  /\ FadesBut(Mem, Mem', {e1}, c, {r}) /\ VidtsKept(Mem, Mem')
         /\ \A k \in Regions : k # r => Mem'.pd[c].mpu[k] # e1
<1> DEFINE m1 == [Mem EXCEPT !.slot[e1].next = slot[e2].next,
                             !.slot[e1].end = slot[e2].end]
           m2 == freeSlots(m1, c, {e2})
           m3 == writeAccessibleToAncestorsIfNotCutRec(m2, c, e1, TRUE)
           m4 == [m3 EXCEPT !.pd[c] = Unmap(@, {e1, e2})]
           o  == enableBlockInMPU(m4, c, e1, r)
<1>1. /\ e1 \in Slots /\ e2 \in Slots /\ slot[e1] \in Entry /\ slot[e2] \in Entry
      /\ Mem \in Good /\ Mem.slot = slot
  BY CallerType
<1>a. Commit(o)
  BY DEF mergeMemoryBlocks
<1>2. m1 \in Good /\ Fades(Mem, m1, {e1})
  <2> DEFINE n == slot[e2].next
             t == slot[e2].end
             s1 == [slot EXCEPT ![e1].next = n]
             s2 == [s1 EXCEPT ![e1].end = t]
  <2>1. n \in SlotRef /\ t \in 0 .. Top + 1
    BY <1>1 DEF Entry
  <2>2. slot \in [Slots -> Entry]
    BY <1>1 DEF Good
  <2> HIDE DEF n, t
  <2>3. [slot[e1] EXCEPT !.next = n] \in Entry
    BY <1>1, <2>1 DEF Entry
  <2>4. s1 \in [Slots -> Entry] /\ \A f \in Slots : f # e1 => s1[f] = slot[f]
    BY <2>2, <2>3
  <2> HIDE DEF s1
  <2>5. [s1[e1] EXCEPT !.end = t] \in Entry
    BY <1>1, <2>1, <2>4 DEF Entry
  <2>6. s2 \in [Slots -> Entry] /\ \A f \in Slots : f # e1 => s2[f] = s1[f]
    BY <2>4, <2>5
  <2>7. m1 = [Mem EXCEPT !.slot = s2]
    BY <1>1 DEF Good, s1, n, t
  <2> HIDE DEF s2, m1
  <2>8. m1 \in Good /\ m1.slot = s2 /\ m1.pd = Mem.pd
    BY <1>1, <2>6, <2>7 DEF Good
  <2>9. \A f \in Slots : f # e1 => m1.slot[f] = Mem.slot[f]
    BY <1>1, <2>4, <2>6, <2>8
  <2> QED
    BY <2>8, <2>9, BlockSelf, PDFadesSelf DEF Fades
<1> HIDE DEF m1
<1>3. m2 \in Good /\ Fades(m1, m2, {})
  BY <1>1, <1>2, freeSlotsGood, freeSlotsFades
<1> HIDE DEF m2
<1>4. m3 \in Good /\ Fades(m2, m3, {})
  BY <1>3, writeAccessibleToAncestorsGood, toldFades
<1> HIDE DEF m3
<1>5. m4 \in Good /\ Fades(m3, m4, {}) /\ m4.pd[c] = Unmap(m3.pd[c], {e1, e2})
  <2> DEFINE d == Unmap(m3.pd[c], {e1, e2})
  <2>1. m3.pd[c] \in GoodPD /\ d \in GoodPD
    BY <1>4, UnmapGood DEF Good
  <2>2. PDFades(d, m3.pd[c])
    BY <2>1, UnmapFades
  <2> HIDE DEF d
  <2>3. m4 = [m3 EXCEPT !.pd[c] = d]
    BY <1>4 DEF Good, d
  <2>4. m4 \in Good /\ m4.pd[c] = d
    BY <1>4, <2>1, <2>3 DEF Good
  <2>5. Fades(m3, m4, {})
    BY <1>4, <2>2, <2>3, WrittenFades
  <2> QED
    BY <2>4, <2>5 DEF d
<1> HIDE DEF m4
<1>6. Fades(Mem, m2, {e1})
  <2>1. Fades(Mem, m2, {e1} \cup {})
    BY <1>2, <1>3, FadesTrans
  <2> QED
    BY <2>1
<1>7. Fades(Mem, m3, {e1})
  <2>1. Fades(Mem, m3, {e1} \cup {})
    BY <1>4, <1>6, FadesTrans
  <2> QED
    BY <2>1
<1>8. Fades(Mem, m4, {e1})
  <2>1. Fades(Mem, m4, {e1} \cup {})
    BY <1>5, <1>7, FadesTrans
  <2> QED
    BY <2>1
<1>9. FadesBut(Mem, o, {e1}, c, {r}) /\ VidtsKept(Mem, o)
  BY <1>5, <1>8, EnabledFades
<1>10. \A k \in Regions : k # r => o.pd[c].mpu[k] # e1
  <2>1. \A k \in Regions : m4.pd[c].mpu[k] # e1
    <3>1. m3.pd[c] \in GoodPD /\ e1 # NullSlot
      BY <1>1, <1>4, NullSlotNoSlot DEF Good
    <3> QED
      BY <1>5, <3>1 DEF Unmap, GoodPD, Descriptor
  <2>2. \A k \in Regions : k # r => o.pd[c].mpu[k] = m4.pd[c].mpu[k]
    BY <1>5, EnableEffect
  <2> QED
    BY <2>1, <2>2
<1>11. o \in Good
  BY <1>1, <1>5, enableBlockInMPUGood DEF SlotRef
<1> HIDE DEF o
<1> QED
  BY <1>9, <1>10, <1>11, <1>a, CommitMem

\* mapMPU: the region gets the block, and the region it had before is empty.
LEMMA unmapRegionFades ==
  ASSUME IInv, NEW c, NEW t \in PDAddr, NEW r, unmapRegion(c, t, r)
  PROVE  FadesBut(Mem, Mem', {}, t, {r}) /\ VidtsKept(Mem, Mem')
<1>0. Mem \in Good /\ NullSlot \in SlotRef
  BY DEF IInv, SlotRef
<1>1. /\ FadesBut(Mem, enableBlockInMPU(Mem, t, NullSlot, r), {}, t, {r})
      /\ VidtsKept(Mem, enableBlockInMPU(Mem, t, NullSlot, r))
  BY <1>0, FadesSelf, EnabledFades
<1>2. enableBlockInMPU(Mem, t, NullSlot, r) \in Good
  BY <1>0, enableBlockInMPUGood
<1> QED
  BY <1>1, <1>2, CommitMem DEF unmapRegion

\* Internal.mapMPU writes to the region it is asked for, and to no other.
LEMMA mapBlockFades ==
  ASSUME IInv, NEW c, NEW t \in PDAddr, NEW e \in SlotsOf(Mem, t), NEW r,
         mapBlock(c, t, e, r)
  PROVE  FadesBut(Mem, Mem', {}, t, {r}) /\ VidtsKept(Mem, Mem')
<1> DEFINE mapped == {q \in Regions : pd[t].mpu[q] = e}
           old == IF mapped = {} THEN NoRegion
                  ELSE CHOOSE q \in mapped : \A k \in mapped : q <= k
           m1 == enableBlockInMPU(Mem, t, NullSlot, old)
           n  == enableBlockInMPU(m1, t, e, r)
<1>0. Mem \in Good /\ NullSlot \in SlotRef /\ e \in SlotRef
  BY CallerType DEF SlotRef
<1>1. Commit(n)
  BY DEF mapBlock
<1> HIDE DEF old
<1>2. m1 \in Good
  BY <1>0, enableBlockInMPUGood
<1>3. /\ m1.slot = Mem.slot /\ \A q \in PDAddr : m1.pd[q].vidt = Mem.pd[q].vidt
      /\ \A q \in PDAddr : \A k \in Regions :
           m1.pd[q].mpu[k] = IF q = t /\ k = old THEN NullSlot ELSE Mem.pd[q].mpu[k]
  BY <1>0, EnableEffect
<1> HIDE DEF m1
<1>4. Fades(Mem, m1, {})
  BY <1>3, BlockSelf DEF Fades, PDFades
<1>5. FadesBut(Mem, n, {}, t, {r}) /\ VidtsKept(Mem, n) /\ n \in Good
  BY <1>0, <1>2, <1>4, EnabledFades, enableBlockInMPUGood
<1> HIDE DEF n
<1> QED
  BY <1>1, <1>5, CommitMem
=============================================================================
