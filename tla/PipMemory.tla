------------------------------ MODULE PipMemory ------------------------------
(***************************************************************************)
(* The memory services of Pip-MPU (src/core/Services.v) and the internal   *)
(* functions they are built from (src/core/Internal.v).                    *)
(*                                                                         *)
(* The kernel enters with interrupts masked and unmasks them on exit, so a *)
(* service call is one step.  Yield hands the processor to a child, to the *)
(* parent or to the root, so any live partition may be the next caller.    *)
(* A call whose checks fail returns without a change: it is a stuttering   *)
(* step and has no disjunct here.                                          *)
(***************************************************************************)
EXTENDS PipKernelData

-----------------------------------------------------------------------------
(* Plausible mistakes, one per property.  Each has the parameters of the   *)
(* definition it may stand in for, to show that the property then fails;   *)
(* none is part of the specification.                                      *)

\* Internal functions.

IsCutByOrigin(m, e)      == m.slot[e].origin # m.slot[e].start
NotAPartition(b)         == ~ b.PDflag
UnmapNothing(d, E)       == d
AncestorsNotTold(m, p, e, bit) == m
OnlyTheParent(m, p, s, t) == {m.pd[p].parent} \cap PDAddr
OnlyTheChild(m, p, e)    == {<<p, e>>} \cap (PDAddr \X Slots)
OneSubblock(m, e)        == {e} \cap Slots
DescendantsKeep(m, p, e) == m
KeepsLocation(b)         == [b EXCEPT !.PDchild = Null, !.PDflag = FALSE]

KeepsFlag(b)             == [b EXCEPT !.PDchild = Null, !.inChild = NullSlot]

OriginReset(m, p, s, t, o, rights) ==
  LET new == m.pd[p].firstFree
  IN  [m EXCEPT
         !.slot[new] = [@ EXCEPT !.start = s, !.end = t, !.origin = s,
                                 !.present = TRUE, !.accessible = TRUE,
                                 !.rights = rights, !.nextFree = NullSlot],
         !.pd[p].firstFree = m.slot[new].nextFree, !.pd[p].nbFree = @ - 1]

LosesFreeList(m, p, C) ==
  [slot |-> [e \in Slots |-> IF e \in C THEN FreeEntry(NullSlot) ELSE m.slot[e]],
   pd   |-> [m.pd EXCEPT ![p].firstFree = CHOOSE e \in C : TRUE,
                         ![p].nbFree = @ + Cardinality(C)]]

LastSlotUnlinked(m, ks, link) ==
  [m EXCEPT !.slot = [e \in Slots |-> IF e[1] = ks
                                      THEN FreeEntry(<<ks, e[2] + 1>>)
                                      ELSE m.slot[e]]]

OnlyTheTied(m, c, E) ==
  [m EXCEPT !.slot = [f \in Slots |->
     IF f \in E THEN [m.slot[f] EXCEPT !.accessible = TRUE, !.PDchild = Null,
                                       !.PDflag = FALSE, !.inChild = NullSlot]
     ELSE m.slot[f]]]

\* Services.

GivenToRoot(c)           == [EmptyPD EXCEPT !.parent = RootPD]
FirstUnshared(b1, b2)    == b1.PDchild = Null
OnePrepareTooMany(d)     == d.nbPrepare <= MaxPrepare
AnyRights(b, rights)     == "r" \in rights
StartFits(b, a)          == a < b.end
DropsLast(d, n)          ==
  [d EXCEPT !.structs = SubSeq(@, 1, Len(@) - 1), !.nbPrepare = @ - 1,
            !.nbFree = @ - Entries]

HeadKept(m, t, ks)       == m

MapsTwice(c, t, e, r) ==
  /\ IsFound(Mem, t, e) /\ slot[e].accessible
  /\ r \in Regions \ {0}
  /\ Commit([Mem EXCEPT !.pd[t].mpu[r] = e])

-----------------------------------------------------------------------------
(* Internal functions of the services.                                     *)

IsCut(m, e) == ~ (m.slot[e].origin = m.slot[e].start
                  /\ m.slot[e].next = NullSlot)

NotShared(b) == b.PDchild = Null

Unmap(d, E) ==
  [d EXCEPT !.mpu = [r \in Regions |-> IF d.mpu[r] \in E THEN NullSlot
                                       ELSE d.mpu[r]]]

enableBlockInMPU(m, p, e, r) ==
  IF r \in Regions THEN [m EXCEPT !.pd[p].mpu[r] = e] ELSE m

eraseBlock(m, s, t) ==
  [slot |-> [e \in Slots |-> IF e[1] \in s .. t - 1 THEN FreeEntry(NullSlot)
                             ELSE m.slot[e]],
   pd   |-> [p \in PDAddr |-> IF p \in s .. t - 1 THEN EmptyPD ELSE m.pd[p]]]

\* The ancestors writeAccessibleRec reaches from p: it climbs the parent
\* links as long as the parent has a block of exactly this range.
Above(m, p, s, t) ==
  LET up == [q \in PDAddr \ {RootPD} |->
               IF /\ m.pd[q].parent # Null
                  /\ findExactBlockInKS(m, m.pd[q].parent, s, t) # NullSlot
               THEN m.pd[q].parent
               ELSE Null]
  IN  (Reached(up, p) \cap PDAddr) \ {p}

ReachesRoot(m, p, s, t) == RootPD \in Above(m, p, s, t) \cup {p}

writeAccessibleRec(m, p, s, t, bit) ==
  LET above  == Above(m, p, s, t)
      hit(q) == findExactBlockInKS(m, q, s, t)
      hits   == {hit(q) : q \in above}
  IN  [slot |-> [e \in Slots |-> IF e \in hits
                                 THEN [m.slot[e] EXCEPT !.accessible = bit]
                                 ELSE m.slot[e]],
       pd   |-> [q \in PDAddr |-> IF q \in above /\ ~ bit
                                  THEN Unmap(m.pd[q], {hit(q)})
                                  ELSE m.pd[q]]]

writeAccessibleToAncestorsIfNotCutRec(m, p, e, bit) ==
  IF IsCut(m, e) THEN m
  ELSE writeAccessibleRec(m, p, m.slot[e].start, m.slot[e].end, bit)

\* Block e of p becomes kernel data: p and its ancestors lose it.
hide(m, p, e) ==
  writeAccessibleToAncestorsIfNotCutRec(
    [m EXCEPT !.slot[e].accessible = FALSE, !.pd[p] = Unmap(@, {e})], p, e, FALSE)

\* The free list of d now starts at f, with n slots more.
FreeListAt(d, f, n) == [d EXCEPT !.firstFree = f, !.nbFree = @ + n]

\* Takes the first free slot; Sh1 and the cut link of that slot are trusted
\* to hold their defaults.
insertNewEntry(m, p, s, t, o, rights) ==
  LET new == m.pd[p].firstFree
  IN  [slot |-> [e \in Slots |->
                   IF e = new
                   THEN [m.slot[e] EXCEPT !.start = s, !.end = t, !.origin = o,
                           !.present = TRUE, !.accessible = TRUE,
                           !.rights = rights, !.nextFree = NullSlot]
                   ELSE m.slot[e]],
       pd   |-> [m.pd EXCEPT
                   ![p] = FreeListAt(@, IF new \in Slots THEN m.slot[new].nextFree
                                        ELSE NullSlot, -1)]]

\* freeSlot on every slot of C, all of partition p, along their cut links:
\* each freed slot becomes the head of the free list.
freeSlots(m, p, C) ==
  LET d         == m.pd[p]
      before(e) == {f \in C : m.slot[f].next = e}
      last      == {e \in C : m.slot[e].next \notin C}
  IN  [slot |-> [e \in Slots |->
                   IF e \in C
                   THEN FreeEntry(IF before(e) = {} THEN d.firstFree
                                  ELSE CHOOSE f \in before(e) : TRUE)
                   ELSE m.slot[e]],
       pd   |-> [m.pd EXCEPT
                   ![p] = FreeListAt(Unmap(d, C),
                                     IF last = {} THEN d.firstFree
                                     ELSE CHOOSE e \in last : TRUE,
                                     Cardinality(C))]]

\* Slots reached from e along the cut links.
Subblocks(m, e) ==
  Reached([f \in Slots |-> m.slot[f].next], e) \cap Slots

\* <<partition, slot>> pairs reached from slot e of p along the links to the
\* child's copy of a shared block.
SharedCopies(m, p, e) ==
  LET copy == [x \in PDAddr \X Slots |-> <<m.slot[x[2]].PDchild, m.slot[x[2]].inChild>>]
  IN  Reached(copy, <<p, e>>) \cap (PDAddr \X Slots)

\* Frees the copies in p and its descendants, one slot per partition.
removeBlockInDescendantsRec(m, p, e) ==
  LET copies  == SharedCopies(m, p, e)
      at(q)   == {x[2] : x \in {y \in copies : y[1] = q}}
  IN  [slot |-> [f \in Slots |->
                   IF \E x \in copies : x[2] = f
                   THEN FreeEntry(m.pd[(CHOOSE x \in copies : x[2] = f)[1]].firstFree)
                   ELSE m.slot[f]],
       pd   |-> [q \in PDAddr |->
                   IF at(q) = {} THEN m.pd[q]
                   ELSE FreeListAt(Unmap(m.pd[q], at(q)),
                                   CHOOSE f \in at(q) : TRUE, 1)]]

Unshared(b) == [b EXCEPT !.PDchild = Null, !.PDflag = FALSE,
                         !.inChild = NullSlot]

\* getGlobalIdPDCurrentOrChild: the partitions c may name in a call.
CurrentOrChild(c) == {c} \cup (Children(Mem, c) \cap PDAddr)

\* The address of a slot equals a unit address only for the first slot of a
\* structure: an entry is 17 bytes and Entries is at most 32.
IsSlotAddr(e, a) == e[2] = 0 /\ e[1] = a

-----------------------------------------------------------------------------
(* The services.  c is the calling partition, e a slot it names.           *)

\* initPDTable, then the parent.
ChildPD(c) == [EmptyPD EXCEPT !.parent = c]

createPartition(c, e) ==
  LET b == slot[e]
  IN  /\ IsFound(Mem, c, e) /\ b.accessible /\ InRAM(b)
      /\ Size(b) >= MinBlock /\ Size(b) >= PDSize
      /\ NotShared(b)
      /\ b.start \in PDHomes                                        \* bound
      /\ LET m1 == eraseBlock(Mem, b.start, b.end)
             m2 == [m1 EXCEPT !.pd[b.start] = ChildPD(c),
                              !.slot[e].PDflag = TRUE]
         IN  Commit(hide(m2, c, e))

\* The block's own MPU region is reloaded with the same entry: no change here.
cutMemoryBlock(c, e, a, r) ==
  LET b == slot[e]
  IN  /\ pd[c].nbFree > 0
      /\ IsFound(Mem, c, e) /\ b.accessible /\ NotShared(b)
      /\ b.start < a /\ a < b.end
      /\ a - b.start >= MinBlock /\ b.end - a >= MinBlock
      /\ LET new == pd[c].firstFree
             m1  == writeAccessibleToAncestorsIfNotCutRec(Mem, c, e, FALSE)
             m2  == insertNewEntry(m1, c, a, b.end, b.origin, b.rights)
             m3  == [m2 EXCEPT !.slot = [@ EXCEPT ![new].next = b.next,
                                                  ![e].end = a,
                                                  ![e].next = new]]
         IN  Commit(enableBlockInMPU(m3, c, new, r))

BothUnshared(b1, b2) == NotShared(b1) /\ NotShared(b2)

mergeMemoryBlocks(c, e1, e2, r) ==
  /\ IsFound(Mem, c, e1) /\ IsFound(Mem, c, e2)
  /\ slot[e1].accessible /\ slot[e2].accessible
  /\ BothUnshared(slot[e1], slot[e2])
  /\ slot[e1].next = e2
  /\ LET m1 == [Mem EXCEPT !.slot[e1].next = slot[e2].next,
                           !.slot[e1].end = slot[e2].end]
         m2 == freeSlots(m1, c, {e2})
         m3 == writeAccessibleToAncestorsIfNotCutRec(m2, c, e1, TRUE)
         m4 == [m3 EXCEPT !.pd[c] = Unmap(@, {e1, e2})]
     IN  Commit(enableBlockInMPU(m4, c, e1, r))

\* initStructure and the splice of its slots before the free slots of t.
initStructure(m, ks, link) ==
  [m EXCEPT !.slot =
     [e \in Slots |-> IF e[1] # ks THEN m.slot[e]
                      ELSE FreeEntry(IF e[2] = Entries - 1 THEN link
                                     ELSE <<ks, e[2] + 1>>)]]

CanPrepare(d) == d.nbPrepare < MaxPrepare

addStructure(d, ks) ==
  [FreeListAt(d, <<ks, 0>>, Entries) EXCEPT !.structs = <<ks>> \o d.structs,
                                            !.nbPrepare = d.nbPrepare + 1]

prepare(c, t, e) ==
  LET b  == slot[e]
      ks == b.start
  IN  /\ CanPrepare(pd[t])
      /\ IsFound(Mem, c, e) /\ b.accessible /\ InRAM(b) /\ Size(b) >= KSSize
      /\ NotShared(b)
      /\ ks \in KSHomes                                             \* bound
      /\ LET m1 == initStructure(eraseBlock(Mem, b.start, b.end), ks,
                                 pd[t].firstFree)
             m2 == hide(m1, c, e)
             m3 == [m2 EXCEPT !.pd[t] = addStructure(@, ks)]
         IN  Commit(IF t = c THEN m3
                    ELSE [m3 EXCEPT !.slot[e].PDchild = t])

\* checkRights: readable, and no right the block does not have.
checkRights(b, rights) == "r" \in rights /\ rights \ {"r"} \subseteq b.rights

addMemoryBlock(c, t, e, rights) ==
  LET b == slot[e]
  IN  /\ IsFound(Mem, c, e)
      /\ checkRights(b, rights)
      /\ t \in Children(Mem, c) /\ t \in PDAddr
      /\ pd[t].nbFree > 0 /\ pd[t].firstFree # NullSlot
      /\ b.accessible /\ NotShared(b)
      /\ ~ IsSlotAddr(e, pd[t].vidt)
      /\ LET m1 == insertNewEntry(Mem, t, b.start, b.end, b.start, rights)
         IN  Commit([m1 EXCEPT !.slot[e].PDchild = t,
                               !.slot[e].inChild = pd[t].firstFree])

\* The checks of removeMemoryBlock before it looks at the child's copy.
IsRemovable(c, e) ==
  /\ IsFound(Mem, c, e)
  /\ slot[e].PDchild # Null /\ slot[e].inChild # NullSlot
  /\ ~ IsSlotAddr(e, pd[slot[e].PDchild].vidt)

\* removeMemoryBlock, the child has not cut the block: its copy and those of
\* the child's descendants go.
removeUncutBlock(c, e) ==
  LET b == slot[e]
  IN  /\ IsRemovable(c, e)
      /\ ~ IsCut(Mem, b.inChild) /\ slot[b.inChild].accessible
      /\ LET m1 == removeBlockInDescendantsRec(Mem, b.PDchild, b.inChild)
         IN  Commit([m1 EXCEPT !.slot[e] = Unshared(@)])

\* removeMemoryBlock, the child has cut the block: all its subblocks go and
\* the block is accessible again here and above.  When the update above does
\* not reach the root, the service returns before it clears the share.
removeCutBlock(c, e) ==
  LET b    == slot[e]
      subs == Subblocks(Mem, b.inChild)
  IN  /\ IsRemovable(c, e)
      /\ IsCut(Mem, b.inChild)
      /\ \A f \in subs : /\ slot[f].accessible /\ slot[f].present
                         /\ NotShared(slot[f])
      /\ LET m1 == freeSlots(Mem, b.PDchild, subs)
             m2 == [m1 EXCEPT !.slot[e].accessible = TRUE]
             m3 == writeAccessibleRec(m2, c, b.start, m2.slot[e].end, TRUE)
         IN  Commit(IF ReachesRoot(m2, c, b.start, m2.slot[e].end)
                    THEN [m3 EXCEPT !.slot[e] = Unshared(@)]
                    ELSE m3)

removeMemoryBlock(c, e) == removeUncutBlock(c, e) \/ removeCutBlock(c, e)

\* deleteSharedBlocksRec and the end of deletePartition treat every block of
\* E, the blocks tied to the child, the same way.  The child's own kernel
\* structures are left as they are.
releaseBlocks(m, c, E) ==
  LET whole == {f \in E : ~ IsCut(m, f)}
      above(f) == Above(m, c, m.slot[f].start, m.slot[f].end)
      freed == E \cup UNION {{findExactBlockInKS(m, q, m.slot[f].start, m.slot[f].end)
                                : q \in above(f)} : f \in whole}
  IN  [m EXCEPT !.slot =
         [f \in Slots |->
            LET b == IF f \in E THEN Unshared(m.slot[f]) ELSE m.slot[f]
            IN  IF f \in freed THEN [b EXCEPT !.accessible = TRUE] ELSE b]]

deletePartition(c, e) ==
  LET b    == slot[e]
      tied == {f \in SlotsOf(Mem, c) : slot[f].PDchild = b.start}
  IN  /\ IsFound(Mem, c, e) /\ b.PDflag
      /\ Commit(releaseBlocks(eraseBlock(Mem, b.start, b.end), c, tied \cup {e}))
-----------------------------------------------------------------------------
(* collect.                                                                *)

FreeList(m, p) ==
  Chain([e \in Slots |-> m.slot[e].nextFree], m.pd[p].firstFree)

\* collectFreeSlotsRecAux walks the free list of t.  Slots of ks at the front
\* of the list are skipped by moving the head.  A later slot of ks is
\* unlinked by giving its link to the slot visited just before it, even when
\* that one has itself been unlinked.
collectFreeSlots(m, t, ks) ==
  LET list      == FreeList(m, t)
      in        == {e \in Slots : e[1] = ks}
      listed    == {e \in Slots : \E n \in DOMAIN list : list[n] = e}
      front     == {e \in in : \E n \in DOMAIN list :
                      list[n] = e /\ \A k \in 0 .. n : list[k] \in in}
      exit      == {m.slot[e].nextFree : e \in front} \ front
      relink(e) == /\ e \in listed \ front
                   /\ m.slot[e].nextFree \in in
  IN  [slot |-> [e \in Slots |->
                   IF relink(e)
                   THEN [m.slot[e] EXCEPT !.nextFree = m.slot[@].nextFree]
                   ELSE m.slot[e]],
       pd   |-> [m.pd EXCEPT ![t].firstFree =
                   IF exit = {} THEN @ ELSE CHOOSE e \in exit : TRUE]]

IsEmptyStructure(ks) == \A i \in 0 .. Entries - 1 : ~ slot[<<ks, i>>].present

\* The n-th structure of the list goes.
removeStructure(d, n) ==
  LET structs == d.structs
  IN  [d EXCEPT !.structs = SubSeq(structs, 1, n - 1)
                            \o SubSeq(structs, n + 1, Len(structs)),
                !.nbPrepare = d.nbPrepare - 1,
                !.nbFree = d.nbFree - Entries]

\* The first empty structure of t that starts a block of c is given back.
collect(c, t) ==
  /\ ~ (t = c /\ pd[t].nbPrepare = 1)
  /\ \E n \in DOMAIN pd[t].structs :
       LET structs  == pd[t].structs
           ks       == structs[n]
           owner(k) == findBlockInKS(Mem, c, k)
           Gives(k) == IsEmptyStructure(k) /\ owner(k) # NullSlot
           blk      == owner(ks)
       IN  /\ Gives(ks) /\ \A k \in 1 .. n - 1 : ~ Gives(structs[k])
           /\ LET m1 == collectFreeSlots(Mem, t, ks)
                  m2 == [m1 EXCEPT !.pd[t] = removeStructure(@, n)]
                  m3 == [m2 EXCEPT !.slot[blk].accessible = TRUE]
                  m4 == writeAccessibleToAncestorsIfNotCutRec(m3, t, blk, TRUE)
              IN  Commit([m4 EXCEPT !.slot[blk] = Unshared(@)])

-----------------------------------------------------------------------------
(* mapMPU and setVIDT.                                                     *)

\* checkMPUEntryZero is applied to the address of the slot.
checkMPUEntryZero(e) ==
  LET size == Size(slot[e])
  IN  /\ size >= MinBlock /\ \E k \in 0 .. size : 2 ^ k = size
      /\ e[2] = 0 /\ e[1] % size = 0

unmapRegion(c, t, r) ==
  /\ r \in Regions
  /\ Commit(enableBlockInMPU(Mem, t, NullSlot, r))

mapBlock(c, t, e, r) ==
  /\ IsFound(Mem, t, e) /\ slot[e].accessible
  /\ r = 0 => checkMPUEntryZero(e)
  /\ LET mapped == {q \in Regions : pd[t].mpu[q] = e}
         old    == IF mapped = {} THEN NoRegion
                   ELSE CHOOSE q \in mapped : \A k \in mapped : q <= k
     IN  Commit(enableBlockInMPU(enableBlockInMPU(Mem, t, NullSlot, old), t, e, r))

\* An invalid region number still unmaps the block.
mapMPU(c, t, r) == unmapRegion(c, t, r)
                   \/ \E e \in SlotsOf(Mem, t) : mapBlock(c, t, e, r)

VidtFits(b, a) == a + VidtSize < b.end

setVIDT(c, t, a) ==
  /\ \/ a = Null
     \/ LET e == findBelongingBlock(Mem, t, a)
        IN  /\ e # NullSlot /\ slot[e].accessible
            /\ VidtFits(slot[e], a)
            /\ IF t = c THEN NotShared(slot[e])
               ELSE slot[e].inChild = NullSlot
  /\ Commit([Mem EXCEPT !.pd[t].vidt = a])

\* The block of t that holds a is described in memory of c, at r.  No kernel
\* data changes: findBlock is no step of Next.
findBlock(c, t, a, r) ==
  LET result == findBelongingBlock(Mem, t, r)
  IN  /\ findBelongingBlock(Mem, t, a) # NullSlot
      /\ IsFound(Mem, c, result)
      /\ slot[result].accessible /\ {"r", "w"} \subseteq slot[result].rights

-----------------------------------------------------------------------------

Init ==
  LET n == Len(RootBlocks)
  IN  /\ slot = [e \in Slots |->
                   IF e[1] # RootKS THEN FreeEntry(NullSlot)
                   ELSE IF e[2] < n
                   THEN [FreeEntry(NullSlot) EXCEPT
                           !.start = RootBlocks[e[2] + 1].start,
                           !.end = RootBlocks[e[2] + 1].end,
                           !.origin = RootBlocks[e[2] + 1].start,
                           !.rights = RootBlocks[e[2] + 1].rights,
                           !.present = TRUE, !.accessible = TRUE]
                   ELSE FreeEntry(IF e[2] = Entries - 1 THEN NullSlot
                                  ELSE <<RootKS, e[2] + 1>>)]
      /\ pd = [p \in PDAddr |->
                 IF p # RootPD THEN EmptyPD
                 ELSE [EmptyPD EXCEPT
                         !.structs = <<RootKS>>, !.nbPrepare = 1,
                         !.nbFree = Entries - n,
                         !.firstFree = IF n = Entries THEN NullSlot
                                       ELSE <<RootKS, n>>,
                         !.mpu = [r \in Regions |-> IF r < n THEN <<RootKS, r>>
                                                    ELSE NullSlot],
                         !.vidt = RootVidt]]

RegionArg == Regions \cup {NoRegion}

Service(c, s) ==
  LET mine == SlotsOf(Mem, c)
  IN  \/ s = "create" /\ \E e \in mine : createPartition(c, e)
      \/ s = "cut"    /\ \E e \in mine, a \in CutPoints, r \in RegionArg :
                           cutMemoryBlock(c, e, a, r)
      \/ s = "merge"  /\ \E e1, e2 \in mine, r \in RegionArg :
                           mergeMemoryBlocks(c, e1, e2, r)
      \/ s = "prepare" /\ \E t \in CurrentOrChild(c), e \in mine : prepare(c, t, e)
      \/ s = "add"    /\ \E t \in PDAddr, e \in mine, rights \in GrantRights :
                           addMemoryBlock(c, t, e, rights)
      \/ s = "remove" /\ \E e \in mine : removeMemoryBlock(c, e)
      \/ s = "delete" /\ \E e \in mine : deletePartition(c, e)
      \/ s = "collect" /\ \E t \in CurrentOrChild(c) : collect(c, t)
      \/ s = "map"    /\ \E t \in CurrentOrChild(c), r \in RegionArg : mapMPU(c, t, r)
      \/ s = "setVIDT" /\ \E t \in CurrentOrChild(c), a \in VidtPoints \cup {Null} :
                           setVIDT(c, t, a)

Next == \E c \in Live, s \in Services : c \in Callers[s] /\ Service(c, s)

Spec == Init /\ [][Next]_vars
=============================================================================
