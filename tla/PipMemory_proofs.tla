-------------------------- MODULE PipMemory_proofs ---------------------------
(***************************************************************************)
(* For every instance: the memory services keep the kernel data well-typed *)
(* and never link more than MaxPrepare kernel structures to a partition;   *)
(* what following a link, or the children of a partition, reaches; what    *)
(* the invariant of PipConsistency says of one memory, and which changes   *)
(* of a memory keep it.                                                    *)
(***************************************************************************)
EXTENDS PipConsistency, NaturalFacts, FiniteSetTheorems, SequenceTheorems

-----------------------------------------------------------------------------
(* The inductive invariant, as a set of states of the memory: every service *)
(* is a composition of functions that stay in Good.                        *)

GoodPD == {d \in Descriptor : /\ Len(d.structs) = d.nbPrepare
                              /\ d.nbPrepare <= MaxPrepare}
Good   == [slot : [Slots -> Entry], pd : [PDAddr -> GoodPD]]

IInv == Mem \in Good

\* Good is the type invariant and the bound on the structures together:
\* neither is inductive alone, since collect decrements nbPrepare when it
\* unlinks a structure.
LEMMA GoodMeaning == IInv <=> TypeOK /\ maxNbPrepareIsMaxNbKernels
BY DEF IInv, Good, GoodPD, TypeOK, maxNbPrepareIsMaxNbKernels, Mem, Memory

\* The empty descriptor and the free entries that erasing leaves.
LEMMA EmptyPDGood == EmptyPD \in GoodPD
<1>1. /\ <<>> \in Seq(KSAddr) /\ Len(<<>>) = 0
  OBVIOUS
<1>2. EmptyPD \in Descriptor
  BY <1>1, ConstantsAssumption DEF EmptyPD, Descriptor, SlotRef, Null
<1> QED
  BY <1>1, <1>2, ConstantsAssumption DEF GoodPD, EmptyPD

\* A slot on the free list is a well-typed entry whatever it links to.
LEMMA FreeEntryType == \A link \in SlotRef : FreeEntry(link) \in Entry
BY ConstantsAssumption DEF FreeEntry, Entry, SlotRef, Null

\* initPDTable and the parent link give a child an empty, bounded descriptor.
LEMMA ChildPDGood ==
  ASSUME NEW c \in PDAddr
  PROVE  ChildPD(c) \in GoodPD
BY EmptyPDGood DEF ChildPD, GoodPD, EmptyPD, Descriptor

-----------------------------------------------------------------------------
(* Internal functions.                                                     *)

\* Updates of one descriptor that leave its structures and nbPrepare alone.
LEMMA UnmapGood ==
  ASSUME NEW d \in GoodPD, NEW E
  PROVE  Unmap(d, E) \in GoodPD
<1>1. [r \in Regions |-> IF d.mpu[r] \in E THEN NullSlot ELSE d.mpu[r]]
        \in [Regions -> SlotRef]
  BY DEF GoodPD, Descriptor, SlotRef
<1> QED
  BY <1>1 DEF Unmap, GoodPD, Descriptor

\* Moving the free-list head and adjusting nbFree keeps a descriptor good.
LEMMA FreeListAtGood ==
  ASSUME NEW d \in GoodPD, NEW f \in SlotRef, NEW n \in Int
  PROVE  FreeListAt(d, f, n) \in GoodPD
<1>1. d.nbFree + n \in Int
  BY DEF GoodPD, Descriptor
<1> QED
  BY <1>1 DEF FreeListAt, GoodPD, Descriptor

\* enableBlockInMPU writes a slot or the null slot to a region, or nothing.
LEMMA enableBlockInMPUGood ==
  ASSUME NEW m \in Good, NEW p \in PDAddr, NEW e \in SlotRef, NEW r
  PROVE  enableBlockInMPU(m, p, e, r) \in Good
<1>1. CASE r \in Regions
  <2>1. [m.pd[p] EXCEPT !.mpu[r] = e] \in GoodPD
    BY <1>1 DEF Good, GoodPD, Descriptor
  <2> QED
    BY <1>1, <2>1 DEF enableBlockInMPU, Good
<1>2. CASE r \notin Regions
  BY <1>2 DEF enableBlockInMPU
<1> QED
  BY <1>1, <1>2

\* eraseBlock leaves free entries and empty descriptors where it writes.
LEMMA eraseBlockGood ==
  ASSUME NEW m \in Good, NEW s, NEW t
  PROVE  eraseBlock(m, s, t) \in Good
BY EmptyPDGood, FreeEntryType DEF eraseBlock, Good, SlotRef

\* Showing or hiding a range in the ancestors touches accessible and mpu only.
LEMMA writeAccessibleRecGood ==
  ASSUME NEW m \in Good, NEW p, NEW s, NEW t, NEW bit \in BOOLEAN
  PROVE  writeAccessibleRec(m, p, s, t, bit) \in Good
<1>1. \A b \in Entry : [b EXCEPT !.accessible = bit] \in Entry
  BY DEF Entry
<1> QED
  BY <1>1, UnmapGood DEF writeAccessibleRec, Good

\* The same when the block may be a cut one, in which case nothing is done.
LEMMA writeAccessibleToAncestorsGood ==
  ASSUME NEW m \in Good, NEW p, NEW e, NEW bit \in BOOLEAN
  PROVE  writeAccessibleToAncestorsIfNotCutRec(m, p, e, bit) \in Good
BY writeAccessibleRecGood DEF writeAccessibleToAncestorsIfNotCutRec

\* Every slot of a good memory holds a well-typed entry.
LEMMA EntryOf ==
  ASSUME NEW m \in Good, NEW e \in Slots
  PROVE  m.slot[e] \in Entry
BY DEF Good

\* The fields that services write one at a time.
LEMMA EntryUpdate ==
  ASSUME NEW b \in Entry
  PROVE  /\ \A bit \in BOOLEAN : [b EXCEPT !.accessible = bit] \in Entry
         /\ [b EXCEPT !.PDflag = TRUE] \in Entry
         /\ \A t \in PDAddr : [b EXCEPT !.PDchild = t] \in Entry
BY DEF Entry

\* A block that becomes kernel data is hidden from its owner and the ancestors.
LEMMA hideGood ==
  ASSUME NEW m \in Good, NEW p \in PDAddr, NEW e \in Slots
  PROVE  hide(m, p, e) \in Good
<1> DEFINE m1 == [m EXCEPT !.slot[e].accessible = FALSE, !.pd[p] = Unmap(@, {e})]
<1>1. [m.slot[e] EXCEPT !.accessible = FALSE] \in Entry
  BY EntryOf, EntryUpdate
<1>2. Unmap(m.pd[p], {e}) \in GoodPD
  BY UnmapGood DEF Good
<1>3. m1 \in Good
  BY <1>1, <1>2 DEF Good
<1> QED
  BY <1>3, writeAccessibleToAncestorsGood DEF hide

\* The free list of p loses its head; the entry gets the new block.
LEMMA insertNewEntryGood ==
  ASSUME NEW m \in Good, NEW p \in PDAddr,
         NEW s \in 0 .. Top + 1, NEW t \in 0 .. Top + 1, NEW o \in 0 .. Top + 1,
         NEW rights \in SUBSET Rights
  PROVE  insertNewEntry(m, p, s, t, o, rights) \in Good
<1> DEFINE new  == m.pd[p].firstFree
           link == IF new \in Slots THEN m.slot[new].nextFree ELSE NullSlot
<1>1. link \in SlotRef
  BY DEF Good, Entry, SlotRef
<1>2. FreeListAt(m.pd[p], link, -1) \in GoodPD
  BY <1>1, FreeListAtGood DEF Good
<1>3. \A b \in Entry :
        [b EXCEPT !.start = s, !.end = t, !.origin = o, !.present = TRUE,
                  !.accessible = TRUE, !.rights = rights,
                  !.nextFree = NullSlot] \in Entry
  BY DEF Entry, SlotRef
<1>4. [e \in Slots |->
         IF e = new THEN [m.slot[e] EXCEPT !.start = s, !.end = t, !.origin = o,
                            !.present = TRUE, !.accessible = TRUE,
                            !.rights = rights, !.nextFree = NullSlot]
         ELSE m.slot[e]] \in [Slots -> Entry]
  BY <1>3 DEF Good
<1>5. [m.pd EXCEPT ![p] = FreeListAt(@, link, -1)] \in [PDAddr -> GoodPD]
  BY <1>2 DEF Good
<1> QED
  BY <1>4, <1>5 DEF insertNewEntry, Good

\* There are finitely many slots: Top bounds the structures, Entries each of them.
LEMMA SlotsFinite == IsFiniteSet(Slots)
<1>1. IsFiniteSet(KSHomes)
  <2>1. IsFiniteSet(1 .. Top)
    BY ConstantsAssumption, FS_Interval
  <2> QED
    BY <2>1, ConstantsAssumption, FS_Subset
<1>2. IsFiniteSet(KSAddr)
  BY <1>1, FS_AddElement DEF KSAddr
<1>3. IsFiniteSet(0 .. Entries - 1)
  BY ConstantsAssumption, FS_Interval
<1> QED
  BY <1>2, <1>3, FS_Product DEF Slots

\* The freed slots are finitely many, so nbFree stays an integer.
LEMMA freeSlotsGood ==
  ASSUME NEW m \in Good, NEW p \in PDAddr, NEW C \in SUBSET Slots
  PROVE  freeSlots(m, p, C) \in Good
<1> DEFINE d         == m.pd[p]
           before(e) == {f \in C : m.slot[f].next = e}
           last      == {e \in C : m.slot[e].next \notin C}
           link(e)   == IF before(e) = {} THEN d.firstFree
                        ELSE CHOOSE f \in before(e) : TRUE
           head      == IF last = {} THEN d.firstFree
                        ELSE CHOOSE e \in last : TRUE
<1>0. d \in GoodPD
  BY DEF Good
<1>1. d.firstFree \in SlotRef /\ d.nbFree \in Int
  BY <1>0 DEF GoodPD, Descriptor
<1>2. \A e : link(e) \in SlotRef
  BY <1>1 DEF SlotRef
<1>3. head \in SlotRef
  BY <1>1 DEF SlotRef
<1>4. Cardinality(C) \in Nat
  BY SlotsFinite, FS_Subset, FS_CardinalityType
<1>5. FreeListAt(Unmap(d, C), head, Cardinality(C)) \in GoodPD
  BY <1>0, <1>3, <1>4, UnmapGood, FreeListAtGood
<1>6. [e \in Slots |-> IF e \in C THEN FreeEntry(link(e)) ELSE m.slot[e]]
        \in [Slots -> Entry]
  BY <1>2, FreeEntryType DEF Good
<1> QED
  BY <1>5, <1>6 DEF freeSlots, Good

\* Clearing the Sh1 entry of a block keeps the entry well-typed.
LEMMA UnsharedType == \A b \in Entry : Unshared(b) \in Entry
BY DEF Unshared, Entry, SlotRef

\* Freeing the copies of a shared block down the tree: each lost copy becomes
\* the head of its partition's free list.
LEMMA removeBlockInDescendantsGood ==
  ASSUME NEW m \in Good, NEW p, NEW e
  PROVE  removeBlockInDescendantsRec(m, p, e) \in Good
<1> DEFINE copies  == SharedCopies(m, p, e)
           at(q)   == {x[2] : x \in {y \in copies : y[1] = q}}
<1>1. copies \subseteq PDAddr \X Slots
  BY DEF SharedCopies
<1>2. \A f : (\E x \in copies : x[2] = f) =>
        m.pd[(CHOOSE x \in copies : x[2] = f)[1]].firstFree \in SlotRef
  BY <1>1 DEF Good, GoodPD, Descriptor
<1>3. \A q \in PDAddr : at(q) # {} =>
        FreeListAt(Unmap(m.pd[q], at(q)), CHOOSE f \in at(q) : TRUE, 1) \in GoodPD
  <2> SUFFICES ASSUME NEW q \in PDAddr, at(q) # {}
               PROVE  FreeListAt(Unmap(m.pd[q], at(q)), CHOOSE f \in at(q) : TRUE, 1)
                        \in GoodPD
    OBVIOUS
  <2>1. (CHOOSE f \in at(q) : TRUE) \in SlotRef
    BY <1>1 DEF SlotRef
  <2>2. Unmap(m.pd[q], at(q)) \in GoodPD
    BY UnmapGood DEF Good
  <2> QED
    BY <2>1, <2>2, FreeListAtGood
<1> QED
  BY <1>2, <1>3, FreeEntryType DEF removeBlockInDescendantsRec, Good

\* initStructure chains the slots of a new structure, the last one to link.
LEMMA initStructureGood ==
  ASSUME NEW m \in Good, NEW ks \in KSAddr, NEW link \in SlotRef
  PROVE  initStructure(m, ks, link) \in Good
<1>1. \A e \in Slots : e[1] = ks =>
        (IF e[2] = Entries - 1 THEN link ELSE <<ks, e[2] + 1>>) \in SlotRef
  BY ConstantsAssumption DEF Slots, SlotRef
<1> QED
  BY <1>1, FreeEntryType DEF initStructure, Good

\* deletePartition gives back blocks without touching any descriptor.
LEMMA releaseBlocksGood ==
  ASSUME NEW m \in Good, NEW c, NEW E
  PROVE  releaseBlocks(m, c, E) \in Good
<1>1. \A b \in Entry : [b EXCEPT !.accessible = TRUE] \in Entry
  BY DEF Entry
<1> QED
  BY <1>1, UnsharedType DEF releaseBlocks, Good

\* The slots a lookup may return belong to known structures.
LEMMA SlotsOfType ==
  ASSUME NEW m \in Good, NEW p \in PDAddr
  PROVE  SlotsOf(m, p) \subseteq Slots
<1>1. m.pd[p].structs \in Seq(KSAddr)
  BY DEF Good, GoodPD, Descriptor
<1>2. \A n \in DOMAIN m.pd[p].structs : m.pd[p].structs[n] \in KSAddr
  BY <1>1
<1> QED
  BY <1>2 DEF SlotsOf, Slots

-----------------------------------------------------------------------------
(* Kernel structures added and removed.                                    *)

\* prepare links one more structure, within the bound it has just checked.
LEMMA addStructureGood ==
  ASSUME NEW d \in GoodPD, d.nbPrepare < MaxPrepare, NEW ks \in KSAddr
  PROVE  addStructure(d, ks) \in GoodPD
<1> DEFINE f == FreeListAt(d, <<ks, 0>>, Entries)
           s == <<ks>> \o d.structs
<1>1. <<ks, 0>> \in SlotRef
  BY ConstantsAssumption DEF SlotRef, Slots
<1>2. f \in GoodPD
  BY <1>1, FreeListAtGood, ConstantsAssumption
<1>3. d.structs \in Seq(KSAddr) /\ d.nbPrepare \in Nat /\ Len(d.structs) = d.nbPrepare
  BY DEF GoodPD, Descriptor
<1>4. s \in Seq(KSAddr) /\ Len(s) = d.nbPrepare + 1
  <2>1. <<ks>> \in Seq(KSAddr) /\ Len(<<ks>>) = 1
    OBVIOUS
  <2> QED
    BY <1>3, <2>1, ConcatProperties
<1>5. d.nbPrepare + 1 \in Nat /\ d.nbPrepare + 1 <= MaxPrepare
  BY <1>3, ConstantsAssumption
<1> HIDE DEF f, s
<1>6. [f EXCEPT !.structs = s, !.nbPrepare = d.nbPrepare + 1] \in GoodPD
  BY <1>2, <1>4, <1>5 DEF GoodPD, Descriptor
<1> QED
  BY <1>6 DEF addStructure, f, s

\* collect unlinks one structure; nbPrepare stays the length of the list and a
\* natural number because the list was not empty.
LEMMA removeStructureGood ==
  ASSUME NEW d \in GoodPD, NEW n \in DOMAIN d.structs
  PROVE  removeStructure(d, n) \in GoodPD
<1> DEFINE len == Len(d.structs)
           a   == SubSeq(d.structs, 1, n - 1)
           b   == SubSeq(d.structs, n + 1, len)
<1>1. /\ d.structs \in Seq(KSAddr) /\ len \in Nat /\ n \in 1 .. len
      /\ d.nbPrepare = len /\ len <= MaxPrepare /\ d.nbFree \in Int
  BY DEF GoodPD, Descriptor
<1>2. \A i \in 1 .. len : d.structs[i] \in KSAddr
  BY <1>1
<1>3. a \in Seq(KSAddr) /\ Len(a) = n - 1
  <2>1. \A i \in 1 .. n - 1 : d.structs[i] \in KSAddr
    BY <1>1, <1>2
  <2>2. n - 1 \in Int /\ 1 \in Int /\ (IF 1 <= n - 1 THEN n - 1 - 1 + 1 ELSE 0) = n - 1
    BY <1>1
  <2> QED
    BY <2>1, <2>2, SubSeqProperties
<1>4. b \in Seq(KSAddr) /\ Len(b) = len - n
  <2>1. \A i \in n + 1 .. len : d.structs[i] \in KSAddr
    BY <1>1, <1>2
  <2>2. /\ n + 1 \in Int /\ len \in Int
        /\ (IF n + 1 <= len THEN len - (n + 1) + 1 ELSE 0) = len - n
    BY <1>1
  <2> QED
    BY <2>1, <2>2, SubSeqProperties
<1> HIDE DEF a, b
<1>5. a \o b \in Seq(KSAddr) /\ Len(a \o b) = d.nbPrepare - 1
  <2>1. a \o b \in Seq(KSAddr) /\ Len(a \o b) = Len(a) + Len(b)
    BY <1>3, <1>4, ConcatProperties
  <2> QED
    BY <1>1, <1>3, <1>4, <2>1
<1>6. /\ d.nbPrepare - 1 \in Nat /\ d.nbPrepare - 1 <= MaxPrepare
      /\ d.nbFree - Entries \in Int
  BY <1>1, ConstantsAssumption
<1>7. [d EXCEPT !.structs = a \o b, !.nbPrepare = d.nbPrepare - 1,
                !.nbFree = d.nbFree - Entries] \in GoodPD
  BY <1>5, <1>6 DEF GoodPD, Descriptor
<1> QED
  BY <1>7 DEF removeStructure, a, b

\* collectFreeSlots only moves free-list links.
LEMMA collectFreeSlotsGood ==
  ASSUME NEW m \in Good, NEW t \in PDAddr, NEW ks
  PROVE  /\ collectFreeSlots(m, t, ks) \in Good
         /\ collectFreeSlots(m, t, ks).pd[t].structs = m.pd[t].structs
<1> DEFINE list  == FreeList(m, t)
           in    == {e \in Slots : e[1] = ks}
           listed == {e \in Slots : \E n \in DOMAIN list : list[n] = e}
           front == {e \in in : \E n \in DOMAIN list :
                       list[n] = e /\ \A k \in 0 .. n : list[k] \in in}
           exit  == {m.slot[e].nextFree : e \in front} \ front
           relink(e) == /\ e \in listed \ front
                        /\ m.slot[e].nextFree \in in
           head  == IF exit = {} THEN m.pd[t].firstFree ELSE CHOOSE e \in exit : TRUE
<1>1. \A e \in Slots : m.slot[e] \in Entry /\ m.slot[e].nextFree \in SlotRef
  BY DEF Good, Entry
<1>2. exit \subseteq SlotRef
  BY <1>1
<1>3. m.pd[t] \in GoodPD /\ m.pd[t].firstFree \in SlotRef
  BY DEF Good, GoodPD, Descriptor
<1>4. head \in SlotRef
  BY <1>2, <1>3
<1>5. \A e \in Slots : relink(e) =>
        [m.slot[e] EXCEPT !.nextFree = m.slot[m.slot[e].nextFree].nextFree] \in Entry
  <2> SUFFICES ASSUME NEW e \in Slots, relink(e)
               PROVE  [m.slot[e] EXCEPT !.nextFree = m.slot[m.slot[e].nextFree].nextFree]
                        \in Entry
    OBVIOUS
  <2>1. m.slot[m.slot[e].nextFree].nextFree \in SlotRef
    BY <1>1
  <2> QED
    BY <1>1, <2>1 DEF Entry
<1>6. [e \in Slots |->
         IF relink(e)
         THEN [m.slot[e] EXCEPT !.nextFree = m.slot[m.slot[e].nextFree].nextFree]
         ELSE m.slot[e]] \in [Slots -> Entry]
  BY <1>1, <1>5
<1> HIDE DEF head, relink
<1>7. [m.pd EXCEPT ![t].firstFree = head] \in [PDAddr -> GoodPD]
  <2>1. [m.pd[t] EXCEPT !.firstFree = head] \in GoodPD
    BY <1>3, <1>4 DEF GoodPD, Descriptor
  <2> QED
    BY <2>1 DEF Good
<1>8. [m.pd EXCEPT ![t].firstFree = head][t].structs = m.pd[t].structs
  BY <1>3 DEF Good, GoodPD, Descriptor
<1> QED
  BY <1>6, <1>7, <1>8 DEF collectFreeSlots, Good, head, relink

\* What hides a block leaves the structures of every partition alone.
LEMMA hideKeepsStructures ==
  ASSUME NEW m \in Good, NEW p \in PDAddr, NEW e \in Slots, NEW q \in PDAddr
  PROVE  hide(m, p, e).pd[q].nbPrepare = m.pd[q].nbPrepare
<1>1. \A E : \A d \in GoodPD : Unmap(d, E).nbPrepare = d.nbPrepare
  BY DEF Unmap, GoodPD, Descriptor
<1> DEFINE m1 == [m EXCEPT !.slot[e].accessible = FALSE, !.pd[p] = Unmap(@, {e})]
<1>2. m1.pd \in [PDAddr -> GoodPD] /\ m1.pd[q].nbPrepare = m.pd[q].nbPrepare
  BY <1>1, UnmapGood DEF Good
<1> HIDE DEF m1
<1>3. \A s, t : writeAccessibleRec(m1, p, s, t, FALSE).pd[q].nbPrepare
                 = m1.pd[q].nbPrepare
  BY <1>1, <1>2 DEF writeAccessibleRec
<1>4. writeAccessibleToAncestorsIfNotCutRec(m1, p, e, FALSE).pd[q].nbPrepare
        = m1.pd[q].nbPrepare
  BY <1>3 DEF writeAccessibleToAncestorsIfNotCutRec
<1> QED
  BY <1>2, <1>4 DEF hide, m1

-----------------------------------------------------------------------------
(* Services.                                                               *)

\* What a service writes back is the next state of the kernel data.
LEMMA CommitGood ==
  ASSUME NEW m \in Good, Commit(m)
  PROVE  IInv'
BY DEF Commit, IInv, Mem, Good

\* What a service finds: the calling partition and its slots.
LEMMA CallerType ==
  ASSUME IInv, NEW c \in PDAddr, NEW e \in SlotsOf(Mem, c)
  PROVE  /\ Mem \in Good /\ Mem.slot = slot /\ Mem.pd = pd
         /\ e \in Slots /\ slot[e] \in Entry
BY SlotsOfType DEF IInv, Mem, Good

\* createPartition: erase, initialise the descriptor, flag, hide.
LEMMA createPartitionGood ==
  ASSUME IInv, NEW c \in PDAddr, NEW e \in SlotsOf(Mem, c), createPartition(c, e)
  PROVE  IInv'
<1> DEFINE b  == slot[e]
           m1 == eraseBlock(Mem, b.start, b.end)
           m2 == [m1 EXCEPT !.pd[b.start] = ChildPD(c), !.slot[e].PDflag = TRUE]
<1>1. m1 \in Good
  BY CallerType, eraseBlockGood
<1> HIDE DEF m1
<1>2. [m1.slot[e] EXCEPT !.PDflag = TRUE] \in Entry
  BY <1>1, CallerType, EntryOf, EntryUpdate
<1>3. m2 \in Good
  BY <1>1, <1>2, ChildPDGood DEF Good
<1> HIDE DEF m2
<1>4. hide(m2, c, e) \in Good
  BY <1>3, CallerType, hideGood
<1>5. Commit(hide(m2, c, e))
  BY DEF createPartition, m1, m2
<1> QED
  BY <1>4, <1>5, CommitGood

\* cutMemoryBlock: hide above, insert the second half, link it, map it.
LEMMA cutMemoryBlockGood ==
  ASSUME IInv, NEW c \in PDAddr, NEW e \in SlotsOf(Mem, c), NEW a \in CutPoints, NEW r,
         cutMemoryBlock(c, e, a, r)
  PROVE  IInv'
<1> DEFINE b   == slot[e]
           new == pd[c].firstFree
           m1  == writeAccessibleToAncestorsIfNotCutRec(Mem, c, e, FALSE)
           m2  == insertNewEntry(m1, c, a, b.end, b.origin, b.rights)
           m3  == [m2 EXCEPT !.slot = [@ EXCEPT ![new].next = b.next,
                                                ![e].end = a,
                                                ![e].next = new]]
<1>1. /\ new \in SlotRef /\ a \in 0 .. Top + 1
      /\ b.end \in 0 .. Top + 1 /\ b.origin \in 0 .. Top + 1
      /\ b.rights \in SUBSET Rights /\ b.next \in SlotRef
  BY CallerType, ConstantsAssumption DEF Good, GoodPD, Descriptor, Entry, Mem, IInv
<1>2. m1 \in Good
  BY CallerType, writeAccessibleToAncestorsGood
<1> HIDE DEF m1
<1>3. m2 \in Good
  BY <1>1, <1>2, insertNewEntryGood
<1> HIDE DEF m2
<1>4. m3 \in Good
  <2>1. \A f \in Slots : [m2.slot[f] EXCEPT !.next = b.next] \in Entry
    BY <1>1, <1>3 DEF Good, Entry
  <2> DEFINE s1 == [m2.slot EXCEPT ![new].next = b.next]
  <2>2. s1 \in [Slots -> Entry]
    BY <1>3, <2>1 DEF Good
  <2> HIDE DEF s1
  <2>3. [s1[e] EXCEPT !.end = a] \in Entry
    BY <1>1, <2>2, CallerType DEF Entry
  <2> DEFINE s2 == [s1 EXCEPT ![e].end = a]
  <2>4. s2 \in [Slots -> Entry]
    BY <2>2, <2>3
  <2> HIDE DEF s2
  <2>5. [s2[e] EXCEPT !.next = new] \in Entry
    BY <1>1, <2>4, CallerType DEF Entry
  <2>6. [s2 EXCEPT ![e].next = new] \in [Slots -> Entry]
    BY <2>4, <2>5
  <2> QED
    BY <1>3, <2>6 DEF Good, s1, s2
<1> HIDE DEF m3
<1>5. enableBlockInMPU(m3, c, new, r) \in Good
  BY <1>1, <1>4, enableBlockInMPUGood
<1>6. Commit(enableBlockInMPU(m3, c, new, r))
  BY DEF cutMemoryBlock, m1, m2, m3
<1> QED
  BY <1>5, <1>6, CommitGood

\* mergeMemoryBlocks: join, free the second slot, show above, remap.
LEMMA mergeMemoryBlocksGood ==
  ASSUME IInv, NEW c \in PDAddr,
         NEW e1 \in SlotsOf(Mem, c), NEW e2 \in SlotsOf(Mem, c), NEW r,
         mergeMemoryBlocks(c, e1, e2, r)
  PROVE  IInv'
<1> DEFINE m1 == [Mem EXCEPT !.slot[e1].next = slot[e2].next,
                             !.slot[e1].end = slot[e2].end]
           m2 == freeSlots(m1, c, {e2})
           m3 == writeAccessibleToAncestorsIfNotCutRec(m2, c, e1, TRUE)
           m4 == [m3 EXCEPT !.pd[c] = Unmap(@, {e1, e2})]
<1>1. e1 \in Slots /\ e2 \in Slots /\ slot[e1] \in Entry /\ slot[e2] \in Entry
  BY CallerType
<1>2. m1 \in Good
  <2> DEFINE n == slot[e2].next
             t == slot[e2].end
             s1 == [slot EXCEPT ![e1].next = n]
  <2>1. n \in SlotRef /\ t \in 0 .. Top + 1
    BY <1>1 DEF Entry
  <2>2. slot \in [Slots -> Entry]
    BY DEF IInv, Mem, Good
  <2> HIDE DEF n, t
  <2>3. [slot[e1] EXCEPT !.next = n] \in Entry
    BY <1>1, <2>1 DEF Entry
  <2>4. s1 \in [Slots -> Entry]
    BY <2>2, <2>3
  <2> HIDE DEF s1
  <2>5. [s1[e1] EXCEPT !.end = t] \in Entry
    BY <1>1, <2>1, <2>4 DEF Entry
  <2>6. [s1 EXCEPT ![e1].end = t] \in [Slots -> Entry]
    BY <2>4, <2>5
  <2> QED
    BY <2>6 DEF IInv, Mem, Good, s1, n, t
<1> HIDE DEF m1
<1>3. m2 \in Good
  BY <1>1, <1>2, freeSlotsGood
<1> HIDE DEF m2
<1>4. m3 \in Good
  BY <1>3, writeAccessibleToAncestorsGood
<1> HIDE DEF m3
<1>5. m4 \in Good
  BY <1>4, UnmapGood DEF Good
<1> HIDE DEF m4
<1>6. enableBlockInMPU(m4, c, e1, r) \in Good
  BY <1>1, <1>5, enableBlockInMPUGood DEF SlotRef
<1>7. Commit(enableBlockInMPU(m4, c, e1, r))
  BY DEF mergeMemoryBlocks, m1, m2, m3, m4
<1> QED
  BY <1>6, <1>7, CommitGood

\* Erasing may wipe the descriptor of t itself; its nbPrepare is then 0.
LEMMA prepareGood ==
  ASSUME IInv, NEW c \in PDAddr, NEW t \in PDAddr, NEW e \in SlotsOf(Mem, c),
         prepare(c, t, e)
  PROVE  IInv'
<1> DEFINE b  == slot[e]
           ks == b.start
           m0 == eraseBlock(Mem, b.start, b.end)
           m1 == initStructure(m0, ks, pd[t].firstFree)
           m2 == hide(m1, c, e)
           m3 == [m2 EXCEPT !.pd[t] = addStructure(@, ks)]
           m4 == IF t = c THEN m3 ELSE [m3 EXCEPT !.slot[e].PDchild = t]
<1>1. /\ ks \in KSAddr /\ pd[t].nbPrepare < MaxPrepare
      /\ Commit(m4)
  BY DEF prepare, CanPrepare, KSAddr
<1>2. pd[t] \in GoodPD /\ pd[t].firstFree \in SlotRef
  BY DEF IInv, Mem, Good, GoodPD, Descriptor
<1>3. m0 \in Good
  BY CallerType, eraseBlockGood
<1>4. m0.pd[t].nbPrepare < MaxPrepare
  <2>1. EmptyPD.nbPrepare = 0
    BY DEF EmptyPD
  <2>2. m0.pd[t] = EmptyPD \/ m0.pd[t] = pd[t]
    BY DEF eraseBlock, Mem
  <2> HIDE DEF m0
  <2>3. 0 < MaxPrepare
    BY ConstantsAssumption
  <2> QED
    BY <1>1, <2>1, <2>2, <2>3
<1> HIDE DEF m0
<1>5. m1 \in Good
  BY <1>1, <1>2, <1>3, initStructureGood
<1>6. m1.pd = m0.pd
  BY <1>3 DEF initStructure, Good
<1> HIDE DEF m1
<1>7. m2 \in Good
  BY <1>5, CallerType, hideGood
<1>8. m2.pd[t].nbPrepare < MaxPrepare
  BY <1>4, <1>5, <1>6, CallerType, hideKeepsStructures
<1> HIDE DEF m2
<1>9. m3 \in Good
  <2>1. m2.pd[t] \in GoodPD
    BY <1>7 DEF Good
  <2>2. addStructure(m2.pd[t], ks) \in GoodPD
    BY <1>1, <1>8, <2>1, addStructureGood
  <2> HIDE DEF ks
  <2> QED
    BY <1>7, <2>2 DEF Good
<1> HIDE DEF m3
<1>10. m4 \in Good
  <2>1. [m3.slot[e] EXCEPT !.PDchild = t] \in Entry
    BY <1>9, CallerType, EntryOf, EntryUpdate
  <2> QED
    BY <1>9, <2>1 DEF Good
<1> QED
  BY <1>1, <1>10, CommitGood

\* addMemoryBlock: insert the copy in the child, record it in the parent.
LEMMA addMemoryBlockGood ==
  ASSUME IInv, NEW c \in PDAddr, NEW t \in PDAddr, NEW e \in SlotsOf(Mem, c),
         NEW rights \in GrantRights, addMemoryBlock(c, t, e, rights)
  PROVE  IInv'
<1> DEFINE b   == slot[e]
           new == pd[t].firstFree
           m1  == insertNewEntry(Mem, t, b.start, b.end, b.start, rights)
           m2  == [m1 EXCEPT !.slot[e].PDchild = t, !.slot[e].inChild = new]
<1>1. new \in SlotRef
  BY DEF IInv, Mem, Good, GoodPD, Descriptor
<1>2. m1 \in Good
  <2>1. b.start \in 0 .. Top + 1 /\ b.end \in 0 .. Top + 1
    BY CallerType DEF Entry
  <2>2. rights \in SUBSET Rights
    BY ConstantsAssumption
  <2> QED
    BY <2>1, <2>2, CallerType, insertNewEntryGood
<1> HIDE DEF m1, new
<1>3. m2 \in Good
  <2> DEFINE s1 == [m1.slot EXCEPT ![e].PDchild = t]
  <2>1. [m1.slot[e] EXCEPT !.PDchild = t] \in Entry
    BY <1>2, CallerType, EntryOf, EntryUpdate
  <2>2. s1 \in [Slots -> Entry]
    BY <1>2, <2>1 DEF Good
  <2> HIDE DEF s1
  <2>3. [s1[e] EXCEPT !.inChild = new] \in Entry
    BY <1>1, <2>2, CallerType DEF Entry
  <2>4. [s1 EXCEPT ![e].inChild = new] \in [Slots -> Entry]
    BY <2>2, <2>3
  <2> QED
    BY <1>2, <2>4 DEF Good, s1
<1>4. Commit(m2)
  BY DEF addMemoryBlock, m1, new
<1> QED
  BY <1>3, <1>4, CommitGood

\* removeMemoryBlock of a block the child has left whole.
LEMMA removeUncutBlockGood ==
  ASSUME IInv, NEW c \in PDAddr, NEW e \in SlotsOf(Mem, c), removeUncutBlock(c, e)
  PROVE  IInv'
<1> DEFINE m1 == removeBlockInDescendantsRec(Mem, slot[e].PDchild, slot[e].inChild)
           m2 == [m1 EXCEPT !.slot[e] = Unshared(@)]
<1>1. m1 \in Good
  BY CallerType, removeBlockInDescendantsGood
<1> HIDE DEF m1
<1>2. m2 \in Good
  BY <1>1, CallerType, UnsharedType DEF Good
<1>3. Commit(m2)
  BY DEF removeUncutBlock, m1
<1> QED
  BY <1>2, <1>3, CommitGood

\* removeMemoryBlock of a block the child has cut, on both of its exits.
LEMMA removeCutBlockGood ==
  ASSUME IInv, NEW c \in PDAddr, NEW e \in SlotsOf(Mem, c), removeCutBlock(c, e),
         slot[e].PDchild \in PDAddr
  PROVE  IInv'
<1> DEFINE b    == slot[e]
           subs == Subblocks(Mem, b.inChild)
           m1   == freeSlots(Mem, b.PDchild, subs)
           m2   == [m1 EXCEPT !.slot[e].accessible = TRUE]
           m3   == writeAccessibleRec(m2, c, b.start, m2.slot[e].end, TRUE)
           m4   == IF ReachesRoot(m2, c, b.start, m2.slot[e].end)
                   THEN [m3 EXCEPT !.slot[e] = Unshared(@)]
                   ELSE m3
<1>1. subs \in SUBSET Slots
  BY DEF Subblocks
<1>2. m1 \in Good
  BY <1>1, CallerType, freeSlotsGood
<1> HIDE DEF m1
<1>3. m2 \in Good
  <2>1. [m1.slot[e] EXCEPT !.accessible = TRUE] \in Entry
    BY <1>2, CallerType, EntryOf, EntryUpdate
  <2> QED
    BY <1>2, <2>1 DEF Good
<1> HIDE DEF m2
<1>4. m3 \in Good
  BY <1>3, writeAccessibleRecGood
<1> HIDE DEF m3
<1>5. m4 \in Good
  BY <1>4, CallerType, UnsharedType DEF Good
<1>6. Commit(m4)
  BY DEF removeCutBlock, m1, m2, m3
<1> QED
  BY <1>5, <1>6, CommitGood

\* removeMemoryBlock, either way.
LEMMA removeMemoryBlockGood ==
  ASSUME IInv, NEW c \in PDAddr, NEW e \in SlotsOf(Mem, c), removeMemoryBlock(c, e)
  PROVE  IInv'
<1>1. CASE removeUncutBlock(c, e)
  BY <1>1, removeUncutBlockGood
<1>2. CASE removeCutBlock(c, e)
  <2>1. slot[e].PDchild \in PDAddr
    BY <1>2, CallerType DEF removeCutBlock, IsRemovable, Entry
  <2> QED
    BY SMTT(30), <1>2, <2>1, removeCutBlockGood
<1> QED
  BY <1>1, <1>2 DEF removeMemoryBlock

\* deletePartition: erase the descriptor, give back what was tied to the child.
LEMMA deletePartitionGood ==
  ASSUME IInv, NEW c \in PDAddr, NEW e \in SlotsOf(Mem, c), deletePartition(c, e)
  PROVE  IInv'
<1>1. \A E : releaseBlocks(eraseBlock(Mem, slot[e].start, slot[e].end), c, E) \in Good
  BY CallerType, eraseBlockGood, releaseBlocksGood
<1>2. \E E : Commit(releaseBlocks(eraseBlock(Mem, slot[e].start, slot[e].end), c, E))
  BY DEF deletePartition
<1> QED
  BY <1>1, <1>2, CommitGood

\* collect: unlink the free slots, the structure, and give its block back.
LEMMA collectGood ==
  ASSUME IInv, NEW c \in PDAddr, NEW t \in PDAddr, collect(c, t)
  PROVE  IInv'
<1>1. PICK n \in DOMAIN pd[t].structs :
        LET ks  == pd[t].structs[n]
            blk == findBlockInKS(Mem, c, ks)
            m1  == collectFreeSlots(Mem, t, ks)
            m2  == [m1 EXCEPT !.pd[t] = removeStructure(@, n)]
            m3  == [m2 EXCEPT !.slot[blk].accessible = TRUE]
            m4  == writeAccessibleToAncestorsIfNotCutRec(m3, t, blk, TRUE)
        IN  Commit([m4 EXCEPT !.slot[blk] = Unshared(@)])
  BY ZenonT(30) DEF collect
<1> DEFINE ks  == pd[t].structs[n]
           blk == findBlockInKS(Mem, c, ks)
           m1  == collectFreeSlots(Mem, t, ks)
           m2  == [m1 EXCEPT !.pd[t] = removeStructure(@, n)]
           m3  == [m2 EXCEPT !.slot[blk].accessible = TRUE]
           m4  == writeAccessibleToAncestorsIfNotCutRec(m3, t, blk, TRUE)
           m5  == [m4 EXCEPT !.slot[blk] = Unshared(@)]
<1>2. Commit(m5)
  BY <1>1
<1> HIDE DEF ks, blk
<1>3. m1 \in Good /\ n \in DOMAIN m1.pd[t].structs
  <2>1. Mem \in Good /\ Mem.pd = pd
    BY DEF IInv, Mem
  <2> QED
    BY <2>1, collectFreeSlotsGood
<1> HIDE DEF m1
<1>4. m2 \in Good
  BY <1>3, removeStructureGood DEF Good
<1> HIDE DEF m2
<1>5. \A f \in Entry : [f EXCEPT !.accessible = TRUE] \in Entry
  BY EntryUpdate
<1>6. m3 \in Good
  BY <1>4, <1>5 DEF Good
<1> HIDE DEF m3
<1>7. m4 \in Good
  BY <1>6, writeAccessibleToAncestorsGood
<1> HIDE DEF m4
<1>8. m5 \in Good
  BY <1>7, UnsharedType DEF Good
<1> QED
  BY SMTT(30), <1>2, <1>8, CommitGood

\* mapMPU: clear a region, or move a block to one.
LEMMA mapMPUGood ==
  ASSUME IInv, NEW c \in PDAddr, NEW t \in PDAddr, NEW r, mapMPU(c, t, r)
  PROVE  IInv'
<1>0. Mem \in Good
  BY DEF IInv
<1>1. CASE unmapRegion(c, t, r)
  BY <1>0, <1>1, enableBlockInMPUGood, CommitGood DEF unmapRegion, SlotRef
<1>2. ASSUME NEW e \in SlotsOf(Mem, t), mapBlock(c, t, e, r)
      PROVE  IInv'
  <2>1. e \in SlotRef
    BY <1>0, SlotsOfType DEF SlotRef
  <2>2. PICK old : Commit(enableBlockInMPU(enableBlockInMPU(Mem, t, NullSlot, old),
                                           t, e, r))
    BY <1>2 DEF mapBlock
  <2>3. enableBlockInMPU(Mem, t, NullSlot, old) \in Good
    BY <1>0, enableBlockInMPUGood DEF SlotRef
  <2> QED
    BY <2>1, <2>2, <2>3, enableBlockInMPUGood, CommitGood
<1> QED
  BY <1>1, <1>2 DEF mapMPU

\* setVIDT: the new address is null or a unit of memory.
LEMMA setVIDTGood ==
  ASSUME IInv, NEW c \in PDAddr, NEW t \in PDAddr, NEW a \in VidtPoints \cup {Null},
         setVIDT(c, t, a)
  PROVE  IInv'
<1>1. a \in 0 .. Top
  BY ConstantsAssumption DEF Null
<1>2. [pd[t] EXCEPT !.vidt = a] \in GoodPD
  BY <1>1 DEF IInv, Mem, Good, GoodPD, Descriptor
<1>3. [Mem EXCEPT !.pd[t].vidt = a] \in Good
  BY <1>2 DEF IInv, Mem, Good
<1> QED
  BY <1>3, CommitGood DEF setVIDT

-----------------------------------------------------------------------------
(* The specification.                                                      *)

\* malInit leaves the root with its boot blocks in the first slots.
LEMMA InitGood == Init => IInv
<1> SUFFICES ASSUME Init PROVE IInv
  OBVIOUS
<1> DEFINE n    == Len(RootBlocks)
           root == [EmptyPD EXCEPT
                      !.structs = <<RootKS>>, !.nbPrepare = 1,
                      !.nbFree = Entries - n,
                      !.firstFree = IF n = Entries THEN NullSlot ELSE <<RootKS, n>>,
                      !.mpu = [r \in Regions |-> IF r < n THEN <<RootKS, r>>
                                                 ELSE NullSlot],
                      !.vidt = RootVidt]
<1>1. n \in 0 .. Entries /\ Entries \in Nat \ {0}
  BY RootAssumption, ConstantsAssumption, LenProperties
<1>2. slot \in [Slots -> Entry]
  <2>1. \A e \in Slots : e[1] \in KSAddr /\ e[2] \in 0 .. Entries - 1
    BY DEF Slots
  <2>2. ASSUME NEW e \in Slots, e[1] = RootKS, e[2] < n
        PROVE  [FreeEntry(NullSlot) EXCEPT
                  !.start = RootBlocks[e[2] + 1].start,
                  !.end = RootBlocks[e[2] + 1].end,
                  !.origin = RootBlocks[e[2] + 1].start,
                  !.rights = RootBlocks[e[2] + 1].rights,
                  !.present = TRUE, !.accessible = TRUE] \in Entry
    <3>1. e[2] + 1 \in 1 .. n
      BY <2>1, <2>2, <1>1
    <3>2. RootBlocks[e[2] + 1] \in [start : 1 .. Top, end : 1 .. Top + 1,
                                    rights : SUBSET Rights]
      BY <3>1, RootAssumption, ElementOfSeq
    <3>3. FreeEntry(NullSlot) \in Entry
      BY FreeEntryType DEF SlotRef
    <3>4. \A b \in [start : 1 .. Top, end : 1 .. Top + 1, rights : SUBSET Rights] :
            b.start \in 0 .. Top + 1 /\ b.end \in 0 .. Top + 1
            /\ b.rights \in SUBSET Rights
      BY ConstantsAssumption
    <3>5. \A f \in Entry, s \in 0 .. Top + 1, t \in 0 .. Top + 1,
             rights \in SUBSET Rights :
            [f EXCEPT !.start = s, !.end = t, !.origin = s, !.rights = rights,
                      !.present = TRUE, !.accessible = TRUE] \in Entry
      BY DEF Entry
    <3> QED
      BY <3>2, <3>3, <3>4, <3>5
  <2>3. ASSUME NEW e \in Slots, e[2] # Entries - 1, e[1] = RootKS
        PROVE  <<RootKS, e[2] + 1>> \in SlotRef
    BY <2>1, <2>3, <1>1 DEF SlotRef, Slots
  <2> QED
    BY <2>2, <2>3, FreeEntryType DEF Init, SlotRef
<1>3. root \in GoodPD
  <2>1. <<RootKS>> \in Seq(KSAddr) /\ Len(<<RootKS>>) = 1
    BY DEF KSAddr
  <2>2. \A k \in 0 .. Entries - 1 : <<RootKS, k>> \in SlotRef
    BY DEF SlotRef, Slots, KSAddr
  <2>3. \A r \in Regions : r < n => r \in 0 .. Entries - 1
    BY <1>1, ConstantsAssumption
  <2>4. [r \in Regions |-> IF r < n THEN <<RootKS, r>> ELSE NullSlot]
          \in [Regions -> SlotRef]
    BY <2>2, <2>3 DEF SlotRef
  <2>5. (IF n = Entries THEN NullSlot ELSE <<RootKS, n>>) \in SlotRef
    BY <1>1, <2>2 DEF SlotRef
  <2>6. Entries - n \in Int /\ 1 \in Nat /\ 1 <= MaxPrepare
    BY <1>1, ConstantsAssumption
  <2>7. \A d \in Descriptor, f \in SlotRef, k \in Int,
           g \in [Regions -> SlotRef], a \in 0 .. Top :
          [d EXCEPT !.structs = <<RootKS>>, !.nbPrepare = 1, !.nbFree = k,
                    !.firstFree = f, !.mpu = g, !.vidt = a] \in GoodPD
    BY <2>1, <2>6 DEF GoodPD, Descriptor
  <2>8. EmptyPD \in Descriptor
    BY EmptyPDGood DEF GoodPD
  <2> QED
    BY <2>4, <2>5, <2>6, <2>7, <2>8, RootAssumption
<1>4. pd = [p \in PDAddr |-> IF p # RootPD THEN EmptyPD ELSE root]
  BY DEF Init
<1>5. pd \in [PDAddr -> GoodPD]
  <2> HIDE DEF root
  <2> QED
    BY <1>3, <1>4, EmptyPDGood
<1> QED
  BY <1>2, <1>5 DEF IInv, Mem, Good

\* Every call of every live partition.
LEMMA ServiceGood ==
  ASSUME IInv, NEW c \in PDAddr, NEW s, Service(c, s)
  PROVE  IInv'
<1>1. \A t \in CurrentOrChild(c) : t \in PDAddr
  BY DEF CurrentOrChild
<1> DEFINE mine == SlotsOf(Mem, c)
<1>3. CASE \E e \in mine : createPartition(c, e)
  BY <1>3, createPartitionGood
<1>4. CASE \E e \in mine, a \in CutPoints, r \in RegionArg : cutMemoryBlock(c, e, a, r)
  BY <1>4, cutMemoryBlockGood
<1>5. CASE \E e1, e2 \in mine, r \in RegionArg : mergeMemoryBlocks(c, e1, e2, r)
  BY <1>5, mergeMemoryBlocksGood
<1>6. CASE \E t \in CurrentOrChild(c), e \in mine : prepare(c, t, e)
  BY <1>1, <1>6, prepareGood
<1>7. CASE \E t \in PDAddr, e \in mine, rights \in GrantRights :
             addMemoryBlock(c, t, e, rights)
  BY <1>7, addMemoryBlockGood
<1>8. CASE \E e \in mine : removeMemoryBlock(c, e)
  BY <1>8, removeMemoryBlockGood
<1>9. CASE \E e \in mine : deletePartition(c, e)
  BY <1>9, deletePartitionGood
<1>10. CASE \E t \in CurrentOrChild(c) : collect(c, t)
  BY <1>1, <1>10, collectGood
<1>11. CASE \E t \in CurrentOrChild(c), r \in RegionArg : mapMPU(c, t, r)
  BY <1>1, <1>11, mapMPUGood
<1>12. CASE \E t \in CurrentOrChild(c), a \in VidtPoints \cup {Null} : setVIDT(c, t, a)
  BY <1>1, <1>12, setVIDTGood
<1> QED
  BY <1>3, <1>4, <1>5, <1>6, <1>7, <1>8, <1>9, <1>10, <1>11, <1>12 DEF Service

\* A service of some live partition, or a stutter.
LEMMA NextGood == IInv /\ [Next]_vars => IInv'
<1>1. ASSUME IInv, Next
      PROVE  IInv'
  <2>1. PICK c \in Live, s \in Services : Service(c, s)
    BY <1>1 DEF Next
  <2>2. c \in PDAddr
    BY DEF Live
  <2> QED
    BY <1>1, <2>1, <2>2, ServiceGood
<1>2. ASSUME IInv, UNCHANGED vars
      PROVE  IInv'
  BY <1>2 DEF IInv, Mem, vars
<1> QED
  BY <1>1, <1>2

\* The kernel data stays well-typed through every sequence of calls: no
\* service leaves a dangling slot reference, an address outside memory, a
\* right that does not exist or a negative count of structures behind.
THEOREM TypeCorrect == Spec => []TypeOK
<1>1. Init => IInv
  BY InitGood
<1>2. IInv /\ [Next]_vars => IInv'
  BY NextGood
<1>3. IInv => TypeOK
  BY GoodMeaning
<1> QED
  BY <1>1, <1>2, <1>3, PTL DEF Spec

\* No partition ever links more than MAXNBPREPARE kernel structures, and
\* nbPrepare counts them: the searches of Internal.v, which run with
\* maxNbPrepare as fuel, see the whole list.
THEOREM StructuresBounded == Spec => []maxNbPrepareIsMaxNbKernels
<1>1. Init => IInv
  BY InitGood
<1>2. IInv /\ [Next]_vars => IInv'
  BY NextGood
<1>3. IInv => maxNbPrepareIsMaxNbKernels
  BY GoodMeaning
<1> QED
  BY <1>1, <1>2, <1>3, PTL DEF Spec

-----------------------------------------------------------------------------
(* What the internal functions leave alone: blocks keep their range and    *)
(* rights or go, and regions their block.                                  *)

SameArea(b, a) == b.start = a.start /\ b.end = a.end /\ b.rights = a.rights

\* A block is as it was, or gone.
BlockFades(b, a) ==
  b.present => a.present /\ SameArea(b, a)

\* A region of a descriptor is as it was, or empty, and so is its VIDT.
PDFades(d, c) ==
  (\A r \in Regions : d.mpu[r] \in {c.mpu[r], NullSlot}) /\ d.vidt \in {c.vidt, Null}

\* Only the blocks of X are new, or have changed.
Fades(m, n, X) ==
  /\ \A f \in Slots : f \notin X => BlockFades(n.slot[f], m.slot[f])
  /\ \A q \in PDAddr : PDFades(n.pd[q], m.pd[q])

\* Changes add up.
LEMMA FadesTrans ==
  ASSUME NEW m, NEW n, NEW o, NEW X, NEW Y,
         Fades(m, n, X), Fades(n, o, Y)
  PROVE  Fades(m, o, X \cup Y)
<1>1. ASSUME NEW f \in Slots, f \notin X \cup Y PROVE BlockFades(o.slot[f], m.slot[f])
  BY <1>1 DEF Fades, BlockFades, SameArea
<1>2. ASSUME NEW q \in PDAddr PROVE PDFades(o.pd[q], m.pd[q])
  <2>1. PDFades(n.pd[q], m.pd[q]) /\ PDFades(o.pd[q], n.pd[q])
    BY DEF Fades
  <2> QED
    BY <2>1 DEF PDFades
<1> QED
  BY <1>1, <1>2 DEF Fades

\* Nothing changes.
LEMMA FadesSelf == \A m, X : Fades(m, m, X)
  BY DEF Fades, BlockFades, SameArea, PDFades

\* A block is a faded form of itself.
LEMMA BlockSelf == \A b : BlockFades(b, b)
  BY DEF BlockFades, SameArea

\* A descriptor is a faded form of itself.
LEMMA PDFadesSelf == \A d : PDFades(d, d)
  BY DEF PDFades

\* A descriptor that removePartition or createPartition empties maps and lists
\* nothing.
LEMMA EmptyFades == \A c : PDFades(EmptyPD, c)
  BY DEF PDFades, EmptyPD, Null

\* An entry put back on a free list is a faded form of any block.
LEMMA FreeFades == \A a, link : BlockFades(FreeEntry(link), a)
  BY DEF BlockFades, FreeEntry

\* Unmapping takes blocks out of the MPU of a partition.
LEMMA UnmapFades ==
  ASSUME NEW d \in GoodPD, NEW E
  PROVE  PDFades(Unmap(d, E), d)
  BY DEF PDFades, Unmap, GoodPD, Descriptor

\* Moving the head of the free list of a partition leaves its MPU alone.
LEMMA FreeListAtFades ==
  ASSUME NEW d \in GoodPD, NEW f, NEW n, NEW E
  PROVE  PDFades(FreeListAt(d, f, n), d) /\ PDFades(FreeListAt(Unmap(d, E), f, n), d)
  BY DEF PDFades, Unmap, FreeListAt, GoodPD, Descriptor

\* A block loses or gains access, its child or its flag.
LEMMA MarkFades ==
  ASSUME NEW b \in Entry, NEW bit
  PROVE  /\ BlockFades([b EXCEPT !.accessible = bit], b)
         /\ BlockFades([b EXCEPT !.PDchild = bit], b)
         /\ BlockFades([b EXCEPT !.inChild = bit], b)
         /\ BlockFades(Unshared(b), b) /\ BlockFades([Unshared(b) EXCEPT !.accessible = bit], b)
  BY DEF BlockFades, SameArea, Unshared, Entry

\* eraseBlock destroys what lies in the block, and creates nothing.
LEMMA eraseFades ==
  ASSUME NEW m, NEW s, NEW t
  PROVE  Fades(m, eraseBlock(m, s, t), {})
<1>1. \A f \in Slots : BlockFades(eraseBlock(m, s, t).slot[f], m.slot[f])
  BY FreeFades DEF eraseBlock, BlockFades, SameArea
<1>2. \A q \in PDAddr : PDFades(eraseBlock(m, s, t).pd[q], m.pd[q])
  BY EmptyFades, PDFadesSelf DEF eraseBlock
<1> QED
  BY <1>1, <1>2 DEF Fades

\* writeAccessibleRec changes the accessible flag of blocks that are there.
LEMMA writeFades ==
  ASSUME NEW m \in Good, NEW p, NEW s, NEW t, NEW bit
  PROVE  Fades(m, writeAccessibleRec(m, p, s, t, bit), {})
<1> DEFINE n == writeAccessibleRec(m, p, s, t, bit)
<1>0. (\A f \in Slots : m.slot[f] \in Entry) /\ (\A q \in PDAddr : m.pd[q] \in GoodPD)
  BY DEF Good
<1>1. \A f \in Slots : n.slot[f] \in {m.slot[f], [m.slot[f] EXCEPT !.accessible = bit]}
  BY Zenon DEF writeAccessibleRec
<1>2. \A q \in PDAddr : n.pd[q] = m.pd[q] \/ \E E : n.pd[q] = Unmap(m.pd[q], E)
  BY Zenon DEF writeAccessibleRec
<1> HIDE DEF n
<1>3. ASSUME NEW f \in Slots PROVE BlockFades(n.slot[f], m.slot[f])
  <2>1. BlockFades([m.slot[f] EXCEPT !.accessible = bit], m.slot[f])
    BY <1>0, MarkFades
  <2> QED
    BY <1>1, <2>1, BlockSelf
<1>4. \A q \in PDAddr : PDFades(n.pd[q], m.pd[q])
  BY <1>0, <1>2, UnmapFades, PDFadesSelf
<1>5. Fades(m, n, {})
  BY <1>3, <1>4 DEF Fades
<1> QED
  BY <1>5 DEF n

\* writeAccessibleToAncestorsIfNotCutRec changes flags, if anything.
LEMMA toldFades ==
  ASSUME NEW m \in Good, NEW p, NEW e, NEW bit
  PROVE  Fades(m, writeAccessibleToAncestorsIfNotCutRec(m, p, e, bit), {})
  BY writeFades, FadesSelf DEF writeAccessibleToAncestorsIfNotCutRec

\* A block the kernel takes loses its access in its partition and above.
LEMMA hideFades ==
  ASSUME NEW m \in Good, NEW p \in PDAddr, NEW e \in Slots
  PROVE  Fades(m, hide(m, p, e), {})
<1> DEFINE m1 == [m EXCEPT !.slot[e].accessible = FALSE, !.pd[p] = Unmap(@, {e})]
           o  == hide(m, p, e)
<1>0. m.slot \in [Slots -> Entry] /\ m.pd \in [PDAddr -> GoodPD]
  BY DEF Good
<1>1. /\ [m.slot[e] EXCEPT !.accessible = FALSE] \in Entry
      /\ Unmap(m.pd[p], {e}) \in GoodPD
  BY <1>0, EntryUpdate, UnmapGood
<1>2. m1 \in Good
  BY <1>1 DEF Good
<1>3. /\ \A f \in Slots : m1.slot[f] = IF f = e THEN [m.slot[e] EXCEPT !.accessible = FALSE]
                                      ELSE m.slot[f]
      /\ \A q \in PDAddr : m1.pd[q] = IF q = p THEN Unmap(m.pd[p], {e}) ELSE m.pd[q]
  BY DEF Good
<1>4. o = writeAccessibleToAncestorsIfNotCutRec(m1, p, e, FALSE)
  BY DEF hide
<1> HIDE DEF m1, o
<1>5. Fades(m, m1, {})
  <2>1. ASSUME NEW f \in Slots PROVE BlockFades(m1.slot[f], m.slot[f])
    <3>1. BlockFades([m.slot[e] EXCEPT !.accessible = FALSE], m.slot[e])
      BY <1>0, MarkFades
    <3> QED
      BY <1>3, <3>1, BlockSelf
  <2>2. \A q \in PDAddr : PDFades(m1.pd[q], m.pd[q])
    BY <1>0, <1>3, UnmapFades, PDFadesSelf
  <2> QED
    BY <2>1, <2>2 DEF Fades
<1>6. Fades(m1, o, {})
  BY <1>2, <1>4, toldFades
<1>7. Fades(m, o, {})
  BY <1>5, <1>6, FadesTrans
<1> QED
  BY <1>7 DEF o

\* A new entry is the only block to appear.
LEMMA insertFades ==
  ASSUME NEW m \in Good, NEW p \in PDAddr, NEW s, NEW t, NEW o, NEW rights
  PROVE  Fades(m, insertNewEntry(m, p, s, t, o, rights), {m.pd[p].firstFree})
<1> DEFINE n == insertNewEntry(m, p, s, t, o, rights)
<1>0. (\A q \in PDAddr : m.pd[q] \in GoodPD) /\ DOMAIN m.pd = PDAddr
  BY DEF Good
<1>1. \A f \in Slots : f # m.pd[p].firstFree => n.slot[f] = m.slot[f]
  BY DEF insertNewEntry
<1>2. \A q \in PDAddr : n.pd[q] = m.pd[q] \/ \E f, k : n.pd[q] = FreeListAt(m.pd[q], f, k)
  BY <1>0 DEF insertNewEntry
<1> HIDE DEF n
<1>3. \A q \in PDAddr : PDFades(n.pd[q], m.pd[q])
  BY <1>0, <1>2, FreeListAtFades, PDFadesSelf
<1>4. Fades(m, n, {m.pd[p].firstFree})
  BY <1>1, <1>3 DEF Fades, BlockFades, SameArea
<1> QED
  BY <1>4 DEF n

\* freeSlots puts blocks back on the free list of their partition.
LEMMA freeSlotsFades ==
  ASSUME NEW m \in Good, NEW p, NEW C
  PROVE  Fades(m, freeSlots(m, p, C), {})
<1> DEFINE n == freeSlots(m, p, C)
<1>0. (\A q \in PDAddr : m.pd[q] \in GoodPD) /\ DOMAIN m.pd = PDAddr
  BY DEF Good
<1>1. \A f \in Slots : n.slot[f] = m.slot[f] \/ \E l : n.slot[f] = FreeEntry(l)
  BY Zenon DEF freeSlots
<1>2. \A q \in PDAddr : n.pd[q] = m.pd[q] \/ \E f, k : n.pd[q] = FreeListAt(Unmap(m.pd[q], C), f, k)
  BY <1>0 DEF freeSlots
<1> HIDE DEF n
<1>3. \A f \in Slots : BlockFades(n.slot[f], m.slot[f])
  BY <1>1, FreeFades DEF BlockFades, SameArea
<1>4. \A q \in PDAddr : PDFades(n.pd[q], m.pd[q])
  BY <1>0, <1>2, FreeListAtFades, PDFadesSelf
<1>5. Fades(m, n, {})
  BY <1>3, <1>4 DEF Fades
<1> QED
  BY <1>5 DEF n

\* removeBlockInDescendantsRec only takes blocks away.
LEMMA removeFades ==
  ASSUME NEW m \in Good, NEW p, NEW e
  PROVE  Fades(m, removeBlockInDescendantsRec(m, p, e), {})
<1> DEFINE n == removeBlockInDescendantsRec(m, p, e)
<1>0. \A q \in PDAddr : m.pd[q] \in GoodPD
  BY DEF Good
<1>1. \A f \in Slots : n.slot[f] = m.slot[f] \/ \E l : n.slot[f] = FreeEntry(l)
  BY Zenon DEF removeBlockInDescendantsRec
<1>2. \A q \in PDAddr : n.pd[q] = m.pd[q] \/ \E E, f, k : n.pd[q] = FreeListAt(Unmap(m.pd[q], E), f, k)
  BY Zenon DEF removeBlockInDescendantsRec
<1> HIDE DEF n
<1>3. \A f \in Slots : BlockFades(n.slot[f], m.slot[f])
  BY <1>1, FreeFades DEF BlockFades, SameArea
<1>4. \A q \in PDAddr : PDFades(n.pd[q], m.pd[q])
  BY <1>0, <1>2, FreeListAtFades, PDFadesSelf
<1>5. Fades(m, n, {})
  BY <1>3, <1>4 DEF Fades
<1> QED
  BY <1>5 DEF n

\* Releasing the blocks of a deleted partition only takes from the others.
LEMMA releaseFades ==
  ASSUME NEW m \in Good, NEW c, NEW E
  PROVE  Fades(m, releaseBlocks(m, c, E), {})
<1> DEFINE n == releaseBlocks(m, c, E)
           u(f) == Unshared(m.slot[f])
<1>0. (\A f \in Slots : m.slot[f] \in Entry) /\ m = [slot |-> m.slot, pd |-> m.pd]
  BY DEF Good
<1>1. n.pd = m.pd
  BY <1>0 DEF releaseBlocks
<1>2. \A f \in Slots : n.slot[f] \in {m.slot[f], u(f), [m.slot[f] EXCEPT !.accessible = TRUE],
                                      [u(f) EXCEPT !.accessible = TRUE]}
  BY <1>0, Zenon DEF releaseBlocks
<1> HIDE DEF n
<1>3. ASSUME NEW f \in Slots PROVE BlockFades(n.slot[f], m.slot[f])
  <2>1. /\ BlockFades(u(f), m.slot[f])
        /\ BlockFades([m.slot[f] EXCEPT !.accessible = TRUE], m.slot[f])
        /\ BlockFades([u(f) EXCEPT !.accessible = TRUE], m.slot[f])
    BY <1>0, MarkFades
  <2> HIDE DEF u
  <2> QED
    BY <1>2, <2>1, BlockSelf
<1>4. Fades(m, n, {})
  BY <1>1, <1>3, PDFadesSelf DEF Fades
<1> QED
  BY <1>4 DEF n

-----------------------------------------------------------------------------
(* What the loops of Internal.v and Services.v reach.  Reached follows a   *)
(* link for as long as there is one, and Live follows the children from    *)
(* the root: each is the least set with that closure, whatever the memory. *)

(* Reached.                                                                *)

\* The local function of Chain.
At(f, x) ==
  CHOOSE at : at = [n \in Nat |->
    IF n = 0 THEN x
    ELSE LET y == at[n - 1] IN IF y \in DOMAIN f THEN f[y] ELSE y]

\* It starts at x and takes one link after the other.
LEMMA AtSteps ==
  ASSUME NEW f, NEW x
  PROVE  /\ At(f, x)[0] = x
         /\ \A n \in Nat : At(f, x)[n + 1] = IF At(f, x)[n] \in DOMAIN f
                                             THEN f[At(f, x)[n]] ELSE At(f, x)[n]
<1> DEFINE T    == {x} \cup {f[y] : y \in DOMAIN f}
           F    == [y \in T |-> IF y \in DOMAIN f THEN f[y] ELSE y]
           D(a) == [n \in Nat |-> IF n = 0 THEN x
                                  ELSE LET y == a[n - 1]
                                       IN  IF y \in DOMAIN f THEN f[y] ELSE y]
<1>1. F \in [T -> T] /\ x \in T
  OBVIOUS
<1>2. \A y \in T : F[y] = IF y \in DOMAIN f THEN f[y] ELSE y
  OBVIOUS
<1> HIDE DEF T, F
<1>3. PICK g \in [Nat -> T] : g[0] = x /\ \A n \in Nat : g[n + 1] = F[g[n]]
  <2>1. HasIteration(F, T, x)
    BY <1>1, Iteration
  <2> QED
    BY <2>1 DEF HasIteration
<1>4. \A n \in Nat : g[n] = D(g)[n]
  <2> SUFFICES ASSUME NEW n \in Nat PROVE g[n] = D(g)[n]
    OBVIOUS
  <2>1. CASE n = 0
    BY <1>3, <2>1
  <2>2. CASE n # 0
    <3>1. n - 1 \in Nat /\ n - 1 + 1 = n
      BY <2>2
    <3>2. g[n] = F[g[n - 1]] /\ g[n - 1] \in T
      BY <1>3, <3>1
    <3> QED
      BY <1>2, <2>2, <3>2
  <2> QED
    BY <2>1, <2>2
<1>5. g = D(g)
  <2> DEFINE d == D(g)
  <2>1. d = [n \in Nat |-> d[n]] /\ g = [n \in Nat |-> g[n]]
    BY <1>3
  <2>2. \A n \in Nat : g[n] = d[n]
    BY <1>4
  <2> HIDE DEF d
  <2>3. g = d
    BY <2>1, <2>2
  <2> QED
    BY <2>3 DEF d
<1>6. At(f, x) = D(At(f, x))
  <2>1. \E a : a = D(a)
    BY <1>5
  <2> QED
    BY <2>1 DEF At
<1> DEFINE at == At(f, x)
<1> HIDE DEF at
<1>7. at = D(at)
  BY <1>6 DEF at
<1>8. at[0] = x
  BY <1>7
<1>9. ASSUME NEW n \in Nat
      PROVE  at[n + 1] = IF at[n] \in DOMAIN f THEN f[at[n]] ELSE at[n]
  <2>1. n + 1 \in Nat /\ n + 1 # 0 /\ n + 1 - 1 = n
    OBVIOUS
  <2>2. at[n + 1] = LET y == at[n + 1 - 1] IN IF y \in DOMAIN f THEN f[y] ELSE y
    BY <1>7, <2>1
  <2> QED
    BY <2>1, <2>2
<1> QED
  BY <1>8, <1>9 DEF at

\* Chain and Reached in terms of At.
LEMMA ReachedIsAt ==
  ASSUME NEW f, NEW x
  PROVE  /\ Chain(f, x) = [n \in 0 .. Cardinality(DOMAIN f) |-> At(f, x)[n]]
         /\ Reached(f, x) = {At(f, x)[n] : n \in 0 .. Cardinality(DOMAIN f)}
<1>1. Chain(f, x) = [n \in 0 .. Cardinality(DOMAIN f) |-> At(f, x)[n]]
  BY DEF Chain, At
<1>2. Reached(f, x) = {Chain(f, x)[n] : n \in DOMAIN Chain(f, x)}
  BY DEF Reached
<1> DEFINE at == At(f, x)
<1> HIDE DEF at
<1>3. Chain(f, x) = [n \in 0 .. Cardinality(DOMAIN f) |-> at[n]]
  BY <1>1 DEF at
<1>4. Reached(f, x) = {at[n] : n \in 0 .. Cardinality(DOMAIN f)}
  BY <1>2, <1>3
<1> QED
  BY <1>1, <1>4 DEF at

\* Once it is back at a point, it repeats itself.
LEMMA AtPeriodic ==
  ASSUME NEW f, NEW x, NEW i \in Nat, NEW j \in Nat, At(f, x)[i] = At(f, x)[j]
  PROVE  \A k \in Nat : At(f, x)[i + k] = At(f, x)[j + k]
<1> DEFINE at == At(f, x)
           S  == {k \in Nat : at[i + k] = at[j + k]}
<1>1. \A n \in Nat : at[n + 1] = IF at[n] \in DOMAIN f THEN f[at[n]] ELSE at[n]
  BY AtSteps
<1>2. at[i] = at[j]
  OBVIOUS
<1> HIDE DEF at
<1>3. 0 \in S
  BY <1>2
<1>4. ASSUME NEW k \in S PROVE k + 1 \in S
  <2>1. /\ i + k \in Nat /\ j + k \in Nat /\ k + 1 \in Nat
        /\ i + (k + 1) = (i + k) + 1 /\ j + (k + 1) = (j + k) + 1
    OBVIOUS
  <2>2. at[i + k] = at[j + k]
    OBVIOUS
  <2>3. at[(i + k) + 1] = at[(j + k) + 1]
    BY <1>1, <2>1, <2>2
  <2>4. at[i + (k + 1)] = at[j + (k + 1)]
    BY <2>1, <2>3
  <2> QED
    BY <2>1, <2>4
<1>5. S \in SUBSET Nat
  OBVIOUS
<1> HIDE DEF S
<1>6. S = Nat
  BY <1>3, <1>4, <1>5, Induction
<1> QED
  BY <1>6 DEF S, at

\* Where there is no link it stays.
LEMMA AtStays ==
  ASSUME NEW f, NEW x, NEW i \in Nat, At(f, x)[i] \notin DOMAIN f
  PROVE  \A k \in Nat : At(f, x)[i + k] = At(f, x)[i]
<1> DEFINE at == At(f, x)
           S  == {k \in Nat : at[i + k] = at[i]}
<1>1. \A n \in Nat : at[n + 1] = IF at[n] \in DOMAIN f THEN f[at[n]] ELSE at[n]
  BY AtSteps
<1>2. at[i] \notin DOMAIN f
  OBVIOUS
<1> HIDE DEF at
<1>3. 0 \in S
  OBVIOUS
<1>4. ASSUME NEW k \in S PROVE k + 1 \in S
  <2>1. i + k \in Nat /\ k + 1 \in Nat /\ i + (k + 1) = (i + k) + 1
    OBVIOUS
  <2>2. at[i + k] = at[i]
    OBVIOUS
  <2>3. at[(i + k) + 1] = at[i]
    BY <1>1, <1>2, <2>1, <2>2
  <2> QED
    BY <2>1, <2>3
<1>5. S \in SUBSET Nat
  OBVIOUS
<1> HIDE DEF S
<1>6. S = Nat
  BY <1>3, <1>4, <1>5, Induction
<1> QED
  BY <1>6 DEF S, at

\* Reached is the least set that holds x and is closed under the links.
LEMMA ReachedLeast ==
  ASSUME NEW f, NEW x, IsFiniteSet(DOMAIN f)
  PROVE  /\ x \in Reached(f, x)
         /\ \A y \in Reached(f, x) : y \in DOMAIN f => f[y] \in Reached(f, x)
         /\ \A S : x \in S /\ (\A y \in S : y \in DOMAIN f => f[y] \in S)
                     => Reached(f, x) \subseteq S
<1> DEFINE at == At(f, x)
           N  == Cardinality(DOMAIN f)
           R  == Reached(f, x)
           Dm == DOMAIN f
<1>1. N \in Nat /\ IsFiniteSet(Dm)
  BY FS_CardinalityType
<1>2. R = {at[n] : n \in 0 .. N}
  BY ReachedIsAt
<1>3. /\ at[0] = x
      /\ \A n \in Nat : at[n + 1] = IF at[n] \in Dm THEN f[at[n]] ELSE at[n]
  BY AtSteps
<1>4. \A i, j \in Nat : at[i] = at[j] => \A k \in Nat : at[i + k] = at[j + k]
  BY AtPeriodic
<1>5. \A i \in Nat : at[i] \notin Dm => \A k \in Nat : at[i + k] = at[i]
  BY AtStays
<1>6. Cardinality(Dm) = N
  OBVIOUS
<1> HIDE DEF at, N, R, Dm
<1>7. x \in R
  BY <1>1, <1>2, <1>3
<1>8. ASSUME NEW n \in 0 .. N, at[n] \in Dm PROVE f[at[n]] \in R
  <2>1. n \in Nat /\ f[at[n]] = at[n + 1]
    BY <1>1, <1>3, <1>8
  <2>2. CASE n # N
    <3>1. n + 1 \in 0 .. N
      BY <1>1, <2>2
    <3> QED
      BY <1>2, <2>1, <3>1
  <2>3. CASE n = N
    <3>1. ASSUME NEW i \in 0 .. N PROVE at[i] \in Dm
      <4>1. i \in Nat /\ N - i \in Nat /\ i + (N - i) = N
        BY <1>1
      <4> QED
        BY <1>5, <1>8, <2>3, <4>1
    <3> DEFINE I == 0 .. N
               g == [i \in I |-> at[i]]
    <3>2. IsFiniteSet(I) /\ Cardinality(I) = N + 1
      BY <1>1, FS_Interval
    <3>3. g \in [I -> Dm] /\ \A i \in I : g[i] = at[i]
      BY <3>1
    <3>4. N < N + 1
      BY <1>1
    <3>5. I = 0 .. N
      OBVIOUS
    <3> HIDE DEF g, I
    <3>6. PICK i \in I, j \in I : i # j /\ g[i] = g[j]
      BY <1>1, <1>6, <3>2, <3>3, <3>4, FS_PigeonHole
    <3>7. \E a, b \in 0 .. N : a < b /\ at[a] = at[b]
      <4>1. CASE i < j
        BY <3>3, <3>5, <3>6, <4>1
      <4>2. CASE j < i
        BY <3>3, <3>5, <3>6, <4>2
      <4> QED
        BY <1>1, <3>5, <3>6, <4>1, <4>2
    <3>8. PICK a \in 0 .. N, b \in 0 .. N : a < b /\ at[a] = at[b]
      BY <3>7
    <3>9. /\ a \in Nat /\ b \in Nat /\ N + 1 - b \in Nat
          /\ b + (N + 1 - b) = N + 1 /\ a + (N + 1 - b) \in 0 .. N
      BY <1>1, <3>8
    <3>10. at[N + 1] = at[a + (N + 1 - b)]
      BY <1>4, <3>8, <3>9
    <3> QED
      BY <1>2, <2>1, <2>3, <3>9, <3>10
  <2> QED
    BY <2>2, <2>3
<1>9. \A y \in R : y \in Dm => f[y] \in R
  BY <1>2, <1>8
<1>10. ASSUME NEW S, x \in S, \A y \in S : y \in Dm => f[y] \in S PROVE R \subseteq S
  <2> DEFINE T == {n \in Nat : at[n] \in S}
  <2>1. 0 \in T
    BY <1>3, <1>10
  <2>2. \A n \in T : n + 1 \in T
    BY <1>3, <1>10
  <2>3. T \in SUBSET Nat
    OBVIOUS
  <2> HIDE DEF T
  <2>4. T = Nat
    BY <2>1, <2>2, <2>3, Induction
  <2>5. \A n \in Nat : at[n] \in S
    BY <2>4 DEF T
  <2> QED
    BY <1>1, <1>2, <2>5
<1> QED
  BY <1>7, <1>9, <1>10 DEF R, Dm

-----------------------------------------------------------------------------
(* The live partitions of a memory.                                        *)

\* One generation more.
Brood(m, S) == S \cup UNION {Children(m, p) : p \in S \cap PDAddr}

\* The local function of Live, for any memory.
Gen(m) == CHOOSE gen : gen = [n \in Nat |-> IF n = 0 THEN {RootPD}
                                            ELSE Brood(m, gen[n - 1])]

LiveOf(m) == Gen(m)[Cardinality(PDAddr)] \cap PDAddr

\* Live is LiveOf in the current state.
LEMMA LiveIsLiveOf == Live = LiveOf(Mem)
BY DEF Live, LiveOf, Gen, Brood

\* The generations start with the root and add the children of the last one.
LEMMA GenSteps ==
  ASSUME NEW m
  PROVE  Gen(m)[0] = {RootPD} /\ \A n \in Nat : Gen(m)[n + 1] = Brood(m, Gen(m)[n])
<1> DEFINE U    == {RootPD} \cup UNION {Children(m, p) : p \in PDAddr}
           T    == SUBSET U
           F    == [S \in T |-> Brood(m, S)]
           x    == {RootPD}
           D(a) == [n \in Nat |-> IF n = 0 THEN x ELSE Brood(m, a[n - 1])]
<1>1. F \in [T -> T] /\ x \in T
  BY DEF Brood
<1>2. \A S \in T : F[S] = Brood(m, S)
  OBVIOUS
<1> HIDE DEF T, F, x
<1>3. PICK g \in [Nat -> T] : g[0] = x /\ \A n \in Nat : g[n + 1] = F[g[n]]
  <2>1. HasIteration(F, T, x)
    BY <1>1, Iteration
  <2> QED
    BY <2>1 DEF HasIteration
<1>4. \A n \in Nat : g[n] = D(g)[n]
  <2> SUFFICES ASSUME NEW n \in Nat PROVE g[n] = D(g)[n]
    OBVIOUS
  <2>1. CASE n = 0
    BY <1>3, <2>1
  <2>2. CASE n # 0
    <3>1. n - 1 \in Nat /\ n - 1 + 1 = n
      BY <2>2
    <3>2. g[n] = F[g[n - 1]] /\ g[n - 1] \in T
      BY <1>3, <3>1
    <3> QED
      BY <1>2, <2>2, <3>2
  <2> QED
    BY <2>1, <2>2
<1>5. g = D(g)
  <2> DEFINE d == D(g)
  <2>1. d = [n \in Nat |-> d[n]] /\ g = [n \in Nat |-> g[n]]
    BY <1>3
  <2>2. \A n \in Nat : g[n] = d[n]
    BY <1>4
  <2> HIDE DEF d
  <2>3. g = d
    BY <2>1, <2>2
  <2> QED
    BY <2>3 DEF d
<1>6. Gen(m) = D(Gen(m))
  <2>1. \E a : a = D(a)
    BY <1>5
  <2> QED
    BY <2>1 DEF Gen, x
<1> DEFINE gen == Gen(m)
<1> HIDE DEF gen
<1>7. gen = D(gen)
  BY <1>6 DEF gen
<1>8. gen[0] = {RootPD}
  BY <1>7 DEF x
<1>9. ASSUME NEW n \in Nat
      PROVE  gen[n + 1] = Brood(m, gen[n])
  <2>1. n + 1 \in Nat /\ n + 1 # 0 /\ n + 1 - 1 = n
    OBVIOUS
  <2>2. gen[n + 1] = Brood(m, gen[n + 1 - 1])
    BY <1>7, <2>1
  <2> QED
    BY <2>1, <2>2
<1> QED
  BY <1>8, <1>9 DEF gen

\* There are finitely many addresses for a descriptor.
LEMMA PDAddrFinite == IsFiniteSet(PDAddr)
<1>1. IsFiniteSet(1 .. Top)
  BY ConstantsAssumption, FS_Interval
<1>2. IsFiniteSet(PDHomes)
  BY <1>1, ConstantsAssumption, FS_Subset
<1> QED
  BY <1>2, FS_AddElement DEF PDAddr

\* A set that holds the root and, with a partition, its children holds every
\* live partition.
LEMMA LiveLeast ==
  ASSUME NEW m, NEW L, RootPD \in L,
         \A p \in L \cap PDAddr : Children(m, p) \cap PDAddr \subseteq L
  PROVE  LiveOf(m) \subseteq L
<1> DEFINE gen == Gen(m)
           T   == {n \in Nat : gen[n] \cap PDAddr \subseteq L}
<1>1. gen[0] = {RootPD} /\ \A n \in Nat : gen[n + 1] = Brood(m, gen[n])
  BY GenSteps
<1> HIDE DEF gen
<1>2. 0 \in T
  BY <1>1
<1>3. ASSUME NEW n \in T PROVE n + 1 \in T
  <2>1. gen[n + 1] = gen[n] \cup UNION {Children(m, p) : p \in gen[n] \cap PDAddr}
    BY <1>1 DEF Brood
  <2>2. gen[n + 1] \cap PDAddr \subseteq L
    BY <2>1
  <2> QED
    BY <2>2
<1>4. T \in SUBSET Nat
  OBVIOUS
<1> HIDE DEF T
<1>5. T = Nat
  BY <1>2, <1>3, <1>4, Induction
<1>6. Cardinality(PDAddr) \in T
  BY <1>5, PDAddrFinite, FS_CardinalityType
<1> QED
  BY <1>6 DEF T, LiveOf, gen

\* The root is live, and every other live partition is a child of a live one.
LEMMA LiveParent ==
  ASSUME NEW m
  PROVE  /\ RootPD \in LiveOf(m) /\ LiveOf(m) \subseteq PDAddr
         /\ \A q \in LiveOf(m) \ {RootPD} : \E p \in LiveOf(m) : q \in Children(m, p)
<1> DEFINE gen == Gen(m)
           N   == Cardinality(PDAddr)
           T   == {n \in Nat : RootPD \in gen[n]}
           G(n) == \A i \in Nat : i <= n => gen[i] \subseteq gen[n]
           U   == {n \in Nat : G(n)}
           P(n) == \A q \in (gen[n] \cap PDAddr) \ {RootPD} :
                     \E p \in gen[n] \cap PDAddr : q \in Children(m, p)
           V   == {n \in Nat : P(n)}
<1>1. gen[0] = {RootPD} /\ \A n \in Nat : gen[n + 1] = Brood(m, gen[n])
  BY GenSteps
<1>2. N \in Nat
  BY PDAddrFinite, FS_CardinalityType
<1> HIDE DEF gen, N
<1>3. \A n \in Nat : gen[n] \subseteq gen[n + 1]
  BY <1>1 DEF Brood
<1>4. T = Nat
  <2>1. 0 \in T
    BY <1>1
  <2>2. \A n \in T : n + 1 \in T
    BY <1>3
  <2>3. T \in SUBSET Nat
    OBVIOUS
  <2> HIDE DEF T
  <2> QED
    BY <2>1, <2>2, <2>3, Induction
<1>5. V = Nat
  <2>1. 0 \in V
    BY <1>1
  <2>2. ASSUME NEW n \in V PROVE n + 1 \in V
    <3>1. gen[n + 1] = gen[n] \cup UNION {Children(m, p) : p \in gen[n] \cap PDAddr}
      BY <1>1 DEF Brood
    <3>2. P(n)
      OBVIOUS
    <3>3. P(n + 1)
      BY <3>1, <3>2
    <3> QED
      BY <3>3
  <2>3. V \in SUBSET Nat
    OBVIOUS
  <2> HIDE DEF V
  <2> QED
    BY <2>1, <2>2, <2>3, Induction
<1>6. RootPD \in gen[N]
  BY <1>2, <1>4
<1>7. P(N)
  BY <1>2, <1>5
<1>8. LiveOf(m) = gen[N] \cap PDAddr /\ RootPD \in PDAddr
  BY DEF LiveOf, gen, N, PDAddr
<1> QED
  BY <1>6, <1>7, <1>8

\* A live partition's children are live: the generations grow by a partition
\* at least until nothing is added.
LEMMA LiveClosed ==
  ASSUME NEW m, NEW p \in LiveOf(m)
  PROVE  Children(m, p) \cap PDAddr \subseteq LiveOf(m)
<1> DEFINE gen       == Gen(m)
           N         == Cardinality(PDAddr)
           c(n)      == gen[n] \cap PDAddr
           Closed(S) == \A x \in S : Children(m, x) \cap PDAddr \subseteq S
           T         == {n \in Nat : Closed(c(n)) \/ Cardinality(c(n)) >= n + 1}
<1>1. gen[0] = {RootPD} /\ \A n \in Nat : gen[n + 1] = Brood(m, gen[n])
  BY GenSteps
<1>2. IsFiniteSet(PDAddr) /\ N \in Nat /\ RootPD \in PDAddr
  BY PDAddrFinite, FS_CardinalityType DEF PDAddr
<1> HIDE DEF gen, N
<1>3. \A n \in Nat : c(n + 1) = c(n) \cup UNION {Children(m, x) \cap PDAddr : x \in c(n)}
  BY <1>1 DEF Brood
<1>4. \A n : c(n) \in SUBSET PDAddr
  OBVIOUS
<1>5. c(0) = {RootPD}
  BY <1>1, <1>2
<1> HIDE DEF c
<1>6. \A n : IsFiniteSet(c(n)) /\ Cardinality(c(n)) \in Nat /\ Cardinality(c(n)) <= N
  BY <1>2, <1>4, FS_Subset, FS_CardinalityType DEF N
<1>7. 0 \in T
  <2>1. Cardinality(c(0)) = 1
    BY <1>5, FS_Singleton
  <2> QED
    BY <2>1
<1>8. ASSUME NEW n \in T PROVE n + 1 \in T
  <2>1. n \in Nat /\ (Closed(c(n)) \/ Cardinality(c(n)) >= n + 1)
    OBVIOUS
  <2>2. CASE Closed(c(n))
    <3>1. c(n + 1) = c(n) \cup UNION {Children(m, x) \cap PDAddr : x \in c(n)}
      BY <1>3, <2>1
    <3>2. \A x \in c(n) : Children(m, x) \cap PDAddr \subseteq c(n)
      BY <2>2
    <3>3. c(n + 1) = c(n)
      BY ONLY <3>1, <3>2
    <3> QED
      BY <2>1, <2>2, <3>3
  <2>3. CASE ~ Closed(c(n))
    <3>0. PICK x \in c(n) : \E q \in Children(m, x) \cap PDAddr : q \notin c(n)
      BY <2>3
    <3>1. PICK q \in Children(m, x) \cap PDAddr : q \notin c(n)
      BY <3>0
    <3>2. c(n) \cup {q} \in SUBSET c(n + 1)
      BY <1>3, <2>1, <3>0, <3>1
    <3>3. Cardinality(c(n) \cup {q}) = Cardinality(c(n)) + 1
      BY <1>6, <3>1, FS_AddElement
    <3>4. Cardinality(c(n) \cup {q}) <= Cardinality(c(n + 1))
      BY <1>6, <3>2, FS_Subset
    <3>5. Cardinality(c(n + 1)) >= n + 1 + 1
      BY <1>6, <2>1, <2>3, <3>3, <3>4
    <3> QED
      BY <2>1, <3>5
  <2> QED
    BY <2>2, <2>3
<1>9. T \in SUBSET Nat
  OBVIOUS
<1>10. \A n \in T : Closed(c(n)) \/ Cardinality(c(n)) >= n + 1
  OBVIOUS
<1> HIDE DEF T
<1>11. N \in T
  BY <1>2, <1>7, <1>8, <1>9, Induction
<1>12. Closed(c(N))
  <2>1. Cardinality(c(N)) < N + 1
    BY <1>2, <1>6
  <2> QED
    BY <1>2, <1>6, <1>10, <1>11, <2>1
<1>13. LiveOf(m) = c(N)
  BY DEF LiveOf, c, gen, N
<1> QED
  BY <1>12, <1>13

-----------------------------------------------------------------------------
(* Slots and blocks.                                                       *)

\* The slots of a partition are present blocks or free.
LEMMA SlotsOfIs ==
  ASSUME NEW m, NEW p
  PROVE  /\ SlotsOf(m, p) = StructsOf(m, p) \X (0 .. Entries - 1)
         /\ \A e : e \in BlocksIn(m, p) <=> e \in SlotsOf(m, p) /\ m.slot[e].present
         /\ \A e : e \in FreeIn(m, p) <=> e \in SlotsOf(m, p) /\ ~ m.slot[e].present
BY DEF SlotsOf, StructsOf, BlocksIn, FreeIn

\* The null addresses are outside what the kernel data occupies.
LEMMA NullOutside ==
  /\ Null \notin PDAddr /\ RootPD # Null /\ RootPD \notin 0 .. Top /\ RootPD \in PDAddr
  /\ Null \notin KSAddr /\ RootKS \notin 0 .. Top /\ RootKS \in KSAddr
BY ConstantsAssumption DEF Null, PDAddr, KSAddr

\* The null slot is no slot of any structure.
LEMMA NullSlotNoSlot ==
  /\ NullSlot \notin Slots
  /\ \A m \in Good, p \in PDAddr :
       NullSlot \notin SlotsOf(m, p) /\ NullSlot \notin BlocksIn(m, p)
       /\ NullSlot \notin FreeIn(m, p)
<1>1. NullSlot \notin Slots
  BY NullOutside DEF NullSlot, Slots, Null
<1> QED
  BY <1>1, SlotsOfType, SlotsOfIs

\* A block of a partition is a well-typed slot.
LEMMA BlockType ==
  ASSUME NEW m \in Good, NEW L \in SUBSET PDAddr, NEW p \in L, NEW e \in BlocksIn(m, p)
  PROVE  /\ e \in Slots /\ e # NullSlot /\ e \in SlotsOf(m, p) /\ m.slot[e] \in Entry
         /\ m.slot[e].present
         /\ m.slot[e].start \in Nat /\ m.slot[e].end \in Nat /\ m.slot[e].origin \in Nat
<1>1. e \in SlotsOf(m, p) /\ m.slot[e].present
  BY SlotsOfIs
<1>2. e \in Slots
  BY <1>1, SlotsOfType
<1>3. m.slot[e] \in Entry
  BY <1>2, EntryOf
<1>4. m.slot[e].start \in Nat /\ m.slot[e].end \in Nat /\ m.slot[e].origin \in Nat
  BY <1>3, ConstantsAssumption DEF Entry
<1> QED
  BY <1>1, <1>2, <1>3, <1>4, NullSlotNoSlot

\* It covers a range of memory that is not empty.
LEMMA BlockRange ==
  ASSUME NEW m \in Good, NEW L \in SUBSET PDAddr, Ranges(m, L),
         NEW p \in L, NEW e \in BlocksIn(m, p)
  PROVE  /\ 1 <= m.slot[e].origin /\ m.slot[e].origin <= m.slot[e].start
         /\ m.slot[e].start < m.slot[e].end /\ m.slot[e].end <= Top + 1
         /\ "r" \in m.slot[e].rights
BY DEF Ranges, WellFormed

\* Overlapping blocks of a partition are the same block.
LEMMA SameBlock ==
  ASSUME NEW m, NEW L, Ranges(m, L), NEW p \in L, NEW e \in BlocksIn(m, p),
         NEW f \in BlocksIn(m, p), Overlap(m.slot[e], m.slot[f])
  PROVE  e = f
BY DEF Ranges

\* A slot belongs to the structures of one partition.
LEMMA OnePartition ==
  ASSUME NEW m, NEW L, Structures(m, L), NEW p \in L, NEW q \in L, NEW e,
         e \in SlotsOf(m, p), e \in SlotsOf(m, q)
  PROVE  p = q
<1>1. e[1] \in StructsOf(m, p) /\ e[1] \in StructsOf(m, q)
  BY SlotsOfIs
<1> QED
  BY <1>1 DEF Structures

\* A block of a child that meets a block of the parent is a part of it.
LEMMA PartOf ==
  ASSUME NEW m \in Good, NEW L \in SUBSET PDAddr, Tree(m, L), Ranges(m, L),
         Containment(m, L), NEW q \in L \ {RootPD}, NEW f \in BlocksIn(m, q),
         NEW e \in BlocksIn(m, m.pd[q].parent), Overlap(m.slot[e], m.slot[f])
  PROVE  IsPartOf(m, q, f, e)
<1>1. m.pd[q].parent \in L
  BY DEF Tree
<1>2. PICK o \in BlocksIn(m, m.pd[q].parent) : IsPartOf(m, q, f, o)
  BY DEF Containment
<1>3. /\ m.slot[f].start \in Nat /\ m.slot[f].end \in Nat
      /\ m.slot[o].start \in Nat /\ m.slot[o].end \in Nat
      /\ m.slot[e].start \in Nat /\ m.slot[e].end \in Nat
  BY <1>1, BlockType
<1>4. Within(m.slot[f], m.slot[o])
  BY <1>2 DEF IsPartOf
<1>5. Overlap(m.slot[e], m.slot[o])
  BY <1>3, <1>4 DEF Within, Overlap
<1>6. e = o
  BY <1>1, <1>5, SameBlock
<1> QED
  BY <1>2, <1>6

\* The child a shared block names has a copy that starts with it, and has the
\* whole range unless the child has cut it.
LEMMA CopyRange ==
  ASSUME NEW m \in Good, NEW L \in SUBSET PDAddr, Tree(m, L), Ranges(m, L),
         Shares(m, L), Containment(m, L),
         NEW p \in L, NEW e \in BlocksIn(m, p), m.slot[e].inChild # NullSlot
  PROVE  LET q == m.slot[e].PDchild
             h == m.slot[e].inChild
         IN  /\ q \in L \ {RootPD} /\ m.pd[q].parent = p
             /\ h \in BlocksIn(m, q) /\ m.slot[h].start = m.slot[e].start
             /\ m.slot[h].origin = m.slot[e].start
             /\ IsPartOf(m, q, h, e)
             /\ ~ IsCut(m, h) => SameRange(m.slot[h], m.slot[e])
<1> DEFINE q == m.slot[e].PDchild
           h == m.slot[e].inChild
<1>1. /\ q # Null /\ h \in BlocksIn(m, q) /\ m.slot[h].start = m.slot[e].start
      /\ m.slot[h].origin = m.slot[e].start
  BY DEF Shares, IsShared
<1>2. q \in L /\ m.pd[q].parent = p
  BY <1>1 DEF Shares
<1>3. q # RootPD
  BY <1>2, NullOutside DEF Tree
<1>4. /\ m.slot[h].start < m.slot[h].end /\ m.slot[e].start < m.slot[e].end
      /\ m.slot[h].start \in Nat /\ m.slot[h].end \in Nat
      /\ m.slot[e].start \in Nat /\ m.slot[e].end \in Nat
  <2> HIDE DEF q, h
  <2> QED
    BY <1>1, <1>2, BlockType, BlockRange
<1>5. Overlap(m.slot[e], m.slot[h])
  BY <1>1, <1>4 DEF Overlap
<1>6. IsPartOf(m, q, h, e)
  <2> HIDE DEF q, h
  <2> QED
    BY <1>1, <1>2, <1>3, <1>5, PartOf
<1>7. ~ IsCut(m, h) => SameRange(m.slot[h], m.slot[e])
  BY <1>1, <1>6 DEF IsCut, IsPartOf, SameRange
<1> QED
  BY <1>1, <1>2, <1>3, <1>6, <1>7

\* A block that is not shared meets no block of a child.
LEMMA NotInChild ==
  ASSUME NEW m \in Good, NEW L \in SUBSET PDAddr, Tree(m, L), Ranges(m, L),
         Containment(m, L), NEW p \in L, NEW e \in BlocksIn(m, p),
         m.slot[e].inChild = NullSlot,
         NEW q \in L \ {RootPD}, m.pd[q].parent = p, NEW f \in BlocksIn(m, q)
  PROVE  ~ Overlap(m.slot[e], m.slot[f])
<1> SUFFICES ASSUME Overlap(m.slot[e], m.slot[f]) PROVE FALSE
  OBVIOUS
<1>1. IsPartOf(m, q, f, e)
  BY PartOf
<1> QED
  BY <1>1 DEF IsPartOf

\* What is recorded in no child has no copy.
LEMMA NotSharedNoCopy ==
  ASSUME NEW m \in Good, NEW L \in SUBSET PDAddr, Shares(m, L),
         NEW p \in L, NEW e \in BlocksIn(m, p), m.slot[e].PDchild = Null
  PROVE  m.slot[e].inChild = NullSlot
BY DEF Shares, IsShared

\* The children of a partition of L.
LEMMA ChildFacts ==
  ASSUME NEW m, NEW L, Homes(m, L), NEW p \in L, NEW q \in Children(m, p)
  PROVE  q \in L \ {RootPD} /\ m.pd[q].parent = p
<1>1. PICK e \in SlotsOf(m, p) : m.slot[e].present /\ m.slot[e].PDflag
                                 /\ q = m.slot[e].start
  BY DEF Children, IsFound
<1>2. e \in BlocksIn(m, p)
  BY <1>1, SlotsOfIs
<1> QED
  BY <1>1, <1>2 DEF Homes, IsHome

-----------------------------------------------------------------------------
(* The partitions that hold a unit of memory form a path from the root.    *)

\* Block e of p covers unit u.
Holds(m, p, e, u) ==
  e \in BlocksIn(m, p) /\ m.slot[e].start <= u /\ u < m.slot[e].end

Holders(m, L, u) == {p \in L : \E e \in BlocksIn(m, p) : Holds(m, p, e, u)}

\* W is closed under parents and has one child at most of each member.
IsPath(m, L, W) ==
  /\ W \subseteq L
  /\ \A q \in W \ {RootPD} : m.pd[q].parent \in W
  /\ \A q, r \in W \ {RootPD} : m.pd[q].parent = m.pd[r].parent => q = r

IsEnd(m, W, a) == a \in W /\ \A q \in W \ {RootPD} : m.pd[q].parent # a

\* A non-empty set of partitions closed under parents holds the root.
LEMMA RootInPath ==
  ASSUME NEW m, NEW L, Tree(m, L), NEW W, W \subseteq L, W # {},
         \A q \in W \ {RootPD} : m.pd[q].parent \in W
  PROVE  RootPD \in W
<1> SUFFICES ASSUME RootPD \notin W PROVE FALSE
  OBVIOUS
<1>1. W \in SUBSET (L \ {RootPD})
  OBVIOUS
<1>2. PICK q \in W : m.pd[q].parent \notin W
  BY <1>1 DEF Tree
<1> QED
  BY <1>2

\* A path has one end at most.
LEMMA OneEnd ==
  ASSUME NEW m, NEW L, Tree(m, L), NEW W, IsPath(m, L, W),
         NEW a, IsEnd(m, W, a), NEW b, IsEnd(m, W, b)
  PROVE  a = b
<1> DEFINE Closed(S) == S \subseteq W /\ a \in S
                        /\ \A q \in S \ {RootPD} : m.pd[q].parent \in S
           A         == {z \in W : \A S \in SUBSET W : Closed(S) => z \in S}
<1>1. /\ W \subseteq L
      /\ \A q \in W \ {RootPD} : m.pd[q].parent \in W
      /\ \A q, r \in W \ {RootPD} : m.pd[q].parent = m.pd[r].parent => q = r
  BY DEF IsPath
<1>2. /\ a \in W /\ \A q \in W \ {RootPD} : m.pd[q].parent # a
      /\ b \in W /\ \A q \in W \ {RootPD} : m.pd[q].parent # b
  BY DEF IsEnd
<1>3. a \in A /\ A \subseteq W /\ \A q \in A \ {RootPD} : m.pd[q].parent \in A
  BY <1>1, <1>2
<1>4. RootPD \in A
  <2> HIDE DEF A
  <2> QED
    BY <1>1, <1>3, RootInPath
\* Each member of A but a is the parent of another one.
<1>5. ASSUME NEW z \in A, z # a PROVE \E q \in A \ {RootPD} : m.pd[q].parent = z
  <2> SUFFICES ASSUME \A q \in A \ {RootPD} : m.pd[q].parent # z PROVE FALSE
    OBVIOUS
  <2>1. Closed(A \ {z})
    <3> HIDE DEF A
    <3> QED
      BY <1>3, <1>5
  <2>2. A \ {z} \in SUBSET W
    BY <1>3
  <2>3. z \in A \ {z}
    BY <2>1, <2>2
  <2> QED
    BY <2>3
<1> HIDE DEF A
<1>6. CASE b \in A
  BY <1>2, <1>3, <1>5, <1>6
<1>7. CASE b \notin A
  <2> DEFINE V == W \ A
  <2>1. V \in SUBSET (L \ {RootPD}) /\ V # {}
    BY <1>1, <1>2, <1>4, <1>7
  <2> HIDE DEF V
  <2>2. PICK q \in V : m.pd[q].parent \notin V
    BY <2>1 DEF Tree
  <2>3. q \in W \ {RootPD} /\ q \notin A /\ m.pd[q].parent \in A
    BY <1>1, <1>4, <2>1, <2>2 DEF V
  <2>4. m.pd[q].parent # a
    BY <1>2, <2>3
  <2>5. PICK r \in A \ {RootPD} : m.pd[r].parent = m.pd[q].parent
    BY <1>5, <2>3, <2>4
  <2>6. r = q
    BY <1>1, <1>3, <2>3, <2>5
  <2> QED
    BY <2>3, <2>5, <2>6
<1> QED
  BY <1>6, <1>7

\* A block that holds a unit lies in the block that holds it in the parent,
\* which names the child.
LEMMA HeldAbove ==
  ASSUME NEW m \in Good, NEW L \in SUBSET PDAddr, Tree(m, L), Ranges(m, L),
         Containment(m, L), NEW u, NEW q \in L \ {RootPD},
         NEW f \in BlocksIn(m, q), u \in Int, Holds(m, q, f, u)
  PROVE  \E e \in BlocksIn(m, m.pd[q].parent) :
           Holds(m, m.pd[q].parent, e, u) /\ IsPartOf(m, q, f, e)
<1>1. m.pd[q].parent \in L
  BY DEF Tree
<1>2. PICK e \in BlocksIn(m, m.pd[q].parent) : IsPartOf(m, q, f, e)
  BY DEF Containment
<1>3. /\ m.slot[f].start \in Nat /\ m.slot[f].end \in Nat
      /\ m.slot[e].start \in Nat /\ m.slot[e].end \in Nat
  BY <1>1, BlockType
<1>4. Holds(m, m.pd[q].parent, e, u)
  BY <1>2, <1>3 DEF Holds, IsPartOf, Within
<1> QED
  BY <1>2, <1>4

\* The block of a partition that holds a unit is unique.
LEMMA HeldOnce ==
  ASSUME NEW m \in Good, NEW L \in SUBSET PDAddr, Ranges(m, L), NEW p \in L,
         NEW u \in Int, NEW e, Holds(m, p, e, u), NEW f, Holds(m, p, f, u)
  PROVE  e = f
<1>1. e \in BlocksIn(m, p) /\ f \in BlocksIn(m, p)
  BY DEF Holds
<1>2. /\ m.slot[e].start \in Nat /\ m.slot[e].end \in Nat
      /\ m.slot[f].start \in Nat /\ m.slot[f].end \in Nat
  BY <1>1, BlockType
<1>3. Overlap(m.slot[e], m.slot[f])
  BY <1>2 DEF Holds, Overlap
<1> QED
  BY <1>1, <1>3, SameBlock

\* Overlapping blocks hold a unit in common.
LEMMA CommonUnit ==
  ASSUME NEW m \in Good, NEW L \in SUBSET PDAddr, Ranges(m, L),
         NEW p \in L, NEW e \in BlocksIn(m, p), NEW q \in L, NEW f \in BlocksIn(m, q),
         Overlap(m.slot[e], m.slot[f])
  PROVE  \E u \in Int : Holds(m, p, e, u) /\ Holds(m, q, f, u)
<1>1. /\ m.slot[e].start \in Nat /\ m.slot[e].end \in Nat
      /\ m.slot[f].start \in Nat /\ m.slot[f].end \in Nat
  BY BlockType
<1>2. m.slot[e].start < m.slot[e].end /\ m.slot[f].start < m.slot[f].end
  BY BlockRange
<1> DEFINE u == IF m.slot[e].start <= m.slot[f].start THEN m.slot[f].start
                ELSE m.slot[e].start
<1>3. u \in Int /\ Holds(m, p, e, u) /\ Holds(m, q, f, u)
  BY <1>1, <1>2 DEF Overlap, Holds
<1> QED
  BY <1>3

\* The holders of a unit form a path; a holder whose block is not shared is
\* its end, and a holder with a child among them has the unit in a shared block.
LEMMA HoldersPath ==
  ASSUME NEW m \in Good, NEW L \in SUBSET PDAddr, Tree(m, L), Ranges(m, L),
         Containment(m, L), NEW u \in Int
  PROVE  /\ IsPath(m, L, Holders(m, L, u))
         /\ \A p \in L : \A e \in BlocksIn(m, p) :
              Holds(m, p, e, u) /\ m.slot[e].inChild = NullSlot
                => IsEnd(m, Holders(m, L, u), p)
<1> DEFINE H == Holders(m, L, u)
<1>1. \A p : p \in H <=> p \in L /\ \E e \in BlocksIn(m, p) : Holds(m, p, e, u)
  BY DEF Holders
<1> HIDE DEF H
<1>2. ASSUME NEW q \in H \ {RootPD}
      PROVE  /\ m.pd[q].parent \in H
             /\ \A e \in BlocksIn(m, m.pd[q].parent) :
                  Holds(m, m.pd[q].parent, e, u)
                    => m.slot[e].PDchild = q /\ m.slot[e].inChild # NullSlot
  <2>1. PICK f \in BlocksIn(m, q) : Holds(m, q, f, u)
    BY <1>1
  <2>2. q \in L \ {RootPD} /\ m.pd[q].parent \in L
    BY <1>1 DEF Tree
  <2>3. PICK o \in BlocksIn(m, m.pd[q].parent) :
          Holds(m, m.pd[q].parent, o, u) /\ IsPartOf(m, q, f, o)
    BY <2>1, <2>2, HeldAbove
  <2>4. m.pd[q].parent \in H
    BY <1>1, <2>2, <2>3
  <2>5. ASSUME NEW e \in BlocksIn(m, m.pd[q].parent), Holds(m, m.pd[q].parent, e, u)
        PROVE  m.slot[e].PDchild = q /\ m.slot[e].inChild # NullSlot
    <3>1. e = o
      BY <2>2, <2>3, <2>5, HeldOnce
    <3> QED
      BY <2>3, <3>1 DEF IsPartOf
  <2> QED
    BY <2>4, <2>5
<1>3. ASSUME NEW q \in H \ {RootPD}, NEW r \in H \ {RootPD},
             m.pd[q].parent = m.pd[r].parent
      PROVE  q = r
  <2>1. PICK e \in BlocksIn(m, m.pd[q].parent) : Holds(m, m.pd[q].parent, e, u)
    BY <1>1, <1>2
  <2> QED
    BY <1>2, <1>3, <2>1
<1>4. IsPath(m, L, H)
  BY <1>1, <1>2, <1>3 DEF IsPath
<1>5. ASSUME NEW p \in L, NEW e \in BlocksIn(m, p), Holds(m, p, e, u),
             m.slot[e].inChild = NullSlot
      PROVE  IsEnd(m, H, p)
  <2>1. p \in H
    BY <1>1, <1>5
  <2>2. \A q \in H \ {RootPD} : m.pd[q].parent # p
    BY <1>2, <1>5
  <2> QED
    BY <2>1, <2>2 DEF IsEnd
<1> QED
  BY <1>4, <1>5 DEF H

\* Two blocks that are not shared and meet are the same, whoever has them.
LEMMA UnsharedApart ==
  ASSUME NEW m \in Good, NEW L \in SUBSET PDAddr, Tree(m, L), Ranges(m, L),
         Containment(m, L),
         NEW p \in L, NEW e \in BlocksIn(m, p), m.slot[e].inChild = NullSlot,
         NEW q \in L, NEW f \in BlocksIn(m, q), m.slot[f].inChild = NullSlot,
         Overlap(m.slot[e], m.slot[f])
  PROVE  p = q /\ e = f
<1>1. PICK u \in Int : Holds(m, p, e, u) /\ Holds(m, q, f, u)
  BY CommonUnit
<1> DEFINE H == Holders(m, L, u)
<1>2. IsPath(m, L, H) /\ IsEnd(m, H, p) /\ IsEnd(m, H, q)
  BY <1>1, HoldersPath
<1> HIDE DEF H
<1>3. p = q
  BY <1>2, OneEnd
<1> QED
  BY <1>1, <1>3, HeldOnce

\* An accessible block meets no inaccessible block that is not shared: it is
\* accessible down to where its units end.
LEMMA AccessibleBelow ==
  ASSUME NEW m \in Good, NEW L \in SUBSET PDAddr, Tree(m, L), Ranges(m, L),
         Containment(m, L), Shares(m, L), CopiesAccessible(m, L),
         NEW p \in L, NEW o \in BlocksIn(m, p), m.slot[o].accessible,
         NEW x \in L, NEW k \in BlocksIn(m, x), m.slot[k].inChild = NullSlot,
         Overlap(m.slot[o], m.slot[k])
  PROVE  m.slot[k].accessible
<1>1. PICK u \in Int : Holds(m, p, o, u) /\ Holds(m, x, k, u)
  BY CommonUnit
<1> DEFINE H == Holders(m, L, u)
           W == {y \in H : \E e \in BlocksIn(m, y) :
                             Holds(m, y, e, u) /\ ~ m.slot[e].accessible}
<1>2. \A y : y \in H <=> y \in L /\ \E e \in BlocksIn(m, y) : Holds(m, y, e, u)
  BY DEF Holders
<1>3. IsPath(m, L, H) /\ IsEnd(m, H, x)
  BY <1>1, HoldersPath
<1> HIDE DEF H
<1>4. W \subseteq H /\ W \subseteq L
  BY <1>2
<1>5. ASSUME NEW y \in W \ {RootPD} PROVE m.pd[y].parent \in W
  <2>1. y \in L \ {RootPD} /\ m.pd[y].parent \in L
    BY <1>4, <1>5 DEF Tree
  <2>2. PICK f \in BlocksIn(m, y) : Holds(m, y, f, u) /\ ~ m.slot[f].accessible
    BY <1>5
  <2>3. PICK e \in BlocksIn(m, m.pd[y].parent) :
          Holds(m, m.pd[y].parent, e, u) /\ IsPartOf(m, y, f, e)
    BY <2>1, <2>2, HeldAbove
  <2>4. m.slot[e].PDchild = y /\ m.slot[e].inChild # NullSlot
    BY <2>3 DEF IsPartOf
  <2>5. ASSUME m.slot[e].accessible PROVE FALSE
    <3> DEFINE h == m.slot[e].inChild
    <3>1. ~ IsCut(m, h) /\ m.slot[h].accessible
      BY <2>1, <2>4, <2>5 DEF CopiesAccessible
    <3>2. h \in BlocksIn(m, y) /\ SameRange(m.slot[h], m.slot[e])
      BY <2>1, <2>4, <3>1, CopyRange
    <3>3. Holds(m, y, h, u)
      BY <2>3, <3>2 DEF Holds, SameRange
    <3>4. h = f
      BY <2>1, <2>2, <3>3, HeldOnce
    <3> QED
      BY <2>2, <3>1, <3>4
  <2>6. m.pd[y].parent \in H
    BY <1>2, <2>1, <2>3
  <2> QED
    BY <2>3, <2>5, <2>6
<1>6. ASSUME ~ m.slot[k].accessible PROVE FALSE
  <2>1. x \in W
    BY <1>1, <1>2, <1>6
  <2>2. p \in H /\ p \notin W
    <3>1. \A e \in BlocksIn(m, p) : Holds(m, p, e, u) => e = o
      BY <1>1, HeldOnce
    <3> QED
      BY <1>1, <1>2, <3>1
  <2> HIDE DEF W
  <2>3. RootPD \in W
    BY <1>4, <1>5, <2>1, RootInPath
  <2> DEFINE V == H \ W
  <2>4. V \in SUBSET (L \ {RootPD}) /\ V # {}
    BY <1>2, <2>2, <2>3
  <2> HIDE DEF V
  <2>5. PICK q \in V : m.pd[q].parent \notin V
    BY <2>4 DEF Tree
  <2> DEFINE y == m.pd[q].parent
  <2>6. q \in H \ {RootPD} /\ q \notin W /\ y \in H /\ y \in W
    BY <1>3, <2>4, <2>5 DEF V, IsPath
  <2>7. IsPath(m, L, W)
    BY <1>3, <1>4, <1>5 DEF IsPath
  <2>8. \A r \in W \ {RootPD} : m.pd[r].parent # y
    BY <1>3, <1>4, <2>6 DEF IsPath
  <2>9. IsEnd(m, W, y) /\ IsEnd(m, W, x)
    BY <1>3, <1>4, <2>1, <2>6, <2>8 DEF IsEnd
  <2>10. y = x
    <3> HIDE DEF y
    <3> QED
      BY <2>7, <2>9, OneEnd
  <2> QED
    BY <1>3, <2>6, <2>10 DEF IsEnd
<1> QED
  BY <1>6

\* Above a cut block that no child has, nothing is accessible.
LEMMA CutHiddenAbove ==
  ASSUME NEW m \in Good, NEW L \in SUBSET PDAddr, Tree(m, L), Ranges(m, L),
         Containment(m, L), Shares(m, L), CopiesAccessible(m, L),
         NEW p \in L, NEW o \in BlocksIn(m, p), m.slot[o].accessible,
         NEW x \in L, NEW k \in BlocksIn(m, x), m.slot[k].inChild = NullSlot,
         IsCut(m, k), NEW u \in Int, Holds(m, p, o, u), Holds(m, x, k, u)
  PROVE  p = x
<1> SUFFICES ASSUME p # x PROVE FALSE
  OBVIOUS
<1> DEFINE H == Holders(m, L, u)
           W == {y \in H : \E e \in BlocksIn(m, y) :
                             Holds(m, y, e, u) /\ (~ m.slot[e].accessible \/ IsCut(m, e))}
           V == {y \in H : \E e \in BlocksIn(m, y) :
                             Holds(m, y, e, u) /\ ~ m.slot[e].accessible}
<1>2. \A y : y \in H <=> y \in L /\ \E e \in BlocksIn(m, y) : Holds(m, y, e, u)
  BY DEF Holders
<1>3. IsPath(m, L, H) /\ IsEnd(m, H, x)
  BY HoldersPath
<1> HIDE DEF H
<1>4. W \subseteq H /\ W \subseteq L /\ V \subseteq W
  BY <1>2
<1>5. ASSUME NEW y \in W \ {RootPD} PROVE m.pd[y].parent \in V
  <2>1. y \in L \ {RootPD} /\ m.pd[y].parent \in L
    BY <1>4, <1>5 DEF Tree
  <2>2. PICK f \in BlocksIn(m, y) :
          Holds(m, y, f, u) /\ (~ m.slot[f].accessible \/ IsCut(m, f))
    BY <1>5
  <2>3. PICK e \in BlocksIn(m, m.pd[y].parent) :
          Holds(m, m.pd[y].parent, e, u) /\ IsPartOf(m, y, f, e)
    BY <2>1, <2>2, HeldAbove
  <2>4. m.slot[e].PDchild = y /\ m.slot[e].inChild # NullSlot
    BY <2>3 DEF IsPartOf
  <2>5. ASSUME m.slot[e].accessible PROVE FALSE
    <3> DEFINE h == m.slot[e].inChild
    <3>1. ~ IsCut(m, h) /\ m.slot[h].accessible
      BY <2>1, <2>4, <2>5 DEF CopiesAccessible
    <3>2. h \in BlocksIn(m, y) /\ SameRange(m.slot[h], m.slot[e])
      BY <2>1, <2>4, <3>1, CopyRange
    <3>3. Holds(m, y, h, u)
      BY <2>3, <3>2 DEF Holds, SameRange
    <3>4. h = f
      BY <2>1, <2>2, <3>3, HeldOnce
    <3> QED
      BY <2>2, <3>1, <3>4
  <2>6. m.pd[y].parent \in H
    BY <1>2, <2>1, <2>3
  <2> QED
    BY <2>3, <2>5, <2>6
<1>6. x \in W /\ p \in H /\ p \notin V
  <2>1. \A e \in BlocksIn(m, p) : Holds(m, p, e, u) => e = o
    BY HeldOnce
  <2> QED
    BY <1>2, <2>1
<1>7. x \notin V
  <2>1. m.slot[k].accessible
    <3>1. /\ m.slot[o].start \in Nat /\ m.slot[o].end \in Nat
          /\ m.slot[k].start \in Nat /\ m.slot[k].end \in Nat
      BY BlockType
    <3>2. Overlap(m.slot[o], m.slot[k])
      BY <3>1 DEF Holds, Overlap
    <3> QED
      BY <3>2, AccessibleBelow
  <2>2. \A e \in BlocksIn(m, x) : Holds(m, x, e, u) => e = k
    BY HeldOnce
  <2> QED
    BY <2>1, <2>2
<1> HIDE DEF W, V
<1> DEFINE A == H \ {x}
<1>8. A \subseteq H /\ p \in A /\ x \notin A /\ \A q \in A \ {RootPD} : m.pd[q].parent \in A
  BY <1>3, <1>6 DEF IsPath, IsEnd
<1> HIDE DEF A
<1>9. RootPD \in A
  BY <1>2, <1>8, RootInPath
<1> DEFINE z == m.pd[x].parent
<1>10. x # RootPD /\ z \in V
  BY <1>5, <1>6, <1>8, <1>9
<1>11. /\ V \subseteq H /\ V \subseteq L /\ IsPath(m, L, V) /\ RootPD \in V
       /\ \A q \in V \ {RootPD} : m.pd[q].parent \in V
  <2>1. V \subseteq H /\ V \subseteq L /\ \A q \in V \ {RootPD} : m.pd[q].parent \in V
    BY <1>4, <1>5
  <2>2. IsPath(m, L, V)
    BY <1>3, <2>1 DEF IsPath
  <2>3. RootPD \in V
    BY <1>10, <2>1, RootInPath
  <2> QED
    BY <2>1, <2>2, <2>3
<1> DEFINE D == A \ V
<1>12. D \in SUBSET (L \ {RootPD}) /\ p \in D
  BY <1>2, <1>6, <1>8, <1>11
<1> HIDE DEF D
<1>13. PICK y \in D : m.pd[y].parent \notin D
  BY <1>12 DEF Tree
<1> DEFINE w == m.pd[y].parent
<1>14. /\ y \in H \ {RootPD} /\ y \notin V /\ y # x /\ w \in V
  BY <1>8, <1>12, <1>13 DEF D
<1>15. \A r \in V \ {RootPD} : m.pd[r].parent # w /\ m.pd[r].parent # z
  <2>1. x \in H \ {RootPD}
    BY <1>3, <1>10 DEF IsEnd
  <2> QED
    BY <1>3, <1>7, <1>11, <1>14, <2>1 DEF IsPath
<1>16. IsEnd(m, V, w) /\ IsEnd(m, V, z)
  BY <1>10, <1>14, <1>15 DEF IsEnd
<1>17. w = z
  <2> HIDE DEF w, z
  <2> QED
    BY <1>11, <1>16, OneEnd
<1>18. x \in H \ {RootPD}
  BY <1>3, <1>10 DEF IsEnd
<1> QED
  BY <1>3, <1>14, <1>17, <1>18 DEF IsPath

-----------------------------------------------------------------------------
(* Blocks that hold kernel data.                                           *)

\* They are not shared.
LEMMA KernelNotShared ==
  ASSUME NEW m \in Good, NEW L \in SUBSET PDAddr, Consistent(m, L),
         NEW p \in L, NEW e \in BlocksIn(m, p), IsKernel(m, p, e)
  PROVE  m.slot[e].inChild = NullSlot
<1>1. /\ Tree(m, L) /\ Homes(m, L) /\ Structures(m, L) /\ Ranges(m, L)
      /\ Shares(m, L) /\ Containment(m, L)
  BY DEF Consistent
<1>2. CASE m.slot[e].PDflag
  BY <1>1, <1>2 DEF Homes, IsHome
<1>3. CASE m.slot[e].start \in StructsOf(m, p)
  <2>1. /\ m.slot[e].start \in Nat /\ m.slot[e].end \in Nat
        /\ m.slot[e].start < m.slot[e].end /\ m.slot[e].end <= Top + 1
    BY <1>1, BlockType, BlockRange
  <2>2. m.slot[e].start # RootKS
    BY <2>1, ConstantsAssumption
  <2>3. PICK x \in {p, m.pd[p].parent} \cap L :
          \E f \in BlocksIn(m, x) : HoldsStructure(m, x, p, f, m.slot[e].start)
    BY <1>1, <1>3, <2>2 DEF Structures
  <2>4. PICK f \in BlocksIn(m, x) : HoldsStructure(m, x, p, f, m.slot[e].start)
    BY <2>3
  <2>5. m.slot[f].start = m.slot[e].start /\ m.slot[f].inChild = NullSlot
    BY <2>4 DEF HoldsStructure
  <2>6. /\ m.slot[f].start \in Nat /\ m.slot[f].end \in Nat
        /\ m.slot[f].start < m.slot[f].end
    BY <1>1, <2>3, BlockType, BlockRange
  <2>7. Overlap(m.slot[f], m.slot[e])
    BY <2>1, <2>5, <2>6 DEF Overlap
  <2>8. CASE x = p
    <3>1. f = e
      BY <1>1, <2>7, <2>8, SameBlock
    <3> QED
      BY <2>5, <3>1
  <2>9. CASE x # p
    <3>1. x = m.pd[p].parent /\ x \in L
      BY <2>3, <2>9
    <3>2. p # RootPD
      BY <1>1, <3>1, NullOutside DEF Tree
    <3> QED
      BY <1>1, <2>5, <2>7, <3>1, <3>2, NotInChild
  <2> QED
    BY <2>8, <2>9
<1> QED
  BY <1>2, <1>3 DEF IsKernel

\* What is accessible meets none of them.
LEMMA AccessibleNoKernel ==
  ASSUME NEW m \in Good, NEW L \in SUBSET PDAddr, Consistent(m, L),
         KernelBlocksHidden(m, L), CopiesAccessible(m, L),
         NEW p \in L, NEW o \in BlocksIn(m, p), m.slot[o].accessible,
         NEW x \in L, NEW k \in BlocksIn(m, x), IsKernel(m, x, k)
  PROVE  ~ Overlap(m.slot[o], m.slot[k])
<1> SUFFICES ASSUME Overlap(m.slot[o], m.slot[k]) PROVE FALSE
  OBVIOUS
<1>1. /\ Tree(m, L) /\ Ranges(m, L) /\ Shares(m, L) /\ Containment(m, L)
  BY DEF Consistent
<1>2. m.slot[k].inChild = NullSlot
  BY KernelNotShared
<1>3. m.slot[k].accessible
  BY <1>1, <1>2, AccessibleBelow
<1> QED
  BY <1>3 DEF KernelBlocksHidden

\* Every descriptor and every kernel structure but the root's starts one.
LEMMA KernelDataBlock ==
  ASSUME NEW m \in Good, NEW L \in SUBSET PDAddr, Consistent(m, L), NEW q \in L
  PROVE  /\ q # RootPD =>
              \E x \in L : \E e \in BlocksIn(m, x) :
                /\ IsKernel(m, x, e)
                /\ m.slot[e].start = q /\ Size(m.slot[e]) >= PDSize
         /\ \A k \in StructsOf(m, q) \ {RootKS} :
              \E x \in L : \E e \in BlocksIn(m, x) :
                /\ IsKernel(m, x, e)
                /\ m.slot[e].start = k /\ Size(m.slot[e]) >= KSSize
<1>1. Tree(m, L) /\ Homes(m, L) /\ Structures(m, L)
  BY DEF Consistent
<1>2. ASSUME q # RootPD
      PROVE  \E x \in L : \E e \in BlocksIn(m, x) :
               /\ IsKernel(m, x, e)
               /\ m.slot[e].start = q /\ Size(m.slot[e]) >= PDSize
  <2>1. m.pd[q].parent \in L
    BY <1>1, <1>2 DEF Tree
  <2>2. PICK e \in BlocksIn(m, m.pd[q].parent) : m.slot[e].start = q /\ m.slot[e].PDflag
    BY <1>1, <1>2 DEF Homes
  <2>3. Size(m.slot[e]) >= PDSize
    BY <1>1, <2>1, <2>2 DEF Homes, IsHome
  <2> QED
    BY <2>1, <2>2, <2>3 DEF IsKernel
<1>3. ASSUME NEW k \in StructsOf(m, q) \ {RootKS}
      PROVE  \E x \in L : \E e \in BlocksIn(m, x) :
               /\ IsKernel(m, x, e)
               /\ m.slot[e].start = k /\ Size(m.slot[e]) >= KSSize
  <2>1. PICK x \in {q, m.pd[q].parent} \cap L :
          \E e \in BlocksIn(m, x) : HoldsStructure(m, x, q, e, k)
    BY <1>1, <1>3 DEF Structures
  <2>2. PICK e \in BlocksIn(m, x) : HoldsStructure(m, x, q, e, k)
    BY <2>1
  <2>3. /\ m.slot[e].start = k /\ Size(m.slot[e]) >= KSSize
        /\ m.slot[e].PDchild = (IF x = q THEN Null ELSE q)
        /\ m.slot[e].inChild = NullSlot
    BY <2>2 DEF HoldsStructure
  <2>4. IsKernel(m, x, e)
    BY <1>3, <2>3, NullOutside DEF IsKernel
  <2> QED
    BY <2>1, <2>3, <2>4
<1> QED
  BY <1>2, <1>3

\* So an accessible range holds no address of kernel data.
LEMMA AccessibleNoKernelData ==
  ASSUME NEW m \in Good, NEW L \in SUBSET PDAddr, Consistent(m, L), Guarded(m, L),
         NEW p \in L, NEW o \in BlocksIn(m, p), m.slot[o].accessible, NEW q \in L
  PROVE  /\ q \notin m.slot[o].start .. m.slot[o].end - 1
         /\ \A k \in StructsOf(m, q) : k \notin m.slot[o].start .. m.slot[o].end - 1
<1>1. KernelBlocksHidden(m, L) /\ CopiesAccessible(m, L) /\ Ranges(m, L)
  BY DEF Guarded, Consistent
<1>2. /\ m.slot[o].start \in Nat /\ m.slot[o].end \in Nat
      /\ m.slot[o].start < m.slot[o].end /\ m.slot[o].end <= Top + 1
  BY <1>1, BlockType, BlockRange
<1>3. ASSUME NEW x \in L, NEW e \in BlocksIn(m, x), IsKernel(m, x, e),
             m.slot[e].start \in m.slot[o].start .. m.slot[o].end - 1
      PROVE  FALSE
  <2>1. /\ m.slot[e].start \in Nat /\ m.slot[e].end \in Nat
        /\ m.slot[e].start < m.slot[e].end
    BY <1>1, BlockType, BlockRange
  <2>2. Overlap(m.slot[o], m.slot[e])
    BY <1>2, <1>3, <2>1 DEF Overlap
  <2> QED
    BY <1>1, <1>3, <2>2, AccessibleNoKernel
<1>4. q \notin m.slot[o].start .. m.slot[o].end - 1
  <2>1. q = RootPD => q \notin m.slot[o].start .. m.slot[o].end - 1
    BY <1>2, ConstantsAssumption
  <2> QED
    BY <1>3, <2>1, KernelDataBlock
<1>5. ASSUME NEW k \in StructsOf(m, q) PROVE k \notin m.slot[o].start .. m.slot[o].end - 1
  <2>1. k = RootKS => k \notin m.slot[o].start .. m.slot[o].end - 1
    BY <1>2, ConstantsAssumption
  <2> QED
    BY <1>3, <1>5, <2>1, KernelDataBlock
<1> QED
  BY <1>4, <1>5

-----------------------------------------------------------------------------
(* The ancestors that have a block whole.                                  *)

\* findExactBlockInKS answers a block of exactly this range, if anything.
LEMMA FindExactIs ==
  ASSUME NEW m, NEW p, NEW s, NEW t, findExactBlockInKS(m, p, s, t) # NullSlot
  PROVE  LET e == findExactBlockInKS(m, p, s, t)
         IN  e \in BlocksIn(m, p) /\ m.slot[e].start = s /\ m.slot[e].end = t
<1> DEFINE hits  == {e \in SlotsOf(m, p) : m.slot[e].present
                                           /\ m.slot[e].start = s /\ m.slot[e].end = t}
           first == {e \in hits : \A f \in hits : ~ Precedes(m, p, f, e)}
<1>1. findExactBlockInKS(m, p, s, t)
        = IF first = {} THEN NullSlot ELSE CHOOSE e \in first : TRUE
  BY DEF findExactBlockInKS, FirstMatch
<1>2. findExactBlockInKS(m, p, s, t) \in first
  <2> HIDE DEF first
  <2> QED
    BY <1>1
<1> QED
  BY <1>2, SlotsOfIs

\* It finds the block of this range.
LEMMA FindExactFinds ==
  ASSUME NEW m \in Good, NEW L \in SUBSET PDAddr, Ranges(m, L), NEW p \in L,
         NEW e \in BlocksIn(m, p), NEW s, NEW t, m.slot[e].start = s, m.slot[e].end = t
  PROVE  findExactBlockInKS(m, p, s, t) = e
<1> DEFINE hits  == {f \in SlotsOf(m, p) : m.slot[f].present
                                           /\ m.slot[f].start = s /\ m.slot[f].end = t}
           first == {f \in hits : \A g \in hits : ~ Precedes(m, p, g, f)}
<1>1. findExactBlockInKS(m, p, s, t)
        = IF first = {} THEN NullSlot ELSE CHOOSE f \in first : TRUE
  BY DEF findExactBlockInKS, FirstMatch
<1>2. e \in Slots /\ s \in Nat /\ t \in Nat /\ s < t
  BY BlockType, BlockRange
<1>3. e \in hits
  BY SlotsOfIs
<1>4. ASSUME NEW f \in hits PROVE f = e
  <2>1. f \in BlocksIn(m, p) /\ Overlap(m.slot[f], m.slot[e])
    BY <1>2, <1>4, SlotsOfIs DEF Overlap
  <2> QED
    BY <2>1, SameBlock
<1>5. ~ Precedes(m, p, e, e)
  <2>1. e[2] \in Int
    BY <1>2 DEF Slots
  <2> QED
    BY <2>1 DEF Precedes
<1> HIDE DEF hits
<1>6. first = {e}
  BY <1>3, <1>4, <1>5
<1> HIDE DEF first
<1> QED
  BY <1>1, <1>6

\* The link that writeAccessibleRec climbs, and the partitions it reaches.
Up(m, s, t) ==
  [q \in PDAddr \ {RootPD} |->
     IF m.pd[q].parent # Null /\ findExactBlockInKS(m, m.pd[q].parent, s, t) # NullSlot
     THEN m.pd[q].parent ELSE Null]

Climbed(m, p, s, t) == Above(m, p, s, t) \cup {p}

\* The climb stays in the tree, goes from child to parent, and stops only at
\* the root or below a partition without a block of this range.
LEMMA AboveFacts ==
  ASSUME NEW m, NEW L \in SUBSET PDAddr, Tree(m, L), NEW p \in L, NEW s, NEW t
  PROVE  LET C == Climbed(m, p, s, t)
         IN  /\ p \in C /\ C \subseteq L /\ p \notin Above(m, p, s, t)
             /\ Above(m, p, s, t) \subseteq C
             /\ \A q \in Above(m, p, s, t) : findExactBlockInKS(m, q, s, t) # NullSlot
             /\ \A q \in C \ {RootPD} :
                  findExactBlockInKS(m, m.pd[q].parent, s, t) # NullSlot
                    => m.pd[q].parent \in C
             /\ \A q \in Above(m, p, s, t) : \E y \in C \ {RootPD} : m.pd[y].parent = q
<1> DEFINE up == Up(m, s, t)
           R  == Reached(up, p)
           D  == PDAddr \ {RootPD}
           has(q) == findExactBlockInKS(m, q, s, t) # NullSlot
           C  == Climbed(m, p, s, t)
           A  == Above(m, p, s, t)
<1>1. DOMAIN up = D /\ IsFiniteSet(DOMAIN up)
  <2>1. DOMAIN up = D
    BY DEF Up
  <2> QED
    BY <2>1, PDAddrFinite, FS_Subset
<1>2. A = (R \cap PDAddr) \ {p}
  BY DEF Above, Up
<1>3. \A q \in D : up[q] = IF m.pd[q].parent # Null /\ has(m.pd[q].parent)
                           THEN m.pd[q].parent ELSE Null
  BY DEF Up
<1>4. C = A \cup {p}
  BY DEF Climbed
<1> HIDE DEF up, A, C, has, D
<1>5. /\ p \in R
      /\ \A y \in R : y \in D => up[y] \in R
      /\ \A S : p \in S /\ (\A y \in S : y \in D => up[y] \in S) => R \subseteq S
  BY <1>1, ReachedLeast
<1> HIDE DEF R
<1>6. C = R \cap PDAddr
  BY <1>2, <1>4, <1>5
<1>7. Null \notin PDAddr /\ \A q \in L \ {RootPD} : m.pd[q].parent \in L
  BY NullOutside DEF Tree
<1>8. \A q \in D : q # RootPD /\ q \in PDAddr
  BY DEF D
<1>9. \A q \in PDAddr \ {RootPD} : q \in D
  BY DEF D
<1>10. C \subseteq L
  <2> DEFINE S == L \cup {Null}
  <2>1. \A y \in S : y \in D => up[y] \in S
    BY <1>3, <1>7, <1>8
  <2>2. p \in S
    OBVIOUS
  <2> HIDE DEF S
  <2>3. R \subseteq S
    BY <1>5, <2>1, <2>2
  <2> QED
    BY <1>6, <1>7, <2>3 DEF S
<1>11. \A q \in A : has(q)
  <2> DEFINE S == {p, Null} \cup {q \in PDAddr : has(q)}
  <2>1. \A y \in R : y \in D => m.pd[y].parent \in PDAddr
    BY <1>6, <1>7, <1>8, <1>10
  <2>2. \A y \in S \cap R : y \in D => up[y] \in S \cap R
    BY <1>3, <1>5, <2>1
  <2>3. p \in S \cap R
    BY <1>5
  <2> HIDE DEF S
  <2>4. R \subseteq S
    BY <1>5, <2>2, <2>3
  <2> QED
    BY <1>2, <1>7, <2>4 DEF S
<1>12. \A q \in A : \E y \in C \ {RootPD} : m.pd[y].parent = q
  <2> DEFINE S == {p, Null} \cup {q \in PDAddr : \E y \in C \ {RootPD} : m.pd[y].parent = q}
  <2>1. \A y \in R : y \in D => m.pd[y].parent \in PDAddr /\ y \in C \ {RootPD}
    BY <1>6, <1>7, <1>8, <1>10
  <2>2. \A y \in S \cap R : y \in D => up[y] \in S \cap R
    BY <1>3, <1>5, <2>1
  <2>3. p \in S \cap R
    BY <1>5
  <2> HIDE DEF S
  <2>4. R \subseteq S
    BY <1>5, <2>2, <2>3
  <2> QED
    BY <1>2, <1>7, <2>4 DEF S
<1>13. ASSUME NEW q \in C \ {RootPD}, has(m.pd[q].parent) PROVE m.pd[q].parent \in C
  <2>1. q \in L \ {RootPD} /\ q \in D /\ q \in R
    BY <1>6, <1>9, <1>10, <1>13
  <2>2. m.pd[q].parent \in PDAddr /\ m.pd[q].parent # Null
    BY <1>7, <2>1
  <2>3. up[q] = m.pd[q].parent
    BY <1>3, <1>13, <2>1, <2>2
  <2> QED
    BY <1>5, <1>6, <2>1, <2>2, <2>3
<1>14. p \in C /\ A \subseteq C /\ p \notin A
  BY <1>2, <1>4
<1> QED
  BY <1>10, <1>11, <1>12, <1>13, <1>14 DEF A, C, has

\* The blocks of those ancestors, which writeAccessibleRec writes.
Hits(m, p, s, t) == {findExactBlockInKS(m, q, s, t) : q \in Above(m, p, s, t)}

\* They are blocks of the range of e, each above another one or e.
LEMMA HitFacts ==
  ASSUME NEW m \in Good, NEW L \in SUBSET PDAddr, Tree(m, L), Ranges(m, L),
         NEW p \in L, NEW e \in BlocksIn(m, p),
         NEW s, NEW t, m.slot[e].start = s, m.slot[e].end = t
  PROVE  LET H == Hits(m, p, s, t)
         IN  /\ \A g \in H : \E q \in Above(m, p, s, t) :
                  /\ q \in L \ {p} /\ g = findExactBlockInKS(m, q, s, t)
                  /\ g \in BlocksIn(m, q) /\ SameRange(m.slot[g], m.slot[e])
             /\ \A g \in H : \E y \in L \ {RootPD} : \E h \in BlocksIn(m, y) :
                  /\ g \in BlocksIn(m, m.pd[y].parent)
                  /\ h \in H \cup {e} /\ SameRange(m.slot[h], m.slot[e])
<1> DEFINE H == Hits(m, p, s, t)
           A == Above(m, p, s, t)
           C == Climbed(m, p, s, t)
           fe(q) == findExactBlockInKS(m, q, s, t)
<1>1. /\ A \subseteq L /\ p \notin A /\ C \subseteq L /\ C = A \cup {p}
      /\ \A q \in A : fe(q) # NullSlot
      /\ \A q \in A : \E y \in C \ {RootPD} : m.pd[y].parent = q
  BY AboveFacts DEF Climbed
<1>2. H = {fe(q) : q \in A}
  BY DEF Hits
<1>3. \A q \in A : fe(q) \in BlocksIn(m, q) /\ SameRange(m.slot[fe(q)], m.slot[e])
  BY <1>1, FindExactIs DEF SameRange
<1> HIDE DEF H, A, C, fe
<1>4. ASSUME NEW g \in H
      PROVE  \E y \in L \ {RootPD} : \E h \in BlocksIn(m, y) :
               /\ g \in BlocksIn(m, m.pd[y].parent)
               /\ h \in H \cup {e} /\ SameRange(m.slot[h], m.slot[e])
  <2>1. PICK q \in A : g = fe(q)
    BY <1>2
  <2>2. PICK y \in C \ {RootPD} : m.pd[y].parent = q
    BY <1>1
  <2>3. g \in BlocksIn(m, m.pd[y].parent) /\ y \in L \ {RootPD}
    BY <1>1, <1>3, <2>1, <2>2
  <2>4. CASE y = p
    BY <2>3, <2>4 DEF SameRange
  <2>5. CASE y # p
    <3>1. y \in A
      BY <1>1, <2>2, <2>5
    <3>2. fe(y) \in H /\ fe(y) \in BlocksIn(m, y) /\ SameRange(m.slot[fe(y)], m.slot[e])
      BY <1>2, <1>3, <3>1
    <3> QED
      BY <2>3, <3>2
  <2> QED
    BY <2>4, <2>5
<1>5. ASSUME NEW g \in H
      PROVE  \E q \in A : /\ q \in L \ {p} /\ g = fe(q)
                          /\ g \in BlocksIn(m, q) /\ SameRange(m.slot[g], m.slot[e])
  BY <1>1, <1>2, <1>3
<1> QED
  BY <1>4, <1>5 DEF H, A, fe

\* A parent's block whose uncut copy is one of them, or e, is one of them.
LEMMA HitsClosed ==
  ASSUME NEW m \in Good, NEW L \in SUBSET PDAddr, Tree(m, L), Ranges(m, L),
         Structures(m, L), Shares(m, L), Containment(m, L),
         NEW p \in L, NEW e \in BlocksIn(m, p),
         NEW s, NEW t, m.slot[e].start = s, m.slot[e].end = t,
         NEW x \in L, NEW f \in BlocksIn(m, x), m.slot[f].inChild # NullSlot,
         ~ IsCut(m, m.slot[f].inChild),
         m.slot[f].inChild \in Hits(m, p, s, t) \cup {e}
  PROVE  f \in Hits(m, p, s, t) \cup {e}
<1> DEFINE h == m.slot[f].inChild
           y == m.slot[f].PDchild
           C == Climbed(m, p, s, t)
<1>1. /\ y \in L \ {RootPD} /\ m.pd[y].parent = x /\ h \in BlocksIn(m, y)
      /\ SameRange(m.slot[h], m.slot[f])
  BY CopyRange
<1>2. \E q \in C : h \in BlocksIn(m, q) /\ q \in L /\ SameRange(m.slot[h], m.slot[e])
  <2>1. CASE h = e
    BY <2>1 DEF Climbed, SameRange
  <2>2. CASE h \in Hits(m, p, s, t)
    BY <2>2, HitFacts DEF Climbed
  <2> QED
    BY <2>1, <2>2
<1>3. PICK q \in C : h \in BlocksIn(m, q) /\ q \in L /\ SameRange(m.slot[h], m.slot[e])
  BY <1>2
<1>4. q = y
  BY <1>1, <1>3, OnePartition, BlockType
<1>5. m.slot[f].start = s /\ m.slot[f].end = t
  BY <1>1, <1>3 DEF SameRange
<1>6. findExactBlockInKS(m, x, s, t) = f
  BY <1>5, FindExactFinds
<1>7. f # NullSlot
  BY BlockType
<1>8. x \in C
  BY <1>1, <1>3, <1>4, <1>6, <1>7, AboveFacts
<1>9. CASE x = p
  BY <1>5, <1>6, <1>9, FindExactFinds
<1>10. CASE x # p
  <2>1. x \in Above(m, p, s, t)
    BY <1>8, <1>10 DEF Climbed
  <2> QED
    BY <1>6, <2>1 DEF Hits
<1> QED
  BY <1>9, <1>10

-----------------------------------------------------------------------------
(* Changes of who may access a block.                                      *)

\* The entries agree, but for the accessible bit.
SameEntry(b1, b2) ==
  /\ b1.start = b2.start /\ b1.end = b2.end /\ b1.origin = b2.origin
  /\ b1.rights = b2.rights /\ b1.present = b2.present
  /\ b1.PDchild = b2.PDchild /\ b1.inChild = b2.inChild /\ b1.PDflag = b2.PDflag
  /\ b1.next = b2.next /\ b1.nextFree = b2.nextFree

\* The descriptors agree, but for the MPU and the VIDT.
SameLinks(d1, d2) ==
  /\ d1.parent = d2.parent /\ d1.structs = d2.structs
  /\ d1.firstFree = d2.firstFree /\ d1.nbFree = d2.nbFree

SameShape(m, n, L) ==
  /\ \A e \in Slots : SameEntry(n.slot[e], m.slot[e])
  /\ \A e \in Slots : ~ m.slot[e].present => n.slot[e] = m.slot[e]
  /\ \A p \in L : SameLinks(n.pd[p], m.pd[p])

\* The memory is its own shape, and shapes compose.
LEMMA SameShapeTrans ==
  ASSUME NEW m, NEW n, NEW o, NEW L, SameShape(m, n, L), SameShape(n, o, L)
  PROVE  SameShape(m, o, L)
BY DEF SameShape, SameEntry, SameLinks

\* The partitions have the same structures, blocks and free slots.
LEMMA ShapeSlots ==
  ASSUME NEW m \in Good, NEW n \in Good, NEW L \in SUBSET PDAddr,
         SameShape(m, n, L), NEW p \in L
  PROVE  /\ StructsOf(n, p) = StructsOf(m, p) /\ SlotsOf(n, p) = SlotsOf(m, p)
         /\ BlocksIn(n, p) = BlocksIn(m, p) /\ FreeIn(n, p) = FreeIn(m, p)
         /\ \A e \in BlocksIn(m, p) : SameEntry(n.slot[e], m.slot[e])
         /\ \A e \in FreeIn(m, p) : n.slot[e] = m.slot[e]
         /\ SameLinks(n.pd[p], m.pd[p])
<1>1. n.pd[p].structs = m.pd[p].structs /\ SameLinks(n.pd[p], m.pd[p])
  BY DEF SameShape, SameLinks
<1>2. StructsOf(n, p) = StructsOf(m, p) /\ SlotsOf(n, p) = SlotsOf(m, p)
  BY <1>1 DEF StructsOf, SlotsOf
<1>3. SlotsOf(m, p) \subseteq Slots
  BY SlotsOfType
<1>4. BlocksIn(n, p) = BlocksIn(m, p) /\ FreeIn(n, p) = FreeIn(m, p)
  BY <1>2, <1>3 DEF SameShape, SameEntry, BlocksIn, FreeIn
<1>5. /\ \A e \in BlocksIn(m, p) : SameEntry(n.slot[e], m.slot[e])
      /\ \A e \in FreeIn(m, p) : n.slot[e] = m.slot[e]
  BY <1>3 DEF SameShape, BlocksIn, FreeIn
<1> QED
  BY <1>1, <1>2, <1>4, <1>5

\* A free list depends on the free slots and on where it starts.
LEMMA FreeListFrame ==
  ASSUME NEW m, NEW n, NEW p, NEW q, FreeListOK(m, p), FreeIn(n, q) = FreeIn(m, p),
         \A e \in FreeIn(m, p) : n.slot[e] = m.slot[e],
         n.pd[q].firstFree = m.pd[p].firstFree, n.pd[q].nbFree = m.pd[p].nbFree
  PROVE  FreeListOK(n, q)
BY DEF FreeListOK

\* Consistent does not look at the accessible bits, the MPU or the VIDT.
LEMMA ShapeConsistent ==
  ASSUME NEW m \in Good, NEW n \in Good, NEW L \in SUBSET PDAddr,
         SameShape(m, n, L), Consistent(m, L)
  PROVE  Consistent(n, L)
<1>1. /\ Tree(m, L) /\ Homes(m, L) /\ Structures(m, L) /\ Ranges(m, L) /\ Cuts(m, L)
      /\ Shares(m, L) /\ Containment(m, L) /\ FreeLists(m, L)
  BY DEF Consistent
<1>2. \A p \in L :
        /\ StructsOf(n, p) = StructsOf(m, p)
        /\ BlocksIn(n, p) = BlocksIn(m, p) /\ FreeIn(n, p) = FreeIn(m, p)
        /\ \A e \in BlocksIn(m, p) : SameEntry(n.slot[e], m.slot[e])
        /\ \A e \in FreeIn(m, p) : n.slot[e] = m.slot[e]
        /\ n.pd[p].parent = m.pd[p].parent /\ n.pd[p].firstFree = m.pd[p].firstFree
        /\ n.pd[p].nbFree = m.pd[p].nbFree
  BY ShapeSlots DEF SameLinks
<1>3. Tree(n, L)
  BY <1>1, <1>2 DEF Tree
<1>4. \A q \in L \ {RootPD} : m.pd[q].parent \in L
  BY <1>1 DEF Tree
<1>5. Homes(n, L)
  <2>1. \A p \in L : \A e \in BlocksIn(n, p) : n.slot[e].PDflag => IsHome(n, L, p, e)
    BY <1>1, <1>2 DEF Homes, IsHome, SameEntry, Size
  <2>2. \A q \in L \ {RootPD} : \E e \in BlocksIn(n, n.pd[q].parent) :
          n.slot[e].start = q /\ n.slot[e].PDflag
    BY <1>1, <1>2, <1>4 DEF Homes, SameEntry
  <2> QED
    BY <2>1, <2>2 DEF Homes
<1>6. Structures(n, L)
  <2>1. \A p, q \in L : p # q => StructsOf(n, p) \cap StructsOf(n, q) = {}
    BY <1>1, <1>2 DEF Structures
  <2>2. ASSUME NEW q \in L, NEW k \in StructsOf(n, q) \ {RootKS}
        PROVE  \E p \in {q, n.pd[q].parent} \cap L :
                 \E e \in BlocksIn(n, p) : HoldsStructure(n, p, q, e, k)
    <3>1. PICK p \in {q, m.pd[q].parent} \cap L :
            \E e \in BlocksIn(m, p) : HoldsStructure(m, p, q, e, k)
      BY <1>1, <1>2, <2>2 DEF Structures
    <3>2. PICK e \in BlocksIn(m, p) : HoldsStructure(m, p, q, e, k)
      BY <3>1
    <3>3. HoldsStructure(n, p, q, e, k)
      BY <1>2, <3>1, <3>2 DEF HoldsStructure, SameEntry, Size
    <3> QED
      BY <1>2, <3>1, <3>2, <3>3
  <2> QED
    BY <2>1, <2>2 DEF Structures
<1>7. Ranges(n, L)
  BY <1>1, <1>2 DEF Ranges, WellFormed, Overlap, SameEntry
<1>8. Cuts(n, L)
  BY <1>1, <1>2 DEF Cuts, SameEntry
<1>9. Shares(n, L)
  BY <1>1, <1>2 DEF Shares, IsShared, SameEntry
<1>10. Containment(n, L)
  <2> SUFFICES ASSUME NEW q \in L \ {RootPD}, NEW f \in BlocksIn(n, q)
               PROVE  \E e \in BlocksIn(n, n.pd[q].parent) : IsPartOf(n, q, f, e)
    BY DEF Containment
  <2>1. PICK e \in BlocksIn(m, m.pd[q].parent) : IsPartOf(m, q, f, e)
    BY <1>1, <1>2 DEF Containment
  <2>2. SameEntry(n.slot[e], m.slot[e]) /\ SameEntry(n.slot[f], m.slot[f])
    BY <1>2, <1>4, <2>1
  <2>3. IsPartOf(n, q, f, e)
    BY <2>1, <2>2 DEF IsPartOf, SameEntry, Within
  <2> QED
    BY <1>2, <1>4, <2>1, <2>3
<1>11. FreeLists(n, L)
  BY <1>1, <1>2, FreeListFrame DEF FreeLists
<1> QED
  BY <1>3, <1>5, <1>6, <1>7, <1>8, <1>9, <1>10, <1>11 DEF Consistent

\* What becomes of the rights to access when the blocks of X are hidden: no
\* block above a hidden one stays accessible, and the MPU drops them.
Hides(m, n, L, X) ==
  /\ \A e \in Slots : n.slot[e].accessible <=> m.slot[e].accessible /\ e \notin X
  /\ \A p \in L : \A r \in Regions :
       n.pd[p].mpu[r] # NullSlot => n.pd[p].mpu[r] = m.pd[p].mpu[r] /\ m.pd[p].mpu[r] \notin X

\* Hiding keeps the blocks guarded.
LEMMA HideGuarded ==
  ASSUME NEW m \in Good, NEW n \in Good, NEW L \in SUBSET PDAddr,
         SameShape(m, n, L), Consistent(m, L), NEW X, Hides(m, n, L, X),
         CopiesAccessible(m, L), MPUMapsAccessible(m, L),
         \A p \in L : \A f \in BlocksIn(m, p) :
           m.slot[f].accessible /\ f \notin X => ~ IsKernel(m, p, f),
         \A p \in L : \A f \in BlocksIn(m, p) :
           m.slot[f].inChild # NullSlot /\ ~ IsCut(m, m.slot[f].inChild)
             /\ m.slot[f].inChild \in X => f \in X
  PROVE  Guarded(n, L)
<1>1. \A p \in L :
        /\ StructsOf(n, p) = StructsOf(m, p)
        /\ BlocksIn(n, p) = BlocksIn(m, p)
        /\ \A e \in BlocksIn(m, p) : SameEntry(n.slot[e], m.slot[e]) /\ e \in Slots
  BY ShapeSlots, BlockType
<1>2. \A e \in Slots : n.slot[e].accessible <=> m.slot[e].accessible /\ e \notin X
  BY DEF Hides
<1>3. KernelBlocksHidden(n, L)
  BY SMTT(30), <1>1, <1>2 DEF KernelBlocksHidden, IsKernel, SameEntry
<1>4. CopiesAccessible(n, L)
  <2> SUFFICES ASSUME NEW p \in L, NEW e \in BlocksIn(n, p),
                      n.slot[e].accessible, n.slot[e].inChild # NullSlot
               PROVE  ~ IsCut(n, n.slot[e].inChild) /\ n.slot[n.slot[e].inChild].accessible
    BY DEF CopiesAccessible
  <2> DEFINE h == m.slot[e].inChild
  <2>1. /\ e \in BlocksIn(m, p) /\ e \in Slots /\ n.slot[e].inChild = h /\ h # NullSlot
        /\ m.slot[e].accessible /\ e \notin X
    BY <1>1, <1>2 DEF SameEntry
  <2>2. ~ IsCut(m, h) /\ m.slot[h].accessible
    BY <2>1 DEF CopiesAccessible
  <2>3. h \notin X
    BY <2>1, <2>2
  <2>4. m.slot[e].PDchild \in L /\ h \in BlocksIn(m, m.slot[e].PDchild)
    BY <2>1 DEF Consistent, Shares, IsShared
  <2>5. h \in Slots /\ SameEntry(n.slot[h], m.slot[h])
    BY <1>1, <2>4
  <2> QED
    BY ZenonT(30), <1>2, <2>1, <2>2, <2>3, <2>5 DEF IsCut, SameEntry
<1>5. MPUMapsAccessible(n, L)
  <2> SUFFICES ASSUME NEW p \in L, NEW r \in Regions, n.pd[p].mpu[r] # NullSlot
               PROVE  /\ n.pd[p].mpu[r] \in BlocksIn(n, p)
                      /\ n.slot[n.pd[p].mpu[r]].accessible
                      /\ \A k \in Regions : n.pd[p].mpu[k] = n.pd[p].mpu[r] => k = r
    BY DEF MPUMapsAccessible
  <2>1. /\ n.pd[p].mpu[r] = m.pd[p].mpu[r] /\ m.pd[p].mpu[r] \notin X
        /\ \A k \in Regions : n.pd[p].mpu[k] # NullSlot => n.pd[p].mpu[k] = m.pd[p].mpu[k]
    BY DEF Hides
  <2>2. /\ m.pd[p].mpu[r] \in BlocksIn(m, p) /\ m.slot[m.pd[p].mpu[r]].accessible
        /\ \A k \in Regions : m.pd[p].mpu[k] = m.pd[p].mpu[r] => k = r
    BY <2>1 DEF MPUMapsAccessible
  <2> QED
    BY <1>1, <1>2, <2>1, <2>2
<1> QED
  BY <1>3, <1>4, <1>5 DEF Guarded

\* The same when the blocks of X are shown: none may be a kernel block, and
\* a shared one must have an uncut copy that is accessible too.
Shows(m, n, L, X) ==
  /\ \A e \in Slots : n.slot[e].accessible <=> m.slot[e].accessible \/ e \in X
  /\ \A p \in L : \A r \in Regions :
       n.pd[p].mpu[r] # NullSlot => n.pd[p].mpu[r] = m.pd[p].mpu[r]

\* Showing keeps the blocks guarded.
LEMMA ShowGuarded ==
  ASSUME NEW m \in Good, NEW n \in Good, NEW L \in SUBSET PDAddr,
         SameShape(m, n, L), Consistent(m, L), NEW X, Shows(m, n, L, X),
         Guarded(m, L),
         \A p \in L : \A f \in BlocksIn(m, p) : f \in X =>
           /\ ~ IsKernel(m, p, f)
           /\ m.slot[f].inChild # NullSlot =>
                /\ ~ IsCut(m, m.slot[f].inChild)
                /\ m.slot[m.slot[f].inChild].accessible \/ m.slot[f].inChild \in X
  PROVE  Guarded(n, L)
<1>1. \A p \in L :
        /\ StructsOf(n, p) = StructsOf(m, p)
        /\ BlocksIn(n, p) = BlocksIn(m, p)
        /\ \A e \in BlocksIn(m, p) : SameEntry(n.slot[e], m.slot[e]) /\ e \in Slots
  BY ShapeSlots, BlockType
<1>2. \A e \in Slots : n.slot[e].accessible <=> m.slot[e].accessible \/ e \in X
  BY DEF Shows
<1>0. KernelBlocksHidden(m, L) /\ CopiesAccessible(m, L) /\ MPUMapsAccessible(m, L)
  BY DEF Guarded
<1>3. KernelBlocksHidden(n, L)
  BY SMTT(30), <1>0, <1>1, <1>2 DEF KernelBlocksHidden, IsKernel, SameEntry
<1>4. CopiesAccessible(n, L)
  <2> SUFFICES ASSUME NEW p \in L, NEW e \in BlocksIn(n, p),
                      n.slot[e].accessible, n.slot[e].inChild # NullSlot
               PROVE  ~ IsCut(n, n.slot[e].inChild) /\ n.slot[n.slot[e].inChild].accessible
    BY DEF CopiesAccessible
  <2> DEFINE h == m.slot[e].inChild
  <2>1. /\ e \in BlocksIn(m, p) /\ e \in Slots /\ n.slot[e].inChild = h /\ h # NullSlot
        /\ m.slot[e].accessible \/ e \in X
    BY <1>1, <1>2 DEF SameEntry
  <2>2. ~ IsCut(m, h) /\ (m.slot[h].accessible \/ h \in X)
    BY <1>0, <2>1 DEF CopiesAccessible
  <2>4. m.slot[e].PDchild \in L /\ h \in BlocksIn(m, m.slot[e].PDchild)
    BY <2>1 DEF Consistent, Shares, IsShared
  <2>5. h \in Slots /\ SameEntry(n.slot[h], m.slot[h])
    BY <1>1, <2>4
  <2> QED
    BY ZenonT(30), <1>2, <2>1, <2>2, <2>5 DEF IsCut, SameEntry
<1>5. MPUMapsAccessible(n, L)
  <2> SUFFICES ASSUME NEW p \in L, NEW r \in Regions, n.pd[p].mpu[r] # NullSlot
               PROVE  /\ n.pd[p].mpu[r] \in BlocksIn(n, p)
                      /\ n.slot[n.pd[p].mpu[r]].accessible
                      /\ \A k \in Regions : n.pd[p].mpu[k] = n.pd[p].mpu[r] => k = r
    BY DEF MPUMapsAccessible
  <2>1. /\ n.pd[p].mpu[r] = m.pd[p].mpu[r]
        /\ \A k \in Regions : n.pd[p].mpu[k] # NullSlot => n.pd[p].mpu[k] = m.pd[p].mpu[k]
    BY DEF Shows
  <2>2. /\ m.pd[p].mpu[r] \in BlocksIn(m, p) /\ m.slot[m.pd[p].mpu[r]].accessible
        /\ \A k \in Regions : m.pd[p].mpu[k] = m.pd[p].mpu[r] => k = r
    BY <1>0, <2>1 DEF MPUMapsAccessible
  <2> QED
    BY <1>1, <1>2, <2>1, <2>2
<1> QED
  BY <1>3, <1>4, <1>5 DEF Guarded

-----------------------------------------------------------------------------
(* writeAccessibleRec and hide.                                            *)

\* Only the accessible bit of an entry changes.
LEMMA AccessibleOnly ==
  ASSUME NEW b \in Entry, NEW bit \in BOOLEAN
  PROVE  /\ SameEntry([b EXCEPT !.accessible = bit], b)
         /\ [b EXCEPT !.accessible = bit].accessible = bit
BY DEF Entry, SameEntry

\* Unmap only changes the MPU, where it drops the slots of E.
LEMMA UnmapLinks ==
  ASSUME NEW d \in GoodPD, NEW E
  PROVE  /\ SameLinks(Unmap(d, E), d)
         /\ \A r \in Regions : Unmap(d, E).mpu[r] = IF d.mpu[r] \in E THEN NullSlot
                                                    ELSE d.mpu[r]
BY DEF Unmap, SameLinks, GoodPD, Descriptor

\* What writeAccessibleRec does to the memory.
Wrote(m, n, L, p, s, t, bit) ==
  LET H == Hits(m, p, s, t)
  IN  /\ n \in Good /\ SameShape(m, n, L)
      /\ \A f \in Slots : n.slot[f].accessible = IF f \in H THEN bit
                                                 ELSE m.slot[f].accessible
      /\ \A f \in Slots : f \notin H => n.slot[f] = m.slot[f]
      /\ \A q \in PDAddr : n.pd[q] =
           IF q \in Above(m, p, s, t) /\ ~ bit
           THEN Unmap(m.pd[q], {findExactBlockInKS(m, q, s, t)}) ELSE m.pd[q]

\* It does so to a memory whose partitions form a tree.
LEMMA WriteEffect ==
  ASSUME NEW m \in Good, NEW L \in SUBSET PDAddr, Tree(m, L), Ranges(m, L),
         NEW p \in L, NEW e \in BlocksIn(m, p),
         NEW s, NEW t, m.slot[e].start = s, m.slot[e].end = t, NEW bit \in BOOLEAN
  PROVE  Wrote(m, writeAccessibleRec(m, p, s, t, bit), L, p, s, t, bit)
<1> DEFINE n == writeAccessibleRec(m, p, s, t, bit)
           H == Hits(m, p, s, t)
           A == Above(m, p, s, t)
<1>1. n \in Good
  BY writeAccessibleRecGood
<1>2. /\ \A f \in Slots : n.slot[f] = IF f \in H THEN [m.slot[f] EXCEPT !.accessible = bit]
                                      ELSE m.slot[f]
      /\ \A q \in PDAddr : n.pd[q] =
           IF q \in A /\ ~ bit
           THEN Unmap(m.pd[q], {findExactBlockInKS(m, q, s, t)}) ELSE m.pd[q]
  BY DEF writeAccessibleRec, Hits
<1>3. \A g \in H : \E q \in L : g \in BlocksIn(m, q)
  BY HitFacts
<1>4. \A g \in H : m.slot[g].present
  BY <1>3, SlotsOfIs
<1> HIDE DEF n, H, A
<1>5. \A f \in Slots : m.slot[f] \in Entry
  BY EntryOf
<1>6. \A f \in Slots : /\ SameEntry(n.slot[f], m.slot[f])
                       /\ n.slot[f].accessible = IF f \in H THEN bit
                                                 ELSE m.slot[f].accessible
  <2>1. \A b : SameEntry(b, b)
    BY DEF SameEntry
  <2> QED
    BY ZenonT(30), <1>2, <1>5, <2>1, AccessibleOnly
<1>7. \A q \in L : SameLinks(n.pd[q], m.pd[q])
  <2>1. \A q \in L : m.pd[q] \in GoodPD /\ q \in PDAddr
    BY DEF Good
  <2>2. \A d : SameLinks(d, d)
    BY DEF SameLinks
  <2>3. \A q \in L : n.pd[q] = m.pd[q] \/ \E E : n.pd[q] = Unmap(m.pd[q], E)
    BY <1>2, <2>1
  <2> QED
    BY <2>1, <2>2, <2>3, UnmapLinks
<1>8. SameShape(m, n, L)
  BY <1>2, <1>4, <1>6, <1>7 DEF SameShape
<1> QED
  BY <1>1, <1>2, <1>6, <1>8 DEF n, H, A, Wrote

\* The MPU of a partition maps its own blocks.
MPUMapsBlocks(m, L) ==
  \A q \in L : \A r \in Regions :
    m.pd[q].mpu[r] # NullSlot => m.pd[q].mpu[r] \in BlocksIn(m, q)

\* With FALSE it hides the blocks it hits.
LEMMA WriteHides ==
  ASSUME NEW m \in Good, NEW L \in SUBSET PDAddr, Consistent(m, L),
         MPUMapsBlocks(m, L), NEW p \in L, NEW e \in BlocksIn(m, p),
         NEW s, NEW t, m.slot[e].start = s, m.slot[e].end = t
  PROVE  Hides(m, writeAccessibleRec(m, p, s, t, FALSE), L, Hits(m, p, s, t))
<1> DEFINE bit == FALSE
           n == writeAccessibleRec(m, p, s, t, bit)
           H == Hits(m, p, s, t)
           A == Above(m, p, s, t)
           fe(q) == findExactBlockInKS(m, q, s, t)
<1>0. Tree(m, L) /\ Ranges(m, L) /\ Structures(m, L)
  BY DEF Consistent
<1>b. bit = FALSE /\ bit \in BOOLEAN
  OBVIOUS
<1> HIDE DEF bit
<1>1. /\ \A f \in Slots : n.slot[f].accessible = IF f \in H THEN bit
                                                 ELSE m.slot[f].accessible
      /\ \A q \in PDAddr : n.pd[q] = IF q \in A /\ ~ bit THEN Unmap(m.pd[q], {fe(q)})
                                     ELSE m.pd[q]
  <2>1. Wrote(m, n, L, p, s, t, bit)
    BY <1>0, <1>b, WriteEffect
  <2> HIDE DEF n
  <2> QED
    BY <2>1 DEF Wrote
<1>2. \A g \in H : \E q \in A : q \in L /\ g = fe(q) /\ g \in BlocksIn(m, q)
  BY <1>0, HitFacts
<1> HIDE DEF n, H, A, fe
<1>3. \A f \in Slots : n.slot[f].accessible <=> m.slot[f].accessible /\ f \notin H
  BY <1>1, <1>b
<1>4. ASSUME NEW q \in L, NEW r \in Regions, n.pd[q].mpu[r] # NullSlot
      PROVE  n.pd[q].mpu[r] = m.pd[q].mpu[r] /\ m.pd[q].mpu[r] \notin H
  <2>1. q \in PDAddr /\ m.pd[q] \in GoodPD
    BY DEF Good
  <2>2. n.pd[q].mpu[r] = m.pd[q].mpu[r] /\ (q \in A => m.pd[q].mpu[r] # fe(q))
    <3>1. CASE q \in A
      <4>1. n.pd[q] = Unmap(m.pd[q], {fe(q)})
        BY <1>1, <1>b, <2>1, <3>1
      <4>2. Unmap(m.pd[q], {fe(q)}).mpu[r] = IF m.pd[q].mpu[r] \in {fe(q)} THEN NullSlot
                                             ELSE m.pd[q].mpu[r]
        BY <2>1, UnmapLinks
      <4> QED
        BY <1>4, <4>1, <4>2
    <3>2. CASE q \notin A
      BY <1>1, <2>1, <3>2
    <3> QED
      BY <3>1, <3>2
  <2>3. m.pd[q].mpu[r] \in BlocksIn(m, q)
    BY <1>4, <2>2 DEF MPUMapsBlocks
  <2>4. ASSUME m.pd[q].mpu[r] \in H PROVE FALSE
    <3>1. PICK x \in A : x \in L /\ m.pd[q].mpu[r] = fe(x) /\ m.pd[q].mpu[r] \in BlocksIn(m, x)
      BY <1>2, <2>4
    <3>2. x = q
      BY <1>0, <2>3, <3>1, OnePartition, BlockType
    <3> QED
      BY <2>2, <3>1, <3>2
  <2> QED
    BY <2>2, <2>4
<1> QED
  BY <1>3, <1>4 DEF Hides, n, H, bit

\* With TRUE it shows them and leaves the descriptors alone.
LEMMA WriteShows ==
  ASSUME NEW m \in Good, NEW L \in SUBSET PDAddr, Tree(m, L), Ranges(m, L),
         NEW p \in L, NEW e \in BlocksIn(m, p),
         NEW s, NEW t, m.slot[e].start = s, m.slot[e].end = t
  PROVE  /\ Shows(m, writeAccessibleRec(m, p, s, t, TRUE), L, Hits(m, p, s, t))
         /\ \A q \in PDAddr : writeAccessibleRec(m, p, s, t, TRUE).pd[q] = m.pd[q]
<1> DEFINE bit == TRUE
           n == writeAccessibleRec(m, p, s, t, bit)
           H == Hits(m, p, s, t)
           A == Above(m, p, s, t)
           fe(q) == findExactBlockInKS(m, q, s, t)
<1>b. bit = TRUE /\ bit \in BOOLEAN
  OBVIOUS
<1> HIDE DEF bit
<1>1. /\ \A f \in Slots : n.slot[f].accessible = IF f \in H THEN bit
                                                 ELSE m.slot[f].accessible
      /\ \A q \in PDAddr : n.pd[q] = IF q \in A /\ ~ bit THEN Unmap(m.pd[q], {fe(q)})
                                     ELSE m.pd[q]
  <2>1. Wrote(m, n, L, p, s, t, bit)
    BY <1>b, WriteEffect
  <2> HIDE DEF n
  <2> QED
    BY <2>1 DEF Wrote
<1> HIDE DEF n, H, A, fe
<1>2. \A f \in Slots : n.slot[f].accessible <=> m.slot[f].accessible \/ f \in H
  BY <1>1, <1>b
<1>3. \A q \in PDAddr : n.pd[q] = m.pd[q]
  BY <1>1, <1>b
<1>4. Shows(m, n, L, H)
  BY <1>2, <1>3 DEF Shows
<1> QED
  BY <1>3, <1>4 DEF n, H, bit

\* A cut block is a part of a parent's block whose copy is cut, and which the
\* parent therefore cannot access; an uncut one is the copy of its parent's.
LEMMA CutCopy ==
  ASSUME NEW m \in Good, NEW L \in SUBSET PDAddr, Tree(m, L), Ranges(m, L),
         Shares(m, L), Containment(m, L),
         NEW q \in L \ {RootPD}, NEW f \in BlocksIn(m, q),
         NEW e \in BlocksIn(m, m.pd[q].parent), IsPartOf(m, q, f, e)
  PROVE  IsCut(m, f) <=> IsCut(m, m.slot[e].inChild)
<1> DEFINE h == m.slot[e].inChild
           p == m.pd[q].parent
<1>1. /\ Within(m.slot[f], m.slot[e]) /\ m.slot[e].PDchild = q /\ h # NullSlot
      /\ m.slot[e].start = m.slot[f].origin
      /\ m.slot[f].next = NullSlot => m.slot[f].end = m.slot[e].end
  BY DEF IsPartOf
<1>2. p \in L
  BY DEF Tree
<1>3. /\ h \in BlocksIn(m, q) /\ m.slot[h].start = m.slot[e].start
      /\ m.slot[h].origin = m.slot[e].start
      /\ ~ IsCut(m, h) => SameRange(m.slot[h], m.slot[e])
  BY <1>1, <1>2, CopyRange
<1>4. /\ m.slot[f].start \in Nat /\ m.slot[f].end \in Nat /\ m.slot[f].start < m.slot[f].end
      /\ m.slot[h].start \in Nat /\ m.slot[h].end \in Nat /\ m.slot[h].start < m.slot[h].end
      /\ m.slot[e].start \in Nat /\ m.slot[e].end \in Nat
  BY <1>2, <1>3, BlockType, BlockRange
<1>5. ASSUME Overlap(m.slot[f], m.slot[h]) PROVE f = h
  BY <1>3, <1>5, SameBlock
<1>6. ASSUME ~ IsCut(m, f) PROVE f = h
  BY <1>1, <1>3, <1>4, <1>5, <1>6 DEF IsCut, Overlap
<1>7. ASSUME ~ IsCut(m, h) PROVE f = h
  BY <1>1, <1>3, <1>4, <1>5, <1>7 DEF SameRange, Within, Overlap
<1> QED
  BY <1>6, <1>7

\* The first half of hide: e itself is hidden and leaves the MPU of p.
Lost(m, p, e) == [m EXCEPT !.slot[e].accessible = FALSE, !.pd[p] = Unmap(@, {e})]

\* It changes nothing else.
LEMMA LostEffect ==
  ASSUME NEW m \in Good, NEW L \in SUBSET PDAddr, Structures(m, L),
         MPUMapsBlocks(m, L), NEW p \in L, NEW e \in BlocksIn(m, p)
  PROVE  /\ Lost(m, p, e) \in Good /\ SameShape(m, Lost(m, p, e), L)
         /\ Hides(m, Lost(m, p, e), L, {e}) /\ MPUMapsBlocks(Lost(m, p, e), L)
<1> DEFINE bit == FALSE
           b == [m.slot[e] EXCEPT !.accessible = bit]
           d == Unmap(m.pd[p], {e})
           n == [m EXCEPT !.slot[e] = b, !.pd[p] = d]
<1>1. bit = FALSE /\ bit \in BOOLEAN
  OBVIOUS
<1>2. Lost(m, p, e) = n
  BY DEF Lost
<1> HIDE DEF bit
<1>3. /\ e \in Slots /\ p \in PDAddr /\ m.slot[e] \in Entry /\ m.pd[p] \in GoodPD
      /\ m.slot[e].present
  BY BlockType DEF Good
<1>4. b \in Entry /\ SameEntry(b, m.slot[e]) /\ b.accessible = bit
  BY <1>1, <1>3, EntryUpdate, AccessibleOnly
<1>5. /\ d \in GoodPD /\ SameLinks(d, m.pd[p])
      /\ \A r \in Regions : d.mpu[r] = IF m.pd[p].mpu[r] \in {e} THEN NullSlot
                                       ELSE m.pd[p].mpu[r]
  BY <1>3, UnmapGood, UnmapLinks
<1> HIDE DEF b, d
<1>6. /\ n \in Good
      /\ \A f \in Slots : n.slot[f] = IF f = e THEN b ELSE m.slot[f]
      /\ \A q \in PDAddr : n.pd[q] = IF q = p THEN d ELSE m.pd[q]
  BY <1>3, <1>4, <1>5 DEF Good
<1> HIDE DEF n
<1>7. SameShape(m, n, L)
  BY <1>3, <1>4, <1>5, <1>6 DEF SameShape, SameEntry, SameLinks
<1>8. \A f \in Slots : n.slot[f].accessible <=> m.slot[f].accessible /\ f \notin {e}
  BY <1>1, <1>4, <1>6
<1>9. ASSUME NEW q \in L, NEW r \in Regions, n.pd[q].mpu[r] # NullSlot
      PROVE  /\ n.pd[q].mpu[r] = m.pd[q].mpu[r] /\ m.pd[q].mpu[r] \notin {e}
             /\ n.pd[q].mpu[r] \in BlocksIn(m, q)
  <2>1. n.pd[q].mpu[r] = m.pd[q].mpu[r] /\ (q = p => m.pd[q].mpu[r] # e)
    BY <1>5, <1>6, <1>9
  <2>2. m.pd[q].mpu[r] \in BlocksIn(m, q)
    BY <1>9, <2>1 DEF MPUMapsBlocks
  <2>3. m.pd[q].mpu[r] = e => q = p
    BY <2>2, OnePartition, BlockType
  <2> QED
    BY <2>1, <2>2, <2>3
<1>10. Hides(m, n, L, {e})
  BY <1>8, <1>9 DEF Hides
<1>11. MPUMapsBlocks(n, L)
  <2>1. \A q \in L : BlocksIn(n, q) = BlocksIn(m, q)
    BY <1>6, <1>7, ShapeSlots
  <2> QED
    BY <1>9, <2>1 DEF MPUMapsBlocks
<1> QED
  BY <1>2, <1>6, <1>7, <1>10, <1>11

\* One thing hidden after another.
LEMMA HidesTrans ==
  ASSUME NEW m, NEW n, NEW o, NEW L, NEW X, NEW Y, Hides(m, n, L, X), Hides(n, o, L, Y)
  PROVE  Hides(m, o, L, X \cup Y)
BY DEF Hides

\* From m to n no block of L is shown again, and what is hidden has the range
\* of e.
HidesOnly(m, n, L, e) ==
  \A x \in L : \A f \in BlocksIn(m, x) :
    /\ n.slot[f].accessible => m.slot[f].accessible
    /\ m.slot[f].accessible /\ ~ n.slot[f].accessible => SameRange(m.slot[f], m.slot[e])

\* hide: e, which may hold kernel data by now, and the ancestors' blocks over
\* it are inaccessible, and everything else is as it was.
LEMMA HideKeeps ==
  ASSUME NEW m \in Good, NEW L \in SUBSET PDAddr, Consistent(m, L),
         CopiesAccessible(m, L), MPUMapsAccessible(m, L),
         NEW p \in L, NEW e \in BlocksIn(m, p),
         \A q \in L : \A f \in BlocksIn(m, q) :
           m.slot[f].accessible /\ f # e => ~ IsKernel(m, q, f)
  PROVE  LET n == hide(m, p, e)
         IN  /\ n \in Good /\ SameShape(m, n, L) /\ ~ n.slot[e].accessible
             /\ Consistent(n, L) /\ Guarded(n, L) /\ HidesOnly(m, n, L, e)
<1> DEFINE l == Lost(m, p, e)
           s == l.slot[e].start
           t == l.slot[e].end
           n == hide(m, p, e)
           X == IF IsCut(l, e) THEN {e} ELSE {e} \cup Hits(l, p, s, t)
<1>1. /\ Tree(m, L) /\ Structures(m, L) /\ Ranges(m, L) /\ Shares(m, L)
      /\ Containment(m, L) /\ MPUMapsBlocks(m, L)
  BY DEF Consistent, MPUMapsAccessible, MPUMapsBlocks
<1>2. /\ l \in Good /\ SameShape(m, l, L) /\ Hides(m, l, L, {e}) /\ MPUMapsBlocks(l, L)
  BY <1>1, LostEffect
<1>3. n = writeAccessibleToAncestorsIfNotCutRec(l, p, e, FALSE)
  BY DEF hide, Lost
<1>4. n = IF IsCut(l, e) THEN l ELSE writeAccessibleRec(l, p, s, t, FALSE)
  BY <1>3 DEF writeAccessibleToAncestorsIfNotCutRec
<1> HIDE DEF l, n
<1>5. Consistent(l, L) /\ BlocksIn(l, p) = BlocksIn(m, p)
  BY <1>2, ShapeConsistent, ShapeSlots
<1>6. /\ Tree(l, L) /\ Structures(l, L) /\ Ranges(l, L) /\ Shares(l, L) /\ Containment(l, L)
  BY <1>5 DEF Consistent
<1>7. /\ n \in Good /\ SameShape(m, n, L) /\ Hides(m, n, L, X)
  <2>1. CASE IsCut(l, e)
    BY <1>2, <1>4, <2>1
  <2>2. CASE ~ IsCut(l, e)
    <3>1. Wrote(l, n, L, p, s, t, FALSE) /\ Hides(l, n, L, Hits(l, p, s, t))
      BY <1>2, <1>4, <1>5, <1>6, <2>2, WriteEffect, WriteHides
    <3>2. n \in Good /\ SameShape(l, n, L)
      BY <3>1 DEF Wrote
    <3> QED
      BY <1>2, <2>2, <3>1, <3>2, SameShapeTrans, HidesTrans
  <2> QED
    BY <2>1, <2>2
<1>8. ASSUME NEW q \in L, NEW f \in BlocksIn(m, q),
             m.slot[f].inChild # NullSlot, ~ IsCut(m, m.slot[f].inChild),
             m.slot[f].inChild \in X
      PROVE  f \in X
  <2> DEFINE h == m.slot[f].inChild
  <2>1. f \in BlocksIn(l, q) /\ l.slot[f].inChild = h
    BY <1>2, ShapeSlots DEF SameEntry
  <2>2. h \in Slots
    BY <1>1, <1>8, CopyRange, BlockType
  <2>3. ~ IsCut(l, h)
    BY <1>2, <1>8, <2>2 DEF IsCut, SameShape, SameEntry
  <2>4. ~ IsCut(l, e)
    BY <1>8, <2>3
  <2>5. h \in Hits(l, p, s, t) \cup {e}
    BY <1>8, <2>4
  <2>6. f \in Hits(l, p, s, t) \cup {e}
    <3>1. e \in BlocksIn(l, p)
      BY <1>5
    <3> HIDE DEF h, s, t
    <3>2. l.slot[e].start = s /\ l.slot[e].end = t
      BY DEF s, t
    <3> QED
      BY <1>2, <1>6, <1>8, <2>1, <2>3, <2>5, <3>1, <3>2, HitsClosed DEF h
  <2> QED
    BY <2>4, <2>6
<1>9. e \in X
  OBVIOUS
<1>14. ASSUME NEW x \in L, NEW f \in BlocksIn(m, x), f \in X
       PROVE  SameRange(m.slot[f], m.slot[e])
  <2>1. CASE f = e
    BY <2>1 DEF SameRange
  <2>2. CASE f # e
    <3>1. f \in Hits(l, p, s, t) /\ e \in BlocksIn(l, p)
      BY <1>5, <1>14, <2>2
    <3>2. l.slot[e].start = s /\ l.slot[e].end = t
      OBVIOUS
    <3> HIDE DEF s, t
    <3>3. SameRange(l.slot[f], l.slot[e])
      <4>1. \A g \in Hits(l, p, s, t) : \E q \in Above(l, p, s, t) :
              /\ q \in L \ {p} /\ g = findExactBlockInKS(l, q, s, t)
              /\ g \in BlocksIn(l, q) /\ SameRange(l.slot[g], l.slot[e])
        BY <1>2, <1>6, <3>1, <3>2, HitFacts
      <4> QED
        BY <3>1, <4>1
    <3>4. f \in Slots /\ e \in Slots
      BY BlockType
    <3> QED
      BY <1>2, <3>3, <3>4 DEF SameRange, SameShape, SameEntry
  <2> QED
    BY <2>1, <2>2
<1> HIDE DEF X
<1>10. \A q \in L : \A f \in BlocksIn(m, q) :
         m.slot[f].accessible /\ f \notin X => ~ IsKernel(m, q, f)
  BY <1>9
<1>11. Guarded(n, L)
  BY <1>7, <1>8, <1>10, HideGuarded
<1>12. ~ n.slot[e].accessible
  BY <1>7, <1>9, BlockType DEF Hides
<1>13. Consistent(n, L)
  BY <1>7, ShapeConsistent
<1>15. HidesOnly(m, n, L, e)
  <2>1. \A x \in L : \A f \in BlocksIn(m, x) : f \in Slots
    BY BlockType
  <2> QED
    BY <1>7, <1>14, <2>1 DEF Hides, HidesOnly
<1> QED
  BY <1>7, <1>11, <1>12, <1>13, <1>15 DEF n

-----------------------------------------------------------------------------
(* Blocks above and below one that is cut or shown again.                  *)

\* A child's block over the whole of the parent's is not cut.
LEMMA WholeUncut ==
  ASSUME NEW m \in Good, NEW L \in SUBSET PDAddr, Tree(m, L), Ranges(m, L),
         Cuts(m, L), Containment(m, L),
         NEW q \in L \ {RootPD}, NEW h \in BlocksIn(m, q),
         NEW f \in BlocksIn(m, m.pd[q].parent), IsPartOf(m, q, h, f),
         SameRange(m.slot[h], m.slot[f])
  PROVE  ~ IsCut(m, h)
<1> DEFINE n == m.slot[h].next
           p == m.pd[q].parent
<1>1. /\ m.slot[f].start = m.slot[h].origin /\ m.slot[f].start = m.slot[h].start
      /\ m.slot[f].end = m.slot[h].end
  BY DEF IsPartOf, SameRange
<1>2. SUFFICES ASSUME n # NullSlot PROVE FALSE
  BY <1>1 DEF IsCut
<1>3. /\ n \in BlocksIn(m, q) /\ m.slot[n].start = m.slot[h].end
      /\ m.slot[n].origin = m.slot[h].origin
  BY <1>2 DEF Cuts
<1>4. PICK g \in BlocksIn(m, p) : IsPartOf(m, q, n, g)
  BY <1>3 DEF Containment
<1>5. p \in L
  BY DEF Tree
<1> HIDE DEF n, p
<1>6. /\ m.slot[g].start = m.slot[f].start /\ m.slot[n].end <= m.slot[g].end
  BY <1>1, <1>3, <1>4 DEF IsPartOf, Within
<1>7. /\ m.slot[g].start \in Nat /\ m.slot[g].end \in Nat /\ m.slot[g].start < m.slot[g].end
      /\ m.slot[f].start \in Nat /\ m.slot[f].end \in Nat /\ m.slot[f].start < m.slot[f].end
      /\ m.slot[n].start \in Nat /\ m.slot[n].end \in Nat /\ m.slot[n].start < m.slot[n].end
  BY <1>3, <1>4, <1>5, BlockType, BlockRange DEF p
<1>8. g = f
  <2>1. Overlap(m.slot[g], m.slot[f])
    BY <1>6, <1>7 DEF Overlap
  <2> QED
    BY <1>4, <1>5, <2>1, SameBlock DEF p
<1> QED
  BY <1>1, <1>3, <1>6, <1>7, <1>8

\* A block that writeAccessibleRec hits above e is shared, and its copy is e
\* or another block hit.
LEMMA HitShared ==
  ASSUME NEW m \in Good, NEW L \in SUBSET PDAddr, Consistent(m, L),
         NEW p \in L, NEW e \in BlocksIn(m, p),
         NEW s, NEW t, m.slot[e].start = s, m.slot[e].end = t,
         NEW x \in L, NEW f \in BlocksIn(m, x), f \in Hits(m, p, s, t)
  PROVE  /\ ~ IsKernel(m, x, f) /\ m.slot[f].inChild # NullSlot
         /\ ~ IsCut(m, m.slot[f].inChild)
         /\ m.slot[f].inChild \in Hits(m, p, s, t) \cup {e}
<1> DEFINE H == Hits(m, p, s, t)
<1>0. /\ Tree(m, L) /\ Structures(m, L) /\ Ranges(m, L) /\ Cuts(m, L) /\ Shares(m, L)
      /\ Containment(m, L)
  BY DEF Consistent
<1>1. /\ \A g \in H : \E q \in L : g \in BlocksIn(m, q) /\ SameRange(m.slot[g], m.slot[e])
      /\ \A g \in H : \E y \in L \ {RootPD} : \E h \in BlocksIn(m, y) :
           /\ g \in BlocksIn(m, m.pd[y].parent)
           /\ h \in H \cup {e} /\ SameRange(m.slot[h], m.slot[e])
  <2>1. Tree(m, L) /\ Ranges(m, L)
    BY <1>0
  <2>2. \A g \in Hits(m, p, s, t) : \E q \in Above(m, p, s, t) :
                  /\ q \in L \ {p} /\ g = findExactBlockInKS(m, q, s, t)
                  /\ g \in BlocksIn(m, q) /\ SameRange(m.slot[g], m.slot[e])
    BY <2>1, HitFacts
  <2>3. \A g \in Hits(m, p, s, t) : \E y \in L \ {RootPD} : \E h \in BlocksIn(m, y) :
                  /\ g \in BlocksIn(m, m.pd[y].parent)
                  /\ h \in Hits(m, p, s, t) \cup {e} /\ SameRange(m.slot[h], m.slot[e])
    BY <2>1, HitFacts
  <2> QED
    BY <2>2, <2>3
<1>2. f \in H
  OBVIOUS
<1> HIDE DEF H
<1>3. PICK y \in L \ {RootPD} : \E h \in BlocksIn(m, y) :
        /\ f \in BlocksIn(m, m.pd[y].parent)
        /\ h \in H \cup {e} /\ SameRange(m.slot[h], m.slot[e])
  BY <1>1, <1>2
<1>4. PICK h \in BlocksIn(m, y) :
        /\ f \in BlocksIn(m, m.pd[y].parent)
        /\ h \in H \cup {e} /\ SameRange(m.slot[h], m.slot[e])
  BY <1>3
<1>5. SameRange(m.slot[h], m.slot[f])
  BY <1>1, <1>2, <1>4 DEF SameRange
<1>6. m.pd[y].parent \in L /\ m.pd[y].parent = x
  BY <1>0, <1>4, OnePartition, BlockType DEF Tree
<1>7. Overlap(m.slot[f], m.slot[h])
  BY <1>0, <1>4, <1>5, BlockType, BlockRange DEF SameRange, Overlap
<1>8. IsPartOf(m, y, h, f)
  BY <1>0, <1>4, <1>7, PartOf
<1>9. m.slot[f].inChild # NullSlot /\ m.slot[f].PDchild = y
  BY <1>8 DEF IsPartOf
<1>10. ~ IsCut(m, h)
  BY <1>0, <1>4, <1>5, <1>8, WholeUncut
<1>11. m.slot[f].inChild = h
  <2>1. /\ m.slot[f].inChild \in BlocksIn(m, y)
        /\ m.slot[m.slot[f].inChild].start = m.slot[f].start
    BY <1>0, <1>6, <1>9, CopyRange
  <2>2. Overlap(m.slot[m.slot[f].inChild], m.slot[h])
    BY <1>0, <1>5, <2>1, BlockType, BlockRange DEF SameRange, Overlap
  <2> QED
    BY <1>0, <2>1, <2>2, SameBlock
<1>12. ~ IsKernel(m, x, f)
  BY <1>9, KernelNotShared
<1> QED
  BY <1>4, <1>9, <1>10, <1>11, <1>12 DEF H

\* The update of the ancestors that cut makes: the blocks whose copy is e are
\* inaccessible from then on.
LEMMA ClearAbove ==
  ASSUME NEW m \in Good, NEW L \in SUBSET PDAddr, Consistent(m, L), Guarded(m, L),
         NEW p \in L, NEW e \in BlocksIn(m, p), m.slot[e].inChild = NullSlot
  PROVE  LET n == writeAccessibleToAncestorsIfNotCutRec(m, p, e, FALSE)
         IN  /\ n \in Good /\ SameShape(m, n, L) /\ Consistent(n, L) /\ Guarded(n, L)
             /\ \A f \in SlotsOf(m, p) : n.slot[f] = m.slot[f]
             /\ n.pd[p] = m.pd[p]
             /\ \A x \in L : \A o \in BlocksIn(m, x) :
                  m.slot[o].inChild = e => ~ n.slot[o].accessible
             /\ HidesOnly(m, n, L, e)
<1> DEFINE bit == FALSE
           s == m.slot[e].start
           t == m.slot[e].end
           n == writeAccessibleToAncestorsIfNotCutRec(m, p, e, bit)
           H == Hits(m, p, s, t)
<1>0. /\ Tree(m, L) /\ Structures(m, L) /\ Ranges(m, L) /\ Shares(m, L)
      /\ Containment(m, L) /\ MPUMapsBlocks(m, L) /\ e \in Slots
      /\ KernelBlocksHidden(m, L) /\ CopiesAccessible(m, L) /\ MPUMapsAccessible(m, L)
  BY BlockType DEF Consistent, Guarded, MPUMapsAccessible, MPUMapsBlocks
<1>b. bit = FALSE /\ bit \in BOOLEAN
  OBVIOUS
<1>1. CASE IsCut(m, e)
  <2>1. n = m
    BY <1>1 DEF writeAccessibleToAncestorsIfNotCutRec
  <2>2. SameShape(m, m, L)
    BY DEF SameShape, SameEntry, SameLinks
  <2>3. ASSUME NEW x \in L, NEW o \in BlocksIn(m, x), m.slot[o].inChild = e
        PROVE  ~ m.slot[o].accessible
    BY <1>0, <1>1, <2>3, NullSlotNoSlot DEF CopiesAccessible
  <2> QED
    BY <2>1, <2>2, <2>3 DEF HidesOnly
<1>2. CASE ~ IsCut(m, e)
  <2>1. n = writeAccessibleRec(m, p, s, t, bit)
    BY <1>2 DEF writeAccessibleToAncestorsIfNotCutRec
  <2>2. Hides(m, writeAccessibleRec(m, p, s, t, FALSE), L, H)
    <3> HIDE DEF s, t
    <3>1. m.slot[e].start = s /\ m.slot[e].end = t
      BY DEF s, t
    <3> QED
      BY <1>0, <3>1, WriteHides
  <2> HIDE DEF bit, s, t
  <2>3. m.slot[e].start = s /\ m.slot[e].end = t
    BY DEF s, t
  <2>4. Wrote(m, writeAccessibleRec(m, p, s, t, bit), L, p, s, t, bit)
    BY <1>0, <1>b, <2>3, WriteEffect
  <2>5. Hides(m, n, L, H)
    BY <1>b, <2>1, <2>2
  <2> HIDE DEF n
  <2>6. /\ n \in Good /\ SameShape(m, n, L)
        /\ \A f \in Slots : f \notin H => n.slot[f] = m.slot[f]
        /\ \A q \in PDAddr : q \notin Above(m, p, s, t) => n.pd[q] = m.pd[q]
    BY <2>1, <2>4 DEF Wrote
  <2>7. p \notin Above(m, p, s, t)
    BY <1>0, AboveFacts
  <2>8. \A g \in H : \E q \in L \ {p} : g \in BlocksIn(m, q)
    <3>1. \A g \in Hits(m, p, s, t) : \E q \in Above(m, p, s, t) :
                  /\ q \in L \ {p} /\ g = findExactBlockInKS(m, q, s, t)
                  /\ g \in BlocksIn(m, q) /\ SameRange(m.slot[g], m.slot[e])
      BY <1>0, <2>3, HitFacts
    <3> QED
      BY <3>1
  <2>9. \A f \in SlotsOf(m, p) : f \notin H /\ f \in Slots
    BY <1>0, <2>8, OnePartition, BlockType, SlotsOfType
  <2>10. ASSUME NEW x \in L, NEW o \in BlocksIn(m, x), m.slot[o].inChild # NullSlot,
                ~ IsCut(m, m.slot[o].inChild), m.slot[o].inChild \in H \cup {e}
         PROVE  o \in H
    <3>1. o \in H \cup {e}
      BY <1>0, <2>3, <2>10, HitsClosed
    <3> QED
      BY <2>10, <3>1
  <2>15. \A g \in H : SameRange(m.slot[g], m.slot[e])
    <3>1. \A g \in Hits(m, p, s, t) : \E q \in Above(m, p, s, t) :
                  /\ q \in L \ {p} /\ g = findExactBlockInKS(m, q, s, t)
                  /\ g \in BlocksIn(m, q) /\ SameRange(m.slot[g], m.slot[e])
      BY <1>0, <2>3, HitFacts
    <3> QED
      BY <3>1
  <2> HIDE DEF H
  <2>16. HidesOnly(m, n, L, e)
    <3>1. \A x \in L : \A f \in BlocksIn(m, x) : f \in Slots
      BY BlockType
    <3> QED
      BY <2>5, <2>15, <3>1 DEF Hides, HidesOnly
  <2>11. Guarded(n, L)
    <3>1. \A q \in L : \A f \in BlocksIn(m, q) :
            m.slot[f].accessible /\ f \notin H => ~ IsKernel(m, q, f)
      BY <1>0 DEF KernelBlocksHidden
    <3> QED
      BY <1>0, <2>5, <2>6, <2>10, <3>1, HideGuarded
  <2>12. Consistent(n, L)
    BY <2>6, ShapeConsistent
  <2>13. ASSUME NEW x \in L, NEW o \in BlocksIn(m, x), m.slot[o].inChild = e
         PROVE  ~ n.slot[o].accessible
    <3>1. o \in H /\ o \in Slots
      BY <1>0, <1>2, <2>10, <2>13, NullSlotNoSlot, BlockType
    <3> QED
      BY <2>5, <3>1 DEF Hides
  <2>14. /\ \A f \in SlotsOf(m, p) : n.slot[f] = m.slot[f]
         /\ n.pd[p] = m.pd[p]
    BY <2>6, <2>7, <2>9
  <2> QED
    BY <1>b, <2>6, <2>11, <2>12, <2>13, <2>14, <2>16 DEF n
<1> QED
  BY <1>1, <1>2

\* The update that merge, remove and delete make: what an ancestor sees again
\* is shared all the way down to e, which is accessible.
LEMMA ShowAbove ==
  ASSUME NEW m \in Good, NEW L \in SUBSET PDAddr, Consistent(m, L), Guarded(m, L),
         NEW p \in L, NEW e \in BlocksIn(m, p), m.slot[e].accessible,
         NEW s, NEW t, m.slot[e].start = s, m.slot[e].end = t
  PROVE  LET n == writeAccessibleRec(m, p, s, t, TRUE)
         IN  n \in Good /\ SameShape(m, n, L) /\ Consistent(n, L) /\ Guarded(n, L)
             /\ Shows(m, n, L, Hits(m, p, s, t))
<1> DEFINE bit == TRUE
           n == writeAccessibleRec(m, p, s, t, bit)
           H == Hits(m, p, s, t)
<1>0. Tree(m, L) /\ Ranges(m, L) /\ Structures(m, L) /\ Shares(m, L)
  BY DEF Consistent
<1>1. Shows(m, writeAccessibleRec(m, p, s, t, TRUE), L, H)
  BY <1>0, WriteShows
<1>b. bit = TRUE /\ bit \in BOOLEAN
  OBVIOUS
<1> HIDE DEF bit
<1>2. Wrote(m, n, L, p, s, t, bit)
  BY <1>0, <1>b, WriteEffect
<1>3. Shows(m, n, L, H)
  BY <1>1, <1>b
<1>4. ASSUME NEW x \in L, NEW f \in BlocksIn(m, x), f \in H
      PROVE  /\ ~ IsKernel(m, x, f)
             /\ m.slot[f].inChild # NullSlot =>
                  /\ ~ IsCut(m, m.slot[f].inChild)
                  /\ m.slot[m.slot[f].inChild].accessible \/ m.slot[f].inChild \in H
  <2>1. /\ ~ IsKernel(m, x, f) /\ m.slot[f].inChild # NullSlot
        /\ ~ IsCut(m, m.slot[f].inChild)
        /\ m.slot[f].inChild \in Hits(m, p, s, t) \cup {e}
    BY <1>4, HitShared
  <2> QED
    BY <2>1
<1> HIDE DEF n, H
<1>5. n \in Good /\ SameShape(m, n, L)
  BY <1>2 DEF Wrote
<1>6. Guarded(n, L)
  BY <1>3, <1>4, <1>5, ShowGuarded
<1>7. Consistent(n, L)
  BY <1>5, ShapeConsistent
<1> QED
  BY <1>3, <1>5, <1>6, <1>7, <1>b DEF n, H

-----------------------------------------------------------------------------
(* The free list.                                                          *)

\* The free slots of a partition are finitely many slots.
LEMMA FreeType ==
  ASSUME NEW m \in Good, NEW p \in PDAddr
  PROVE  /\ FreeIn(m, p) \in SUBSET Slots /\ IsFiniteSet(FreeIn(m, p))
         /\ NullSlot \notin FreeIn(m, p)
<1>1. FreeIn(m, p) \in SUBSET Slots
  BY SMTT(30), SlotsOfType, SlotsOfIs
<1> QED
  BY <1>1, SlotsFinite, FS_Subset, NullSlotNoSlot

\* insertNewEntry takes the head.
LEMMA FreePop ==
  ASSUME NEW m, NEW n, NEW p, FreeListOK(m, p), IsFiniteSet(FreeIn(m, p)),
         m.pd[p].firstFree \in FreeIn(m, p),
         FreeIn(n, p) = FreeIn(m, p) \ {m.pd[p].firstFree},
         \A e \in FreeIn(n, p) : n.slot[e] = m.slot[e],
         n.pd[p].firstFree = m.slot[m.pd[p].firstFree].nextFree,
         n.pd[p].nbFree = m.pd[p].nbFree - 1
  PROVE  FreeListOK(n, p)
<1> DEFINE free == FreeIn(m, p)
           head == m.pd[p].firstFree
           link(e) == m.slot[e].nextFree
<1>1. /\ m.pd[p].nbFree = Cardinality(free)
      /\ \A e \in free : /\ m.slot[e] = FreeEntry(link(e))
                         /\ link(e) \in (free \cup {NullSlot}) \ {head}
      /\ \A e, f \in free : link(e) = link(f) => e = f
      /\ \A S \in SUBSET free : S # {} => \E e \in S : link(e) \notin S
  BY DEF FreeListOK
<1>2. Cardinality(free \ {head}) = Cardinality(free) - 1
  BY FS_RemoveElement
<1>3. \A e \in FreeIn(n, p) : e \in free /\ e # head /\ n.slot[e].nextFree = link(e)
  OBVIOUS
<1>4. n.pd[p].firstFree = link(head) /\ FreeIn(n, p) = free \ {head} /\ head \in free
  OBVIOUS
<1>5. n.pd[p].nbFree = Cardinality(FreeIn(n, p))
  BY <1>1, <1>2, <1>4
<1>6. \A e \in FreeIn(n, p) : n.slot[e] = m.slot[e]
  OBVIOUS
<1> HIDE DEF free, head
<1>7. n.pd[p].firstFree \in FreeIn(n, p) \cup {NullSlot}
  BY <1>1, <1>4
<1>8. \A e \in FreeIn(n, p) :
        /\ n.slot[e] = FreeEntry(n.slot[e].nextFree)
        /\ n.slot[e].nextFree \in (FreeIn(n, p) \cup {NullSlot}) \ {n.pd[p].firstFree}
  BY <1>1, <1>3, <1>4, <1>6
<1>9. \A e, f \in FreeIn(n, p) : n.slot[e].nextFree = n.slot[f].nextFree => e = f
  BY <1>1, <1>3
<1>10. \A S \in SUBSET FreeIn(n, p) : S # {} => \E e \in S : n.slot[e].nextFree \notin S
  <2>1. ASSUME NEW S \in SUBSET FreeIn(n, p), S # {}
        PROVE  \E e \in S : n.slot[e].nextFree \notin S
    <3>1. S \in SUBSET free
      BY <1>3
    <3>2. PICK e \in S : link(e) \notin S
      BY <1>1, <2>1, <3>1
    <3> QED
      BY <1>3, <3>2
  <2> QED
    BY <2>1
<1> QED
  BY ZenonT(30), <1>5, <1>7, <1>8, <1>9, <1>10 DEF FreeListOK

\* The slots of C, linked by nl from a on, come before the free list.
IsSegment(C, nl, a, head) ==
  /\ IsFiniteSet(C) /\ a \in C /\ NullSlot \notin C
  /\ \A e \in C : nl[e] \in (C \cup {head}) \ {a}
  /\ \A e, f \in C : nl[e] = nl[f] => e = f
  /\ \A S \in SUBSET C : S # {} => \E e \in S : nl[e] \notin S

\* What is pushed in front of the free list joins it.
LEMMA FreePush ==
  ASSUME NEW m, NEW n, NEW p, FreeListOK(m, p), IsFiniteSet(FreeIn(m, p)),
         NEW C, NEW nl, NEW a, IsSegment(C, nl, a, m.pd[p].firstFree),
         C \cap FreeIn(m, p) = {}, FreeIn(n, p) = FreeIn(m, p) \cup C,
         \A e \in FreeIn(m, p) : n.slot[e] = m.slot[e],
         \A e \in C : n.slot[e] = FreeEntry(nl[e]),
         n.pd[p].firstFree = a, n.pd[p].nbFree = m.pd[p].nbFree + Cardinality(C)
  PROVE  FreeListOK(n, p)
<1> DEFINE free == FreeIn(m, p)
           head == m.pd[p].firstFree
           link(e) == m.slot[e].nextFree
<1>1. /\ m.pd[p].nbFree = Cardinality(free)
      /\ head \in free \cup {NullSlot}
      /\ \A e \in free : /\ m.slot[e] = FreeEntry(link(e))
                         /\ link(e) \in (free \cup {NullSlot}) \ {head}
      /\ \A e, f \in free : link(e) = link(f) => e = f
      /\ \A S \in SUBSET free : S # {} => \E e \in S : link(e) \notin S
  BY DEF FreeListOK
<1>2. /\ IsFiniteSet(C) /\ a \in C /\ NullSlot \notin C
      /\ \A e \in C : nl[e] \in (C \cup {head}) \ {a}
      /\ \A e, f \in C : nl[e] = nl[f] => e = f
      /\ \A S \in SUBSET C : S # {} => \E e \in S : nl[e] \notin S
  BY DEF IsSegment
<1>3. Cardinality(free \cup C) = Cardinality(free) + Cardinality(C)
  <2>1. free \cap C = {} /\ IsFiniteSet(free)
    OBVIOUS
  <2>2. Cardinality(free \cap C) = 0
    BY <2>1, FS_EmptySet
  <2>3. Cardinality(free) \in Nat /\ Cardinality(C) \in Nat
    BY <1>2, <2>1, FS_CardinalityType
  <2>4. Cardinality(free \cup C)
          = Cardinality(free) + Cardinality(C) - Cardinality(free \cap C)
    BY <1>2, <2>1, FS_Union
  <2> HIDE DEF free
  <2> QED
    BY <2>2, <2>3, <2>4
<1>4. /\ \A e \in free : n.slot[e].nextFree = link(e) /\ n.slot[e] = m.slot[e]
      /\ \A e \in C : n.slot[e].nextFree = nl[e] /\ n.slot[e] = FreeEntry(nl[e])
  BY DEF FreeEntry
<1>5. FreeIn(n, p) = free \cup C /\ C \cap free = {} /\ n.pd[p].firstFree = a
  OBVIOUS
<1>6. n.pd[p].nbFree = Cardinality(FreeIn(n, p))
  BY <1>1, <1>3
<1> HIDE DEF free, head
<1>7. n.pd[p].firstFree \in FreeIn(n, p) \cup {NullSlot}
  BY <1>2, <1>5
<1>8. \A e \in FreeIn(n, p) :
        /\ n.slot[e] = FreeEntry(n.slot[e].nextFree)
        /\ n.slot[e].nextFree \in (FreeIn(n, p) \cup {NullSlot}) \ {n.pd[p].firstFree}
  BY <1>1, <1>2, <1>4, <1>5
<1>9. \A e, f \in FreeIn(n, p) : n.slot[e].nextFree = n.slot[f].nextFree => e = f
  BY <1>1, <1>2, <1>4, <1>5
<1>10. \A S \in SUBSET FreeIn(n, p) : S # {} => \E e \in S : n.slot[e].nextFree \notin S
  <2>1. ASSUME NEW S \in SUBSET FreeIn(n, p), S # {}
        PROVE  \E e \in S : n.slot[e].nextFree \notin S
    <3>1. CASE S \cap free = {}
      <4>1. S \in SUBSET C
        BY <1>5, <3>1
      <4>2. PICK e \in S : nl[e] \notin S
        BY <1>2, <2>1, <4>1
      <4> QED
        BY <1>4, <4>1, <4>2
    <3>2. CASE S \cap free # {}
      <4>1. PICK e \in S \cap free : link(e) \notin S \cap free
        BY <1>1, <3>2
      <4>2. link(e) \notin C
        BY <1>1, <1>2, <1>5
      <4> QED
        BY <1>4, <1>5, <4>1, <4>2
    <3> QED
      BY <3>1, <3>2
  <2> QED
    BY <2>1
<1> QED
  BY <1>6, <1>7, <1>8, <1>9, <1>10 DEF FreeListOK

\* One slot is a segment.
LEMMA OneSegment ==
  ASSUME NEW e, e # NullSlot, NEW nl, NEW head, nl[e] = head, head # e
  PROVE  IsSegment({e}, nl, e, head) /\ Cardinality({e}) = 1
<1>1. IsFiniteSet({e}) /\ Cardinality({e}) = 1
  BY FS_Singleton
<1> QED
  BY <1>1 DEF IsSegment

\* The slots of a new structure, each linked to the next one.
LEMMA StructureSegment ==
  ASSUME NEW ks \in KSAddr, NEW head, head \notin {ks} \X (0 .. Entries - 1),
         NEW nl, \A i \in 0 .. Entries - 1 :
                   nl[<<ks, i>>] = IF i = Entries - 1 THEN head ELSE <<ks, i + 1>>
  PROVE  LET C == {ks} \X (0 .. Entries - 1)
         IN  IsSegment(C, nl, <<ks, 0>>, head) /\ Cardinality(C) = Entries
<1> DEFINE C == {ks} \X (0 .. Entries - 1)
<1>0. Entries \in Nat \ {0}
  BY ConstantsAssumption
<1>1. IsFiniteSet(C) /\ Cardinality(C) = Entries
  <2>1. IsFiniteSet({ks}) /\ Cardinality({ks}) = 1
    BY FS_Singleton
  <2>2. IsFiniteSet(0 .. Entries - 1) /\ Cardinality(0 .. Entries - 1) = Entries
    BY <1>0, FS_Interval
  <2>3. /\ IsFiniteSet({ks} \X (0 .. Entries - 1))
        /\ Cardinality({ks} \X (0 .. Entries - 1))
             = Cardinality({ks}) * Cardinality(0 .. Entries - 1)
    BY ONLY <2>1, <2>2, FS_Product
  <2>4. Cardinality({ks} \X (0 .. Entries - 1)) = 1 * Entries
    BY <2>1, <2>2, <2>3
  <2>5. 1 * Entries = Entries
    BY <1>0
  <2> QED
    BY <2>3, <2>4, <2>5
<1>2. NullSlot \notin C
  BY NullOutside DEF NullSlot, Null
<1>3. /\ \A e \in C : e = <<ks, e[2]>> /\ e[2] \in 0 .. Entries - 1
      /\ \A i \in 0 .. Entries - 1 : <<ks, i>> \in C
  OBVIOUS
<1>4. <<ks, 0>> \in C
  BY <1>0
<1> HIDE DEF C
<1>5. \A e \in C : nl[e] = IF e[2] = Entries - 1 THEN head ELSE <<ks, e[2] + 1>>
  <2>1. ASSUME NEW e \in C
        PROVE  nl[e] = IF e[2] = Entries - 1 THEN head ELSE <<ks, e[2] + 1>>
    <3> DEFINE i == e[2]
    <3>1. e = <<ks, i>> /\ i \in 0 .. Entries - 1
      BY <1>3
    <3> HIDE DEF i
    <3> QED
      BY <3>1
  <2> QED
    BY <2>1
<1>6. \A e \in C : nl[e] = head \/ (e[2] # Entries - 1 /\ nl[e] = <<ks, e[2] + 1>>)
  BY <1>5
<1>7. head \notin C
  BY DEF C
<1>8. ASSUME NEW e \in C
      PROVE  nl[e] \in (C \cup {head}) \ {<<ks, 0>>}
  <2> DEFINE i == e[2]
  <2>1. i \in 0 .. Entries - 1 /\ (nl[e] = head \/ (i # Entries - 1 /\ nl[e] = <<ks, i + 1>>))
    BY <1>3, <1>6
  <2> HIDE DEF i
  <2>2. CASE nl[e] = head
    BY <1>4, <1>7, <2>2
  <2>3. CASE i # Entries - 1 /\ nl[e] = <<ks, i + 1>>
    <3>1. i + 1 \in 0 .. Entries - 1 /\ i + 1 # 0
      BY <1>0, <2>1, <2>3
    <3> QED
      BY <1>3, <2>3, <3>1
  <2> QED
    BY <2>1, <2>2, <2>3
<1>9. ASSUME NEW e \in C, NEW f \in C, nl[e] = nl[f]
      PROVE  e = f
  <2> DEFINE i == e[2]
             j == f[2]
  <2>1. /\ i \in 0 .. Entries - 1 /\ e = <<ks, i>>
        /\ nl[e] = IF i = Entries - 1 THEN head ELSE <<ks, i + 1>>
        /\ j \in 0 .. Entries - 1 /\ f = <<ks, j>>
        /\ nl[f] = IF j = Entries - 1 THEN head ELSE <<ks, j + 1>>
    BY <1>3, <1>5
  <2> HIDE DEF i, j
  <2>2. i # Entries - 1 => <<ks, i + 1>> # head
    BY <1>0, <1>3, <1>7, <2>1
  <2>3. j # Entries - 1 => <<ks, j + 1>> # head
    BY <1>0, <1>3, <1>7, <2>1
  <2>4. i = j
    BY <1>0, <1>9, <2>1, <2>2, <2>3
  <2> QED
    BY <2>1, <2>4
<1>10. ASSUME NEW S \in SUBSET C, S # {}
       PROVE  \E e \in S : nl[e] \notin S
  <2> DEFINE D == {i \in 0 .. Entries - 1 : <<ks, Entries - 1 - i>> \in S}
  <2>1. D \in SUBSET Nat
    BY <1>0
  <2>2. D # {}
    <3>1. PICK e \in S : TRUE
      BY <1>10
    <3> DEFINE i == e[2]
    <3>2. e = <<ks, i>> /\ i \in 0 .. Entries - 1
      BY <1>3
    <3> HIDE DEF i
    <3>3. Entries - 1 - i \in 0 .. Entries - 1 /\ Entries - 1 - (Entries - 1 - i) = i
      BY <1>0, <3>2
    <3> QED
      BY <3>1, <3>2, <3>3
  <2>3. PICK j \in D : \A i \in D : j <= i
    BY <2>1, <2>2, LeastNat
  <2> DEFINE k == Entries - 1 - j
  <2>4. /\ k \in 0 .. Entries - 1 /\ <<ks, k>> \in S
        /\ \A i \in 0 .. Entries - 1 : i > k => <<ks, i>> \notin S
    <3>1. k \in 0 .. Entries - 1 /\ <<ks, k>> \in S
      BY <1>0
    <3>2. ASSUME NEW i \in 0 .. Entries - 1, i > k, <<ks, i>> \in S PROVE FALSE
      <4>1. Entries - 1 - i \in 0 .. Entries - 1 /\ Entries - 1 - (Entries - 1 - i) = i
            /\ Entries - 1 - i < j
        BY <1>0, <3>2
      <4>2. Entries - 1 - i \in D
        BY <3>2, <4>1
      <4>3. j <= Entries - 1 - i
        BY <2>3, <4>2
      <4>4. j \in Int
        BY <2>1
      <4> HIDE DEF k, D
      <4> QED
        BY <1>0, <4>1, <4>3, <4>4
    <3> QED
      BY <3>1, <3>2
  <2> HIDE DEF k, D
  <2>5. nl[<<ks, k>>] = IF k = Entries - 1 THEN head ELSE <<ks, k + 1>>
    BY <2>4
  <2>6. nl[<<ks, k>>] \notin S
    <3>1. head \notin S
      BY <1>7
    <3>2. k # Entries - 1 => k + 1 \in 0 .. Entries - 1 /\ k + 1 > k
      BY <1>0, <2>4
    <3> QED
      BY <2>4, <2>5, <3>1, <3>2
  <2> QED
    BY <2>4, <2>6
<1> QED
  BY <1>1, <1>2, <1>4, <1>8, <1>9, <1>10 DEF IsSegment, C
=============================================================================
