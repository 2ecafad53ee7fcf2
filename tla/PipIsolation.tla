---------------------------- MODULE PipIsolation -----------------------------
(***************************************************************************)
(* What the memory services must keep true, whoever calls them and in what *)
(* order.  The properties follow proof/Isolation.v and proof/Consistency.v *)
(* of the repository, read over the live partitions of PipMemory.          *)
(***************************************************************************)
EXTENDS PipMemory

BlocksOf(p)   == {e \in SlotsOf(Mem, p) : slot[e].present}
Units(e)      == slot[e].start .. slot[e].end - 1
Mapped(p)     == UNION {Units(e) : e \in BlocksOf(p)}
Accessible(p) == UNION {Units(e) : e \in {f \in BlocksOf(p) : slot[f].accessible}}
Structs(p)    == {pd[p].structs[n] : n \in DOMAIN pd[p].structs}
\* Memory holding the descriptor and the kernel structures of p; the root's
\* first ones are kernel statics outside 1..Top.
Config(p) == (p .. p + PDSize - 1) \cup UNION {k .. k + KSSize - 1 : k \in Structs(p)}
Used(p)   == (Mapped(p) \cup Config(p)) \cap 1 .. Top
ChildrenOf(p) == Children(Mem, p)

-----------------------------------------------------------------------------
(* Isolation (proof/Isolation.v).                                          *)

\* No partition can access memory that holds kernel data of any partition.
\* createPartition and prepare hide a block here and in the ancestors; cut,
\* merge, remove, delete and collect decide when it may be shown again.
KernelDataIsolation ==
  \A p, q \in Live : Accessible(p) \cap Config(q) = {}

\* Two children of one partition never use the same memory: sharing records
\* one child per block, and a cut, a merge or a partial removal must not let
\* the same units be granted twice.
PartitionsIsolation ==
  \A p \in Live : \A a, b \in ChildrenOf(p) :
    a # b => Used(a) \cap Used(b) = {}

\* A child uses only memory its parent has mapped.
VerticalSharing ==
  \A p \in Live : \A a \in ChildrenOf(p) : Used(a) \subseteq Mapped(p)

-----------------------------------------------------------------------------
(* Consistency of the kernel data (proof/Consistency.v).                   *)

\* The blocks of a partition never overlap: cut splits a range, merge joins
\* two that touch, and no block is granted to a partition twice.
noDupMappedPaddrList ==
  \A p \in Live : \A e, f \in BlocksOf(p) :
    e # f => Units(e) \cap Units(f) = {}

\* A block recorded as shared is a block of a live child: the slot it points
\* to is present there, starts at the same address, keeps that address as its
\* origin and, when the child has not cut it, covers the same range.
sharedBlockIsInChild ==
  \A p \in Live : \A e \in BlocksOf(p) :
    slot[e].inChild # NullSlot =>
      LET q == slot[e].PDchild
          f == slot[e].inChild
      IN  /\ q \in ChildrenOf(p)
          /\ f \in BlocksOf(q)
          /\ slot[f].start = slot[e].start /\ slot[f].origin = slot[e].start
          /\ IF IsCut(Mem, f) THEN slot[f].end < slot[e].end
             ELSE slot[f].end = slot[e].end

\* Every block of a child lies in one block of its parent, which records the
\* child and, unless the ranges are equal, is inaccessible.
childsBlocksPropsInParent ==
  \A p \in Live : \A q \in ChildrenOf(p) : \A f \in BlocksOf(q) :
    \E e \in BlocksOf(p) :
      /\ Units(f) \subseteq Units(e)
      /\ slot[e].PDchild = q /\ slot[e].inChild # NullSlot /\ ~ slot[e].PDflag
      /\ slot[e].start = slot[f].origin
      /\ slot[f].start = slot[e].start => slot[e].inChild = f
      /\ Units(f) # Units(e) => ~ slot[e].accessible

\* A block without a child is not mapped in any child.
noChildImpliesAddressesNotShared ==
  \A p \in Live : \A e \in BlocksOf(p) :
    slot[e].PDchild = Null =>
      \A q \in ChildrenOf(p) : Units(e) \cap Mapped(q) = {}

\* A shared block accessible here is accessible in the child: whoever takes
\* it away below has told every ancestor.
accessibleParentPaddrIsAccessibleIntoChild ==
  \A p \in Live : \A e \in BlocksOf(p) :
    slot[e].accessible /\ slot[e].inChild # NullSlot =>
      LET f == slot[e].inChild
      IN  ~ IsCut(Mem, f) /\ slot[f].accessible

\* A block that a child has whole and may access is accessible in the parent:
\* what hides it above hides it below, and merge, remove and delete show it
\* again to every ancestor that has it whole.  proof/Consistency.v states this
\* of every address and has it commented out: of a cut block it is false.
accessibleChildPaddrIsAccessibleIntoParent ==
  \A p \in Live : \A q \in ChildrenOf(p) :
    \A e \in BlocksOf(p), f \in BlocksOf(q) :
      Units(f) = Units(e) /\ slot[f].accessible => slot[e].accessible

\* "if accessible, then PDflag can't be set": the checks of createPartition,
\* cut, merge, prepare and add rely on it and skip the flag.
AccessibleNoPDFlag ==
  \A p \in Live : \A e \in BlocksOf(p) :
    slot[e].accessible => ~ slot[e].PDflag /\ slot[e].start \notin Live

\* Subblocks follow each other: the next subblock belongs to the same
\* partition, starts where this one ends and has the same origin.
CutBlocksContiguous ==
  \A p \in Live : \A e \in BlocksOf(p) :
    slot[e].next # NullSlot =>
      /\ slot[e].next \in BlocksOf(p) \ {e}
      /\ slot[slot[e].next].start = slot[e].end
      /\ slot[slot[e].next].origin = slot[e].origin

\* The free list of a live partition holds each free slot of its structures
\* exactly once, in its default state, and nbFree is its length.
\* insertNewEntry trusts the head of the list without looking at it.
FreeListExact ==
  \A p \in Live :
    LET list == FreeList(Mem, p)
        free == {e \in SlotsOf(Mem, p) : ~ slot[e].present}
        n    == Cardinality(free)
    IN  /\ pd[p].nbFree = n
        /\ {list[k] : k \in 0 .. n - 1} = free
        /\ list[n] = NullSlot
        /\ \A e \in free : slot[e] = FreeEntry(slot[e].nextFree)

\* The free list of a partition stays in its own kernel structures: what
\* collect gives back to the parent must be out of the list, or the next
\* insertion writes a kernel entry into memory the parent uses.
inclFreeSlotsBlockEntries ==
  \A p \in Live : Reached([e \in Slots |-> slot[e].nextFree], pd[p].firstFree)
                   \subseteq SlotsOf(Mem, p) \cup {NullSlot}

\* The partitions form a tree: a live partition other than the root is a
\* child of its recorded parent and of no one else, through one block, and
\* its structures are used by no other partition.
PartitionTree ==
  \A q \in Live :
    /\ q # RootPD => /\ {p \in Live : q \in ChildrenOf(p)} = {pd[q].parent}
                     /\ \E e \in BlocksOf(pd[q].parent) :
                          slot[e].start = q /\ slot[e].PDflag
    /\ \A p \in Live : p # q => Structs(p) \cap Structs(q) = {}

\* The searches run with fuel maxNbPrepare: no live partition has more
\* structures than that, and nbPrepare counts them.
maxNbPrepareIsMaxNbKernels ==
  \A p \in PDAddr : /\ Len(pd[p].structs) = pd[p].nbPrepare
                    /\ pd[p].nbPrepare <= MaxPrepare

\* findBlock looks the result buffer up in the searched partition and then as a
\* slot of the caller.  When it answers, whatever structures were given back or
\* taken over in the meantime, the answer starts in memory that the caller may
\* access and that holds no kernel data.
FindBlockWritesAtHome ==
  \A c \in Live, r \in 1 .. Top : \A t \in CurrentOrChild(c) :
    (\E a \in 1 .. Top : findBlock(c, t, a, r)) =>
      r \in Accessible(c) \ UNION {Config(q) : q \in Live}

-----------------------------------------------------------------------------
(* MPU, rights and VIDT.                                                   *)

\* The MPU of a partition maps only blocks it owns and may access, each in
\* one region.
MPUFromAccessibleBlocks ==
  \A p \in Live : \A r \in Regions :
    LET e == pd[p].mpu[r]
    IN  e # NullSlot =>
          /\ e \in BlocksOf(p) /\ slot[e].accessible
          /\ \A k \in Regions \ {r} : pd[p].mpu[k] # e

\* A child never has a right on a unit of memory its parent does not have.
RightsNeverGrow ==
  \A p \in Live : \A q \in ChildrenOf(p) :
    \A e \in BlocksOf(p), f \in BlocksOf(q) :
      Units(e) \cap Units(f) # {} => slot[f].rights \subseteq slot[e].rights

VidtUnits(p) == pd[p].vidt .. pd[p].vidt + VidtSize - 1

\* Units that a partition other than p may use and has not shared.
Reclaimed(p) ==
  UNION {Units(e) : e \in {f \in UNION {BlocksOf(q) : q \in Live \ {p}} :
                             slot[f].accessible /\ slot[f].inChild = NullSlot}}

\* A VIDT is put into memory of its partition, or stays where it is and at
\* most loses memory to a partition that uses it now.
VIDTStays ==
  \A p \in Live \cap Live' : pd'[p].vidt # Null =>
    \/ VidtUnits(p)' \subseteq Mapped(p)'
    \/ /\ pd'[p].vidt = pd[p].vidt
       /\ VidtUnits(p) \subseteq Mapped(p)
            => VidtUnits(p) \ Mapped(p)' \subseteq Reclaimed(p)'

\* The VIDT of a partition, where the kernel reads the addresses it saves
\* contexts to, lies in memory of the partition when setVIDT has set it.
\* Nothing cut, merged, shared, given to the kernel or deleted later takes it
\* away from there; only an ancestor that takes its memory back does, for its
\* own use.
VIDTInMappedMemory == [][VIDTStays]_vars
=============================================================================
