--------------------------- MODULE PipConsistency ----------------------------
(***************************************************************************)
(* The inductive invariant behind PipIsolation: what every service of      *)
(* src/core/Services.v keeps true of the kernel data, as long as nobody    *)
(* calls collect and every removal of a cut block completes.               *)
(*                                                                         *)
(* The predicates are over a memory m, so that they can be stated of the   *)
(* intermediate states of a service, and over a set L of partitions that   *)
(* contains the live ones.                                                 *)
(***************************************************************************)
EXTENDS PipIsolation

StructsOf(m, p)   == {m.pd[p].structs[n] : n \in DOMAIN m.pd[p].structs}
BlocksIn(m, p)    == {e \in SlotsOf(m, p) : m.slot[e].present}
FreeIn(m, p)      == {e \in SlotsOf(m, p) : ~ m.slot[e].present}
SameRange(b1, b2) == b1.start = b2.start /\ b1.end = b2.end
Within(b1, b2)    == b2.start <= b1.start /\ b1.end <= b2.end
Overlap(b1, b2)   == b1.start < b2.end /\ b2.start < b1.end

\* A block that holds a descriptor or a kernel structure.
IsKernel(m, p, e) ==
  \/ m.slot[e].PDflag
  \/ m.slot[e].PDchild # Null /\ m.slot[e].inChild = NullSlot
  \/ m.slot[e].start \in StructsOf(m, p)

-----------------------------------------------------------------------------
(* The partitions of L form a tree, each at home in a block of its parent. *)

Tree(m, L) ==
  /\ RootPD \in L /\ m.pd[RootPD].parent = Null
  /\ \A q \in L \ {RootPD} : m.pd[q].parent \in L
  /\ \A S \in SUBSET (L \ {RootPD}) :
       S # {} => \E q \in S : m.pd[q].parent \notin S

IsHome(m, L, p, e) ==
  LET b == m.slot[e]
  IN  /\ b.start \in L \ {RootPD} /\ m.pd[b.start].parent = p
      /\ b.PDchild = Null /\ b.inChild = NullSlot
      /\ Size(b) >= PDSize

Homes(m, L) ==
  /\ \A p \in L : \A e \in BlocksIn(m, p) :
       m.slot[e].PDflag => IsHome(m, L, p, e)
  /\ \A q \in L \ {RootPD} : \E e \in BlocksIn(m, m.pd[q].parent) :
       m.slot[e].start = q /\ m.slot[e].PDflag

\* A kernel structure starts a block of its partition or one the parent has
\* given for it.
HoldsStructure(m, p, q, e, k) ==
  LET b == m.slot[e]
  IN  /\ b.start = k /\ Size(b) >= KSSize
      /\ b.PDchild = (IF p = q THEN Null ELSE q)
      /\ b.inChild = NullSlot /\ ~ b.PDflag

Structures(m, L) ==
  /\ \A p, q \in L : p # q => StructsOf(m, p) \cap StructsOf(m, q) = {}
  /\ \A q \in L : \A k \in StructsOf(m, q) \ {RootKS} :
       \E p \in {q, m.pd[q].parent} \cap L :
         \E e \in BlocksIn(m, p) : HoldsStructure(m, p, q, e, k)

-----------------------------------------------------------------------------
(* Blocks: ranges, cuts and shares.                                        *)

WellFormed(b) ==
  /\ 1 <= b.origin /\ b.origin <= b.start /\ b.start < b.end /\ b.end <= Top + 1
  /\ "r" \in b.rights

Ranges(m, L) ==
  \A p \in L : \A e \in BlocksIn(m, p) :
    /\ WellFormed(m.slot[e])
    /\ \A f \in BlocksIn(m, p) : Overlap(m.slot[e], m.slot[f]) => e = f

Cuts(m, L) ==
  \A p \in L : \A e \in BlocksIn(m, p) :
    m.slot[e].next # NullSlot =>
      /\ m.slot[e].next \in BlocksIn(m, p)
      /\ m.slot[m.slot[e].next].start = m.slot[e].end
      /\ m.slot[m.slot[e].next].origin = m.slot[e].origin

IsShared(m, e) ==
  LET b == m.slot[e]
  IN  /\ b.PDchild # Null /\ ~ b.PDflag
      /\ b.inChild \in BlocksIn(m, b.PDchild)
      /\ m.slot[b.inChild].start = b.start /\ m.slot[b.inChild].origin = b.start

Shares(m, L) ==
  \A p \in L : \A e \in BlocksIn(m, p) :
    /\ m.slot[e].PDchild # Null =>
         /\ m.slot[e].PDchild \in L /\ m.pd[m.slot[e].PDchild].parent = p
    /\ m.slot[e].inChild # NullSlot => IsShared(m, e)

\* Block f of q is the block e of the parent, or a part of it.
IsPartOf(m, q, f, e) ==
  LET b == m.slot[f]
      a == m.slot[e]
  IN  /\ Within(b, a) /\ b.rights \subseteq a.rights
      /\ a.PDchild = q /\ a.inChild # NullSlot
      /\ a.start = b.origin
      /\ b.next = NullSlot => b.end = a.end

Containment(m, L) ==
  \A q \in L \ {RootPD} : \A f \in BlocksIn(m, q) :
    \E e \in BlocksIn(m, m.pd[q].parent) : IsPartOf(m, q, f, e)

\* nextFree links the free slots of p without a cycle from firstFree on.
FreeListOK(m, p) ==
  LET free == FreeIn(m, p)
      head == m.pd[p].firstFree
      link(e) == m.slot[e].nextFree
  IN  /\ m.pd[p].nbFree = Cardinality(free)
      /\ head \in free \cup {NullSlot}
      /\ \A e \in free : /\ m.slot[e] = FreeEntry(link(e))
                         /\ link(e) \in (free \cup {NullSlot}) \ {head}
      /\ \A e, f \in free : link(e) = link(f) => e = f
      /\ \A S \in SUBSET free : S # {} => \E e \in S : link(e) \notin S

FreeLists(m, L) == \A p \in L : FreeListOK(m, p)

Consistent(m, L) ==
  /\ Tree(m, L) /\ Homes(m, L) /\ Structures(m, L)
  /\ Ranges(m, L) /\ Cuts(m, L) /\ Shares(m, L) /\ Containment(m, L)
  /\ FreeLists(m, L)

-----------------------------------------------------------------------------
(* Who may access what.                                                    *)

KernelBlocksHidden(m, L) ==
  \A p \in L : \A e \in BlocksIn(m, p) :
    m.slot[e].accessible => ~ IsKernel(m, p, e)

CopiesAccessible(m, L) ==
  \A p \in L : \A e \in BlocksIn(m, p) :
    m.slot[e].accessible /\ m.slot[e].inChild # NullSlot =>
      ~ IsCut(m, m.slot[e].inChild) /\ m.slot[m.slot[e].inChild].accessible

MPUMapsAccessible(m, L) ==
  \A p \in L : \A r \in Regions :
    m.pd[p].mpu[r] # NullSlot =>
      /\ m.pd[p].mpu[r] \in BlocksIn(m, p) /\ m.slot[m.pd[p].mpu[r]].accessible
      /\ \A k \in Regions : m.pd[p].mpu[k] = m.pd[p].mpu[r] => k = r

Guarded(m, L) ==
  KernelBlocksHidden(m, L) /\ CopiesAccessible(m, L) /\ MPUMapsAccessible(m, L)

\* And the other way: a block is open when the copy of it is whole and open.
\* Nothing above rests on it; it says where the memory goes that an ancestor
\* takes back.
OpenAbove(m, L) ==
  \A p \in L : \A e \in BlocksIn(m, p) :
    /\ m.slot[e].inChild # NullSlot
    /\ ~ IsCut(m, m.slot[e].inChild) /\ m.slot[m.slot[e].inChild].accessible
    => m.slot[e].accessible

Sound(m) ==
  \E L \in SUBSET PDAddr : Consistent(m, L) /\ Guarded(m, L) /\ OpenAbove(m, L)

Consistency == Sound(Mem)

-----------------------------------------------------------------------------
(* When it is invariant.                                                   *)

\* No partition calls collect.
NoCollect == Callers["collect"] = {}

\* A removal of a cut block goes through: the update of the ancestors reaches
\* the root, and the service clears the share instead of returning early.
RemovalsComplete ==
  \A c \in Live : \A e \in SlotsOf(Mem, c) :
    removeCutBlock(c, e) => slot'[e].PDchild = Null

\* Only the root removes blocks; there is nothing above it to reach.
OnlyRootRemoves == Callers["remove"] \subseteq {RootPD}
=============================================================================
