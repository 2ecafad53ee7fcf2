--------------------------- MODULE PipKernelData ----------------------------
(***************************************************************************)
(* The kernel data of Pip-MPU: partition descriptors and kernel structures *)
(* (src/arch/dwm1001/MAL/include/ADT.h), and the searches in them          *)
(* (src/core/Internal.v).                                                  *)
(*                                                                         *)
(* Addresses are 32-byte units (the alignment of every cut); unit 0 is the *)
(* null address.  A block covers start .. end-1.                           *)
(***************************************************************************)
EXTENDS Integers, Sequences, FiniteSets

CONSTANTS
  Top,          \* last unit of memory
  RAM,          \* units between __ramStart and __ramEnd
  RootPD,       \* the root's descriptor, a kernel static outside 1..Top
  RootKS,       \* the root's first kernel structure, another kernel static
  RootBlocks,   \* the blocks given to the root at boot, in insertion order
  RootVidt,     \* __rootVidtStart
  Entries,      \* KERNELSTRUCTUREENTRIESNB, slots of a kernel structure
  MaxPrepare,   \* MAXNBPREPARE, kernel structures of a partition
  Regions,      \* MPU region numbers, 0 .. MPU_REGIONS_NB - 1
  MinBlock,     \* smallest MPU region, in units
  PDSize,       \* units of a partition descriptor
  KSSize,       \* units of a kernel structure
  VidtSize      \* units of a VIDT

\* Bounds of an instance: where blocks may become descriptors and kernel
\* structures, where they may be cut, where a VIDT may be set, the rights a
\* parent grants, and the partitions that call each service.
CONSTANTS PDHomes, KSHomes, CutPoints, VidtPoints, GrantRights, Callers

VARIABLES
  slot,   \* slot address -> its BlockEntry, Sh1Entry and SCEntry
  pd      \* partition descriptor address -> its PDTable

vars == <<slot, pd>>

Null     == 0
NullSlot == <<0, 0>>
NoRegion == -1

PDAddr  == PDHomes \cup {RootPD}
KSAddr  == KSHomes \cup {RootKS}
Slots   == KSAddr \X (0 .. Entries - 1)
SlotRef == Slots \cup {NullSlot}
Rights  == {"r", "w", "x"}
Services == {"create", "cut", "merge", "prepare", "add", "remove", "delete",
             "collect", "map", "setVIDT"}

ASSUME ConstantsAssumption ==
  /\ Top \in Nat /\ RAM \subseteq 1 .. Top
  /\ PDHomes \subseteq 1 .. Top /\ KSHomes \subseteq 1 .. Top
  /\ RootPD \in Nat \ (0 .. Top) /\ RootKS \in Nat \ (0 .. Top)
  /\ Entries \in Nat \ {0} /\ MaxPrepare \in Nat \ {0}
  /\ Regions \subseteq Nat
  /\ MinBlock \in Nat /\ VidtSize \in Nat
  /\ PDSize \in Nat \ {0} /\ KSSize \in Nat \ {0}
  /\ CutPoints \subseteq 1 .. Top /\ VidtPoints \subseteq 1 .. Top
  /\ GrantRights \subseteq SUBSET Rights
  /\ Callers \in [Services -> SUBSET PDAddr]

ASSUME RootAssumption ==
  /\ RootVidt \in 0 .. Top
  /\ RootBlocks \in Seq([start : 1 .. Top, end : 1 .. Top + 1,
                         rights : SUBSET Rights])
  /\ Len(RootBlocks) <= Entries

\* The blocks the linker script lays out (__mpuRegion0 .. 2) are not empty and
\* lie apart, and malinit.c makes each of them readable.
ASSUME BootAssumption ==
  /\ \A n \in DOMAIN RootBlocks :
       /\ RootBlocks[n].start < RootBlocks[n].end
       /\ "r" \in RootBlocks[n].rights
  /\ \A n, k \in DOMAIN RootBlocks :
       n # k => \/ RootBlocks[n].end <= RootBlocks[k].start
                \/ RootBlocks[k].end <= RootBlocks[n].start

-----------------------------------------------------------------------------
(* Kernel data.                                                            *)

\* BlockEntry, Sh1Entry and SCEntry of one slot.  A free slot keeps the link
\* to the next free slot in its end field; here that link is nextFree.
Entry == [start : 0 .. Top + 1, end : 0 .. Top + 1,
          present : BOOLEAN, accessible : BOOLEAN, rights : SUBSET Rights,
          PDchild : PDAddr \cup {Null}, inChild : SlotRef, PDflag : BOOLEAN,
          origin : 0 .. Top + 1, next : SlotRef, nextFree : SlotRef]

FreeEntry(link) ==
  [start |-> 0, end |-> 0, present |-> FALSE, accessible |-> FALSE,
   rights |-> {}, PDchild |-> Null, inChild |-> NullSlot, PDflag |-> FALSE,
   origin |-> 0, next |-> NullSlot, nextFree |-> link]

\* PDTable.  The list of kernel structures, linked by their next fields, is
\* the sequence structs with the head first.
Descriptor == [parent : PDAddr \cup {Null}, structs : Seq(KSAddr),
               firstFree : SlotRef, nbFree : Int, nbPrepare : Nat,
               mpu : [Regions -> SlotRef], vidt : 0 .. Top]

EmptyPD == [parent |-> Null, structs |-> <<>>, firstFree |-> NullSlot,
            nbFree |-> 0, nbPrepare |-> 0,
            mpu |-> [r \in Regions |-> NullSlot], vidt |-> 0]

\* The state a service computes on, and its effect.
Memory  == [slot : [Slots -> Entry], pd : [PDAddr -> Descriptor]]
Mem     == [slot |-> slot, pd |-> pd]
Commit(m) == slot' = m.slot /\ pd' = m.pd

TypeOK == Mem \in Memory

-----------------------------------------------------------------------------
(* Lookups.                                                                *)

\* f followed from x: x, f[x], f[f[x]] ... for as long as f is defined.
Chain(f, x) ==
  LET at[n \in Nat] ==
        IF n = 0 THEN x
        ELSE LET y == at[n - 1] IN IF y \in DOMAIN f THEN f[y] ELSE y
  IN  [n \in 0 .. Cardinality(DOMAIN f) |-> at[n]]

Reached(f, x) == LET at == Chain(f, x) IN {at[n] : n \in DOMAIN at}

SlotsOf(m, p) ==
  LET structs == m.pd[p].structs
  IN  {structs[n] : n \in DOMAIN structs} \X (0 .. Entries - 1)

IsFound(m, p, e) == e \in SlotsOf(m, p) /\ m.slot[e].present

\* f comes before e when the structures of p are scanned from the list head,
\* each from its first slot.
Precedes(m, p, f, e) ==
  \/ f[1] = e[1] /\ f[2] < e[2]
  \/ /\ f[1] # e[1]
     /\ \E n \in DOMAIN m.pd[p].structs :
          /\ m.pd[p].structs[n] = f[1]
          /\ \A k \in 1 .. n : m.pd[p].structs[k] # e[1]

FirstMatch(m, p, Match(_)) ==
  LET hits  == {e \in SlotsOf(m, p) : m.slot[e].present /\ Match(m.slot[e])}
      first == {e \in hits : \A f \in hits : ~ Precedes(m, p, f, e)}
  IN  IF first = {} THEN NullSlot ELSE CHOOSE e \in first : TRUE

\* A plausible mistake, not part of the specification.
EndIncluded(m, p, a) == FirstMatch(m, p, LAMBDA b : b.start <= a /\ a <= b.end)

findBlockInKS(m, p, s)         == FirstMatch(m, p, LAMBDA b : b.start = s)
findExactBlockInKS(m, p, s, t) ==
  FirstMatch(m, p, LAMBDA b : b.start = s /\ b.end = t)
findBelongingBlock(m, p, a)    ==
  FirstMatch(m, p, LAMBDA b : b.start <= a /\ a < b.end)

Size(b)       == b.end - b.start
InRAM(b)      == b.start .. b.end - 1 \subseteq RAM
Children(m, p) ==
  {m.slot[e].start : e \in {f \in SlotsOf(m, p) : m.slot[f].present /\ m.slot[f].PDflag}}

\* The partitions that can be current: the root and, transitively, the
\* children registered in a live partition.
Live ==
  LET gen[n \in Nat] ==
        IF n = 0 THEN {RootPD}
        ELSE LET older == gen[n - 1]
             IN  older \cup UNION {Children(Mem, p) : p \in older \cap PDAddr}
  IN  gen[Cardinality(PDAddr)] \cap PDAddr
=============================================================================
