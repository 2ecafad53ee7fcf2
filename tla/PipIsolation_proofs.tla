------------------------- MODULE PipIsolation_proofs -------------------------
(***************************************************************************)
(* The properties of PipIsolation, and that the services do to the memory  *)
(* of the partitions what PipAbstract allows them, for every value of the  *)
(* constants.                                                              *)
(*                                                                         *)
(* Consistency is inductive for the services other than collect, as long   *)
(* as every removal of a cut block completes; each property follows from   *)
(* it.  collect breaks the free lists, and a removal that returns before   *)
(* it has cleared the share leaves a link to a freed slot: both are what   *)
(* the code does, and the theorems say so in their hypotheses.             *)
(***************************************************************************)
EXTENDS PipRefinement, PipServices_proofs

-----------------------------------------------------------------------------
(* The partitions of a call.                                               *)

\* The partitions the calls may come from and name are in any such set.
LEMMA LiveIn ==
  ASSUME NEW L \in SUBSET PDAddr, Consistent(Mem, L)
  PROVE  Live \subseteq L
<1>1. RootPD \in L /\ Homes(Mem, L)
  BY DEF Consistent, Tree
<1>2. \A p \in L \cap PDAddr : Children(Mem, p) \cap PDAddr \subseteq L
  BY <1>1, ChildFacts
<1> QED
  BY <1>1, <1>2, LiveLeast, LiveIsLiveOf

\* That set is the live partitions: each of its partitions hangs below the
\* root, by the homes and since the parents make no cycle.
LEMMA LiveExact ==
  ASSUME NEW m, NEW L \in SUBSET PDAddr, Tree(m, L), Homes(m, L)
  PROVE  L = LiveOf(m)
<1>1. LiveOf(m) \subseteq L
  <2>1. \A p \in L \cap PDAddr : Children(m, p) \cap PDAddr \subseteq L
    BY ChildFacts
  <2> QED
    BY <2>1, LiveLeast DEF Tree
<1>2. RootPD \in LiveOf(m)
  BY LiveParent
<1> DEFINE S == L \ LiveOf(m)
<1>3. S \in SUBSET (L \ {RootPD})
  BY <1>2
<1>4. ASSUME NEW q \in S, m.pd[q].parent \notin S PROVE FALSE
  <2>1. m.pd[q].parent \in LiveOf(m)
    BY <1>2, <1>4 DEF Tree
  <2>2. PICK e \in BlocksIn(m, m.pd[q].parent) : m.slot[e].start = q /\ m.slot[e].PDflag
    BY <1>2 DEF Homes
  <2>3. q \in Children(m, m.pd[q].parent)
    BY <2>2, SlotsOfIs DEF Children, BlocksIn, IsFound
  <2> QED
    BY <2>1, <2>3, LiveClosed
<1>5. S = {}
  <2> HIDE DEF S
  <2> QED
    BY <1>3, <1>4 DEF Tree
<1> QED
  BY <1>1, <1>5

\* A partition a service is called for.
LEMMA TargetIn ==
  ASSUME NEW L \in SUBSET PDAddr, Consistent(Mem, L), NEW c \in L,
         NEW t \in CurrentOrChild(c)
  PROVE  t \in L
<1>1. Homes(Mem, L)
  BY DEF Consistent
<1> QED
  BY <1>1, ChildFacts DEF CurrentOrChild

-----------------------------------------------------------------------------
(* The boot of the root partition.                                         *)

\* The root's structure after boot: n blocks, then free slots in order.
IsBooted(m, n) ==
  /\ m \in Good /\ n = Len(RootBlocks) /\ n \in 0 .. Entries
  /\ m.pd[RootPD].parent = Null
  /\ StructsOf(m, RootPD) = {RootKS}
  /\ m.pd[RootPD].nbFree = Entries - n
  /\ m.pd[RootPD].firstFree = IF n = Entries THEN NullSlot ELSE <<RootKS, n>>
  /\ \A r \in Regions : m.pd[RootPD].mpu[r] = IF r < n THEN <<RootKS, r>> ELSE NullSlot
  /\ \A i \in 0 .. Entries - 1 : <<RootKS, i>> \in Slots
  /\ \A i \in 0 .. n - 1 :
       LET b == m.slot[<<RootKS, i>>]
           d == RootBlocks[i + 1]
       IN  /\ b.start = d.start /\ b.end = d.end /\ b.origin = d.start
           /\ b.rights = d.rights /\ b.present /\ b.accessible
           /\ b.PDchild = Null /\ b.inChild = NullSlot /\ ~ b.PDflag
           /\ b.next = NullSlot
  /\ \A i \in n .. Entries - 1 :
       m.slot[<<RootKS, i>>] = FreeEntry(IF i = Entries - 1 THEN NullSlot
                                         ELSE <<RootKS, i + 1>>)

\* What boot leaves behind.
LEMMA InitFacts ==
  ASSUME Init
  PROVE  IsBooted(Mem, Len(RootBlocks))
<1> DEFINE n == Len(RootBlocks)
<1>1. n \in 0 .. Entries /\ Entries \in Nat \ {0} /\ Mem \in Good
  BY RootAssumption, ConstantsAssumption, LenProperties, InitGood DEF IInv
<1>2. Mem.slot = slot /\ Mem.pd = pd
  BY DEF Mem
<1>3. ASSUME NEW i \in 0 .. Entries - 1
      PROVE  <<RootKS, i>> \in Slots
  BY <1>3 DEF Slots, KSAddr
<1>4. ASSUME NEW i \in 0 .. Entries - 1
      PROVE  slot[<<RootKS, i>>] =
               IF i < n
               THEN [FreeEntry(NullSlot) EXCEPT
                       !.start = RootBlocks[i + 1].start,
                       !.end = RootBlocks[i + 1].end,
                       !.origin = RootBlocks[i + 1].start,
                       !.rights = RootBlocks[i + 1].rights,
                       !.present = TRUE, !.accessible = TRUE]
               ELSE FreeEntry(IF i = Entries - 1 THEN NullSlot ELSE <<RootKS, i + 1>>)
  <2>1. <<RootKS, i>> \in Slots
    BY <1>3
  <2>2. <<RootKS, i>>[1] = RootKS /\ <<RootKS, i>>[2] = i
    OBVIOUS
  <2> QED
    BY <2>1, <2>2 DEF Init
<1>5. ASSUME NEW i \in 0 .. n - 1
      PROVE  LET b == slot[<<RootKS, i>>]
                 d == RootBlocks[i + 1]
             IN  /\ b.start = d.start /\ b.end = d.end /\ b.origin = d.start
                 /\ b.rights = d.rights /\ b.present /\ b.accessible
                 /\ b.PDchild = Null /\ b.inChild = NullSlot /\ ~ b.PDflag
                 /\ b.next = NullSlot
  <2> DEFINE d == RootBlocks[i + 1]
  <2>1. i \in 0 .. Entries - 1 /\ i < n
    BY <1>1
  <2>2. slot[<<RootKS, i>>] = [FreeEntry(NullSlot) EXCEPT
           !.start = d.start, !.end = d.end, !.origin = d.start, !.rights = d.rights,
           !.present = TRUE, !.accessible = TRUE]
    BY <1>4, <2>1
  <2> HIDE DEF d
  <2>3. LET b == slot[<<RootKS, i>>]
        IN  /\ b.start = d.start /\ b.end = d.end /\ b.origin = d.start
            /\ b.rights = d.rights /\ b.present /\ b.accessible
            /\ b.PDchild = Null /\ b.inChild = NullSlot /\ ~ b.PDflag
            /\ b.next = NullSlot
    BY <2>2 DEF FreeEntry
  <2> QED
    BY <2>3 DEF d
<1>6. ASSUME NEW i \in n .. Entries - 1
      PROVE  slot[<<RootKS, i>>] = FreeEntry(IF i = Entries - 1 THEN NullSlot
                                             ELSE <<RootKS, i + 1>>)
  <2>1. i \in 0 .. Entries - 1 /\ ~ i < n
    BY <1>1
  <2> QED
    BY <1>4, <2>1
<1>7. pd[RootPD] = [EmptyPD EXCEPT
                      !.structs = <<RootKS>>, !.nbPrepare = 1,
                      !.nbFree = Entries - n,
                      !.firstFree = IF n = Entries THEN NullSlot ELSE <<RootKS, n>>,
                      !.mpu = [r \in Regions |-> IF r < n THEN <<RootKS, r>>
                                                 ELSE NullSlot],
                      !.vidt = RootVidt]
  BY NullOutside DEF Init
<1> DEFINE f == IF n = Entries THEN NullSlot ELSE <<RootKS, n>>
           g == [r \in Regions |-> IF r < n THEN <<RootKS, r>> ELSE NullSlot]
           k == Entries - n
<1>8. pd[RootPD] = [EmptyPD EXCEPT !.structs = <<RootKS>>, !.nbPrepare = 1, !.nbFree = k,
                      !.firstFree = f, !.mpu = g, !.vidt = RootVidt]
  BY <1>7
<1> HIDE DEF f, g, k
<1>9. /\ pd[RootPD].parent = Null /\ pd[RootPD].structs = <<RootKS>>
      /\ pd[RootPD].nbFree = k /\ pd[RootPD].firstFree = f /\ pd[RootPD].mpu = g
  BY <1>8 DEF EmptyPD
<1>10. StructsOf(Mem, RootPD) = {RootKS}
  <2>1. Mem.pd[RootPD].structs = <<RootKS>>
    BY <1>2, <1>9
  <2>2. DOMAIN <<RootKS>> = {1} /\ <<RootKS>>[1] = RootKS
    OBVIOUS
  <2> QED
    BY <2>1, <2>2 DEF StructsOf
<1> HIDE DEF n
<1> QED
  BY <1>1, <1>2, <1>3, <1>5, <1>6, <1>9, <1>10 DEF IsBooted, f, g, k, n

\* The slots of the root after boot.
LEMMA BootSlots ==
  ASSUME NEW m, NEW n, IsBooted(m, n)
  PROVE  /\ BlocksIn(m, RootPD) = {RootKS} \X (0 .. n - 1)
         /\ FreeIn(m, RootPD) = {RootKS} \X (n .. Entries - 1)
         /\ \A i \in 0 .. n - 1 : <<RootKS, i>> \in BlocksIn(m, RootPD)
         /\ \A i \in n .. Entries - 1 : <<RootKS, i>> \in FreeIn(m, RootPD)
         /\ \A e \in BlocksIn(m, RootPD) : e = <<RootKS, e[2]>> /\ e[2] \in 0 .. n - 1
         /\ \A e \in FreeIn(m, RootPD) : e = <<RootKS, e[2]>> /\ e[2] \in n .. Entries - 1
<1>1. n \in 0 .. Entries /\ Entries \in Nat \ {0}
  BY ConstantsAssumption DEF IsBooted
<1>2. SlotsOf(m, RootPD) = {RootKS} \X (0 .. Entries - 1)
  BY SlotsOfIs DEF IsBooted
<1>3. ASSUME NEW i \in 0 .. Entries - 1
      PROVE  m.slot[<<RootKS, i>>].present <=> i < n
  <2>1. CASE i < n
    <3>1. i \in 0 .. n - 1
      BY <1>1, <2>1
    <3> QED
      BY <2>1, <3>1 DEF IsBooted
  <2>2. CASE ~ i < n
    <3>1. i \in n .. Entries - 1
      BY <1>1, <2>2
    <3> DEFINE link == IF i = Entries - 1 THEN NullSlot ELSE <<RootKS, i + 1>>
    <3>2. m.slot[<<RootKS, i>>] = FreeEntry(link)
      BY <3>1 DEF IsBooted
    <3> HIDE DEF link
    <3> QED
      BY <2>2, <3>2 DEF FreeEntry
  <2> QED
    BY <2>1, <2>2
<1>4. \A i \in 0 .. n - 1 : <<RootKS, i>> \in BlocksIn(m, RootPD)
  BY <1>1, <1>2, <1>3 DEF BlocksIn
<1>5. \A i \in n .. Entries - 1 : <<RootKS, i>> \in FreeIn(m, RootPD)
  BY <1>1, <1>2, <1>3 DEF FreeIn
<1>6. ASSUME NEW e \in SlotsOf(m, RootPD)
      PROVE  e = <<RootKS, e[2]>> /\ e[2] \in 0 .. Entries - 1
  BY <1>2
<1>7. ASSUME NEW e \in BlocksIn(m, RootPD)
      PROVE  e = <<RootKS, e[2]>> /\ e[2] \in 0 .. n - 1
  <2>1. e \in SlotsOf(m, RootPD) /\ m.slot[e].present
    BY SlotsOfIs
  <2>2. e = <<RootKS, e[2]>> /\ e[2] \in 0 .. Entries - 1
    BY <1>6, <2>1
  <2>3. e[2] < n
    BY <1>3, <2>1, <2>2
  <2> QED
    BY <1>1, <2>2, <2>3
<1>8. ASSUME NEW e \in FreeIn(m, RootPD)
      PROVE  e = <<RootKS, e[2]>> /\ e[2] \in n .. Entries - 1
  <2>1. e \in SlotsOf(m, RootPD) /\ ~ m.slot[e].present
    BY SlotsOfIs
  <2>2. e = <<RootKS, e[2]>> /\ e[2] \in 0 .. Entries - 1
    BY <1>6, <2>1
  <2>3. ~ e[2] < n
    BY <1>3, <2>1, <2>2
  <2> QED
    BY <1>1, <2>2, <2>3
<1>9. BlocksIn(m, RootPD) = {RootKS} \X (0 .. n - 1)
  BY <1>4, <1>7
<1>10. FreeIn(m, RootPD) = {RootKS} \X (n .. Entries - 1)
  BY <1>5, <1>8
<1> QED
  BY <1>4, <1>5, <1>7, <1>8, <1>9, <1>10

\* The free slots left at boot are one free list.
LEMMA InitFreeList ==
  ASSUME NEW m, NEW n, IsBooted(m, n)
  PROVE  FreeListOK(m, RootPD)
<1> DEFINE F       == FreeIn(m, RootPD)
           link(e) == m.slot[e].nextFree
<1>1. n \in 0 .. Entries /\ Entries \in Nat \ {0}
  BY ConstantsAssumption DEF IsBooted
<1>2. /\ \A i \in n .. Entries - 1 : <<RootKS, i>> \in F
      /\ \A e \in F : e = <<RootKS, e[2]>> /\ e[2] \in n .. Entries - 1
      /\ F = {RootKS} \X (n .. Entries - 1)
  BY BootSlots
<1>3. NullSlot \notin F
  <2>1. m \in Good /\ RootPD \in PDAddr
    BY NullOutside DEF IsBooted
  <2> QED
    BY <2>1, NullSlotNoSlot
<1>4. m.pd[RootPD].nbFree = Cardinality(F)
  <2>1. IsFiniteSet({RootKS}) /\ Cardinality({RootKS}) = 1
    BY FS_Singleton
  <2>2. n \in Int /\ Entries - 1 \in Int
    BY <1>1
  <2>3. /\ IsFiniteSet(n .. Entries - 1)
        /\ Cardinality(n .. Entries - 1)
             = IF n > Entries - 1 THEN 0 ELSE (Entries - 1) - n + 1
    BY ONLY <2>2, FS_Interval
  <2>4. Cardinality(n .. Entries - 1) = Entries - n
    BY <1>1, <2>3
  <2>5. Cardinality({RootKS} \X (n .. Entries - 1))
          = Cardinality({RootKS}) * Cardinality(n .. Entries - 1)
    BY ONLY <2>1, <2>3, FS_Product
  <2>6. Cardinality(F) = 1 * (Entries - n)
    BY <1>2, <2>1, <2>4, <2>5
  <2>7. 1 * (Entries - n) = Entries - n
    BY <1>1
  <2>8. m.pd[RootPD].nbFree = Entries - n
    BY DEF IsBooted
  <2> QED
    BY <2>6, <2>7, <2>8
<1>5. /\ m.pd[RootPD].firstFree = IF n = Entries THEN NullSlot ELSE <<RootKS, n>>
      /\ m.pd[RootPD].firstFree \in F \cup {NullSlot}
  <2>1. m.pd[RootPD].firstFree = IF n = Entries THEN NullSlot ELSE <<RootKS, n>>
    BY DEF IsBooted
  <2>2. n # Entries => n \in n .. Entries - 1
    BY <1>1
  <2> QED
    BY <1>2, <2>1, <2>2
<1>6. ASSUME NEW i \in n .. Entries - 1
      PROVE  /\ link(<<RootKS, i>>) = IF i = Entries - 1 THEN NullSlot ELSE <<RootKS, i + 1>>
             /\ m.slot[<<RootKS, i>>] = FreeEntry(link(<<RootKS, i>>))
  <2> DEFINE l == IF i = Entries - 1 THEN NullSlot ELSE <<RootKS, i + 1>>
  <2>1. m.slot[<<RootKS, i>>] = FreeEntry(l)
    BY DEF IsBooted
  <2> HIDE DEF l
  <2>2. link(<<RootKS, i>>) = l
    BY <2>1 DEF FreeEntry
  <2> QED
    BY <2>1, <2>2 DEF l
<1> HIDE DEF F
<1>7. ASSUME NEW e \in F
      PROVE  m.slot[e] = FreeEntry(link(e))
  <2> DEFINE i == e[2]
  <2>1. e = <<RootKS, i>> /\ i \in n .. Entries - 1
    BY <1>2
  <2> HIDE DEF i
  <2> QED
    BY <1>6, <2>1
<1>8. ASSUME NEW e \in F
      PROVE  link(e) \in (F \cup {NullSlot}) \ {m.pd[RootPD].firstFree}
  <2> DEFINE i == e[2]
  <2>1. e = <<RootKS, i>> /\ i \in n .. Entries - 1
    BY <1>2
  <2> HIDE DEF i
  <2>2. link(e) = IF i = Entries - 1 THEN NullSlot ELSE <<RootKS, i + 1>>
    BY <1>6, <2>1
  <2>3. n # Entries /\ m.pd[RootPD].firstFree = <<RootKS, n>> /\ n \in n .. Entries - 1
    BY <1>1, <1>5, <2>1
  <2>4. CASE i = Entries - 1
    BY <1>2, <1>3, <2>2, <2>3, <2>4
  <2>5. CASE i # Entries - 1
    <3>1. i + 1 \in n .. Entries - 1 /\ i + 1 # n
      BY <1>1, <2>1, <2>5
    <3>2. link(e) = <<RootKS, i + 1>>
      BY <2>2, <2>5
    <3> HIDE DEF link
    <3> QED
      BY <1>2, <2>3, <3>1, <3>2
  <2> QED
    BY <2>4, <2>5
<1>9. ASSUME NEW e \in F, NEW f \in F, link(e) = link(f)
      PROVE  e = f
  <2> DEFINE i == e[2]
             j == f[2]
  <2>1. /\ e = <<RootKS, i>> /\ i \in n .. Entries - 1
        /\ f = <<RootKS, j>> /\ j \in n .. Entries - 1
    BY <1>2
  <2> HIDE DEF i, j
  <2>2. /\ link(e) = IF i = Entries - 1 THEN NullSlot ELSE <<RootKS, i + 1>>
        /\ link(f) = IF j = Entries - 1 THEN NullSlot ELSE <<RootKS, j + 1>>
    BY <1>6, <2>1
  <2>3. /\ i # Entries - 1 => i + 1 \in n .. Entries - 1
        /\ j # Entries - 1 => j + 1 \in n .. Entries - 1
    BY <1>1, <2>1
  <2>4. /\ i # Entries - 1 => <<RootKS, i + 1>> # NullSlot
        /\ j # Entries - 1 => <<RootKS, j + 1>> # NullSlot
    BY <1>2, <1>3, <2>3
  <2>5. i = j
    BY <1>1, <1>9, <2>1, <2>2, <2>4
  <2> QED
    BY <2>1, <2>5
<1>10. ASSUME NEW S \in SUBSET F, S # {}
       PROVE  \E e \in S : link(e) \notin S
  <2> DEFINE D == {i \in 0 .. Entries - 1 - n : <<RootKS, Entries - 1 - i>> \in S}
  <2>1. D \in SUBSET Nat
    BY <1>1
  <2>2. D # {}
    <3>1. PICK e \in S : TRUE
      BY <1>10
    <3> DEFINE i == e[2]
    <3>2. e = <<RootKS, i>> /\ i \in n .. Entries - 1
      BY <1>2
    <3> HIDE DEF i
    <3>3. /\ Entries - 1 - i \in 0 .. Entries - 1 - n
          /\ Entries - 1 - (Entries - 1 - i) = i
      BY <1>1, <3>2
    <3> QED
      BY <3>1, <3>2, <3>3
  <2>3. PICK j \in D : \A i \in D : j <= i
    BY <2>1, <2>2, LeastNat
  <2> DEFINE k == Entries - 1 - j
  <2>4. k \in n .. Entries - 1 /\ <<RootKS, k>> \in S
    BY <1>1
  <2>5. <<RootKS, k + 1>> \notin S
    <3> SUFFICES ASSUME <<RootKS, k + 1>> \in S PROVE FALSE
      OBVIOUS
    <3>1. k + 1 \in n .. Entries - 1
      <4>1. <<RootKS, k + 1>>[2] = k + 1
        OBVIOUS
      <4> HIDE DEF k
      <4> QED
        BY <1>2, <4>1
    <3>2. j - 1 \in 0 .. Entries - 1 - n /\ Entries - 1 - (j - 1) = k + 1
      BY <1>1, <2>4, <3>1
    <3>3. j - 1 \in D
      BY <3>2
    <3> HIDE DEF D
    <3>4. j <= j - 1 /\ j \in Int
      BY <2>1, <2>3, <3>3
    <3> QED
      BY <3>4
  <2> HIDE DEF k, D
  <2>6. link(<<RootKS, k>>) = IF k = Entries - 1 THEN NullSlot ELSE <<RootKS, k + 1>>
    BY <1>6, <2>4
  <2>7. link(<<RootKS, k>>) \notin S
    BY <1>3, <2>5, <2>6
  <2> QED
    BY <2>4, <2>7
<1> QED
  BY <1>4, <1>5, <1>7, <1>8, <1>9, <1>10 DEF FreeListOK, F

\* Boot establishes the invariant: the root alone, with blocks that lie apart
\* and hold no kernel data.
LEMMA BootConsistent ==
  ASSUME NEW m, NEW n, IsBooted(m, n)
  PROVE  Consistent(m, {RootPD}) /\ Guarded(m, {RootPD})
<1>1. n \in 0 .. Entries /\ Entries \in Nat \ {0} /\ n = Len(RootBlocks)
  BY ConstantsAssumption DEF IsBooted
<1>2. ASSUME NEW i \in 0 .. n - 1
      PROVE  /\ m.slot[<<RootKS, i>>].start = RootBlocks[i + 1].start
             /\ m.slot[<<RootKS, i>>].end = RootBlocks[i + 1].end
             /\ m.slot[<<RootKS, i>>].origin = RootBlocks[i + 1].start
             /\ m.slot[<<RootKS, i>>].rights = RootBlocks[i + 1].rights
             /\ m.slot[<<RootKS, i>>].accessible
             /\ m.slot[<<RootKS, i>>].PDchild = Null
             /\ m.slot[<<RootKS, i>>].inChild = NullSlot
             /\ m.slot[<<RootKS, i>>].PDflag = FALSE
             /\ m.slot[<<RootKS, i>>].next = NullSlot
  <2>1. m.slot[<<RootKS, i>>] \in Entry
    BY <1>1 DEF IsBooted, Good
  <2> QED
    BY <2>1 DEF IsBooted, Entry
<1>3. ASSUME NEW i \in 0 .. n - 1
      PROVE  /\ i + 1 \in DOMAIN RootBlocks
             /\ RootBlocks[i + 1].start \in 1 .. Top /\ RootBlocks[i + 1].end \in 1 .. Top + 1
             /\ RootBlocks[i + 1].start < RootBlocks[i + 1].end
             /\ "r" \in RootBlocks[i + 1].rights
  <2>1. i + 1 \in 1 .. n /\ DOMAIN RootBlocks = 1 .. n
    BY <1>1, RootAssumption, LenProperties
  <2>2. RootBlocks[i + 1] \in [start : 1 .. Top, end : 1 .. Top + 1,
                               rights : SUBSET Rights]
    BY <1>1, <2>1, RootAssumption, ElementOfSeq
  <2> QED
    BY <2>1, <2>2, BootAssumption
<1>4. ASSUME NEW e \in BlocksIn(m, RootPD)
      PROVE  /\ m.slot[e].PDchild = Null /\ m.slot[e].inChild = NullSlot
             /\ m.slot[e].PDflag = FALSE /\ m.slot[e].next = NullSlot
             /\ m.slot[e].start \in 1 .. Top /\ WellFormed(m.slot[e])
  <2> DEFINE i == e[2]
  <2>1. e = <<RootKS, i>> /\ i \in 0 .. n - 1
    BY BootSlots
  <2> HIDE DEF i
  <2>2. Top \in Nat
    BY ConstantsAssumption
  <2>3. /\ m.slot[e].PDchild = Null /\ m.slot[e].inChild = NullSlot
        /\ m.slot[e].PDflag = FALSE /\ m.slot[e].next = NullSlot
        /\ m.slot[e].start = RootBlocks[i + 1].start
        /\ m.slot[e].end = RootBlocks[i + 1].end
        /\ m.slot[e].origin = RootBlocks[i + 1].start
        /\ m.slot[e].rights = RootBlocks[i + 1].rights
    BY <1>2, <2>1
  <2>4. /\ m.slot[e].start \in 1 .. Top /\ m.slot[e].end \in 1 .. Top + 1
        /\ m.slot[e].start < m.slot[e].end /\ "r" \in m.slot[e].rights
        /\ m.slot[e].origin = m.slot[e].start
    BY <1>3, <2>1, <2>3
  <2>5. WellFormed(m.slot[e])
    BY <2>2, <2>4 DEF WellFormed
  <2> QED
    BY <2>3, <2>4, <2>5
<1>5. ASSUME NEW e \in BlocksIn(m, RootPD), NEW f \in BlocksIn(m, RootPD),
             Overlap(m.slot[e], m.slot[f])
      PROVE  e = f
  <2> DEFINE i == e[2]
             j == f[2]
  <2>1. /\ e = <<RootKS, i>> /\ i \in 0 .. n - 1
        /\ f = <<RootKS, j>> /\ j \in 0 .. n - 1
    BY BootSlots
  <2> HIDE DEF i, j
  <2>2. /\ RootBlocks[i + 1].start < RootBlocks[j + 1].end
        /\ RootBlocks[j + 1].start < RootBlocks[i + 1].end
    BY <1>2, <1>5, <2>1 DEF Overlap
  <2>3. i + 1 = j + 1
    <3> DEFINE x == i + 1
               y == j + 1
    <3>1. /\ x \in DOMAIN RootBlocks /\ y \in DOMAIN RootBlocks
          /\ RootBlocks[x].start \in Int /\ RootBlocks[x].end \in Int
          /\ RootBlocks[y].start \in Int /\ RootBlocks[y].end \in Int
      BY <1>3, <2>1
    <3>2. RootBlocks[x].start < RootBlocks[y].end /\ RootBlocks[y].start < RootBlocks[x].end
      BY <2>2
    <3> HIDE DEF x, y
    <3>3. x # y => \/ RootBlocks[x].end <= RootBlocks[y].start
                   \/ RootBlocks[y].end <= RootBlocks[x].start
      BY <3>1, BootAssumption
    <3>4. x = y
      BY <3>1, <3>2, <3>3
    <3> QED
      BY <3>4 DEF x, y
  <2> QED
    BY <2>1, <2>3
<1> DEFINE L == {RootPD}
<1>6. /\ L \ {RootPD} = {} /\ RootPD \in L /\ \A p \in L : p = RootPD
      /\ m.pd[RootPD].parent = Null
  BY DEF IsBooted
<1>7. FreeListOK(m, RootPD)
  BY InitFreeList
<1>8. StructsOf(m, RootPD) = {RootKS}
  BY DEF IsBooted
<1> HIDE DEF L
<1>9. Tree(m, L)
  BY <1>6 DEF Tree
<1>10. Homes(m, L)
  BY <1>4, <1>6 DEF Homes
<1>11. Structures(m, L)
  BY <1>6, <1>8 DEF Structures
<1>12. Ranges(m, L)
  BY <1>4, <1>5, <1>6 DEF Ranges
<1>13. Cuts(m, L) /\ Shares(m, L)
  BY <1>4, <1>6 DEF Cuts, Shares
<1>14. Containment(m, L) /\ FreeLists(m, L)
  BY <1>6, <1>7 DEF Containment, FreeLists
<1>15. KernelBlocksHidden(m, L)
  <2>1. RootKS \notin 1 .. Top
    BY NullOutside, ConstantsAssumption
  <2>2. ASSUME NEW p \in L, NEW e \in BlocksIn(m, p) PROVE ~ IsKernel(m, p, e)
    <3>1. p = RootPD /\ e \in BlocksIn(m, RootPD)
      BY <1>6, <2>2
    <3>2. m.slot[e].start \notin StructsOf(m, p)
      BY <1>4, <1>8, <2>1, <3>1
    <3> QED
      BY <1>4, <3>1, <3>2 DEF IsKernel
  <2> QED
    BY <2>2 DEF KernelBlocksHidden
<1>16. CopiesAccessible(m, L)
  BY <1>4, <1>6 DEF CopiesAccessible
<1>17. MPUMapsAccessible(m, L)
  <2>1. ASSUME NEW r \in Regions, m.pd[RootPD].mpu[r] # NullSlot
        PROVE  /\ m.pd[RootPD].mpu[r] = <<RootKS, r>> /\ r \in 0 .. n - 1
               /\ m.pd[RootPD].mpu[r] \in BlocksIn(m, RootPD)
               /\ m.slot[m.pd[RootPD].mpu[r]].accessible
    <3>1. m.pd[RootPD].mpu[r] = <<RootKS, r>> /\ r < n
      BY <2>1 DEF IsBooted
    <3>2. r \in 0 .. n - 1
      BY <1>1, <3>1, ConstantsAssumption
    <3>3. <<RootKS, r>> \in BlocksIn(m, RootPD)
      BY <3>2, BootSlots
    <3>4. m.slot[<<RootKS, r>>].accessible
      BY <1>2, <3>2
    <3> QED
      BY <3>1, <3>2, <3>3, <3>4
  <2>2. ASSUME NEW r \in Regions, NEW k \in Regions, m.pd[RootPD].mpu[r] # NullSlot,
               m.pd[RootPD].mpu[k] = m.pd[RootPD].mpu[r]
        PROVE  k = r
    <3>1. m.pd[RootPD].mpu[r] = <<RootKS, r>> /\ m.pd[RootPD].mpu[k] = <<RootKS, k>>
      BY <2>1, <2>2
    <3> QED
      BY <2>2, <3>1
  <2> QED
    BY <1>6, <2>1, <2>2 DEF MPUMapsAccessible
<1> QED
  BY <1>9, <1>10, <1>11, <1>12, <1>13, <1>14, <1>15, <1>16, <1>17
  DEF Consistent, Guarded, L

\* Boot establishes Consistency.
LEMMA InitSound == Init => IInv /\ Consistency
<1> SUFFICES ASSUME Init PROVE IInv /\ Consistency
  OBVIOUS
<1> DEFINE L == {RootPD}
<1>1. Consistent(Mem, L) /\ Guarded(Mem, L)
  BY InitFacts, BootConsistent
<1>2. L \in SUBSET PDAddr
  BY NullOutside
<1>3. OpenAbove(Mem, L)
  <2> DEFINE n == Len(RootBlocks)
  <2>1. IsBooted(Mem, n)
    BY InitFacts
  <2> HIDE DEF n
  <2>2. \A e \in BlocksIn(Mem, RootPD) : e = <<RootKS, e[2]>> /\ e[2] \in 0 .. n - 1
    BY <2>1, BootSlots
  <2>3. \A e \in BlocksIn(Mem, RootPD) : Mem.slot[e].accessible
    BY <2>1, <2>2 DEF IsBooted
  <2> QED
    BY <2>3 DEF OpenAbove
<1> HIDE DEF L
<1> QED
  BY <1>1, <1>2, <1>3, InitGood DEF Consistency, Sound

-----------------------------------------------------------------------------
(* The steps.                                                              *)

\* Above the root there is nothing to reach: a removal by the root completes.
LEMMA RootRemovalCompletes ==
  ASSUME IInv, NEW L \in SUBSET PDAddr, Consistent(Mem, L),
         NEW e \in SlotsOf(Mem, RootPD), removeCutBlock(RootPD, e)
  PROVE  slot'[e].PDchild = Null
<1> DEFINE b  == slot[e]
           q  == b.PDchild
           T  == Subblocks(Mem, b.inChild)
           m1 == freeSlots(Mem, q, T)
           m2 == [m1 EXCEPT !.slot[e].accessible = TRUE]
           m3 == writeAccessibleRec(m2, RootPD, b.start, m2.slot[e].end, TRUE)
           n  == [m3 EXCEPT !.slot[e] = Unshared(@)]
<1>1. RootPD \in PDAddr /\ RootPD \in L
  BY NullOutside DEF Consistent, Tree
<1>2. Mem \in Good /\ Mem.slot = slot /\ e \in Slots /\ b \in Entry
  BY <1>1, CallerType
<1>3. ReachesRoot(m2, RootPD, b.start, m2.slot[e].end)
  BY SMTT(30) DEF ReachesRoot
<1>4. Commit(n)
  BY ZenonT(30), <1>3 DEF removeCutBlock
<1>5. q \in L /\ q \in PDAddr
  <2>1. e \in BlocksIn(Mem, RootPD) /\ Mem.slot[e].PDchild # Null
    BY ZenonT(30), <1>2 DEF removeCutBlock, IsRemovable, IsFound, BlocksIn
  <2> QED
    BY SMTT(30), <1>1, <1>2, <2>1 DEF Consistent, Shares
<1>6. T \in SUBSET Slots
  BY DEF Subblocks
<1> HIDE DEF T, q
<1>7. m1 \in Good
  BY <1>2, <1>5, <1>6, freeSlotsGood
<1> HIDE DEF m1
<1>8. m2 \in Good
  BY <1>2, <1>7, EntryUpdate DEF Good
<1> HIDE DEF m2
<1>9. m3 \in Good
  BY <1>8, writeAccessibleRecGood
<1> HIDE DEF m3
<1>10. n.slot[e] = Unshared(m3.slot[e]) /\ m3.slot[e] \in Entry
  BY <1>2, <1>9 DEF Good
<1>11. slot'[e] = Unshared(m3.slot[e])
  BY <1>4, <1>10 DEF Commit
<1> QED
  BY <1>10, <1>11 DEF Unshared, Entry

\* A removal that leaves the block with a child has not completed.
Completes(c) ==
  \A e \in SlotsOf(Mem, c) : removeCutBlock(c, e) => slot'[e].PDchild = Null

\* Every service but collect keeps Consistency, and its caller a partition.
LEMMA ServiceSound ==
  ASSUME IInv, NEW L \in SUBSET PDAddr, Consistent(Mem, L), Guarded(Mem, L),
         NEW c \in L, NEW s, s # "collect", s = "remove" => Completes(c), Service(c, s)
  PROVE  SoundFor(Mem', c, L)
<1>1. \A t \in CurrentOrChild(c) : t \in L
  BY TargetIn
<1>2. \A rights \in GrantRights : rights \in SUBSET Rights
  BY ConstantsAssumption
<1> DEFINE mine == SlotsOf(Mem, c)
<1>3. CASE \E e \in mine : createPartition(c, e)
  BY <1>3, createPartitionSound
<1>4. CASE \E e \in mine, a \in CutPoints, r \in RegionArg : cutMemoryBlock(c, e, a, r)
  BY <1>4, cutMemoryBlockSound
<1>5. CASE \E e1, e2 \in mine, r \in RegionArg : mergeMemoryBlocks(c, e1, e2, r)
  BY <1>5, mergeMemoryBlocksSound
<1>6. CASE \E t \in CurrentOrChild(c), e \in mine : prepare(c, t, e)
  BY <1>6, prepareSound
<1>7. CASE \E t \in PDAddr, e \in mine, rights \in GrantRights :
             addMemoryBlock(c, t, e, rights)
  BY <1>2, <1>7, addMemoryBlockSound
<1>8. CASE s = "remove" /\ \E e \in mine : removeMemoryBlock(c, e)
  <2>1. PICK e \in mine : removeUncutBlock(c, e) \/ removeCutBlock(c, e)
    BY <1>8 DEF removeMemoryBlock
  <2>2. CASE removeUncutBlock(c, e)
    BY <2>2, removeUncutBlockSound
  <2>3. CASE removeCutBlock(c, e)
    <3>1. slot'[e].PDchild = Null
      BY <1>8, <2>3 DEF Completes
    <3> QED
      BY <2>3, <3>1, removeCutBlockSound
  <2> QED
    BY <2>1, <2>2, <2>3
<1>9. CASE \E e \in mine : deletePartition(c, e)
  BY <1>9, deletePartitionSound
<1>10. CASE \E t \in CurrentOrChild(c), r \in RegionArg : mapMPU(c, t, r)
  BY <1>1, <1>10, mapMPUSound
<1>11. CASE \E t \in CurrentOrChild(c), a \in VidtPoints \cup {Null} : setVIDT(c, t, a)
  BY <1>1, <1>11, setVIDTSound
<1> QED
  BY <1>3, <1>4, <1>5, <1>6, <1>7, <1>8, <1>9, <1>10, <1>11 DEF Service

\* And what children show stays open above.
LEMMA ServiceOpen ==
  ASSUME IInv, NEW L \in SUBSET PDAddr, Consistent(Mem, L), Guarded(Mem, L),
         OpenAbove(Mem, L),
         NEW c \in L, NEW s, s # "collect", s = "remove" => Completes(c), Service(c, s)
  PROVE  Sound(Mem')
<1>0. \A t \in CurrentOrChild(c) : t \in L
  BY TargetIn
<1>1. \A rights \in GrantRights : rights \in SUBSET Rights
  BY ConstantsAssumption
<1> DEFINE mine == SlotsOf(Mem, c)
<1>2. ASSUME NEW K \in SUBSET PDAddr, Consistent(Mem', K), Guarded(Mem', K),
             StaysOpen(Mem, Mem', L, K)
      PROVE  Sound(Mem')
  BY <1>2 DEF StaysOpen, Sound
<1>3. CASE \E e \in mine : createPartition(c, e)
  <2>1. PICK e \in mine : Created(Mem, Mem', L, c, e)
    BY <1>3, createPartitionSound
  <2> DEFINE K == L \cup {Mem.slot[e].start}
  <2>2. /\ K \in SUBSET PDAddr /\ Consistent(Mem', K) /\ Guarded(Mem', K)
        /\ StaysOpen(Mem, Mem', L, K)
    BY <2>1 DEF Created
  <2> HIDE DEF K
  <2> QED
    BY <1>2, <2>2
<1>4. CASE \E e \in mine, a \in CutPoints, r \in RegionArg : cutMemoryBlock(c, e, a, r)
  <2>1. PICK e \in mine : Narrowed(Mem, Mem', L, c, e)
    BY <1>4, cutMemoryBlockSound
  <2> QED
    BY <1>2, <2>1 DEF Narrowed
<1>5. CASE \E e1, e2 \in mine, r \in RegionArg : mergeMemoryBlocks(c, e1, e2, r)
  <2>1. PICK e1 \in mine, e2 \in mine : Merged(Mem, Mem', L, c, e1, e2)
    BY <1>5, mergeMemoryBlocksSound
  <2> QED
    BY <1>2, <2>1 DEF Merged
<1>6. CASE \E t \in CurrentOrChild(c), e \in mine : prepare(c, t, e)
  <2>1. PICK t \in CurrentOrChild(c), e \in mine : Prepared(Mem, Mem', L, c, e, t)
    BY <1>6, prepareSound
  <2> QED
    BY <1>2, <2>1 DEF Prepared
<1>7. CASE \E t \in PDAddr, e \in mine, rights \in GrantRights :
             addMemoryBlock(c, t, e, rights)
  <2>1. PICK t \in PDAddr, e \in mine : Given(Mem, Mem', L, c, e, t)
    BY <1>1, <1>7, addMemoryBlockSound
  <2> QED
    BY <1>2, <2>1 DEF Given
<1>8. CASE s = "remove" /\ \E e \in mine : removeMemoryBlock(c, e)
  <2>1. PICK e \in mine : removeUncutBlock(c, e) \/ removeCutBlock(c, e)
    BY <1>8 DEF removeMemoryBlock
  <2>2. removeCutBlock(c, e) => slot'[e].PDchild = Null
    BY <1>8 DEF Completes
  <2>3. Removed(Mem, Mem', L, c, e)
    BY <2>1, <2>2, removeUncutBlockSound, removeCutBlockSound
  <2> QED
    BY <1>2, <2>3 DEF Removed
<1>9. CASE \E e \in mine : deletePartition(c, e)
  <2>1. PICK e \in mine, K \in SUBSET PDAddr : Deleted(Mem, Mem', L, K, c, e)
    BY <1>9, deletePartitionSound
  <2> QED
    BY <1>2, <2>1 DEF Deleted
<1>10. ASSUME Idle(Mem, Mem', L) PROVE Sound(Mem')
  BY <1>2, <1>10 DEF Idle
<1>11. CASE \E t \in CurrentOrChild(c), r \in RegionArg : mapMPU(c, t, r)
  BY <1>0, <1>10, <1>11, mapMPUSound
<1>12. CASE \E t \in CurrentOrChild(c), a \in VidtPoints \cup {Null} : setVIDT(c, t, a)
  BY <1>0, <1>10, <1>12, setVIDTSound
<1> QED
  BY <1>3, <1>4, <1>5, <1>6, <1>7, <1>8, <1>9, <1>11, <1>12 DEF Service

\* The removals of a caller complete: by hypothesis, or since it is the root.
LEMMA CallCompletes ==
  ASSUME IInv, NEW L \in SUBSET PDAddr, Consistent(Mem, L), NEW c \in Live,
         c \in Callers["remove"], RemovalsComplete \/ OnlyRootRemoves
  PROVE  Completes(c)
<1>1. CASE RemovalsComplete
  BY <1>1 DEF RemovalsComplete, Completes
<1>2. CASE OnlyRootRemoves
  <2>1. c = RootPD
    BY <1>2 DEF OnlyRootRemoves
  <2>2. ASSUME NEW e \in SlotsOf(Mem, RootPD), removeCutBlock(RootPD, e)
        PROVE  slot'[e].PDchild = Null
    BY <2>2, RootRemovalCompletes
  <2> QED
    BY <2>1, <2>2 DEF Completes
<1> QED
  BY <1>1, <1>2

\* A call of a live partition keeps Consistency when no partition calls
\* collect and the removals complete, or only the root removes.
LEMMA NextSound ==
  ASSUME NoCollect, IInv, Consistency, Next, RemovalsComplete \/ OnlyRootRemoves
  PROVE  Consistency'
<1>1. PICK c \in Live, s \in Services : c \in Callers[s] /\ Service(c, s)
  BY DEF Next
<1>2. s # "collect"
  BY <1>1 DEF NoCollect
<1>3. PICK L \in SUBSET PDAddr : Consistent(Mem, L) /\ Guarded(Mem, L) /\ OpenAbove(Mem, L)
  BY DEF Consistency, Sound
<1>4. c \in L
  BY <1>3, LiveIn
<1>5. s = "remove" => Completes(c)
  BY <1>1, <1>3, CallCompletes
<1>6. Sound(Mem')
  BY <1>1, <1>2, <1>3, <1>4, <1>5, ServiceOpen
<1>7. Consistency' = Sound(Mem')
  BY DEF Consistency, Sound
<1> QED
  BY <1>6, <1>7

\* Nor does a stutter change it.
LEMMA StepSound ==
  ASSUME NoCollect, IInv, Consistency, [Next]_vars,
         UNCHANGED vars \/ RemovalsComplete \/ OnlyRootRemoves
  PROVE  IInv' /\ Consistency'
<1>1. IInv'
  BY NextGood
<1>2. CASE UNCHANGED vars
  <2>1. Mem' = Mem
    BY <1>2 DEF Mem, vars
  <2>2. Consistency' = Sound(Mem')
    BY DEF Consistency, Sound
  <2>3. Sound(Mem)
    BY DEF Consistency
  <2>4. Consistency'
    BY <2>1, <2>2, <2>3
  <2> QED
    BY <1>1, <2>4
<1>3. CASE ~ UNCHANGED vars
  <2>1. Next /\ (RemovalsComplete \/ OnlyRootRemoves)
    BY <1>3
  <2>2. Consistency'
    BY <2>1, NextSound
  <2> QED
    BY <1>1, <2>2
<1> QED
  BY <1>1, <1>2, <1>3

\* Through every sequence of calls the kernel data stays consistent and
\* guarded: the invariant that the properties of PipIsolation rest on.
THEOREM ConsistencyHolds ==
  NoCollect /\ Spec /\ [][RemovalsComplete]_vars => [](IInv /\ Consistency)
<1>1. Init => IInv /\ Consistency
  BY InitSound
<1>2. NoCollect /\ (IInv /\ Consistency) /\ [Next]_vars /\ [RemovalsComplete]_vars
        => (IInv /\ Consistency)'
  BY StepSound
<1>3. NoCollect => NoCollect'
  BY DEF NoCollect
<1> QED
  BY <1>1, <1>2, <1>3, PTL DEF Spec

\* With removals left to the root partition, no removal can be incomplete.
THEOREM ConsistencyWhenRootRemoves ==
  NoCollect /\ OnlyRootRemoves /\ Spec => [](IInv /\ Consistency)
<1>1. Init => IInv /\ Consistency
  BY InitSound
<1>2. NoCollect /\ OnlyRootRemoves /\ (IInv /\ Consistency) /\ [Next]_vars
        => (IInv /\ Consistency)'
  BY StepSound
<1>3. NoCollect /\ OnlyRootRemoves => (NoCollect /\ OnlyRootRemoves)'
  BY DEF NoCollect, OnlyRootRemoves
<1> QED
  BY <1>1, <1>2, <1>3, PTL DEF Spec

-----------------------------------------------------------------------------
(* What the invariant means for the live partitions.                       *)

\* A set of partitions that holds the live ones and that the invariant is
\* about, and the names of PipIsolation for what it says.
Witness(L) ==
  /\ L \in SUBSET PDAddr /\ Consistent(Mem, L) /\ Guarded(Mem, L) /\ OpenAbove(Mem, L)
  /\ Live \subseteq L /\ Mem \in Good /\ Mem.slot = slot /\ Mem.pd = pd

\* In every state of the invariant there is such a set.
LEMMA WitnessExists ==
  ASSUME IInv, Consistency
  PROVE  \E L : Witness(L)
<1>1. PICK L \in SUBSET PDAddr : Consistent(Mem, L) /\ Guarded(Mem, L) /\ OpenAbove(Mem, L)
  BY DEF Consistency, Sound
<1>2. Live \subseteq L
  BY <1>1, LiveIn
<1>3. Mem \in Good /\ Mem.slot = slot /\ Mem.pd = pd
  BY DEF IInv, Mem
<1>4. Witness(L)
  BY <1>1, <1>2, <1>3 DEF Witness
<1> QED
  BY <1>4

\* Its parts, one by one.
LEMMA WitnessParts ==
  ASSUME NEW L, Witness(L)
  PROVE  /\ L \in SUBSET PDAddr /\ Consistent(Mem, L) /\ Guarded(Mem, L)
         /\ Live \subseteq L /\ Mem \in Good /\ Mem.slot = slot /\ Mem.pd = pd
         /\ Tree(Mem, L) /\ Homes(Mem, L) /\ Structures(Mem, L)
         /\ Ranges(Mem, L) /\ Cuts(Mem, L) /\ Shares(Mem, L)
         /\ Containment(Mem, L) /\ FreeLists(Mem, L)
         /\ KernelBlocksHidden(Mem, L) /\ CopiesAccessible(Mem, L)
         /\ MPUMapsAccessible(Mem, L) /\ OpenAbove(Mem, L)
         /\ \A p : BlocksOf(p) = BlocksIn(Mem, p) /\ Structs(p) = StructsOf(Mem, p)
BY DEF Witness, Consistent, Guarded, BlocksOf, BlocksIn, Structs, StructsOf

\* The units of the blocks of a partition of L.
LEMMA UnitsAre ==
  ASSUME NEW L, Witness(L), NEW p \in L, NEW e \in BlocksOf(p)
  PROVE  /\ e \in BlocksIn(Mem, p) /\ e \in Slots /\ slot[e] \in Entry
         /\ slot[e].start \in Nat /\ slot[e].end \in Nat
         /\ 1 <= slot[e].start /\ slot[e].start < slot[e].end /\ slot[e].end <= Top + 1
         /\ Units(e) \subseteq 1 .. Top
         /\ slot[e].start \in Units(e)
         /\ \A u : u \in Units(e) <=> u \in Int /\ slot[e].start <= u /\ u < slot[e].end
<1>1. /\ e \in BlocksIn(Mem, p) /\ p \in PDAddr /\ Mem.slot = slot /\ Mem \in Good
      /\ Ranges(Mem, L) /\ L \in SUBSET PDAddr
  BY WitnessParts
<1>2. /\ e \in Slots /\ slot[e] \in Entry /\ slot[e].start \in Nat /\ slot[e].end \in Nat
      /\ slot[e].origin \in Nat
  BY <1>1, BlockType
<1>3. /\ 1 <= slot[e].origin /\ slot[e].origin <= slot[e].start
      /\ slot[e].start < slot[e].end /\ slot[e].end <= Top + 1
  BY <1>1, BlockRange
<1>4. Top \in Nat
  BY ConstantsAssumption
<1> QED
  BY <1>1, <1>2, <1>3, <1>4 DEF Units

\* Blocks share a unit exactly when their ranges overlap.
LEMMA UnitsOverlap ==
  ASSUME NEW L, Witness(L), NEW p \in L, NEW e \in BlocksOf(p),
         NEW q \in L, NEW f \in BlocksOf(q)
  PROVE  /\ Units(e) \cap Units(f) # {} <=> Overlap(slot[e], slot[f])
         /\ \A u : u \in Units(e) /\ u \in Units(f) => Overlap(slot[e], slot[f])
<1>1. /\ slot[e].start \in Nat /\ slot[e].end \in Nat /\ slot[e].start < slot[e].end
      /\ \A u : u \in Units(e) <=> u \in Int /\ slot[e].start <= u /\ u < slot[e].end
  BY UnitsAre
<1>2. /\ slot[f].start \in Nat /\ slot[f].end \in Nat /\ slot[f].start < slot[f].end
      /\ \A u : u \in Units(f) <=> u \in Int /\ slot[f].start <= u /\ u < slot[f].end
  BY UnitsAre
<1>3. ASSUME NEW u, u \in Units(e), u \in Units(f) PROVE Overlap(slot[e], slot[f])
  BY <1>1, <1>2, <1>3 DEF Overlap
<1>4. ASSUME Overlap(slot[e], slot[f]) PROVE \E u : u \in Units(e) /\ u \in Units(f)
  <2> DEFINE u == IF slot[e].start <= slot[f].start THEN slot[f].start ELSE slot[e].start
  <2>1. u \in Units(e) /\ u \in Units(f)
    BY <1>1, <1>2, <1>4 DEF Overlap
  <2> QED
    BY <2>1
<1> QED
  BY <1>3, <1>4

\* The children of a partition of L are the partitions of L it is the parent of.
LEMMA ChildrenAre ==
  ASSUME NEW L, Witness(L), NEW p \in L
  PROVE  /\ \A q \in ChildrenOf(p) : q \in L \ {RootPD} /\ pd[q].parent = p
         /\ \A q \in L \ {RootPD} : pd[q].parent = p =>
              /\ q \in ChildrenOf(p)
              /\ \E e \in BlocksOf(p) : slot[e].start = q /\ slot[e].PDflag
<1>1. Homes(Mem, L) /\ Mem.pd = pd /\ Mem.slot = slot /\ BlocksOf(p) = BlocksIn(Mem, p)
  BY WitnessParts
<1>2. \A q \in ChildrenOf(p) : q \in L \ {RootPD} /\ pd[q].parent = p
  BY <1>1, ChildFacts DEF ChildrenOf
<1>3. ASSUME NEW q \in L \ {RootPD}, pd[q].parent = p
      PROVE  /\ q \in ChildrenOf(p)
             /\ \E e \in BlocksOf(p) : slot[e].start = q /\ slot[e].PDflag
  <2>1. PICK e \in BlocksIn(Mem, p) : slot[e].start = q /\ slot[e].PDflag
    BY <1>1, <1>3 DEF Homes
  <2>2. q \in ChildrenOf(p)
    BY <1>1, <2>1 DEF ChildrenOf, Children, IsFound, BlocksIn
  <2> QED
    BY <1>1, <2>1, <2>2
<1> QED
  BY <1>2, <1>3

\* noDupMappedPaddrList: the blocks of a partition are disjoint.
LEMMA NoDup ==
  ASSUME IInv, Consistency
  PROVE  noDupMappedPaddrList
<1>1. PICK L : Witness(L)
  BY WitnessExists
<1> SUFFICES ASSUME NEW p \in Live, NEW e \in BlocksOf(p), NEW f \in BlocksOf(p), e # f
             PROVE  Units(e) \cap Units(f) = {}
  BY DEF noDupMappedPaddrList
<1>2. p \in L /\ Ranges(Mem, L) /\ Mem.slot = slot /\ BlocksOf(p) = BlocksIn(Mem, p)
  BY <1>1, WitnessParts
<1>3. ~ Overlap(slot[e], slot[f])
  BY <1>2 DEF Ranges
<1> QED
  BY <1>1, <1>2, <1>3, UnitsOverlap

\* CutBlocksContiguous: subblocks follow each other.
LEMMA Contiguous ==
  ASSUME IInv, Consistency
  PROVE  CutBlocksContiguous
<1>1. PICK L : Witness(L)
  BY WitnessExists
<1> SUFFICES ASSUME NEW p \in Live, NEW e \in BlocksOf(p), slot[e].next # NullSlot
             PROVE  /\ slot[e].next \in BlocksOf(p) \ {e}
                    /\ slot[slot[e].next].start = slot[e].end
                    /\ slot[slot[e].next].origin = slot[e].origin
  BY DEF CutBlocksContiguous
<1>2. p \in L /\ Cuts(Mem, L) /\ Mem.slot = slot /\ BlocksOf(p) = BlocksIn(Mem, p)
  BY <1>1, WitnessParts
<1>3. /\ slot[e].next \in BlocksOf(p)
      /\ slot[slot[e].next].start = slot[e].end
      /\ slot[slot[e].next].origin = slot[e].origin
  BY <1>2 DEF Cuts
<1>4. slot[e].start \in Nat /\ slot[e].end \in Nat /\ slot[e].start < slot[e].end
  BY <1>1, <1>2, UnitsAre
<1>5. slot[e].next # e
  BY <1>3, <1>4
<1> QED
  BY <1>3, <1>5

\* MPUFromAccessibleBlocks: the MPU maps accessible blocks, each once.
LEMMA MPUMapsOwn ==
  ASSUME IInv, Consistency
  PROVE  MPUFromAccessibleBlocks
<1>1. PICK L : Witness(L)
  BY WitnessExists
<1>2. /\ MPUMapsAccessible(Mem, L) /\ Mem.slot = slot /\ Mem.pd = pd /\ Live \subseteq L
      /\ \A p : BlocksOf(p) = BlocksIn(Mem, p)
  BY <1>1, WitnessParts
<1> QED
  BY <1>2 DEF MPUFromAccessibleBlocks, MPUMapsAccessible

\* accessibleParentPaddrIsAccessibleIntoChild: a shared block is accessible to
\* the parent only while the child has it whole and accessible.
LEMMA AccessibleInChild ==
  ASSUME IInv, Consistency
  PROVE  accessibleParentPaddrIsAccessibleIntoChild
<1>1. PICK L : Witness(L)
  BY WitnessExists
<1>2. /\ CopiesAccessible(Mem, L) /\ Mem.slot = slot /\ Live \subseteq L
      /\ \A p : BlocksOf(p) = BlocksIn(Mem, p)
  BY <1>1, WitnessParts
<1> QED
  BY <1>2 DEF accessibleParentPaddrIsAccessibleIntoChild, CopiesAccessible

\* RightsNeverGrow: a child's block has no right that the parent's lacks.
LEMMA RightsKept ==
  ASSUME IInv, Consistency
  PROVE  RightsNeverGrow
<1>1. PICK L : Witness(L)
  BY WitnessExists
<1> SUFFICES ASSUME NEW p \in Live, NEW q \in ChildrenOf(p),
                    NEW e \in BlocksOf(p), NEW f \in BlocksOf(q),
                    Units(e) \cap Units(f) # {}
             PROVE  slot[f].rights \subseteq slot[e].rights
  BY DEF RightsNeverGrow
<1>2. /\ p \in L /\ Mem \in Good /\ L \in SUBSET PDAddr /\ Tree(Mem, L) /\ Ranges(Mem, L)
      /\ Containment(Mem, L) /\ Mem.slot = slot /\ Mem.pd = pd
      /\ BlocksOf(p) = BlocksIn(Mem, p) /\ BlocksOf(q) = BlocksIn(Mem, q)
  BY <1>1, WitnessParts
<1>3. q \in L \ {RootPD} /\ Mem.pd[q].parent = p
  BY <1>1, <1>2, ChildrenAre
<1>4. Overlap(Mem.slot[e], Mem.slot[f])
  BY <1>1, <1>2, <1>3, UnitsOverlap
<1>5. f \in BlocksIn(Mem, q) /\ e \in BlocksIn(Mem, Mem.pd[q].parent)
  BY <1>2, <1>3
<1>6. IsPartOf(Mem, q, f, e)
  BY <1>2, <1>3, <1>4, <1>5, PartOf
<1> QED
  BY <1>2, <1>6 DEF IsPartOf

\* noChildImpliesAddressesNotShared: what is not shared is mapped in no child.
LEMMA NoChildNotShared ==
  ASSUME IInv, Consistency
  PROVE  noChildImpliesAddressesNotShared
<1>1. PICK L : Witness(L)
  BY WitnessExists
<1> SUFFICES ASSUME NEW p \in Live, NEW e \in BlocksOf(p), slot[e].PDchild = Null,
                    NEW q \in ChildrenOf(p), NEW u, u \in Units(e), u \in Mapped(q)
             PROVE  FALSE
  BY DEF noChildImpliesAddressesNotShared
<1>2. /\ p \in L /\ Mem \in Good /\ L \in SUBSET PDAddr /\ Tree(Mem, L) /\ Ranges(Mem, L)
      /\ Containment(Mem, L) /\ Shares(Mem, L) /\ Mem.slot = slot /\ Mem.pd = pd
      /\ BlocksOf(p) = BlocksIn(Mem, p) /\ BlocksOf(q) = BlocksIn(Mem, q)
  BY <1>1, WitnessParts
<1>3. q \in L \ {RootPD} /\ Mem.pd[q].parent = p
  BY <1>1, <1>2, ChildrenAre
<1>4. PICK f \in BlocksOf(q) : u \in Units(f)
  BY DEF Mapped
<1>5. Overlap(Mem.slot[e], Mem.slot[f])
  BY <1>1, <1>2, <1>3, <1>4, UnitsOverlap
<1>6. e \in BlocksIn(Mem, p) /\ f \in BlocksIn(Mem, q) /\ Mem.slot[e].PDchild = Null
  BY <1>2
<1>7. Mem.slot[e].inChild = NullSlot
  BY <1>2, <1>6, NotSharedNoCopy
<1> QED
  BY <1>2, <1>3, <1>5, <1>6, <1>7, NotInChild

\* sharedBlockIsInChild: what the record of a shared block points to is the
\* block, or its first subblock, in a child.
LEMMA SharedInChild ==
  ASSUME IInv, Consistency
  PROVE  sharedBlockIsInChild
<1>1. PICK L : Witness(L)
  BY WitnessExists
<1> SUFFICES ASSUME NEW p \in Live, NEW e \in BlocksOf(p), slot[e].inChild # NullSlot
             PROVE  LET q == slot[e].PDchild
                        f == slot[e].inChild
                    IN  /\ q \in ChildrenOf(p)
                        /\ f \in BlocksOf(q)
                        /\ slot[f].start = slot[e].start /\ slot[f].origin = slot[e].start
                        /\ IF IsCut(Mem, f) THEN slot[f].end < slot[e].end
                           ELSE slot[f].end = slot[e].end
  BY DEF sharedBlockIsInChild
<1> DEFINE q == slot[e].PDchild
           f == slot[e].inChild
<1>2. /\ p \in L /\ Mem \in Good /\ L \in SUBSET PDAddr /\ Tree(Mem, L) /\ Ranges(Mem, L)
      /\ Containment(Mem, L) /\ Shares(Mem, L) /\ Cuts(Mem, L)
      /\ Mem.slot = slot /\ Mem.pd = pd
      /\ BlocksOf(p) = BlocksIn(Mem, p) /\ BlocksOf(q) = BlocksIn(Mem, q)
  BY <1>1, WitnessParts
<1>3. /\ q \in L \ {RootPD} /\ pd[q].parent = p
      /\ f \in BlocksIn(Mem, q) /\ slot[f].start = slot[e].start
      /\ slot[f].origin = slot[e].start
      /\ IsPartOf(Mem, q, f, e)
      /\ ~ IsCut(Mem, f) => SameRange(slot[f], slot[e])
  <2>1. e \in BlocksIn(Mem, p) /\ Mem.slot[e].inChild # NullSlot
    BY <1>2
  <2> QED
    BY <1>2, <2>1, CopyRange
<1>4. q \in ChildrenOf(p)
  BY <1>1, <1>2, <1>3, ChildrenAre
<1>5. ASSUME IsCut(Mem, f) PROVE slot[f].end < slot[e].end
  <2> DEFINE g == slot[f].next
  <2>1. g # NullSlot
    BY <1>2, <1>3, <1>5 DEF IsCut
  <2>2. /\ g \in BlocksIn(Mem, q) /\ slot[g].start = slot[f].end
        /\ slot[g].origin = slot[f].origin
    BY <1>2, <1>3, <2>1 DEF Cuts
  <2>3. PICK o \in BlocksIn(Mem, p) : IsPartOf(Mem, q, g, o)
    BY SMTT(30), <1>2, <1>3, <2>2 DEF Containment
  <2>4. Within(slot[g], slot[o]) /\ slot[o].start = slot[e].start
    BY <1>2, <1>3, <2>2, <2>3 DEF IsPartOf
  <2>5. /\ slot[g].start \in Nat /\ slot[g].end \in Nat /\ slot[g].start < slot[g].end
    BY <1>1, <1>2, <1>3, <2>2, UnitsAre
  <2>6. /\ slot[e].start \in Nat /\ slot[e].end \in Nat /\ slot[e].start < slot[e].end
        /\ slot[o].start \in Nat /\ slot[o].end \in Nat /\ slot[o].start < slot[o].end
    BY <1>1, <1>2, <2>3, UnitsAre
  <2>7. Overlap(Mem.slot[o], Mem.slot[e])
    BY <1>2, <2>4, <2>6 DEF Overlap
  <2>8. o = e
    BY <1>2, <2>3, <2>7, SameBlock
  <2> QED
    BY <2>2, <2>4, <2>5, <2>6, <2>8 DEF Within
<1> QED
  BY <1>2, <1>3, <1>4, <1>5 DEF SameRange

\* childsBlocksPropsInParent: every block of a child lies in one block that
\* its parent records as shared with it.
LEMMA ChildBlocksInParent ==
  ASSUME IInv, Consistency
  PROVE  childsBlocksPropsInParent
<1>1. PICK L : Witness(L)
  BY WitnessExists
<1> SUFFICES ASSUME NEW p \in Live, NEW q \in ChildrenOf(p), NEW f \in BlocksOf(q)
             PROVE  \E e \in BlocksOf(p) :
                      /\ Units(f) \subseteq Units(e)
                      /\ slot[e].PDchild = q /\ slot[e].inChild # NullSlot
                      /\ ~ slot[e].PDflag
                      /\ slot[e].start = slot[f].origin
                      /\ slot[f].start = slot[e].start => slot[e].inChild = f
                      /\ Units(f) # Units(e) => ~ slot[e].accessible
  BY DEF childsBlocksPropsInParent
<1>2. /\ p \in L /\ Mem \in Good /\ L \in SUBSET PDAddr /\ Tree(Mem, L) /\ Ranges(Mem, L)
      /\ Containment(Mem, L) /\ Shares(Mem, L) /\ CopiesAccessible(Mem, L)
      /\ Mem.slot = slot /\ Mem.pd = pd
      /\ BlocksOf(p) = BlocksIn(Mem, p) /\ BlocksOf(q) = BlocksIn(Mem, q)
  BY <1>1, WitnessParts
<1>3. q \in L \ {RootPD} /\ pd[q].parent = p
  BY <1>1, <1>2, ChildrenAre
<1>4. PICK e \in BlocksIn(Mem, p) : IsPartOf(Mem, q, f, e)
  BY <1>2, <1>3 DEF Containment
<1>5. /\ Within(slot[f], slot[e]) /\ slot[e].PDchild = q
      /\ slot[e].inChild # NullSlot /\ slot[e].start = slot[f].origin
  BY <1>2, <1>4 DEF IsPartOf
<1> DEFINE h == slot[e].inChild
<1>6. /\ h \in BlocksIn(Mem, q) /\ slot[h].start = slot[e].start
      /\ ~ IsCut(Mem, h) => SameRange(slot[h], slot[e])
  BY <1>2, <1>4, <1>5, CopyRange
<1>7. ~ slot[e].PDflag
  BY <1>2, <1>4, <1>5 DEF Shares, IsShared
<1>8. /\ slot[f].start \in Nat /\ slot[f].end \in Nat /\ slot[f].start < slot[f].end
      /\ slot[h].start \in Nat /\ slot[h].end \in Nat /\ slot[h].start < slot[h].end
      /\ slot[e].start \in Nat /\ slot[e].end \in Nat /\ slot[e].start < slot[e].end
  <2>1. /\ slot[f].start \in Nat /\ slot[f].end \in Nat /\ slot[f].start < slot[f].end
    BY <1>1, <1>3, UnitsAre
  <2>2. /\ slot[h].start \in Nat /\ slot[h].end \in Nat /\ slot[h].start < slot[h].end
    BY <1>1, <1>2, <1>3, <1>6, UnitsAre
  <2>3. /\ slot[e].start \in Nat /\ slot[e].end \in Nat /\ slot[e].start < slot[e].end
    BY <1>1, <1>2, <1>4, UnitsAre
  <2> QED
    BY <2>1, <2>2, <2>3
<1>9. Units(f) \subseteq Units(e)
  BY <1>5, <1>8 DEF Units, Within
<1>10. ASSUME Overlap(slot[f], slot[h]) PROVE h = f
  <2>1. Overlap(Mem.slot[h], Mem.slot[f]) /\ f \in BlocksIn(Mem, q) /\ q \in L
    BY <1>2, <1>3, <1>10 DEF Overlap
  <2> QED
    BY <1>2, <1>6, <2>1, SameBlock
<1>11. slot[f].start = slot[e].start => h = f
  BY <1>6, <1>8, <1>10 DEF Overlap
<1>12. ASSUME slot[e].accessible PROVE Units(f) = Units(e)
  <2>1. ~ IsCut(Mem, h)
    BY <1>2, <1>4, <1>5, <1>12 DEF CopiesAccessible
  <2>2. SameRange(slot[h], slot[e])
    BY <1>6, <2>1
  <2>3. h = f
    BY <1>5, <1>8, <1>10, <2>2 DEF Overlap, Within, SameRange
  <2> QED
    BY <2>2, <2>3 DEF Units, SameRange
<1> QED
  BY <1>2, <1>4, <1>5, <1>7, <1>9, <1>11, <1>12

\* accessibleChildPaddrIsAccessibleIntoParent: the child's block is the uncut
\* copy of the parent's.
LEMMA AccessibleInParent ==
  ASSUME IInv, Consistency
  PROVE  accessibleChildPaddrIsAccessibleIntoParent
<1>1. PICK L : Witness(L)
  BY WitnessExists
<1> SUFFICES ASSUME NEW p \in Live, NEW q \in ChildrenOf(p),
                    NEW e \in BlocksOf(p), NEW f \in BlocksOf(q),
                    Units(f) = Units(e), slot[f].accessible
             PROVE  slot[e].accessible
  BY DEF accessibleChildPaddrIsAccessibleIntoParent
<1>2. /\ p \in L /\ Mem \in Good /\ L \in SUBSET PDAddr /\ Tree(Mem, L) /\ Ranges(Mem, L)
      /\ Containment(Mem, L) /\ Shares(Mem, L) /\ Cuts(Mem, L) /\ OpenAbove(Mem, L)
      /\ Mem.slot = slot /\ Mem.pd = pd
      /\ BlocksOf(p) = BlocksIn(Mem, p) /\ BlocksOf(q) = BlocksIn(Mem, q)
  BY <1>1, WitnessParts
<1>3. q \in L \ {RootPD} /\ pd[q].parent = p
  BY <1>1, <1>2, ChildrenAre
<1>4. /\ slot[e].start \in Nat /\ slot[e].end \in Nat /\ slot[e].start < slot[e].end
      /\ slot[f].start \in Nat /\ slot[f].end \in Nat /\ slot[f].start < slot[f].end
  BY <1>1, <1>2, <1>3, UnitsAre
<1>5. SameRange(slot[f], slot[e])
  <2>1. \A u \in Int : (slot[f].start <= u /\ u < slot[f].end)
                       <=> (slot[e].start <= u /\ u < slot[e].end)
    BY SMTT(30), <1>4 DEF Units
  <2>2. slot[f].start = slot[e].start
    BY <1>4, <2>1
  <2>3. slot[f].end - 1 = slot[e].end - 1
    BY <1>4, <2>1
  <2> QED
    BY <1>4, <2>2, <2>3 DEF SameRange
<1>6. PICK g \in BlocksIn(Mem, p) : IsPartOf(Mem, q, f, g)
  BY <1>2, <1>3 DEF Containment
<1>7. g = e
  <2>1. slot[g].start \in Nat /\ slot[g].end \in Nat
    BY <1>1, <1>2, UnitsAre
  <2>2. Overlap(Mem.slot[e], Mem.slot[g])
    BY <1>2, <1>4, <1>5, <1>6, <2>1 DEF IsPartOf, Within, SameRange, Overlap
  <2> QED
    BY <1>2, <2>2, SameBlock
<1>8. slot[e].inChild # NullSlot /\ slot[e].PDchild = q
  BY <1>2, <1>6, <1>7 DEF IsPartOf
<1> DEFINE h == slot[e].inChild
<1>9. h \in BlocksIn(Mem, q) /\ slot[h].start = slot[e].start
  BY <1>2, <1>8, CopyRange
<1>10. h = f
  <2>1. slot[h].start \in Nat /\ slot[h].end \in Nat /\ slot[h].start < slot[h].end
    BY <1>1, <1>2, <1>3, <1>9, UnitsAre
  <2>2. Overlap(Mem.slot[h], Mem.slot[f])
    BY <1>2, <1>4, <1>5, <1>9, <2>1 DEF Overlap, SameRange
  <2> QED
    BY <1>2, <1>3, <1>9, <2>2, SameBlock
<1>11. ~ IsCut(Mem, f)
  BY <1>2, <1>3, <1>5, <1>6, <1>7, WholeUncut
<1> QED
  BY <1>2, <1>8, <1>10, <1>11 DEF OpenAbove

\* AccessibleNoPDFlag: no accessible block is, or starts at, a descriptor.
LEMMA AccessibleNoDescriptor ==
  ASSUME IInv, Consistency
  PROVE  AccessibleNoPDFlag
<1>1. PICK L : Witness(L)
  BY WitnessExists
<1> SUFFICES ASSUME NEW p \in Live, NEW e \in BlocksOf(p), slot[e].accessible
             PROVE  ~ slot[e].PDflag /\ slot[e].start \notin Live
  BY DEF AccessibleNoPDFlag
<1>2. /\ p \in L /\ Mem \in Good /\ L \in SUBSET PDAddr /\ Consistent(Mem, L)
      /\ Guarded(Mem, L) /\ KernelBlocksHidden(Mem, L) /\ Live \subseteq L
      /\ Mem.slot = slot /\ BlocksOf(p) = BlocksIn(Mem, p)
  BY <1>1, WitnessParts
<1>3. ~ slot[e].PDflag
  BY <1>2 DEF KernelBlocksHidden, IsKernel
<1>4. ASSUME slot[e].start \in Live PROVE FALSE
  <2>1. slot[e].start \notin Mem.slot[e].start .. Mem.slot[e].end - 1
    BY <1>2, <1>4, AccessibleNoKernelData
  <2>2. slot[e].start \in Units(e)
    BY <1>1, <1>2, UnitsAre
  <2> QED
    BY <1>2, <2>1, <2>2 DEF Units
<1> QED
  BY <1>3, <1>4

\* PartitionTree: a live partition is a child of its parent only, and has its
\* kernel structures for itself.
LEMMA TreeOfPartitions ==
  ASSUME IInv, Consistency
  PROVE  PartitionTree
<1>1. PICK L : Witness(L)
  BY WitnessExists
<1>2. /\ Live \subseteq L /\ Structures(Mem, L) /\ Mem.pd = pd
      /\ \A p : Structs(p) = StructsOf(Mem, p)
  BY <1>1, WitnessParts
<1>3. ASSUME NEW q \in Live, q # RootPD
      PROVE  /\ {p \in Live : q \in ChildrenOf(p)} = {pd[q].parent}
             /\ \E e \in BlocksOf(pd[q].parent) : slot[e].start = q /\ slot[e].PDflag
  <2>1. PICK p \in Live : q \in ChildrenOf(p)
    BY <1>3, LiveIsLiveOf, LiveParent DEF ChildrenOf
  <2>2. \A x \in Live : q \in ChildrenOf(x) => pd[q].parent = x
    BY <1>1, <1>2, ChildrenAre
  <2>3. pd[q].parent = p
    BY <2>1, <2>2
  <2>4. {x \in Live : q \in ChildrenOf(x)} = {p}
    BY <2>1, <2>2, <2>3
  <2>5. \E e \in BlocksOf(p) : slot[e].start = q /\ slot[e].PDflag
    <3>1. q \in L \ {RootPD} /\ p \in L
      BY <1>2, <1>3, <2>1
    <3> QED
      BY <1>1, <2>3, <3>1, ChildrenAre
  <2> QED
    BY <2>3, <2>4, <2>5
<1>4. \A p, q \in Live : p # q => Structs(p) \cap Structs(q) = {}
  BY <1>2 DEF Structures
<1> QED
  BY <1>3, <1>4 DEF PartitionTree

\* KernelDataIsolation: no accessible unit holds a descriptor or a kernel
\* structure.
LEMMA KernelDataApart ==
  ASSUME IInv, Consistency
  PROVE  KernelDataIsolation
<1>1. PICK L : Witness(L)
  BY WitnessExists
<1> SUFFICES ASSUME NEW p \in Live, NEW q \in Live,
                    NEW u, u \in Accessible(p), u \in Config(q)
             PROVE  FALSE
  BY DEF KernelDataIsolation
<1>2. /\ p \in L /\ q \in L /\ Mem \in Good /\ L \in SUBSET PDAddr
      /\ Consistent(Mem, L) /\ KernelBlocksHidden(Mem, L) /\ CopiesAccessible(Mem, L)
      /\ Mem.slot = slot /\ BlocksOf(p) = BlocksIn(Mem, p)
      /\ Structs(q) = StructsOf(Mem, q)
  BY <1>1, WitnessParts
<1>3. PICK o \in BlocksOf(p) : slot[o].accessible /\ u \in Units(o)
  BY DEF Accessible
<1>4. u \in 1 .. Top
  BY <1>1, <1>2, <1>3, UnitsAre
<1>5. ASSUME NEW x \in L, NEW k \in BlocksIn(Mem, x), IsKernel(Mem, x, k),
             u \in slot[k].start .. slot[k].end - 1
      PROVE  FALSE
  <2>1. k \in BlocksOf(x) /\ u \in Units(k)
    BY <1>1, <1>5, WitnessParts DEF Units
  <2>2. Overlap(Mem.slot[o], Mem.slot[k])
    BY <1>1, <1>2, <1>3, <2>1, UnitsOverlap
  <2> QED
    BY <1>2, <1>3, <1>5, <2>2, AccessibleNoKernel
<1>6. CASE u \in q .. q + PDSize - 1
  <2>1. q # RootPD
    BY <1>4, <1>6, ConstantsAssumption
  <2>2. PICK x \in L : \E e \in BlocksIn(Mem, x) :
          /\ IsKernel(Mem, x, e)
          /\ Mem.slot[e].start = q /\ Size(Mem.slot[e]) >= PDSize
    BY <1>2, <2>1, KernelDataBlock
  <2>3. PICK e \in BlocksIn(Mem, x) :
          /\ IsKernel(Mem, x, e)
          /\ Mem.slot[e].start = q /\ Size(Mem.slot[e]) >= PDSize
    BY <2>2
  <2>4. slot[e].start \in Nat /\ slot[e].end \in Nat /\ x \in PDAddr
    BY <1>2, BlockType
  <2>5. u \in slot[e].start .. slot[e].end - 1
    BY <1>2, <1>6, <2>3, <2>4, ConstantsAssumption DEF Size
  <2> QED
    BY <1>5, <2>3, <2>5
<1>7. ASSUME NEW k \in Structs(q), u \in k .. k + KSSize - 1 PROVE FALSE
  <2>1. k # RootKS
    BY <1>4, <1>7, ConstantsAssumption
  <2>2. PICK x \in L : \E e \in BlocksIn(Mem, x) :
          /\ IsKernel(Mem, x, e)
          /\ Mem.slot[e].start = k /\ Size(Mem.slot[e]) >= KSSize
    BY <1>2, <2>1, KernelDataBlock
  <2>3. PICK e \in BlocksIn(Mem, x) :
          /\ IsKernel(Mem, x, e)
          /\ Mem.slot[e].start = k /\ Size(Mem.slot[e]) >= KSSize
    BY <2>2
  <2>4. slot[e].start \in Nat /\ slot[e].end \in Nat /\ x \in PDAddr
    BY <1>2, BlockType
  <2>5. u \in slot[e].start .. slot[e].end - 1
    BY <1>2, <1>7, <2>3, <2>4, ConstantsAssumption DEF Size
  <2> QED
    BY <1>5, <2>3, <2>5
<1> QED
  BY <1>6, <1>7 DEF Config

\* Block e is there for partition q: it holds the descriptor of q, or it is
\* shared with q or given to q for a structure.
Serves(e, q) == (slot[e].PDflag /\ slot[e].start = q) \/ slot[e].PDchild = q

\* Every unit a child uses lies in a block of its parent that serves the child.
LEMMA UsedInParent ==
  ASSUME NEW L, Witness(L), NEW p \in L, NEW q \in ChildrenOf(p),
         NEW u \in Used(q)
  PROVE  \E e \in BlocksOf(p) : u \in Units(e) /\ Serves(e, q)
<1>1. /\ L \in SUBSET PDAddr /\ Mem \in Good /\ Containment(Mem, L)
      /\ Structures(Mem, L) /\ Homes(Mem, L) /\ Mem.slot = slot /\ Mem.pd = pd
      /\ \A x : BlocksOf(x) = BlocksIn(Mem, x) /\ Structs(x) = StructsOf(Mem, x)
  BY WitnessParts
<1>2. q \in L \ {RootPD} /\ pd[q].parent = p
  BY ChildrenAre
<1>3. u \in 1 .. Top
  BY DEF Used
<1>4. ASSUME NEW f \in BlocksOf(q), u \in Units(f)
      PROVE  \E e \in BlocksOf(p) : u \in Units(e) /\ Serves(e, q)
  <2>1. PICK e \in BlocksIn(Mem, p) : IsPartOf(Mem, q, f, e)
    BY <1>1, <1>2, <1>4 DEF Containment
  <2>2. Within(slot[f], slot[e]) /\ slot[e].PDchild = q
    BY <1>1, <2>1 DEF IsPartOf
  <2>3. /\ slot[e].start \in Nat /\ slot[e].end \in Nat
        /\ slot[f].start \in Nat /\ slot[f].end \in Nat
    <3>1. e \in BlocksOf(p) /\ f \in BlocksOf(q) /\ q \in L
      BY <1>1, <1>2
    <3> QED
      BY <3>1, UnitsAre
  <2>4. u \in Units(e)
    BY <1>4, <2>2, <2>3 DEF Units, Within
  <2> QED
    BY <1>1, <2>2, <2>4 DEF Serves
<1>5. CASE u \in q .. q + PDSize - 1
  <2>1. PICK e \in BlocksOf(p) : slot[e].start = q /\ slot[e].PDflag
    BY <1>2, ChildrenAre
  <2>2. Size(slot[e]) >= PDSize
    BY <1>1, <2>1 DEF Homes, IsHome
  <2>3. slot[e].start \in Nat /\ slot[e].end \in Nat
    BY UnitsAre
  <2>4. u \in Units(e)
    BY <1>5, <2>1, <2>2, <2>3, ConstantsAssumption DEF Units, Size
  <2> QED
    BY <2>1, <2>4 DEF Serves
<1>6. ASSUME NEW k \in Structs(q), u \in k .. k + KSSize - 1
      PROVE  \E e \in BlocksOf(p) : u \in Units(e) /\ Serves(e, q)
  <2>1. k # RootKS
    BY <1>3, <1>6, ConstantsAssumption
  <2>2. PICK x \in {q, p} \cap L :
          \E e \in BlocksIn(Mem, x) : HoldsStructure(Mem, x, q, e, k)
    BY <1>1, <1>2, <1>6, <2>1 DEF Structures
  <2>3. PICK e \in BlocksOf(x) : HoldsStructure(Mem, x, q, e, k)
    BY <1>1, <2>2
  <2>4. /\ slot[e].start = k /\ Size(slot[e]) >= KSSize
        /\ x # q => slot[e].PDchild = q
    BY <1>1, <2>3 DEF HoldsStructure
  <2>5. slot[e].start \in Nat /\ slot[e].end \in Nat
    BY <2>2, UnitsAre
  <2>6. u \in Units(e)
    BY <1>6, <2>4, <2>5, ConstantsAssumption DEF Units, Size
  <2>7. CASE x = q
    BY <1>4, <2>6, <2>7
  <2>8. CASE x # q
    BY <2>2, <2>4, <2>6, <2>8 DEF Serves
  <2> QED
    BY <2>7, <2>8
<1> QED
  BY <1>4, <1>5, <1>6 DEF Used, Mapped, Config

\* PartitionsIsolation: two children of a partition have no unit in common.
LEMMA ChildrenApart ==
  ASSUME IInv, Consistency
  PROVE  PartitionsIsolation
<1>1. PICK L : Witness(L)
  BY WitnessExists
<1> SUFFICES ASSUME NEW p \in Live, NEW a \in ChildrenOf(p), NEW b \in ChildrenOf(p),
                    a # b, NEW u, u \in Used(a), u \in Used(b)
             PROVE  FALSE
  BY DEF PartitionsIsolation
<1>2. /\ p \in L /\ L \in SUBSET PDAddr /\ Homes(Mem, L) /\ Ranges(Mem, L)
      /\ Mem.slot = slot /\ BlocksOf(p) = BlocksIn(Mem, p)
  BY <1>1, WitnessParts
<1>3. a \in PDAddr /\ b \in PDAddr
  BY <1>1, <1>2, ChildrenAre
<1>4. PICK e \in BlocksOf(p) : u \in Units(e) /\ Serves(e, a)
  BY <1>1, <1>2, UsedInParent
<1>5. PICK f \in BlocksOf(p) : u \in Units(f) /\ Serves(f, b)
  BY <1>1, <1>2, UsedInParent
<1>6. Overlap(slot[e], slot[f])
  BY <1>1, <1>2, <1>4, <1>5, UnitsOverlap
<1>7. e = f
  BY <1>2, <1>6 DEF Ranges
<1>8. slot[e].PDflag => slot[e].PDchild = Null
  BY <1>2 DEF Homes, IsHome
<1> QED
  BY <1>3, <1>4, <1>5, <1>7, <1>8, NullOutside DEF Serves

\* VerticalSharing: a child uses only what its parent has mapped.
LEMMA ChildInParent ==
  ASSUME IInv, Consistency
  PROVE  VerticalSharing
<1>1. PICK L : Witness(L)
  BY WitnessExists
<1>2. Live \subseteq L
  BY <1>1, WitnessParts
<1> QED
  BY <1>1, <1>2, UsedInParent DEF VerticalSharing, Mapped

\* findBelongingBlock answers a block that covers the address, if anything.
LEMMA FindBelongingIs ==
  ASSUME NEW m, NEW p, NEW a, findBelongingBlock(m, p, a) # NullSlot
  PROVE  LET e == findBelongingBlock(m, p, a)
         IN  e \in BlocksIn(m, p) /\ m.slot[e].start <= a /\ a < m.slot[e].end
<1> DEFINE hits  == {e \in SlotsOf(m, p) : m.slot[e].present
                                           /\ m.slot[e].start <= a /\ a < m.slot[e].end}
           first == {e \in hits : \A f \in hits : ~ Precedes(m, p, f, e)}
<1>1. findBelongingBlock(m, p, a)
        = IF first = {} THEN NullSlot ELSE CHOOSE e \in first : TRUE
  BY DEF findBelongingBlock, FirstMatch
<1>2. findBelongingBlock(m, p, a) \in first
  <2> HIDE DEF first
  <2> QED
    BY <1>1
<1> QED
  BY <1>2, SlotsOfIs

\* FindBlockWritesAtHome: wherever the slot was looked up, it covers the start of
\* the buffer and is an accessible block in the structures of the caller.
LEMMA FoundAtHome ==
  ASSUME IInv, Consistency
  PROVE  FindBlockWritesAtHome
<1>1. PICK L : Witness(L)
  BY WitnessExists
<1> SUFFICES ASSUME NEW c \in Live, NEW r \in 1 .. Top, NEW t \in CurrentOrChild(c),
                    NEW a \in 1 .. Top, findBlock(c, t, a, r)
             PROVE  r \in Accessible(c) \ UNION {Config(q) : q \in Live}
  BY DEF FindBlockWritesAtHome
<1> DEFINE e == findBelongingBlock(Mem, t, r)
<1>2. /\ c \in L /\ L \in SUBSET PDAddr /\ Consistent(Mem, L) /\ Structures(Mem, L)
      /\ Mem \in Good /\ Mem.slot = slot
      /\ \A p : BlocksOf(p) = BlocksIn(Mem, p)
  BY <1>1, WitnessParts
<1>3. e \in SlotsOf(Mem, c) /\ e \in BlocksIn(Mem, c) /\ slot[e].accessible
  BY DEF findBlock, IsFound, BlocksIn
<1>4. e # NullSlot
  BY <1>2, <1>3, BlockType
<1>5. e \in BlocksIn(Mem, t) /\ slot[e].start <= r /\ r < slot[e].end
  BY <1>2, <1>4, FindBelongingIs
<1>6. r \in Units(e)
  <2>1. e \in BlocksOf(c)
    BY <1>2, <1>3
  <2> HIDE DEF e
  <2> QED
    BY <1>1, <1>2, <1>5, <2>1, UnitsAre
<1>7. r \in Accessible(c)
  BY <1>2, <1>3, <1>6 DEF Accessible
<1>8. \A q \in Live : r \notin Config(q)
  BY <1>7, KernelDataApart DEF KernelDataIsolation
<1> QED
  BY <1>7, <1>8

-----------------------------------------------------------------------------
(* The free list, walked from its head.                                    *)

\* The walk of a well-formed free list meets each free slot once and then
\* stays at the null slot.
LEMMA FreeListWalk ==
  ASSUME NEW m \in Good, NEW p \in PDAddr, FreeListOK(m, p), FreeIn(m, p) \subseteq Slots
  PROVE  LET free == FreeIn(m, p)
             at   == At([e \in Slots |-> m.slot[e].nextFree], m.pd[p].firstFree)
         IN  \E n \in Nat : /\ n = Cardinality(free)
                            /\ {at[k] : k \in 0 .. n - 1} = free
                            /\ at[n] = NullSlot
<1> DEFINE link == [e \in Slots |-> m.slot[e].nextFree]
           free == FreeIn(m, p)
           head == m.pd[p].firstFree
           at   == At(link, head)
<1>1. /\ head \in free \cup {NullSlot}
      /\ \A e \in free : link[e] \in (free \cup {NullSlot}) \ {head}
      /\ \A e, f \in free : link[e] = link[f] => e = f
      /\ \A S \in SUBSET free : S # {} => \E e \in S : link[e] \notin S
  BY DEF FreeListOK
<1>2. NullSlot \notin Slots /\ NullSlot \notin free
  BY NullSlotNoSlot
<1>3. /\ at[0] = head
      /\ \A n \in Nat : at[n + 1] = IF at[n] \in Slots THEN link[at[n]] ELSE at[n]
  <2>1. DOMAIN link = Slots
    OBVIOUS
  <2> HIDE DEF link
  <2> QED
    BY <2>1, AtSteps
<1>4. free \subseteq Slots
  OBVIOUS
<1> HIDE DEF link, free, head, at
\* The walk stays among the free slots until it ends.
<1>5. \A n \in Nat : at[n] \in free \cup {NullSlot}
  <2> DEFINE S == {n \in Nat : at[n] \in free \cup {NullSlot}}
  <2>1. 0 \in S
    BY <1>1, <1>3
  <2>2. \A n \in S : n + 1 \in S
    BY <1>1, <1>2, <1>3, <1>4
  <2>3. S \in SUBSET Nat
    OBVIOUS
  <2> HIDE DEF S
  <2>4. S = Nat
    BY <2>1, <2>2, <2>3, Induction
  <2> QED
    BY <2>4 DEF S
<1>6. \A n \in Nat : /\ at[n] \in free => at[n + 1] = link[at[n]]
                     /\ at[n] = NullSlot => at[n + 1] = NullSlot
  BY <1>2, <1>3, <1>4
\* It never comes back to a free slot it has left.
<1>7. \A i \in Nat : at[i] \in free => \A j \in Nat : j > i => at[j] # at[i]
  <2> DEFINE S == {i \in Nat : at[i] \in free => \A j \in Nat : j > i => at[j] # at[i]}
  <2>1. 0 \in S
    <3>1. ASSUME at[0] \in free, NEW j \in Nat, j > 0 PROVE at[j] # at[0]
      <4>1. j - 1 \in Nat /\ j - 1 + 1 = j
        BY <3>1
      <4>2. at[j] = NullSlot \/ at[j] \in (free \cup {NullSlot}) \ {head}
        BY <1>1, <1>5, <1>6, <4>1
      <4> QED
        BY <1>2, <1>3, <3>1, <4>2
    <3> QED
      BY <3>1
  <2>2. ASSUME NEW i \in S PROVE i + 1 \in S
    <3>1. ASSUME at[i + 1] \in free, NEW j \in Nat, j > i + 1, at[j] = at[i + 1]
          PROVE  FALSE
      <4>1. i \in Nat /\ j - 1 \in Nat /\ j - 1 + 1 = j /\ j - 1 > i
        BY <3>1
      <4>2. at[i] \in free /\ at[i + 1] = link[at[i]]
        BY <1>2, <1>5, <1>6, <3>1, <4>1
      <4>3. at[j - 1] \in free /\ at[j] = link[at[j - 1]]
        BY <1>2, <1>5, <1>6, <3>1, <4>1
      <4>4. at[j - 1] = at[i]
        BY <1>1, <3>1, <4>2, <4>3
      <4> QED
        BY <2>2, <4>1, <4>2, <4>4
    <3> QED
      BY <3>1
  <2>3. S \in SUBSET Nat
    OBVIOUS
  <2> HIDE DEF S
  <2>4. S = Nat
    BY <2>1, <2>2, <2>3, Induction
  <2> QED
    BY <2>4 DEF S
\* It ends.
<1>8. \E n \in Nat : at[n] = NullSlot
  <2> SUFFICES ASSUME \A n \in Nat : at[n] # NullSlot PROVE FALSE
    OBVIOUS
  <2> DEFINE S == {at[n] : n \in Nat}
  <2>1. S \in SUBSET free /\ S # {}
    BY <1>5
  <2>2. PICK e \in S : link[e] \notin S
    BY <1>1, <2>1
  <2>3. PICK n \in Nat : e = at[n]
    BY <2>2
  <2>4. link[e] = at[n + 1]
    BY <1>6, <2>1, <2>2, <2>3
  <2> QED
    BY <2>2, <2>3, <2>4
<1>9. PICK n \in Nat : /\ at[n] = NullSlot
                       /\ \A k \in Nat : at[k] = NullSlot => n <= k
  <2> DEFINE S == {n \in Nat : at[n] = NullSlot}
  <2>1. S \in SUBSET Nat /\ S # {}
    BY <1>8
  <2> HIDE DEF S
  <2>2. \E x \in S : \A y \in S : x <= y
    BY <2>1, LeastNat
  <2> QED
    BY <2>2 DEF S
<1>10. \A k \in 0 .. n - 1 : k \in Nat /\ at[k] \in free
  BY <1>5, <1>9
\* It has met every free slot by then.
<1>11. {at[k] : k \in 0 .. n - 1} = free
  <2> DEFINE met == {at[k] : k \in 0 .. n - 1}
             S   == free \ met
  <2>1. met \subseteq free
    BY <1>10
  <2>2. ASSUME S # {} PROVE FALSE
    <3>1. PICK e \in S : link[e] \notin S
      <4>1. S \in SUBSET free
        OBVIOUS
      <4> HIDE DEF S
      <4> QED
        BY <1>1, <2>2, <4>1
    <3>2. PICK k \in 0 .. n : link[e] = at[k]
      <4>1. link[e] \in met \/ link[e] = NullSlot
        BY <1>1, <3>1
      <4>2. n \in 0 .. n
        OBVIOUS
      <4> QED
        BY <1>9, <4>1, <4>2
    <3>3. k # 0
      BY <1>1, <1>3, <3>1, <3>2
    <3>4. k - 1 \in 0 .. n - 1 /\ k - 1 + 1 = k /\ k - 1 \in Nat
      BY <3>2, <3>3
    <3>5. at[k - 1] \in free /\ at[k] = link[at[k - 1]]
      BY <1>6, <1>10, <3>4
    <3>6. e = at[k - 1]
      BY <1>1, <3>1, <3>2, <3>5
    <3> QED
      BY <3>1, <3>4, <3>6
  <2> QED
    BY <2>1, <2>2
<1>12. Cardinality(free) = n
  <2> DEFINE f == [k \in 1 .. n |-> at[k - 1]]
  <2>1. \A k \in 1 .. n : k - 1 \in 0 .. n - 1
    OBVIOUS
  <2>2. f \in [1 .. n -> free]
    BY <1>10, <2>1
  <2>3. \A k, l \in 1 .. n : k < l => f[k] # f[l]
    <3> SUFFICES ASSUME NEW k \in 1 .. n, NEW l \in 1 .. n, k < l PROVE f[k] # f[l]
      OBVIOUS
    <3>1. k - 1 \in Nat /\ l - 1 \in Nat /\ l - 1 > k - 1 /\ at[k - 1] \in free
      BY <1>10, <2>1
    <3> QED
      BY <1>7, <3>1
  <2>4. \A k, l \in 1 .. n : f[k] = f[l] => k = l
    <3> HIDE DEF f
    <3> QED
      BY <2>3
  <2>5. \A e \in free : \E k \in 1 .. n : f[k] = e
    <3> SUFFICES ASSUME NEW e \in free PROVE \E k \in 1 .. n : f[k] = e
      OBVIOUS
    <3>1. PICK k \in 0 .. n - 1 : e = at[k]
      BY <1>11
    <3>2. k + 1 \in 1 .. n /\ f[k + 1] = e
      BY <3>1
    <3> QED
      BY <3>2
  <2> HIDE DEF f
  <2>6. f \in Bijection(1 .. n, free)
    BY <2>2, <2>4, <2>5 DEF Bijection, Injection, Surjection, IsInjective
  <2>7. ExistsBijection(1 .. n, free)
    BY <2>6 DEF ExistsBijection
  <2> QED
    BY <2>7, FS_CountingElements
<1> QED
  BY <1>9, <1>11, <1>12 DEF link, free, head, at

\* FreeListExact: the list from firstFree on is exactly the free slots.
LEMMA FreeListIsExact ==
  ASSUME IInv, Consistency
  PROVE  FreeListExact
<1>1. PICK L : Witness(L)
  BY WitnessExists
<1> SUFFICES ASSUME NEW p \in Live
             PROVE  LET list == FreeList(Mem, p)
                        free == {e \in SlotsOf(Mem, p) : ~ slot[e].present}
                        n    == Cardinality(free)
                    IN  /\ pd[p].nbFree = n
                        /\ {list[k] : k \in 0 .. n - 1} = free
                        /\ list[n] = NullSlot
                        /\ \A e \in free : slot[e] = FreeEntry(slot[e].nextFree)
  BY DEF FreeListExact
<1>2. /\ p \in PDAddr /\ Mem \in Good /\ Mem.slot = slot /\ Mem.pd = pd
      /\ FreeListOK(Mem, p)
  BY <1>1, WitnessParts DEF FreeLists
<1> DEFINE free == FreeIn(Mem, p)
           link == [e \in Slots |-> Mem.slot[e].nextFree]
           at   == At(link, Mem.pd[p].firstFree)
           list == FreeList(Mem, p)
<1>3. {e \in SlotsOf(Mem, p) : ~ slot[e].present} = free
  BY <1>2 DEF FreeIn
<1>4. free \subseteq Slots
  BY <1>2, SlotsOfType, SlotsOfIs
<1>5. PICK n \in Nat : /\ n = Cardinality(free)
                       /\ {at[k] : k \in 0 .. n - 1} = free
                       /\ at[n] = NullSlot
  BY <1>2, <1>4, FreeListWalk
<1>6. n <= Cardinality(Slots) /\ Cardinality(Slots) \in Nat
  BY <1>4, <1>5, SlotsFinite, FS_Subset, FS_CardinalityType
<1>7. list = [k \in 0 .. Cardinality(Slots) |-> at[k]]
  <2> DEFINE x == Mem.pd[p].firstFree
  <2>1. DOMAIN link = Slots
    OBVIOUS
  <2>2. list = Chain(link, x)
    BY DEF FreeList
  <2> HIDE DEF link, x
  <2>3. Chain(link, x) = [k \in 0 .. Cardinality(DOMAIN link) |-> At(link, x)[k]]
    BY ONLY ReachedIsAt
  <2>4. list = [k \in 0 .. Cardinality(Slots) |-> At(link, x)[k]]
    BY ONLY <2>1, <2>2, <2>3
  <2> QED
    BY ONLY <2>4 DEF at, x
<1>8. \A k \in 0 .. n : list[k] = at[k]
  <2> HIDE DEF list, at
  <2> QED
    BY <1>6, <1>7
<1>9. {list[k] : k \in 0 .. n - 1} = free /\ list[n] = NullSlot
  <2> HIDE DEF list, at, free
  <2> QED
    BY <1>5, <1>8
<1>10. /\ pd[p].nbFree = Cardinality(free)
       /\ \A e \in free : slot[e] = FreeEntry(slot[e].nextFree)
  BY <1>2 DEF FreeListOK
<1> HIDE DEF list, free
<1> QED
  BY <1>3, <1>5, <1>9, <1>10 DEF list

\* inclFreeSlotsBlockEntries: the free list stays in the structures of its
\* partition.
LEMMA FreeListAtHome ==
  ASSUME IInv, Consistency
  PROVE  inclFreeSlotsBlockEntries
<1>1. PICK L : Witness(L)
  BY WitnessExists
<1> SUFFICES ASSUME NEW p \in Live
             PROVE  Reached([e \in Slots |-> slot[e].nextFree], pd[p].firstFree)
                      \subseteq SlotsOf(Mem, p) \cup {NullSlot}
  BY DEF inclFreeSlotsBlockEntries
<1>2. p \in PDAddr /\ Mem.slot = slot /\ Mem.pd = pd /\ FreeListOK(Mem, p)
  BY <1>1, WitnessParts DEF FreeLists
<1> DEFINE link == [e \in Slots |-> slot[e].nextFree]
           head == pd[p].firstFree
           T    == FreeIn(Mem, p) \cup {NullSlot}
<1>3. head \in T /\ T \subseteq SlotsOf(Mem, p) \cup {NullSlot}
  BY <1>2, SlotsOfIs DEF FreeListOK
<1>4. \A y \in T : y \in DOMAIN link => link[y] \in T
  BY <1>2, NullSlotNoSlot DEF FreeListOK
<1>5. IsFiniteSet(DOMAIN link)
  BY SlotsFinite
<1> HIDE DEF link, head, T
<1>6. Reached(link, head) \subseteq T
  BY <1>3, <1>4, <1>5, ReachedLeast
<1> QED
  BY <1>3, <1>6 DEF link, head

-----------------------------------------------------------------------------
(* The properties of PipIsolation, through every sequence of calls.        *)

\* No partition can access memory that holds kernel data: createPartition and
\* prepare hide the block in the caller and in every ancestor, and no cut,
\* merge, removal or deletion shows it again.
THEOREM KernelDataIsolationHolds ==
  NoCollect /\ Spec /\ [][RemovalsComplete]_vars => []KernelDataIsolation
<1>1. IInv /\ Consistency => KernelDataIsolation
  BY KernelDataApart
<1> QED
  BY <1>1, ConsistencyHolds, PTL

\* Two children of a partition use disjoint memory: addMemoryBlock shares a
\* block with one child, and what a cut or a removal frees is nowhere else.
THEOREM PartitionsIsolationHolds ==
  NoCollect /\ Spec /\ [][RemovalsComplete]_vars => []PartitionsIsolation
<1>1. IInv /\ Consistency => PartitionsIsolation
  BY ChildrenApart
<1> QED
  BY <1>1, ConsistencyHolds, PTL

\* A child uses only memory its parent has mapped: blocks come from
\* addMemoryBlock, kernel structures from prepare, its descriptor from
\* createPartition.
THEOREM VerticalSharingHolds ==
  NoCollect /\ Spec /\ [][RemovalsComplete]_vars => []VerticalSharing
<1>1. IInv /\ Consistency => VerticalSharing
  BY ChildInParent
<1> QED
  BY <1>1, ConsistencyHolds, PTL

\* The blocks of a partition never overlap, whatever is cut, merged, added or
\* taken away.
THEOREM BlocksDisjoint ==
  NoCollect /\ Spec /\ [][RemovalsComplete]_vars => []noDupMappedPaddrList
<1>1. IInv /\ Consistency => noDupMappedPaddrList
  BY NoDup
<1> QED
  BY <1>1, ConsistencyHolds, PTL

\* The share a parent records is the child's block: removeMemoryBlock follows
\* that link, and a cut, a merge or a removal in the child keeps it right.
THEOREM SharesMatch ==
  NoCollect /\ Spec /\ [][RemovalsComplete]_vars => []sharedBlockIsInChild
<1>1. IInv /\ Consistency => sharedBlockIsInChild
  BY SharedInChild
<1> QED
  BY <1>1, ConsistencyHolds, PTL

\* Every block of a child is, or is part of, a block its parent has shared
\* with it and no longer accesses once the child has cut it.
THEOREM ChildBlocksComeFromParent ==
  NoCollect /\ Spec /\ [][RemovalsComplete]_vars => []childsBlocksPropsInParent
<1>1. IInv /\ Consistency => childsBlocksPropsInParent
  BY ChildBlocksInParent
<1> QED
  BY <1>1, ConsistencyHolds, PTL

\* A block whose PDchild is null, the check of cut, merge, prepare and add,
\* is in no child.
THEOREM UnsharedIsPrivate ==
  NoCollect /\ Spec /\ [][RemovalsComplete]_vars => []noChildImpliesAddressesNotShared
<1>1. IInv /\ Consistency => noChildImpliesAddressesNotShared
  BY NoChildNotShared
<1> QED
  BY <1>1, ConsistencyHolds, PTL

\* A shared block stays accessible only as long as the child's copy is whole
\* and accessible: cut, createPartition and prepare tell every ancestor.
THEOREM AccessReachesCopies ==
  NoCollect /\ Spec /\ [][RemovalsComplete]_vars
    => []accessibleParentPaddrIsAccessibleIntoChild
<1>1. IInv /\ Consistency => accessibleParentPaddrIsAccessibleIntoChild
  BY AccessibleInChild
<1> QED
  BY <1>1, ConsistencyHolds, PTL

\* What a child may access in a block it has whole, its parent may access:
\* merge, remove and delete tell every ancestor that has the block whole.
THEOREM AccessReachesParents ==
  NoCollect /\ Spec /\ [][RemovalsComplete]_vars
    => []accessibleChildPaddrIsAccessibleIntoParent
<1>1. IInv /\ Consistency => accessibleChildPaddrIsAccessibleIntoParent
  BY AccessibleInParent
<1> QED
  BY <1>1, ConsistencyHolds, PTL

\* An accessible block holds no descriptor: the services that skip the PDflag
\* after they have checked accessible are right to.
THEOREM AccessibleIsNoDescriptor ==
  NoCollect /\ Spec /\ [][RemovalsComplete]_vars => []AccessibleNoPDFlag
<1>1. IInv /\ Consistency => AccessibleNoPDFlag
  BY AccessibleNoDescriptor
<1> QED
  BY <1>1, ConsistencyHolds, PTL

\* The subblocks that cut links stay adjacent and of one origin: merge joins
\* them and removeMemoryBlock frees them all by following the links.
THEOREM CutListsContiguous ==
  NoCollect /\ Spec /\ [][RemovalsComplete]_vars => []CutBlocksContiguous
<1>1. IInv /\ Consistency => CutBlocksContiguous
  BY Contiguous
<1> QED
  BY <1>1, ConsistencyHolds, PTL

\* The free list is exactly the free slots, each once, and nbFree its length:
\* insertNewEntry never overwrites an entry in use.
THEOREM FreeListHolds ==
  NoCollect /\ Spec /\ [][RemovalsComplete]_vars => []FreeListExact
<1>1. IInv /\ Consistency => FreeListExact
  BY FreeListIsExact
<1> QED
  BY <1>1, ConsistencyHolds, PTL

\* The free list stays in the structures of its partition.
THEOREM FreeListStaysHome ==
  NoCollect /\ Spec /\ [][RemovalsComplete]_vars => []inclFreeSlotsBlockEntries
<1>1. IInv /\ Consistency => inclFreeSlotsBlockEntries
  BY FreeListAtHome
<1> QED
  BY <1>1, ConsistencyHolds, PTL

\* The partitions are a tree: one parent, one home block, and structures of
\* one's own, through every creation and deletion.
THEOREM PartitionTreeHolds ==
  NoCollect /\ Spec /\ [][RemovalsComplete]_vars => []PartitionTree
<1>1. IInv /\ Consistency => PartitionTree
  BY TreeOfPartitions
<1> QED
  BY <1>1, ConsistencyHolds, PTL

\* A findBlock that answers writes to a buffer that starts in memory the caller
\* accesses and the kernel does not use.
THEOREM FindBlockWrites ==
  NoCollect /\ Spec /\ [][RemovalsComplete]_vars => []FindBlockWritesAtHome
<1>1. IInv /\ Consistency => FindBlockWritesAtHome
  BY FoundAtHome
<1> QED
  BY <1>1, ConsistencyHolds, PTL

\* The MPU of a partition holds accessible blocks of its own, each once: every
\* service that hides, frees or moves a block takes it out first.
THEOREM MPUMapsOwnBlocks ==
  NoCollect /\ Spec /\ [][RemovalsComplete]_vars => []MPUFromAccessibleBlocks
<1>1. IInv /\ Consistency => MPUFromAccessibleBlocks
  BY MPUMapsOwn
<1> QED
  BY <1>1, ConsistencyHolds, PTL

\* A child never has a right its parent lacks on the same memory, however
\* deep it was passed down and however it was cut.
THEOREM RightsNeverGrowHolds ==
  NoCollect /\ Spec /\ [][RemovalsComplete]_vars => []RightsNeverGrow
<1>1. IInv /\ Consistency => RightsNeverGrow
  BY RightsKept
<1> QED
  BY <1>1, ConsistencyHolds, PTL

\* The properties of PipIsolation, together.
AllProperties ==
  /\ KernelDataIsolation
  /\ PartitionsIsolation
  /\ VerticalSharing
  /\ noDupMappedPaddrList
  /\ sharedBlockIsInChild
  /\ childsBlocksPropsInParent
  /\ noChildImpliesAddressesNotShared
  /\ accessibleParentPaddrIsAccessibleIntoChild
  /\ accessibleChildPaddrIsAccessibleIntoParent
  /\ AccessibleNoPDFlag
  /\ CutBlocksContiguous
  /\ FreeListExact
  /\ inclFreeSlotsBlockEntries
  /\ PartitionTree
  /\ FindBlockWritesAtHome
  /\ MPUFromAccessibleBlocks
  /\ RightsNeverGrow

\* The invariant implies each of them.
LEMMA EachProperty == IInv /\ Consistency => AllProperties
BY KernelDataApart, ChildrenApart, ChildInParent, NoDup, SharedInChild,
   ChildBlocksInParent, NoChildNotShared, AccessibleInChild, AccessibleInParent,
   AccessibleNoDescriptor, Contiguous, FreeListIsExact, FreeListAtHome,
   TreeOfPartitions, FoundAtHome, MPUMapsOwn, RightsKept
   DEF AllProperties

\* When only the root partition removes blocks, no removal can stop half-way
\* and nothing more than NoCollect is assumed of the calls.
THEOREM IsolationWhenRootRemoves ==
  NoCollect /\ OnlyRootRemoves /\ Spec => []AllProperties
<1> QED
  BY EachProperty, ConsistencyWhenRootRemoves, PTL

-----------------------------------------------------------------------------
(* What PipAbstract sees of a memory.                                      *)

\* What PipAbstract sees of m when the partitions of L live.
View(m, L) ==
  [parent |-> [p \in PDAddr |-> IF p \in L THEN m.pd[p].parent ELSE Null],
   pool   |-> [p \in PDAddr |-> IF p \in L THEN PoolIn(m, p) ELSE {}],
   open   |-> [p \in PDAddr |-> IF p \in L THEN OpenIn(m, p) ELSE {}],
   kern   |-> [p \in PDAddr |-> IF p \in L THEN KernIn(m, p) ELSE {}]]

\* The fields of a view, one by one.
LEMMA ViewFields ==
  ASSUME NEW m, NEW L \in SUBSET PDAddr
  PROVE  /\ \A p \in L : /\ View(m, L).parent[p] = m.pd[p].parent
                         /\ View(m, L).pool[p] = PoolIn(m, p)
                         /\ View(m, L).open[p] = OpenIn(m, p)
                         /\ View(m, L).kern[p] = KernIn(m, p)
         /\ \A p \in PDAddr \ L : /\ View(m, L).parent[p] = Null
                                  /\ View(m, L).pool[p] = {}
                                  /\ View(m, L).open[p] = {}
                                  /\ View(m, L).kern[p] = {}
         /\ DOMAIN View(m, L).parent = PDAddr /\ DOMAIN View(m, L).pool = PDAddr
         /\ DOMAIN View(m, L).open = PDAddr /\ DOMAIN View(m, L).kern = PDAddr
BY DEF View

\* A view is a memory of PipAbstract.
LEMMA ViewType ==
  ASSUME NEW m \in Good, NEW L \in SUBSET PDAddr
  PROVE  View(m, L) \in Abstract!Memory
<1>1. \A p \in PDAddr : m.pd[p].parent \in PDAddr \cup {Null}
  BY DEF Good, GoodPD, Descriptor
<1> QED
  BY <1>1 DEF View, Abstract!Memory, PoolIn, OpenIn, KernIn, Unit

\* The children and the living of a view.
LEMMA ViewTree ==
  ASSUME NEW m \in Good, NEW L \in SUBSET PDAddr, Tree(m, L)
  PROVE  /\ \A p \in PDAddr : \A q :
              q \in Abstract!ChildrenOf(View(m, L), p)
                <=> q \in L \ {RootPD} /\ m.pd[q].parent = p
         /\ Abstract!Alive(View(m, L)) = L
<1>1. RootPD \in L /\ m.pd[RootPD].parent = Null /\ \A q \in L \ {RootPD} : m.pd[q].parent \in L
  BY DEF Tree
<1>2. Null \notin PDAddr
  BY NullOutside
<1> QED
  BY <1>1, <1>2, ViewFields DEF Abstract!ChildrenOf, Abstract!Alive

\* What holds between two services, and the partitions it is about.
Settled(m, L) ==
  m \in Good /\ L \in SUBSET PDAddr /\ Consistent(m, L) /\ Guarded(m, L)

\* The parts of the invariant of the memory between services, by name.
LEMMA SettledParts ==
  ASSUME NEW m, NEW L, Settled(m, L)
  PROVE  /\ m \in Good /\ L \in SUBSET PDAddr /\ Consistent(m, L) /\ Guarded(m, L)
         /\ Tree(m, L) /\ Homes(m, L) /\ Structures(m, L) /\ Ranges(m, L)
         /\ Cuts(m, L) /\ Shares(m, L) /\ Containment(m, L)
         /\ KernelBlocksHidden(m, L) /\ CopiesAccessible(m, L)
BY DEF Settled, Consistent, Guarded

-----------------------------------------------------------------------------
(* The descendants.                                                        *)

\* The part of the tree that IsPruned cuts off is Below of PipAbstract.
LEMMA BelowIs ==
  ASSUME NEW m \in Good, NEW L \in SUBSET PDAddr, Tree(m, L), NEW q, NEW K,
         IsPruned(m, L, q, K)
  PROVE  Abstract!Below(View(m, L), q) = L \ K
<1> DEFINE V         == View(m, L)
           Closed(S) == q \in S /\ \A p \in S : Abstract!ChildrenOf(V, p) \subseteq S
<1>1. \A p \in PDAddr : \A c :
        c \in Abstract!ChildrenOf(V, p) <=> c \in L \ {RootPD} /\ m.pd[c].parent = p
  BY ViewTree
<1> HIDE DEF V
<1>2. /\ K \in SUBSET L /\ RootPD \in K /\ q \in L \ K
      /\ \A x \in K \ {RootPD} : m.pd[x].parent \in K
      /\ \A x \in L \ K : x = q \/ m.pd[x].parent \notin K
  BY DEF IsPruned
<1>3. \A x : x \in Abstract!Below(V, q)
               <=> x \in PDAddr /\ \A S \in SUBSET PDAddr : Closed(S) => x \in S
  BY DEF Abstract!Below
<1>4. L \ K \in SUBSET PDAddr /\ Closed(L \ K)
  BY <1>1, <1>2
<1>5. ASSUME NEW S \in SUBSET PDAddr, Closed(S)
      PROVE  L \ K \subseteq S
  <2> DEFINE Y == (L \ K) \ S
  <2>1. Y \in SUBSET (L \ {RootPD})
    BY <1>2
  <2>2. ASSUME NEW y \in Y PROVE m.pd[y].parent \in Y
    <3>1. y \in L \ {RootPD} /\ y # q /\ m.pd[y].parent \in L \ K
      BY <1>2, <1>5, <2>1 DEF Tree
    <3>2. y \in Abstract!ChildrenOf(V, m.pd[y].parent)
      BY <1>1, <3>1
    <3> QED
      BY <1>5, <3>1, <3>2
  <2> HIDE DEF Y
  <2>3. Y = {}
    BY <2>1, <2>2 DEF Tree
  <2> QED
    BY <2>3 DEF Y
<1> HIDE DEF Closed
<1>6. Abstract!Below(V, q) \subseteq L \ K
  BY <1>3, <1>4
<1>7. L \ K \subseteq Abstract!Below(V, q)
  BY <1>3, <1>5
<1> QED
  BY <1>6, <1>7 DEF V

\* Where more are children, more are below.
LEMMA BelowGrows ==
  ASSUME NEW V, NEW W, NEW x \in PDAddr,
         \A p \in PDAddr : Abstract!ChildrenOf(V, p) \subseteq Abstract!ChildrenOf(W, p)
  PROVE  Abstract!Below(V, x) \subseteq Abstract!Below(W, x)
BY DEF Abstract!Below

\* The end of a path is below each of its partitions.
LEMMA BelowOnPath ==
  ASSUME NEW m \in Good, NEW L \in SUBSET PDAddr, Tree(m, L),
         NEW W, IsPath(m, L, W), NEW a, IsEnd(m, W, a), NEW x \in W
  PROVE  a \in Abstract!Below(View(m, L), x)
<1> DEFINE V == View(m, L)
<1>1. \A p \in PDAddr : \A c :
        c \in Abstract!ChildrenOf(V, p) <=> c \in L \ {RootPD} /\ m.pd[c].parent = p
  BY ViewTree
<1> HIDE DEF V
<1>2. /\ W \subseteq L /\ a \in W /\ x \in W
      /\ \A y \in W \ {RootPD} : m.pd[y].parent \in W /\ m.pd[y].parent # a
      /\ \A y, r \in W \ {RootPD} : m.pd[y].parent = m.pd[r].parent => y = r
  BY DEF IsPath, IsEnd
<1> SUFFICES ASSUME NEW S \in SUBSET PDAddr, x \in S, a \notin S,
                    \A p \in S : Abstract!ChildrenOf(V, p) \subseteq S
             PROVE  FALSE
  BY <1>2 DEF Abstract!Below, V
<1> DEFINE A == W \ S
<1>3. ASSUME NEW y \in A \ {RootPD} PROVE m.pd[y].parent \in A
  <2>1. y \in L \ {RootPD} /\ m.pd[y].parent \in W /\ m.pd[y].parent \in PDAddr
    BY <1>2
  <2>2. y \in Abstract!ChildrenOf(V, m.pd[y].parent)
    BY <1>1, <2>1
  <2> QED
    BY <2>1, <2>2
<1>4. A \subseteq L /\ a \in A /\ A \subseteq W /\ x \notin A
  BY <1>2
<1>5. \A y : y \in A <=> y \in W /\ y \notin S
  OBVIOUS
<1> HIDE DEF A
<1>6. RootPD \in A
  BY <1>3, <1>4, RootInPath
<1>7. IsPath(m, L, A)
  BY <1>2, <1>3, <1>4 DEF IsPath
<1> DEFINE R == W \ A
<1>8. R \in SUBSET (L \ {RootPD}) /\ R # {}
  BY <1>2, <1>4, <1>6
<1>9. \A y : y \in R <=> y \in W /\ y \notin A
  OBVIOUS
<1> HIDE DEF R
<1>10. PICK y \in R : m.pd[y].parent \notin R
  BY <1>8 DEF Tree
<1>11. y \in W \ {RootPD} /\ y \notin A /\ m.pd[y].parent \in A
  BY <1>2, <1>6, <1>9, <1>10
<1>12. IsEnd(m, A, m.pd[y].parent) /\ IsEnd(m, A, a)
  BY <1>2, <1>4, <1>11 DEF IsEnd
<1>13. m.pd[y].parent = a
  BY <1>7, <1>12, OneEnd
<1> QED
  BY <1>2, <1>11, <1>13

\* Who has memory that p has and has given to no child is above p.
LEMMA OwnerAbove ==
  ASSUME NEW m, NEW L, Settled(m, L), NEW p \in L, NEW e \in BlocksIn(m, p),
         m.slot[e].inChild = NullSlot, NEW x \in L, NEW u \in PoolIn(m, x),
         u \in Extent(m, e)
  PROVE  p \in Abstract!Below(View(m, L), x)
<1>1. /\ m \in Good /\ L \in SUBSET PDAddr /\ Tree(m, L) /\ Ranges(m, L)
      /\ Containment(m, L)
  BY SettledParts
<1>2. u \in Unit /\ u \in Int /\ \E f \in BlocksIn(m, x) : Holds(m, x, f, u)
  BY ConstantsAssumption DEF PoolIn, Unit
<1>3. Holds(m, p, e, u)
  BY <1>1, <1>2, ExtentIn
<1> DEFINE H == Holders(m, L, u)
<1>4. IsPath(m, L, H) /\ IsEnd(m, H, p)
  BY <1>1, <1>2, <1>3, HoldersPath
<1>5. x \in H
  BY <1>2 DEF Holders
<1> HIDE DEF H
<1> QED
  BY <1>1, <1>4, <1>5, BelowOnPath

-----------------------------------------------------------------------------
(* What is open.                                                           *)

\* What a partition may access it owns, and nothing of the kernel is there.
LEMMA OpenFacts ==
  ASSUME NEW m, NEW L, Settled(m, L), NEW p \in L
  PROVE  /\ OpenIn(m, p) \subseteq PoolIn(m, p)
         /\ \A q \in L : OpenIn(m, p) \cap KernIn(m, q) = {}
<1>1. /\ m \in Good /\ L \in SUBSET PDAddr /\ Consistent(m, L) /\ Ranges(m, L)
      /\ KernelBlocksHidden(m, L) /\ CopiesAccessible(m, L)
  BY SettledParts
<1>2. OpenIn(m, p) \subseteq PoolIn(m, p)
  BY DEF OpenIn, PoolIn
<1>3. ASSUME NEW q \in L, NEW u \in OpenIn(m, p), u \in KernIn(m, q)
      PROVE  FALSE
  <2>1. /\ u \in Int /\ u <= Top /\ Top \in Nat /\ RootPD > Top /\ RootKS > Top
        /\ RootPD \in Nat /\ RootKS \in Nat /\ PDSize \in Nat /\ KSSize \in Nat
    BY <1>3, ConstantsAssumption DEF OpenIn, Unit
  <2>2. PICK o \in BlocksIn(m, p) : m.slot[o].accessible /\ Holds(m, p, o, u)
    BY <1>3 DEF OpenIn
  <2>3. ASSUME NEW x \in L, NEW k \in BlocksIn(m, x), IsKernel(m, x, k),
               m.slot[k].start <= u, u < m.slot[k].end
        PROVE  FALSE
    <3>1. /\ m.slot[o].start \in Nat /\ m.slot[o].end \in Nat
          /\ m.slot[k].start \in Nat /\ m.slot[k].end \in Nat
      BY <1>1, BlockType
    <3>2. Overlap(m.slot[o], m.slot[k])
      BY <2>1, <2>2, <2>3, <3>1 DEF Overlap, Holds
    <3> QED
      BY <1>1, <2>2, <2>3, <3>2, AccessibleNoKernel
  <2>4. CASE q <= u /\ u < q + PDSize
    <3>1. q # RootPD
      BY <2>1, <2>4
    <3>2. PICK x \in L : \E k \in BlocksIn(m, x) :
            IsKernel(m, x, k) /\ m.slot[k].start = q /\ Size(m.slot[k]) >= PDSize
      BY <1>1, <3>1, KernelDataBlock
    <3>3. PICK k \in BlocksIn(m, x) :
            IsKernel(m, x, k) /\ m.slot[k].start = q /\ Size(m.slot[k]) >= PDSize
      BY <3>2
    <3>4. m.slot[k].start \in Nat /\ m.slot[k].end \in Nat
      BY <1>1, BlockType
    <3>5. m.slot[k].start <= u /\ u < m.slot[k].end
      BY <2>1, <2>4, <3>3, <3>4 DEF Size
    <3> QED
      BY <2>3, <3>3, <3>5
  <2>5. CASE \E k \in StructsOf(m, q) : k <= u /\ u < k + KSSize
    <3>0. PICK s \in StructsOf(m, q) : s <= u /\ u < s + KSSize
      BY <2>5
    <3>1. s # RootKS
      BY <2>1, <3>0
    <3>2. PICK x \in L : \E k \in BlocksIn(m, x) :
            IsKernel(m, x, k) /\ m.slot[k].start = s /\ Size(m.slot[k]) >= KSSize
      BY <1>1, <3>0, <3>1, KernelDataBlock
    <3>3. PICK k \in BlocksIn(m, x) :
            IsKernel(m, x, k) /\ m.slot[k].start = s /\ Size(m.slot[k]) >= KSSize
      BY <3>2
    <3>4. m.slot[k].start \in Nat /\ m.slot[k].end \in Nat
      BY <1>1, BlockType
    <3>5. m.slot[k].start <= u /\ u < m.slot[k].end
      BY <2>1, <3>0, <3>3, <3>4 DEF Size
    <3> QED
      BY <2>3, <3>3, <3>5
  <2> QED
    BY <1>3, <2>4, <2>5 DEF KernIn
<1> QED
  BY <1>2, <1>3

\* p may give away a block that is open to it and in no child.
LEMMA UsableFree ==
  ASSUME NEW m, NEW L, Settled(m, L), NEW p \in L, NEW e, Usable(m, p, e)
  PROVE  /\ Extent(m, e) \subseteq Abstract!Free(View(m, L), p)
         /\ Extent(m, e) \subseteq OpenIn(m, p) /\ Extent(m, e) # {}
         /\ \A q \in L \ {RootPD} : m.pd[q].parent = p
              => Extent(m, e) \cap PoolIn(m, q) = {}
<1>1. /\ m \in Good /\ L \in SUBSET PDAddr /\ Tree(m, L) /\ Ranges(m, L)
      /\ Containment(m, L)
  BY SettledParts
<1>2. e \in BlocksIn(m, p) /\ m.slot[e].accessible /\ m.slot[e].inChild = NullSlot
  BY DEF Usable
<1>3. /\ Extent(m, e) \subseteq OpenIn(m, p) /\ m.slot[e].start \in Extent(m, e)
      /\ \A u \in Unit : u \in Extent(m, e) <=> Holds(m, p, e, u)
  BY <1>1, <1>2, ExtentIn
<1>4. ASSUME NEW q \in L \ {RootPD}, m.pd[q].parent = p,
             NEW u \in PoolIn(m, q), u \in Extent(m, e)
      PROVE  FALSE
  <2>1. u \in Unit /\ u \in Int
    BY ConstantsAssumption DEF PoolIn, Unit
  <2>2. PICK f \in BlocksIn(m, q) : Holds(m, q, f, u)
    BY DEF PoolIn
  <2>3. Holds(m, p, e, u)
    BY <1>3, <1>4, <2>1
  <2>4. /\ m.slot[e].start \in Nat /\ m.slot[e].end \in Nat
        /\ m.slot[f].start \in Nat /\ m.slot[f].end \in Nat
    BY <1>1, <1>2, BlockType
  <2>5. Overlap(m.slot[e], m.slot[f])
    BY <2>1, <2>2, <2>3, <2>4 DEF Overlap, Holds
  <2> QED
    BY <1>1, <1>2, <1>4, <2>5, NotInChild
<1>5. Extent(m, e) \subseteq Abstract!Free(View(m, L), p)
  <2> DEFINE V == View(m, L)
  <2>1. \A q : q \in Abstract!ChildrenOf(V, p) <=> q \in L \ {RootPD} /\ m.pd[q].parent = p
    BY <1>1, ViewTree
  <2>2. V.open[p] = OpenIn(m, p) /\ \A q \in L : V.pool[q] = PoolIn(m, q)
    BY <1>1, ViewFields
  <2> HIDE DEF V
  <2> SUFFICES ASSUME NEW u \in Extent(m, e) PROVE u \in Abstract!Free(V, p)
    BY DEF V
  <2>3. \A q \in Abstract!ChildrenOf(V, p) : u \notin V.pool[q]
    BY <1>4, <2>1, <2>2
  <2> QED
    BY <1>3, <2>2, <2>3 DEF Abstract!Free
<1> QED
  BY <1>3, <1>4, <1>5

-----------------------------------------------------------------------------
(* The services.                                                           *)

\* The fields of a view are functions, on the partitions.
LEMMA ViewFunctions ==
  ASSUME NEW m \in Good, NEW L \in SUBSET PDAddr
  PROVE  LET V == View(m, L)
         IN  /\ V.parent \in [PDAddr -> PDAddr \cup {Null}]
             /\ V.pool \in [PDAddr -> SUBSET Unit]
             /\ V.open \in [PDAddr -> SUBSET Unit]
             /\ V.kern \in [PDAddr -> SUBSET Unit]
<1> DEFINE V == View(m, L)
<1>1. V \in Abstract!Memory
  BY ViewType
<1> HIDE DEF V
<1>2. /\ V.parent \in [PDAddr -> PDAddr \cup {Null}]
      /\ V.pool \in [PDAddr -> SUBSET Unit]
      /\ V.open \in [PDAddr -> SUBSET Unit]
      /\ V.kern \in [PDAddr -> SUBSET Unit]
  BY <1>1 DEF Abstract!Memory, Unit
<1> QED
  BY <1>2 DEF V

\* A view follows from what its partitions have.
LEMMA ViewIs ==
  ASSUME NEW m, NEW L, Settled(m, L)
  PROVE  LET V == View(m, L)
         IN  /\ V \in Abstract!Memory /\ Abstract!Alive(V) = L
             /\ V.parent \in [PDAddr -> PDAddr \cup {Null}]
             /\ V.pool \in [PDAddr -> SUBSET Unit]
             /\ V.open \in [PDAddr -> SUBSET Unit]
             /\ V.kern \in [PDAddr -> SUBSET Unit]
             /\ \A x \in L : /\ V.parent[x] = m.pd[x].parent /\ V.pool[x] = PoolIn(m, x)
                             /\ V.open[x] = OpenIn(m, x) /\ V.kern[x] = KernIn(m, x)
             /\ \A x \in PDAddr \ L : /\ V.parent[x] = Null /\ V.pool[x] = {}
                                      /\ V.open[x] = {} /\ V.kern[x] = {}
             /\ \A x \in PDAddr : \A q : q \in Abstract!ChildrenOf(V, x)
                                         <=> q \in L \ {RootPD} /\ m.pd[q].parent = x
<1> DEFINE V == View(m, L)
<1>1. m \in Good /\ L \in SUBSET PDAddr /\ Tree(m, L)
  BY SettledParts
<1>2. V \in Abstract!Memory
  BY <1>1, ViewType
<1>3. /\ V.parent \in [PDAddr -> PDAddr \cup {Null}]
      /\ V.pool \in [PDAddr -> SUBSET Unit]
      /\ V.open \in [PDAddr -> SUBSET Unit]
      /\ V.kern \in [PDAddr -> SUBSET Unit]
  BY <1>1, ViewFunctions
<1>4. /\ \A x \in L : /\ V.parent[x] = m.pd[x].parent /\ V.pool[x] = PoolIn(m, x)
                      /\ V.open[x] = OpenIn(m, x) /\ V.kern[x] = KernIn(m, x)
      /\ \A x \in PDAddr \ L : /\ V.parent[x] = Null /\ V.pool[x] = {}
                               /\ V.open[x] = {} /\ V.kern[x] = {}
  BY <1>1, ViewFields
<1>5. /\ Abstract!Alive(V) = L
      /\ \A x \in PDAddr : \A q : q \in Abstract!ChildrenOf(V, x)
                                  <=> q \in L \ {RootPD} /\ m.pd[q].parent = x
  BY <1>1, ViewTree
<1> QED
  BY <1>2, <1>3, <1>4, <1>5

\* What the partitions keep, the view keeps.
LEMMA SameFields ==
  ASSUME NEW m, NEW n, NEW L
  PROVE  /\ (\A x \in L : n.pd[x].parent = m.pd[x].parent)
              => View(n, L).parent = View(m, L).parent
         /\ (\A x \in L : PoolIn(n, x) = PoolIn(m, x))
              => View(n, L).pool = View(m, L).pool
         /\ (\A x \in L : KernIn(n, x) = KernIn(m, x))
              => View(n, L).kern = View(m, L).kern
BY DEF View

\* Nothing changes for a service that moves no memory.
LEMMA SameView ==
  ASSUME NEW m, NEW n, NEW L, Settled(m, L), Settled(n, L), SameMemory(m, n, L)
  PROVE  View(n, L) = View(m, L)
<1>1. \A x \in L : /\ n.pd[x].parent = m.pd[x].parent /\ PoolIn(n, x) = PoolIn(m, x)
                   /\ OpenIn(n, x) = OpenIn(m, x) /\ KernIn(n, x) = KernIn(m, x)
  BY DEF SameMemory, SameOwners
<1> QED
  BY <1>1 DEF View

\* The kernel takes block e of p, for N, about t.
LEMMA Taken ==
  ASSUME NEW m, NEW L, Settled(m, L), NEW n, NEW M, Settled(n, M), L \subseteq M,
         NEW p \in L, NEW e, Usable(m, p, e), Seized(m, n, L, e),
         NEW t \in M, M \ L \subseteq {t},
         \A x \in L \ {t} : KernIn(n, x) = KernIn(m, x),
         t \notin L => PoolIn(n, t) = {} /\ OpenIn(n, t) = {},
         NEW N, N # {}, N \subseteq Extent(m, e),
         KernIn(n, t) = IF t \in L THEN KernIn(m, t) \cup N ELSE N
  PROVE  Abstract!Take(View(m, L), View(n, M), p, t)
<1> DEFINE V == View(m, L)
           W == View(n, M)
           U == V.open[p] \ W.open[p]
           K == W.kern[t] \ V.kern[t]
<1>1. /\ V.pool \in [PDAddr -> SUBSET Unit] /\ V.open \in [PDAddr -> SUBSET Unit]
      /\ V.kern \in [PDAddr -> SUBSET Unit]
      /\ \A x \in L : /\ V.pool[x] = PoolIn(m, x)
                      /\ V.open[x] = OpenIn(m, x) /\ V.kern[x] = KernIn(m, x)
      /\ \A x \in PDAddr \ L : V.pool[x] = {} /\ V.open[x] = {} /\ V.kern[x] = {}
  BY ViewIs
<1>2. /\ W.pool \in [PDAddr -> SUBSET Unit] /\ W.open \in [PDAddr -> SUBSET Unit]
      /\ W.kern \in [PDAddr -> SUBSET Unit]
      /\ \A x \in M : /\ W.pool[x] = PoolIn(n, x)
                      /\ W.open[x] = OpenIn(n, x) /\ W.kern[x] = KernIn(n, x)
      /\ \A x \in PDAddr \ M : W.pool[x] = {} /\ W.open[x] = {} /\ W.kern[x] = {}
  BY ViewIs
<1>3. /\ Extent(m, e) \subseteq Abstract!Free(V, p)
      /\ Extent(m, e) \subseteq OpenIn(m, p)
  BY UsableFree
<1>4. L \subseteq PDAddr /\ M \subseteq PDAddr
  BY SettledParts
<1>5. \A x \in L : PoolIn(n, x) = PoolIn(m, x) /\ OpenIn(n, x) = OpenIn(m, x) \ Extent(m, e)
  BY DEF Seized
<1> HIDE DEF V, W
<1>6. U = Extent(m, e)
  BY <1>1, <1>2, <1>3, <1>5
<1>7. N \cap V.kern[t] = {}
  <2>1. t \in L => OpenIn(m, p) \cap KernIn(m, t) = {}
    BY OpenFacts
  <2> QED
    BY <1>1, <1>3, <1>4, <2>1
<1>8. K = N /\ W.kern[t] = V.kern[t] \cup N
  BY <1>1, <1>2, <1>4, <1>7
<1> HIDE DEF U, K
<1>9. \A x \in PDAddr : W.pool[x] = V.pool[x] /\ W.open[x] = V.open[x] \ U
  <2> SUFFICES ASSUME NEW x \in PDAddr
               PROVE  W.pool[x] = V.pool[x] /\ W.open[x] = V.open[x] \ U
    OBVIOUS
  <2>1. CASE x \in L
    BY <1>1, <1>2, <1>5, <1>6, <2>1
  <2>2. CASE x \notin L
    <3>1. x \notin M \/ x = t
      BY <2>2
    <3> QED
      BY <1>1, <1>2, <2>2, <3>1
  <2> QED
    BY <2>1, <2>2
<1>10. \A x \in PDAddr : W.kern[x] = IF x = t THEN V.kern[t] \cup K ELSE V.kern[x]
  <2> SUFFICES ASSUME NEW x \in PDAddr, x # t PROVE W.kern[x] = V.kern[x]
    BY <1>8
  <2> QED
    BY ZenonT(30), <1>1, <1>2
<1>11. W.pool = V.pool
  BY <1>1, <1>2, <1>9
<1>12. W.open = [x \in PDAddr |-> V.open[x] \ U]
  BY <1>1, <1>2, <1>9
<1>13. W.kern = [V.kern EXCEPT ![t] = @ \cup K]
  BY <1>1, <1>2, <1>4, <1>10
<1>14. K # {} /\ K \subseteq U /\ U \subseteq Abstract!Free(V, p)
  BY <1>3, <1>6, <1>8
<1> QED
  BY <1>11, <1>12, <1>13, <1>14 DEF Abstract!Take, Abstract!Same, U, K, V, W

\* createPartition is createPartition of PipAbstract: the caller and those
\* above it lose the block it had open, and it becomes the descriptor of a new
\* child.
LEMMA createRefines ==
  ASSUME NEW m, NEW L, Settled(m, L), NEW n, NEW p \in L, NEW e, n \in Good,
         Created(m, n, L, p, e)
  PROVE  LET M == L \cup {m.slot[e].start}
         IN  Settled(n, M) /\ Abstract!Service(View(m, L), View(n, M))
<1> DEFINE q == m.slot[e].start
           M == L \cup {q}
           V == View(m, L)
           W == View(n, M)
           N == {u \in Unit : q <= u /\ u < q + PDSize}
<1>1. /\ Usable(m, p, e) /\ Size(m.slot[e]) >= PDSize /\ q \in PDAddr \ L
      /\ Consistent(n, M) /\ Guarded(n, M)
      /\ Seized(m, n, L, e) /\ \A x \in L : KernIn(n, x) = KernIn(m, x)
      /\ n.pd[q].parent = p /\ BlocksIn(n, q) = {} /\ StructsOf(n, q) = {}
  BY DEF Created
<1>2. L \in SUBSET PDAddr /\ m \in Good /\ Ranges(m, L) /\ RootPD \in L
  BY SettledParts DEF Tree
<1>3. Settled(n, M)
  BY <1>1, <1>2 DEF Settled
<1>4. PoolIn(n, q) = {} /\ OpenIn(n, q) = {} /\ KernIn(n, q) = N
  BY <1>1 DEF PoolIn, OpenIn, KernIn
<1>5. N # {} /\ N \subseteq Extent(m, e)
  <2>1. e \in BlocksIn(m, p)
    BY <1>1 DEF Usable
  <2>2. /\ m.slot[e].start \in Nat /\ m.slot[e].end \in Nat /\ Top \in Nat
        /\ 1 <= m.slot[e].start /\ m.slot[e].start < m.slot[e].end
        /\ m.slot[e].end <= Top + 1 /\ PDSize \in Nat \ {0}
    BY <1>2, <2>1, BlockType, BlockRange, ConstantsAssumption
  <2>3. q \in N
    BY <2>2 DEF Unit
  <2> QED
    BY <1>1, <2>2, <2>3 DEF Extent, Size, Unit
<1>6. Abstract!Take(V, W, p, q)
  BY <1>1, <1>3, <1>4, <1>5, Taken
<1>7. /\ V.parent \in [PDAddr -> PDAddr \cup {Null}]
      /\ \A x \in L : V.parent[x] = m.pd[x].parent
      /\ \A x \in PDAddr \ L : V.parent[x] = Null
      /\ V \in Abstract!Memory /\ Abstract!Alive(V) = L
  BY ViewIs
<1>8. /\ W.parent \in [PDAddr -> PDAddr \cup {Null}]
      /\ \A x \in M : W.parent[x] = n.pd[x].parent
      /\ \A x \in PDAddr \ M : W.parent[x] = Null
      /\ W \in Abstract!Memory
  <2> HIDE DEF M
  <2> QED
    BY <1>3, ViewIs
<1>9. \A x \in L : n.pd[x].parent = m.pd[x].parent
  BY <1>1 DEF Seized
<1> HIDE DEF V, W
<1>10. \A x \in PDAddr : W.parent[x] = IF x = q THEN p ELSE V.parent[x]
  BY <1>1, <1>7, <1>8, <1>9
<1>11. W.parent = [V.parent EXCEPT ![q] = p]
  BY <1>1, <1>2, <1>7, <1>8, <1>10
<1>12. q # RootPD /\ V.parent[q] = Null
  BY <1>1, <1>2, <1>7
<1>13. Abstract!createPartition(V, W, p, q)
  BY <1>6, <1>11, <1>12 DEF Abstract!createPartition
<1>14. Abstract!Service(V, W)
  BY <1>1, <1>7, <1>8, <1>13 DEF Abstract!Service
<1> QED
  BY <1>3, <1>14 DEF V, W

\* prepare takes an open block of the caller for a structure of the caller or
\* of its child, and it leaves the memory of those above.
LEMMA prepareRefines ==
  ASSUME NEW m, NEW L, Settled(m, L), NEW n, NEW p \in L, NEW e, NEW t, n \in Good,
         Prepared(m, n, L, p, e, t)
  PROVE  Settled(n, L) /\ Abstract!Service(View(m, L), View(n, L))
<1> DEFINE k == m.slot[e].start
           V == View(m, L)
           W == View(n, L)
           N == {u \in Unit : k <= u /\ u < k + KSSize}
<1>1. /\ Usable(m, p, e) /\ Size(m.slot[e]) >= KSSize
      /\ t \in L /\ (t = p \/ (t # RootPD /\ m.pd[t].parent = p))
      /\ Consistent(n, L) /\ Guarded(n, L) /\ Seized(m, n, L, e)
      /\ \A x \in L : StructsOf(n, x) = IF x = t THEN StructsOf(m, x) \cup {k}
                                        ELSE StructsOf(m, x)
  BY DEF Prepared
<1>2. L \in SUBSET PDAddr /\ m \in Good /\ Ranges(m, L) /\ RootPD \in L
  BY SettledParts DEF Tree
<1>3. Settled(n, L)
  BY <1>1, <1>2 DEF Settled
<1>4. \A x \in L : KernIn(n, x) = IF x = t THEN KernIn(m, x) \cup N ELSE KernIn(m, x)
  BY <1>1 DEF KernIn
<1>5. N # {} /\ N \subseteq Extent(m, e)
  <2>1. e \in BlocksIn(m, p)
    BY <1>1 DEF Usable
  <2>2. /\ m.slot[e].start \in Nat /\ m.slot[e].end \in Nat /\ Top \in Nat
        /\ 1 <= m.slot[e].start /\ m.slot[e].start < m.slot[e].end
        /\ m.slot[e].end <= Top + 1 /\ KSSize \in Nat \ {0}
    BY <1>2, <2>1, BlockType, BlockRange, ConstantsAssumption
  <2>3. k \in N
    BY <2>2 DEF Unit
  <2> QED
    BY <1>1, <2>2, <2>3 DEF Extent, Size, Unit
<1>6. Abstract!Take(V, W, p, t)
  <2>1. /\ KernIn(n, t) = IF t \in L THEN KernIn(m, t) \cup N ELSE N
        /\ \A x \in L \ {t} : KernIn(n, x) = KernIn(m, x)
    BY <1>1, <1>4
  <2> HIDE DEF N
  <2> QED
    BY <1>1, <1>3, <1>5, <2>1, Taken
<1>7. /\ V.parent \in [PDAddr -> PDAddr \cup {Null}]
      /\ \A x \in L : V.parent[x] = m.pd[x].parent
      /\ \A x \in PDAddr \ L : V.parent[x] = Null
      /\ V \in Abstract!Memory /\ Abstract!Alive(V) = L
      /\ \A x \in PDAddr : \A q : q \in Abstract!ChildrenOf(V, x)
                                  <=> q \in L \ {RootPD} /\ m.pd[q].parent = x
  BY ViewIs
<1>8. /\ W.parent \in [PDAddr -> PDAddr \cup {Null}]
      /\ \A x \in L : W.parent[x] = n.pd[x].parent
      /\ \A x \in PDAddr \ L : W.parent[x] = Null
      /\ W \in Abstract!Memory
  BY <1>3, ViewIs
<1>9. \A x \in L : n.pd[x].parent = m.pd[x].parent
  BY <1>1 DEF Seized
<1>10. W.parent = V.parent
  BY <1>9, SameFields
<1> HIDE DEF V, W
<1>11. Abstract!prepare(V, W, p, t)
  BY <1>6, <1>10 DEF Abstract!prepare, Abstract!Same
<1>12. t \in {p} \cup Abstract!ChildrenOf(V, p)
  BY <1>1, <1>2, <1>7
<1>13. Abstract!Service(V, W)
  BY <1>7, <1>8, <1>11, <1>12 DEF Abstract!Service
<1> QED
  BY <1>3, <1>13 DEF V, W

\* cutMemoryBlock closes the block to the partitions above the caller, and
\* moves no memory.
LEMMA cutRefines ==
  ASSUME NEW m, NEW L, Settled(m, L), NEW n, NEW p \in L, NEW e, n \in Good,
         Narrowed(m, n, L, p, e)
  PROVE  Settled(n, L) /\ Abstract!Service(View(m, L), View(n, L))
<1> DEFINE V == View(m, L)
           W == View(n, L)
           U == UNION {V.open[x] \ W.open[x] : x \in PDAddr}
<1>1. /\ Usable(m, p, e) /\ Consistent(n, L) /\ Guarded(n, L)
      /\ \A x \in L : /\ n.pd[x].parent = m.pd[x].parent
                      /\ PoolIn(n, x) = PoolIn(m, x) /\ KernIn(n, x) = KernIn(m, x)
      /\ OpenIn(n, p) = OpenIn(m, p)
      /\ \A x \in L \ {p} : OpenIn(n, x) = OpenIn(m, x) \ Extent(m, e)
  BY DEF Narrowed, SameOwners
<1>2. Settled(n, L) /\ L \in SUBSET PDAddr
  BY <1>1 DEF Settled
<1>3. /\ V.parent \in [PDAddr -> PDAddr \cup {Null}]
      /\ V.pool \in [PDAddr -> SUBSET Unit] /\ V.open \in [PDAddr -> SUBSET Unit]
      /\ V.kern \in [PDAddr -> SUBSET Unit]
      /\ \A x \in L : /\ V.parent[x] = m.pd[x].parent /\ V.pool[x] = PoolIn(m, x)
                      /\ V.open[x] = OpenIn(m, x) /\ V.kern[x] = KernIn(m, x)
      /\ \A x \in PDAddr \ L : /\ V.parent[x] = Null /\ V.pool[x] = {}
                               /\ V.open[x] = {} /\ V.kern[x] = {}
      /\ V \in Abstract!Memory /\ Abstract!Alive(V) = L
  BY ViewIs
<1>4. /\ W.parent \in [PDAddr -> PDAddr \cup {Null}]
      /\ W.pool \in [PDAddr -> SUBSET Unit] /\ W.open \in [PDAddr -> SUBSET Unit]
      /\ W.kern \in [PDAddr -> SUBSET Unit]
      /\ \A x \in L : /\ W.parent[x] = n.pd[x].parent /\ W.pool[x] = PoolIn(n, x)
                      /\ W.open[x] = OpenIn(n, x) /\ W.kern[x] = KernIn(n, x)
      /\ \A x \in PDAddr \ L : /\ W.parent[x] = Null /\ W.pool[x] = {}
                               /\ W.open[x] = {} /\ W.kern[x] = {}
      /\ W \in Abstract!Memory
  BY <1>2, ViewIs
<1>5. Extent(m, e) \subseteq Abstract!Free(V, p)
  BY <1>1, UsableFree
<1>7. W.parent = V.parent /\ W.pool = V.pool /\ W.kern = V.kern
  BY <1>1, SameFields
<1> HIDE DEF V, W
<1>8. \A x \in PDAddr : IF x = p THEN W.open[x] = V.open[x]
                        ELSE W.open[x] = V.open[x] \ Extent(m, e)
  BY <1>1, <1>3, <1>4
<1>9. U \subseteq Extent(m, e)
  BY <1>8
<1>10. \A x \in PDAddr : V.open[x] \ W.open[x] \subseteq U
  OBVIOUS
<1> HIDE DEF U
<1>11. \A x \in PDAddr : W.open[x] = IF x = p THEN V.open[x] ELSE V.open[x] \ U
  BY <1>8, <1>9, <1>10
<1>12. W.open = [x \in PDAddr |-> IF x = p THEN V.open[x] ELSE V.open[x] \ U]
  BY <1>4, <1>11
<1>13. Abstract!cutMemoryBlock(V, W, p)
  BY <1>5, <1>7, <1>9, <1>12 DEF Abstract!cutMemoryBlock, Abstract!Same, U
<1>14. Abstract!Service(V, W)
  BY <1>3, <1>4, <1>13 DEF Abstract!Service
<1> QED
  BY <1>2, <1>14 DEF V, W

\* mergeMemoryBlocks joins two blocks and opens again above what was open
\* below, or changes nothing that PipAbstract sees.
LEMMA mergeRefines ==
  ASSUME NEW m, NEW L, Settled(m, L), NEW n, NEW p \in L, NEW e1, NEW e2, n \in Good,
         Merged(m, n, L, p, e1, e2)
  PROVE  /\ Settled(n, L)
         /\ View(n, L) = View(m, L) \/ Abstract!Service(View(m, L), View(n, L))
<1> DEFINE V == View(m, L)
           W == View(n, L)
           X == Extent(m, e1) \cup Extent(m, e2)
<1>1. /\ Usable(m, p, e1) /\ Usable(m, p, e2) /\ Consistent(n, L) /\ Guarded(n, L)
      /\ SameOwners(m, n, L)
      /\ \A x \in L : /\ n.pd[x].parent = m.pd[x].parent
                      /\ PoolIn(n, x) = PoolIn(m, x) /\ KernIn(n, x) = KernIn(m, x)
                      /\ OpenIn(m, x) \subseteq OpenIn(n, x)
                      /\ OpenIn(n, x) \subseteq OpenIn(m, x) \cup X
  BY DEF Merged, Opened, SameOwners
<1>2. Settled(n, L) /\ L \in SUBSET PDAddr
  BY <1>1 DEF Settled
<1>3. /\ V.parent \in [PDAddr -> PDAddr \cup {Null}]
      /\ V.pool \in [PDAddr -> SUBSET Unit] /\ V.open \in [PDAddr -> SUBSET Unit]
      /\ V.kern \in [PDAddr -> SUBSET Unit]
      /\ \A x \in L : /\ V.parent[x] = m.pd[x].parent /\ V.pool[x] = PoolIn(m, x)
                      /\ V.open[x] = OpenIn(m, x) /\ V.kern[x] = KernIn(m, x)
      /\ \A x \in PDAddr \ L : /\ V.parent[x] = Null /\ V.pool[x] = {}
                               /\ V.open[x] = {} /\ V.kern[x] = {}
      /\ V \in Abstract!Memory /\ Abstract!Alive(V) = L
  BY ViewIs
<1>4. /\ W.parent \in [PDAddr -> PDAddr \cup {Null}]
      /\ W.pool \in [PDAddr -> SUBSET Unit] /\ W.open \in [PDAddr -> SUBSET Unit]
      /\ W.kern \in [PDAddr -> SUBSET Unit]
      /\ \A x \in L : /\ W.parent[x] = n.pd[x].parent /\ W.pool[x] = PoolIn(n, x)
                      /\ W.open[x] = OpenIn(n, x) /\ W.kern[x] = KernIn(n, x)
      /\ \A x \in PDAddr \ L : /\ W.parent[x] = Null /\ W.pool[x] = {}
                               /\ W.open[x] = {} /\ W.kern[x] = {}
      /\ W \in Abstract!Memory
  BY <1>2, ViewIs
<1>5. X \subseteq Abstract!Free(V, p)
  BY <1>1, UsableFree
<1>6. ASSUME NEW x \in L, NEW u \in PoolIn(m, x), u \in X
      PROVE  p \in Abstract!Below(V, x)
  BY <1>1, <1>6, OwnerAbove DEF Usable
<1>7. \A x \in L : OpenIn(n, x) \subseteq PoolIn(n, x)
  BY <1>2, OpenFacts
<1>9. W.parent = V.parent /\ W.pool = V.pool /\ W.kern = V.kern
  BY <1>1, SameFields
<1> HIDE DEF V, W, X
<1>10. CASE V.open = W.open
  <2>1. \A x \in L : OpenIn(n, x) = OpenIn(m, x)
    BY <1>3, <1>4, <1>10
  <2>2. SameMemory(m, n, L)
    BY <1>1, <2>1 DEF SameMemory
  <2> QED
    BY <1>2, <2>2, SameView
<1>11. CASE V.open # W.open
  <2>1. \A x \in PDAddr : V.open[x] \subseteq W.open[x]
    BY <1>1, <1>3, <1>4
  <2>2. ASSUME NEW x \in PDAddr
        PROVE  W.open[x] \subseteq V.open[x]
               \/ /\ W.open[x] \ V.open[x] \subseteq Abstract!Free(V, p) \cap V.pool[x]
                  /\ p \in Abstract!Below(V, x)
    <3>1. CASE x \in L
      <4>1. W.open[x] \ V.open[x] \subseteq X \cap PoolIn(m, x)
        BY <1>1, <1>3, <1>4, <1>7, <3>1
      <4>2. W.open[x] \subseteq V.open[x] \/ p \in Abstract!Below(V, x)
        BY <1>6, <3>1, <4>1
      <4> QED
        BY <1>3, <1>5, <3>1, <4>1, <4>2
    <3>2. CASE x \notin L
      BY <1>4, <3>2
    <3> QED
      BY <3>1, <3>2
  <2>3. Abstract!Kept(V, W, PDAddr) /\ Abstract!Reopened(V, W, p, Abstract!Free(V, p))
    BY <2>1, <2>2 DEF Abstract!Kept, Abstract!Reopened
  <2>4. Abstract!mergeMemoryBlocks(V, W, p)
    BY <1>9, <1>11, <2>3 DEF Abstract!mergeMemoryBlocks, Abstract!Same
  <2>5. Abstract!Service(V, W)
    BY <1>3, <1>4, <2>4 DEF Abstract!Service
  <2> QED
    BY <1>2, <2>5 DEF V, W
<1> QED
  BY <1>10, <1>11

\* addMemoryBlock gives the child the open block of the caller, whole, and
\* keeps it with the caller.
LEMMA addRefines ==
  ASSUME NEW m, NEW L, Settled(m, L), NEW n, NEW p \in L, NEW e, NEW q, n \in Good,
         Given(m, n, L, p, e, q)
  PROVE  Settled(n, L) /\ Abstract!Service(View(m, L), View(n, L))
<1> DEFINE V == View(m, L)
           W == View(n, L)
           U == W.pool[q] \ V.pool[q]
<1>1. /\ Usable(m, p, e) /\ q \in L \ {RootPD} /\ m.pd[q].parent = p
      /\ Consistent(n, L) /\ Guarded(n, L)
      /\ \A x \in L : n.pd[x].parent = m.pd[x].parent /\ KernIn(n, x) = KernIn(m, x)
      /\ \A x \in L \ {q} : PoolIn(n, x) = PoolIn(m, x) /\ OpenIn(n, x) = OpenIn(m, x)
      /\ PoolIn(n, q) = PoolIn(m, q) \cup Extent(m, e)
      /\ OpenIn(n, q) = OpenIn(m, q) \cup Extent(m, e)
  BY DEF Given
<1>2. Settled(n, L) /\ L \in SUBSET PDAddr
  BY <1>1 DEF Settled
<1>3. /\ V.parent \in [PDAddr -> PDAddr \cup {Null}]
      /\ V.pool \in [PDAddr -> SUBSET Unit] /\ V.open \in [PDAddr -> SUBSET Unit]
      /\ V.kern \in [PDAddr -> SUBSET Unit]
      /\ \A x \in L : /\ V.parent[x] = m.pd[x].parent /\ V.pool[x] = PoolIn(m, x)
                      /\ V.open[x] = OpenIn(m, x) /\ V.kern[x] = KernIn(m, x)
      /\ \A x \in PDAddr \ L : /\ V.parent[x] = Null /\ V.pool[x] = {}
                               /\ V.open[x] = {} /\ V.kern[x] = {}
      /\ V \in Abstract!Memory /\ Abstract!Alive(V) = L
      /\ \A x \in PDAddr : \A y : y \in Abstract!ChildrenOf(V, x)
                                  <=> y \in L \ {RootPD} /\ m.pd[y].parent = x
  BY ViewIs
<1>4. /\ W.parent \in [PDAddr -> PDAddr \cup {Null}]
      /\ W.pool \in [PDAddr -> SUBSET Unit] /\ W.open \in [PDAddr -> SUBSET Unit]
      /\ W.kern \in [PDAddr -> SUBSET Unit]
      /\ \A x \in L : /\ W.parent[x] = n.pd[x].parent /\ W.pool[x] = PoolIn(n, x)
                      /\ W.open[x] = OpenIn(n, x) /\ W.kern[x] = KernIn(n, x)
      /\ \A x \in PDAddr \ L : /\ W.parent[x] = Null /\ W.pool[x] = {}
                               /\ W.open[x] = {} /\ W.kern[x] = {}
      /\ W \in Abstract!Memory
  BY <1>2, ViewIs
<1>5. Extent(m, e) \subseteq Abstract!Free(V, p) /\ Extent(m, e) \cap PoolIn(m, q) = {}
  BY <1>1, UsableFree
<1>9. W.parent = V.parent /\ W.kern = V.kern
  BY <1>1, SameFields
<1> HIDE DEF V, W
<1>6. U = Extent(m, e)
  BY <1>1, <1>3, <1>4, <1>5
<1> HIDE DEF U
<1>8. ASSUME NEW x \in PDAddr
      PROVE  /\ W.pool[x] = IF x = q THEN V.pool[x] \cup U ELSE V.pool[x]
             /\ W.open[x] = IF x = q THEN V.open[x] \cup U ELSE V.open[x]
  <2>1. CASE x = q
    BY <1>1, <1>3, <1>4, <1>6, <2>1
  <2>2. CASE x \in L \ {q}
    BY <1>1, <1>3, <1>4, <2>2
  <2>3. CASE x \notin L
    BY ZenonT(30), <1>1, <1>3, <1>4, <2>3
  <2> QED
    BY <2>1, <2>2, <2>3
<1>10. /\ W.pool = [V.pool EXCEPT ![q] = @ \cup U]
       /\ W.open = [V.open EXCEPT ![q] = @ \cup U]
  <2>1. q \in PDAddr
    BY <1>1, <1>2
  <2>2. /\ V.pool \in [PDAddr -> SUBSET Unit] /\ W.pool \in [PDAddr -> SUBSET Unit]
        /\ \A x \in PDAddr : W.pool[x] = IF x = q THEN V.pool[x] \cup U ELSE V.pool[x]
    BY <1>3, <1>4, <1>8
  <2>3. /\ V.open \in [PDAddr -> SUBSET Unit] /\ W.open \in [PDAddr -> SUBSET Unit]
        /\ \A x \in PDAddr : W.open[x] = IF x = q THEN V.open[x] \cup U ELSE V.open[x]
    BY <1>3, <1>4, <1>8
  <2>4. W.pool = [V.pool EXCEPT ![q] = @ \cup U]
    BY <2>1, <2>2
  <2>5. W.open = [V.open EXCEPT ![q] = @ \cup U]
    BY <2>1, <2>3
  <2> QED
    BY <2>4, <2>5
<1>11. Abstract!addMemoryBlock(V, W, p, q)
  BY <1>5, <1>6, <1>9, <1>10 DEF Abstract!addMemoryBlock, Abstract!Same, U
<1>12. q \in Abstract!ChildrenOf(V, p)
  BY <1>1, <1>2, <1>3
<1>13. Abstract!Service(V, W)
  BY <1>3, <1>4, <1>11, <1>12 DEF Abstract!Service
<1> QED
  BY <1>2, <1>13 DEF V, W

\* The child a block is shared with owns all of it: the subblocks it has been
\* cut into follow each other from its start to its end.
LEMMA Covered ==
  ASSUME NEW m, NEW L, Settled(m, L), NEW p \in L, NEW e \in BlocksIn(m, p),
         m.slot[e].inChild # NullSlot
  PROVE  /\ m.slot[e].PDchild \in L \ {RootPD} /\ m.pd[m.slot[e].PDchild].parent = p
         /\ Extent(m, e) \subseteq PoolIn(m, m.slot[e].PDchild)
<1> DEFINE q == m.slot[e].PDchild
           h == m.slot[e].inChild
<1>1. /\ m \in Good /\ L \in SUBSET PDAddr /\ Tree(m, L) /\ Ranges(m, L) /\ Cuts(m, L)
      /\ Shares(m, L) /\ Containment(m, L)
  BY SettledParts
<1>2. /\ q \in L \ {RootPD} /\ m.pd[q].parent = p
      /\ h \in BlocksIn(m, q) /\ m.slot[h].start = m.slot[e].start
  BY <1>1, CopyRange
<1> HIDE DEF q, h
<1>3. /\ m.slot[e].start \in Nat /\ m.slot[e].end \in Nat
      /\ 1 <= m.slot[e].start /\ m.slot[e].end <= Top + 1 /\ Top \in Nat
  BY <1>1, BlockType, BlockRange, ConstantsAssumption
<1>4. ASSUME NEW f \in BlocksIn(m, q)
      PROVE  /\ m.slot[f].start \in Nat /\ m.slot[f].end \in Nat
             /\ m.slot[f].start < m.slot[f].end
  BY <1>1, <1>2, BlockType, BlockRange
<1>5. ASSUME NEW u \in Extent(m, e), u \notin PoolIn(m, q)
      PROVE  FALSE
  <2>1. u \in Unit /\ u \in Nat /\ m.slot[e].start <= u /\ u < m.slot[e].end
    BY <1>3 DEF Extent, Unit
  <2> DEFINE F == {f \in BlocksIn(m, q) : m.slot[e].start <= m.slot[f].start
                                          /\ m.slot[f].start <= u}
             D == {u - m.slot[f].start : f \in F}
  <2>2. h \in F
    BY <1>2, <1>3, <2>1
  <2>3. D \in SUBSET Nat /\ D # {}
    <3>1. ASSUME NEW f \in F PROVE u - m.slot[f].start \in Nat
      <4>1. m.slot[f].start \in Nat /\ m.slot[f].start <= u
        BY <1>4
      <4> QED
        BY <2>1, <4>1
    <3> QED
      BY <2>2, <3>1
  <2>4. PICK d \in D : \A y \in D : d <= y
    BY <2>3, LeastNat
  <2>5. PICK f \in F : d = u - m.slot[f].start
    BY <2>4
  <2>6. /\ m.slot[f].start \in Nat /\ m.slot[f].end \in Nat
        /\ m.slot[f].start < m.slot[f].end
        /\ m.slot[e].start <= m.slot[f].start /\ m.slot[f].start <= u
    BY <1>4
  <2>7. m.slot[f].end <= u
    BY <1>5, <2>1, <2>6 DEF PoolIn, Holds
  <2>8. IsPartOf(m, q, f, e)
    <3>1. Overlap(m.slot[e], m.slot[f])
      BY <1>3, <2>1, <2>6 DEF Overlap
    <3> QED
      BY <1>1, <1>2, <3>1, PartOf
  <2>9. m.slot[f].next # NullSlot
    BY <2>1, <2>6, <2>7, <2>8 DEF IsPartOf
  <2> DEFINE g == m.slot[f].next
  <2>10. g \in BlocksIn(m, q) /\ m.slot[g].start = m.slot[f].end
    BY <1>1, <1>2, <2>9 DEF Cuts
  <2> HIDE DEF g
  <2>11. g \in F
    BY <1>3, <2>1, <2>6, <2>7, <2>10
  <2>12. u - m.slot[g].start \in D
    BY <2>11
  <2> HIDE DEF D, F
  <2>13. d <= u - m.slot[g].start
    BY <2>4, <2>12
  <2> QED
    BY <2>1, <2>5, <2>6, <2>7, <2>10, <2>13
<1>6. Extent(m, e) \subseteq PoolIn(m, q)
  BY <1>5
<1> QED
  BY <1>2, <1>6 DEF q

\* Below what is below q is below q.
LEMMA BelowTrans ==
  ASSUME NEW V, NEW q, NEW x \in Abstract!Below(V, q)
  PROVE  Abstract!Below(V, x) \subseteq Abstract!Below(V, q)
BY DEF Abstract!Below

\* Who is below q has its children below q.
LEMMA BelowChildren ==
  ASSUME NEW V, NEW q \in PDAddr
  PROVE  /\ q \in Abstract!Below(V, q) /\ Abstract!Below(V, q) \subseteq PDAddr
         /\ \A x \in Abstract!Below(V, q) : \A y \in PDAddr :
              y \in Abstract!ChildrenOf(V, x) => y \in Abstract!Below(V, q)
BY DEF Abstract!Below

\* A unit of block e that nobody below the child it was shared with has any
\* more is left to everyone else who had it.
LEMMA LeftAbove ==
  ASSUME NEW m, NEW L, Settled(m, L), NEW n, Settled(n, L),
         \A x \in L : n.pd[x].parent = m.pd[x].parent,
         \A x \in L : PoolIn(n, x) \subseteq PoolIn(m, x),
         NEW p \in L, NEW e, e \in BlocksIn(m, p), e \in BlocksIn(n, p),
         m.slot[e].inChild # NullSlot, n.slot[e].inChild = NullSlot,
         SameRange(n.slot[e], m.slot[e]),
         NEW x \in L, x \notin Abstract!Below(View(m, L), m.slot[e].PDchild),
         NEW u \in PoolIn(m, x), u \in Extent(m, e)
  PROVE  u \in PoolIn(n, x)
<1> DEFINE q == m.slot[e].PDchild
           V == View(m, L)
           D == Abstract!Below(V, q)
           H == Holders(m, L, u)
           G == Holders(n, L, u)
           A == H \ D
<1>1. /\ m \in Good /\ L \in SUBSET PDAddr /\ Tree(m, L) /\ Ranges(m, L)
      /\ Shares(m, L) /\ Containment(m, L)
  BY SettledParts
<1>2. n \in Good /\ Tree(n, L) /\ Ranges(n, L) /\ Containment(n, L)
  BY SettledParts
<1>3. u \in Unit /\ u \in Int
  BY ConstantsAssumption DEF PoolIn, Unit
<1>4. \A y : /\ y \in H <=> y \in L /\ u \in PoolIn(m, y)
             /\ y \in G <=> y \in L /\ u \in PoolIn(n, y)
  BY <1>3 DEF Holders, PoolIn
<1>5. Extent(n, e) = Extent(m, e)
  BY DEF Extent, SameRange
<1>6. Holds(m, p, e, u) /\ Holds(n, p, e, u)
  BY <1>1, <1>2, <1>3, <1>5, ExtentIn
<1>7. IsPath(m, L, H)
  BY <1>1, <1>3, HoldersPath
<1>8. IsPath(n, L, G) /\ IsEnd(n, G, p)
  <2>1. L \in SUBSET PDAddr
    BY <1>1
  <2>2. IsPath(n, L, G)
    BY <1>2, <1>3, <2>1, HoldersPath
  <2>3. IsEnd(n, G, p)
    BY <1>2, <1>3, <1>6, <2>1, HoldersPath
  <2> QED
    BY <2>2, <2>3
<1>9. q \in L \ {RootPD} /\ m.pd[q].parent = p
  BY Covered
<1>10. /\ q \in D
       /\ \A y \in D : \A z \in L \ {RootPD} : m.pd[z].parent = y => z \in D
  <2>1. /\ q \in D /\ D \subseteq PDAddr
        /\ \A y \in D : \A z \in PDAddr : z \in Abstract!ChildrenOf(V, y) => z \in D
    BY <1>1, <1>9, BelowChildren
  <2>2. \A y \in PDAddr : \A z : z \in Abstract!ChildrenOf(V, y)
                                 <=> z \in L \ {RootPD} /\ m.pd[z].parent = y
    BY <1>1, ViewTree
  <2> QED
    BY <1>1, <2>1, <2>2
\* The child is the only one that had it from p.
<1>11. ASSUME NEW y \in H \ {RootPD}, m.pd[y].parent = p PROVE y = q
  <2>1. PICK f \in BlocksIn(m, y) : Holds(m, y, f, u)
    BY <1>4 DEF PoolIn
  <2>2. y \in L \ {RootPD}
    BY <1>4
  <2>3. PICK a \in BlocksIn(m, p) : Holds(m, p, a, u) /\ IsPartOf(m, y, f, a)
    BY <1>1, <1>3, <1>11, <2>1, <2>2, HeldAbove
  <2>4. a = e
    BY <1>1, <1>3, <1>6, <2>3, HeldOnce
  <2> QED
    BY <2>3, <2>4 DEF IsPartOf
\* No one below q has it now.
<1>12. G \subseteq A
  <2> SUFFICES ASSUME NEW y \in G, y \in D PROVE FALSE
    BY <1>4
  <2> DEFINE W == View(n, L)
  <2>1. p \in Abstract!Below(W, y)
    BY <1>4, <1>5, OwnerAbove
  <2>2. \A z \in PDAddr : Abstract!ChildrenOf(W, z) \subseteq Abstract!ChildrenOf(V, z)
    <3>1. W.parent = V.parent
      BY SameFields
    <3> QED
      BY <3>1 DEF Abstract!ChildrenOf
  <2>3. y \in PDAddr
    BY <1>1, <1>4
  <2> HIDE DEF W, V
  <2>4. p \in Abstract!Below(V, y)
    BY <2>1, <2>2, <2>3, BelowGrows
  <2>5. p \in D
    BY <2>4, BelowTrans
  <2>6. PICK K : IsPruned(m, L, q, K)
    BY <1>1, <1>9, Pruned
  <2>7. D = L \ K
    BY <1>1, <2>6, BelowIs DEF V
  <2> QED
    BY <1>9, <2>5, <2>6, <2>7 DEF IsPruned
<1>13. x \in A /\ p \in G
  BY <1>4, <1>6 DEF PoolIn
<1> HIDE DEF D, H, G, V, q
<1>14. ASSUME NEW y \in A \ {RootPD} PROVE m.pd[y].parent \in A
  BY <1>4, <1>7, <1>10, <1>14 DEF IsPath
<1>15. RootPD \in G
  BY <1>2, <1>8, <1>13, RootInPath DEF IsPath
<1> DEFINE R == A \ G
<1>16. R \in SUBSET (L \ {RootPD})
  BY <1>4, <1>15
<1>17. ASSUME NEW y \in R PROVE m.pd[y].parent \in R
  <2>1. y \in A \ {RootPD} /\ y \notin G /\ m.pd[y].parent \in A
    BY <1>14, <1>16
  <2>2. ASSUME m.pd[y].parent \in G PROVE FALSE
    <3>1. m.pd[y].parent # p
      BY <1>10, <1>11, <2>1
    <3>2. ~ IsEnd(n, G, m.pd[y].parent)
      BY <1>2, <1>8, <3>1, OneEnd
    <3>3. PICK r \in G \ {RootPD} : n.pd[r].parent = m.pd[y].parent
      BY <2>2, <3>2 DEF IsEnd
    <3>4. r \in H \ {RootPD} /\ m.pd[r].parent = m.pd[y].parent
      BY <1>4, <1>12, <3>3
    <3>5. r = y
      BY <1>7, <2>1, <3>4 DEF IsPath
    <3> QED
      BY <2>1, <3>3, <3>5
  <2> QED
    BY <2>1, <2>2
<1> HIDE DEF R
<1>18. R = {}
  BY <1>1, <1>16, <1>17 DEF Tree
<1>19. x \in G
  BY <1>13, <1>18 DEF R
<1> QED
  BY <1>4, <1>19

\* removeMemoryBlock takes the block from the child and all below it, and
\* leaves it to the caller and those above.
LEMMA removeRefines ==
  ASSUME NEW m, NEW L, Settled(m, L), NEW n, NEW p \in L, NEW e, n \in Good,
         Removed(m, n, L, p, e), OpenAbove(m, L)
  PROVE  Settled(n, L) /\ Abstract!Service(View(m, L), View(n, L))
<1> DEFINE q == m.slot[e].PDchild
           V == View(m, L)
           W == View(n, L)
           D == Abstract!Below(V, q)
           U == V.pool[q] \ W.pool[q]
           X == Extent(m, e)
<1>1. /\ e \in BlocksIn(m, p) /\ m.slot[e].inChild # NullSlot
      /\ e \in BlocksIn(n, p) /\ n.slot[e].inChild = NullSlot
      /\ SameRange(n.slot[e], m.slot[e])
      /\ \A x \in L :
           /\ n.pd[x].parent = m.pd[x].parent /\ KernIn(n, x) = KernIn(m, x)
           /\ PoolIn(n, x) \subseteq PoolIn(m, x)
           /\ PoolIn(m, x) \ PoolIn(n, x) \subseteq X \cap OpenIn(m, x)
           /\ OpenIn(m, x) \ OpenIn(n, x) \subseteq PoolIn(m, x) \ PoolIn(n, x)
           /\ OpenIn(n, x) \ OpenIn(m, x) \subseteq X
      /\ X \subseteq OpenIn(n, p)
  BY DEF Removed, Dropped
<1>2. Settled(n, L) /\ L \in SUBSET PDAddr
  BY DEF Settled, Removed
<1>3. /\ V.pool \in [PDAddr -> SUBSET Unit] /\ V.open \in [PDAddr -> SUBSET Unit]
      /\ \A x \in L : V.pool[x] = PoolIn(m, x) /\ V.open[x] = OpenIn(m, x)
      /\ \A x \in PDAddr \ L : V.pool[x] = {} /\ V.open[x] = {}
      /\ V \in Abstract!Memory /\ Abstract!Alive(V) = L
      /\ \A x \in PDAddr : \A y : y \in Abstract!ChildrenOf(V, x)
                                  <=> y \in L \ {RootPD} /\ m.pd[y].parent = x
  BY ViewIs
<1>4. /\ W.pool \in [PDAddr -> SUBSET Unit] /\ W.open \in [PDAddr -> SUBSET Unit]
      /\ \A x \in L : W.pool[x] = PoolIn(n, x) /\ W.open[x] = OpenIn(n, x)
      /\ \A x \in PDAddr \ L : W.pool[x] = {} /\ W.open[x] = {}
      /\ W \in Abstract!Memory
  BY <1>2, ViewIs
<1>5. W.parent = V.parent /\ W.kern = V.kern
  BY <1>1, SameFields
<1>6. /\ q \in L \ {RootPD} /\ m.pd[q].parent = p /\ X \subseteq PoolIn(m, q)
  BY <1>1, Covered
<1>7. X # {} /\ Extent(n, e) = X
  <2>1. m \in Good /\ Ranges(m, L)
    BY SettledParts
  <2>2. m.slot[e].start \in X
    BY <1>1, <1>2, <2>1, ExtentIn
  <2> QED
    BY <1>1, <2>2 DEF Extent, SameRange
<1>8. /\ q \in D /\ D \subseteq L /\ p \notin D
  <2>1. m \in Good /\ Tree(m, L)
    BY SettledParts
  <2>2. PICK K : IsPruned(m, L, q, K)
    BY <1>6, <2>1, Pruned
  <2>3. D = L \ K
    BY <1>2, <2>1, <2>2, BelowIs
  <2> QED
    BY <1>6, <2>2, <2>3 DEF IsPruned
\* Nobody below q has any of the block left.
<1>9. ASSUME NEW x \in L, NEW u \in PoolIn(n, x), u \in X
      PROVE  p \in Abstract!Below(V, x)
  <2>1. p \in Abstract!Below(W, x)
    BY <1>1, <1>2, <1>7, <1>9, OwnerAbove
  <2>2. \A z \in PDAddr : Abstract!ChildrenOf(W, z) \subseteq Abstract!ChildrenOf(V, z)
    BY <1>5 DEF Abstract!ChildrenOf
  <2>3. x \in PDAddr
    BY <1>2
  <2> HIDE DEF V, W
  <2> QED
    BY <2>1, <2>2, <2>3, BelowGrows
<1>10. ASSUME NEW x \in D PROVE PoolIn(n, x) \cap X = {}
  <2> SUFFICES ASSUME NEW u \in PoolIn(n, x), u \in X PROVE FALSE
    OBVIOUS
  <2>1. p \in Abstract!Below(V, x)
    BY <1>8, <1>9
  <2>2. Abstract!Below(V, x) \subseteq D
    BY BelowTrans
  <2> QED
    BY <1>8, <2>1, <2>2
\* Nobody else loses any of it.
<1>11. ASSUME NEW x \in L \ D PROVE PoolIn(n, x) = PoolIn(m, x)
  <2>1. ASSUME NEW u \in PoolIn(m, x), u \in X PROVE u \in PoolIn(n, x)
    <3>1. \A y \in L : /\ n.pd[y].parent = m.pd[y].parent
                       /\ PoolIn(n, y) \subseteq PoolIn(m, y)
      BY <1>1
    <3> QED
      BY <1>1, <1>2, <2>1, <3>1, LeftAbove
  <2> QED
    BY <1>1, <2>1
<1>12. \A x \in L : OpenIn(n, x) \subseteq PoolIn(n, x)
  BY <1>2, OpenFacts
<1> HIDE DEF V, W, D, X, q
<1>13. U = X
  BY <1>1, <1>3, <1>4, <1>6, <1>8, <1>10
<1> HIDE DEF U
<1>14. U # {} /\ U \subseteq V.open[q] /\ U \subseteq W.open[p]
  BY <1>1, <1>3, <1>4, <1>6, <1>7, <1>13 DEF U
<1>15. ASSUME NEW x \in PDAddr
       PROVE  W.pool[x] = IF x \in D THEN V.pool[x] \ U ELSE V.pool[x]
  <2>1. CASE x \in D
    BY <1>1, <1>3, <1>4, <1>8, <1>10, <1>13, <2>1
  <2>2. CASE x \in L \ D
    BY <1>3, <1>4, <1>11, <2>2
  <2>3. CASE x \notin L
    BY <1>3, <1>4, <1>8, <2>3
  <2> QED
    BY <2>1, <2>2, <2>3
<1>16. W.pool = [x \in PDAddr |-> IF x \in D THEN V.pool[x] \ U ELSE V.pool[x]]
  BY <1>4, <1>15
<1>17. ASSUME NEW x \in D PROVE W.open[x] = V.open[x] \ U
  <2>1. x \in L
    BY <1>8
  <2>2. OpenIn(n, x) \cap X = {}
    BY <1>10, <1>12, <2>1
  <2> QED
    BY <1>1, <1>3, <1>4, <1>13, <2>1, <2>2
<1>18. ASSUME NEW x \in PDAddr \ D PROVE V.open[x] \subseteq W.open[x]
  <2>1. CASE x \in L
    BY <1>1, <1>3, <1>4, <1>11, <2>1
  <2>2. CASE x \notin L
    BY <1>3, <2>2
  <2> QED
    BY <2>1, <2>2
<1>19. ASSUME NEW x \in PDAddr
       PROVE  W.open[x] \subseteq V.open[x]
              \/ /\ W.open[x] \ V.open[x] \subseteq U \cap V.pool[x]
                 /\ p \in Abstract!Below(V, x)
  <2>1. CASE x \in L
    <3>1. W.open[x] \ V.open[x] \subseteq X \cap PoolIn(n, x)
      BY <1>1, <1>3, <1>4, <1>12, <2>1
    <3>2. W.open[x] \subseteq V.open[x] \/ p \in Abstract!Below(V, x)
      BY <1>9, <2>1, <3>1
    <3>3. PoolIn(n, x) \subseteq V.pool[x]
      BY <1>1, <1>3, <2>1
    <3> QED
      BY <1>13, <3>1, <3>2, <3>3
  <2>2. CASE x \notin L
    BY <1>4, <2>2
  <2> QED
    BY <2>1, <2>2
<1>20. Abstract!Kept(V, W, PDAddr \ D) /\ Abstract!Reopened(V, W, p, U)
  BY <1>18, <1>19 DEF Abstract!Kept, Abstract!Reopened
<1>21. Abstract!removeMemoryBlock(V, W, p, q)
  BY <1>5, <1>14, <1>16, <1>17, <1>20 DEF Abstract!removeMemoryBlock, Abstract!Same, U, D
<1>22. q \in Abstract!ChildrenOf(V, p)
  BY <1>2, <1>3, <1>6
<1>23. Abstract!Service(V, W)
  BY <1>3, <1>4, <1>21, <1>22 DEF Abstract!Service
<1> QED
  BY <1>2, <1>23 DEF V, W

\* What a partition has, and what the kernel holds for it, lies in the blocks
\* tied to it in its parent.
LEMMA HeldByTied ==
  ASSUME NEW m, NEW L, Settled(m, L), NEW p \in L, NEW e \in BlocksIn(m, p),
         m.slot[e].PDflag, NEW u \in PoolIn(m, m.slot[e].start) \cup KernIn(m, m.slot[e].start)
  PROVE  u \in Unit /\ \E f \in Tied(m, p, e) : f \in BlocksIn(m, p) /\ Holds(m, p, f, u)
<1> DEFINE q == m.slot[e].start
<1>1. /\ m \in Good /\ L \in SUBSET PDAddr /\ Consistent(m, L) /\ Tree(m, L)
      /\ Homes(m, L) /\ Structures(m, L) /\ Ranges(m, L) /\ Containment(m, L)
  BY SettledParts
<1>2. q \in L \ {RootPD} /\ m.pd[q].parent = p
  BY <1>1, TiedFacts
<1>3. Size(m.slot[e]) >= PDSize
  BY <1>1 DEF Homes, IsHome
<1>4. /\ e \in Tied(m, p, e)
      /\ \A f \in BlocksIn(m, p) : m.slot[f].PDchild = q => f \in Tied(m, p, e)
  BY SlotsOfIs DEF Tied
<1>5. u \in Unit /\ u \in Int /\ u <= Top /\ RootKS > Top /\ Top \in Nat
      /\ RootKS \in Nat /\ PDSize \in Nat /\ KSSize \in Nat
  BY ConstantsAssumption DEF PoolIn, KernIn, Unit
<1>6. m.slot[e].start \in Nat /\ m.slot[e].end \in Nat
  BY <1>1, BlockType
<1> HIDE DEF q
<1>7. ASSUME u \in PoolIn(m, q)
      PROVE  \E f \in Tied(m, p, e) : f \in BlocksIn(m, p) /\ Holds(m, p, f, u)
  <2>1. PICK g \in BlocksIn(m, q) : Holds(m, q, g, u)
    BY <1>7 DEF PoolIn
  <2>2. PICK f \in BlocksIn(m, p) : Holds(m, p, f, u) /\ IsPartOf(m, q, g, f)
    BY <1>1, <1>2, <1>5, <2>1, HeldAbove
  <2> QED
    BY <1>4, <2>2 DEF IsPartOf
<1>8. CASE q <= u /\ u < q + PDSize
  <2>1. Holds(m, p, e, u)
    BY <1>3, <1>5, <1>6, <1>8 DEF Holds, Size, q
  <2> QED
    BY <1>4, <1>5, <2>1
<1>9. CASE \E k \in StructsOf(m, q) : k <= u /\ u < k + KSSize
  <2>1. PICK k \in StructsOf(m, q) : k <= u /\ u < k + KSSize
    BY <1>9
  <2>2. k # RootKS
    BY <1>5, <2>1
  <2>3. PICK x \in {q, m.pd[q].parent} \cap L :
          \E b \in BlocksIn(m, x) : HoldsStructure(m, x, q, b, k)
    BY <1>1, <1>2, <2>1, <2>2 DEF Structures
  <2>4. PICK b \in BlocksIn(m, x) : HoldsStructure(m, x, q, b, k)
    BY <2>3
  <2>5. /\ m.slot[b].start = k /\ Size(m.slot[b]) >= KSSize
        /\ m.slot[b].PDchild = (IF x = q THEN Null ELSE q)
    BY <2>4 DEF HoldsStructure
  <2>6. m.slot[b].start \in Nat /\ m.slot[b].end \in Nat
    BY <1>1, BlockType
  <2>7. Holds(m, x, b, u)
    BY <1>5, <2>1, <2>5, <2>6 DEF Holds, Size
  <2>8. CASE x = q
    <3>1. u \in PoolIn(m, q)
      BY <1>5, <2>7, <2>8 DEF PoolIn
    <3> QED
      BY <1>5, <1>7, <3>1
  <2>9. CASE x # q
    <3>1. x = p
      BY <1>2, <2>3, <2>9
    <3> QED
      BY <1>4, <1>5, <2>5, <2>7, <2>9, <3>1
  <2> QED
    BY <2>8, <2>9
<1>10. u \in PoolIn(m, q) \/ u \in KernIn(m, q)
  BY DEF q
<1> QED
  BY <1>5, <1>7, <1>8, <1>9, <1>10 DEF KernIn

\* deletePartition ends the child and all below it, and gives the caller back
\* what they were made of.
LEMMA deleteRefines ==
  ASSUME NEW m, NEW L, Settled(m, L), NEW n, NEW K \in SUBSET PDAddr, NEW p \in L, NEW e,
         n \in Good, Deleted(m, n, L, K, p, e)
  PROVE  Settled(n, K) /\ Abstract!Service(View(m, L), View(n, K))
<1> DEFINE q == m.slot[e].start
           V == View(m, L)
           W == View(n, K)
           D == Abstract!Below(V, q)
           X == TiedUnits(m, p, e)
<1>1. /\ e \in BlocksIn(m, p) /\ m.slot[e].PDflag /\ IsPruned(m, L, q, K)
      /\ Consistent(n, K) /\ Guarded(n, K) /\ Returned(m, n, p, e)
      /\ \A x \in K : /\ n.pd[x].parent = m.pd[x].parent
                      /\ PoolIn(n, x) = PoolIn(m, x) /\ KernIn(n, x) = KernIn(m, x)
                      /\ OpenIn(m, x) \subseteq OpenIn(n, x)
                      /\ OpenIn(n, x) \subseteq OpenIn(m, x) \cup X
  BY DEF Deleted, Opened, SameOwners
<1>2. Settled(n, K)
  BY <1>1 DEF Settled
<1>3. /\ m \in Good /\ L \in SUBSET PDAddr /\ Tree(m, L) /\ Consistent(m, L)
  BY SettledParts
<1>4. /\ V.parent \in [PDAddr -> PDAddr \cup {Null}]
      /\ V.pool \in [PDAddr -> SUBSET Unit] /\ V.open \in [PDAddr -> SUBSET Unit]
      /\ V.kern \in [PDAddr -> SUBSET Unit]
      /\ \A x \in L : /\ V.parent[x] = m.pd[x].parent /\ V.pool[x] = PoolIn(m, x)
                      /\ V.open[x] = OpenIn(m, x) /\ V.kern[x] = KernIn(m, x)
      /\ \A x \in PDAddr \ L : /\ V.parent[x] = Null /\ V.pool[x] = {}
                               /\ V.open[x] = {} /\ V.kern[x] = {}
      /\ V \in Abstract!Memory /\ Abstract!Alive(V) = L
      /\ \A x \in PDAddr : \A y : y \in Abstract!ChildrenOf(V, x)
                                  <=> y \in L \ {RootPD} /\ m.pd[y].parent = x
  BY ViewIs
<1>5. /\ W.parent \in [PDAddr -> PDAddr \cup {Null}]
      /\ W.pool \in [PDAddr -> SUBSET Unit] /\ W.open \in [PDAddr -> SUBSET Unit]
      /\ W.kern \in [PDAddr -> SUBSET Unit]
      /\ \A x \in K : /\ W.parent[x] = n.pd[x].parent /\ W.pool[x] = PoolIn(n, x)
                      /\ W.open[x] = OpenIn(n, x) /\ W.kern[x] = KernIn(n, x)
      /\ \A x \in PDAddr \ K : /\ W.parent[x] = Null /\ W.pool[x] = {}
                               /\ W.open[x] = {} /\ W.kern[x] = {}
      /\ W \in Abstract!Memory
      /\ \A x \in PDAddr : \A y : y \in Abstract!ChildrenOf(W, x)
                                  <=> y \in K \ {RootPD} /\ n.pd[y].parent = x
  BY <1>2, ViewIs
<1>6. D = L \ K
  BY <1>1, <1>3, BelowIs
<1>7. q \in L \ {RootPD} /\ m.pd[q].parent = p /\ q \notin K /\ p \in K /\ K \subseteq L
      /\ RootPD \in K
  <2>1. q \in L \ {RootPD} /\ m.pd[q].parent = p
    BY <1>1, <1>3, TiedFacts
  <2> HIDE DEF q
  <2> QED
    BY <1>1, <2>1 DEF IsPruned
<1>8. \A f \in Tied(m, p, e) :
        /\ f \in BlocksIn(m, p) /\ f \in BlocksIn(n, p) /\ SameRange(n.slot[f], m.slot[f])
        /\ n.slot[f].accessible /\ n.slot[f].inChild = NullSlot
  BY <1>1 DEF Returned
\* p has everything back.
<1>9. ASSUME NEW u \in PoolIn(m, q) \cup KernIn(m, q) PROVE u \in OpenIn(n, p)
  <2>1. PICK f \in Tied(m, p, e) : f \in BlocksIn(m, p) /\ Holds(m, p, f, u)
    BY <1>1, HeldByTied
  <2>2. u \in Unit
    BY <1>1, HeldByTied
  <2>3. Holds(n, p, f, u)
    BY <1>8, <2>1 DEF Holds, SameRange
  <2> QED
    BY <1>8, <2>1, <2>2, <2>3 DEF OpenIn
\* What is opened again belongs to partitions above p.
<1>10. ASSUME NEW x \in K, NEW u \in PoolIn(n, x), u \in X
       PROVE  p \in Abstract!Below(V, x)
  <2>1. PICK f \in Tied(m, p, e) : u \in Extent(m, f)
    BY <1>10 DEF TiedUnits
  <2>2. Extent(n, f) = Extent(m, f) /\ f \in BlocksIn(n, p) /\ n.slot[f].inChild = NullSlot
    BY <1>8 DEF Extent, SameRange
  <2>3. p \in Abstract!Below(W, x)
    BY <1>2, <1>7, <2>1, <2>2, OwnerAbove
  <2>4. \A z \in PDAddr : Abstract!ChildrenOf(W, z) \subseteq Abstract!ChildrenOf(V, z)
    BY <1>1, <1>4, <1>5, <1>7
  <2>5. x \in PDAddr
    OBVIOUS
  <2> HIDE DEF V, W
  <2> QED
    BY <2>3, <2>4, <2>5, BelowGrows
<1>11. \A x \in K : /\ OpenIn(n, x) \subseteq PoolIn(n, x)
                    /\ \A y \in K : OpenIn(n, x) \cap KernIn(n, y) = {}
  BY <1>2, OpenFacts
<1> HIDE DEF V, W, D, X, q
<1>12. ASSUME NEW x \in PDAddr
       PROVE  /\ W.parent[x] = IF x \in D THEN Null ELSE V.parent[x]
              /\ W.pool[x] = IF x \in D THEN {} ELSE V.pool[x]
              /\ W.kern[x] = IF x \in D THEN {} ELSE V.kern[x]
  <2>1. CASE x \in K
    BY <1>1, <1>4, <1>5, <1>6, <1>7, <2>1
  <2>2. CASE x \in L \ K
    BY <1>5, <1>6, <2>2
  <2>3. CASE x \notin L
    <3>1. x \in PDAddr \ L /\ x \in PDAddr \ K /\ x \notin D
      BY <1>6, <1>7, <2>3
    <3>2. V.parent[x] = Null /\ V.pool[x] = {} /\ V.kern[x] = {}
      BY <1>4, <3>1
    <3>3. W.parent[x] = Null /\ W.pool[x] = {} /\ W.kern[x] = {}
      BY <1>5, <3>1
    <3> QED
      BY <3>1, <3>2, <3>3
  <2> QED
    BY <2>1, <2>2, <2>3
<1>13. /\ W.parent = [x \in PDAddr |-> IF x \in D THEN Null ELSE V.parent[x]]
       /\ W.pool = [x \in PDAddr |-> IF x \in D THEN {} ELSE V.pool[x]]
       /\ W.kern = [x \in PDAddr |-> IF x \in D THEN {} ELSE V.kern[x]]
  <2>1. /\ W.parent \in [PDAddr -> PDAddr \cup {Null}]
        /\ W.pool \in [PDAddr -> SUBSET Unit] /\ W.kern \in [PDAddr -> SUBSET Unit]
    BY <1>5
  <2>2. W.parent = [x \in PDAddr |-> IF x \in D THEN Null ELSE V.parent[x]]
    BY <1>12, <2>1
  <2>3. W.pool = [x \in PDAddr |-> IF x \in D THEN {} ELSE V.pool[x]]
    BY <1>12, <2>1
  <2>4. W.kern = [x \in PDAddr |-> IF x \in D THEN {} ELSE V.kern[x]]
    BY <1>12, <2>1
  <2> QED
    BY <2>2, <2>3, <2>4
<1>14. W.parent[q] = Null /\ \A x \in D : W.open[x] = {}
  BY <1>3, <1>5, <1>6, <1>7
<1>15. V.pool[q] \cup V.kern[q] \subseteq W.open[p]
  BY <1>4, <1>5, <1>7, <1>9
<1>16. ASSUME NEW x \in PDAddr \ D PROVE V.open[x] \subseteq W.open[x]
  <2>1. CASE x \in K
    BY <1>1, <1>4, <1>5, <1>7, <2>1
  <2>2. CASE x \notin L
    BY <1>4, <2>2
  <2> QED
    BY <1>6, <2>1, <2>2
<1>17. ASSUME NEW x \in PDAddr
       PROVE  W.open[x] \subseteq V.open[x]
              \/ /\ W.open[x] \ V.open[x] \subseteq (1 .. Top \ Abstract!Held(W)) \cap V.pool[x]
                 /\ p \in Abstract!Below(V, x)
  <2>1. CASE x \in K
    <3>1. W.open[x] \ V.open[x] \subseteq X \cap PoolIn(n, x)
      BY <1>1, <1>4, <1>5, <1>7, <1>11, <2>1
    <3>2. W.open[x] \subseteq V.open[x] \/ p \in Abstract!Below(V, x)
      BY <1>10, <2>1, <3>1
    <3>3. PoolIn(n, x) = V.pool[x] /\ PoolIn(n, x) \subseteq 1 .. Top
      BY <1>1, <1>4, <1>7, <2>1 DEF PoolIn, Unit
    <3>4. \A y \in PDAddr : W.open[x] \cap W.kern[y] = {}
      BY <1>5, <1>11, <2>1
    <3>5. W.open[x] \cap Abstract!Held(W) = {}
      BY <3>4 DEF Abstract!Held
    <3> QED
      BY <3>1, <3>2, <3>3, <3>5
  <2>2. CASE x \notin K
    BY <1>5, <2>2
  <2> QED
    BY <2>1, <2>2
<1>18. /\ Abstract!Kept(V, W, PDAddr \ D)
       /\ Abstract!Reopened(V, W, p, 1 .. Top \ Abstract!Held(W))
  BY <1>16, <1>17 DEF Abstract!Kept, Abstract!Reopened
<1>19. Abstract!deletePartition(V, W, p, q)
  BY <1>13, <1>14, <1>15, <1>18 DEF Abstract!deletePartition, D
<1>20. q \in Abstract!ChildrenOf(V, p)
  BY <1>3, <1>4, <1>7
<1>21. Abstract!Service(V, W)
  BY <1>4, <1>5, <1>19, <1>20 DEF Abstract!Service
<1> QED
  BY <1>2, <1>21 DEF V, W

\* A service leaves what PipAbstract sees, or does one of its services.
Refines(m, L, n) ==
  \E K \in SUBSET PDAddr :
    /\ Settled(n, K)
    /\ View(n, K) = View(m, L) \/ Abstract!Service(View(m, L), View(n, K))

\* Every service but collect, as long as the removals complete.
LEMMA ServiceRefines ==
  ASSUME IInv, Mem' \in Good, NEW L, Settled(Mem, L), OpenAbove(Mem, L),
         NEW c \in L, NEW s, s # "collect", s = "remove" => Completes(c), Service(c, s)
  PROVE  Refines(Mem, L, Mem')
<1>0. L \in SUBSET PDAddr /\ Consistent(Mem, L) /\ Guarded(Mem, L)
  BY SettledParts
<1>1. \A t \in CurrentOrChild(c) : t \in L
  BY <1>0, TargetIn
<1>2. \A rights \in GrantRights : rights \in SUBSET Rights
  BY ConstantsAssumption
<1> DEFINE mine == SlotsOf(Mem, c)
\* What moves no memory.
<1>3. ASSUME Idle(Mem, Mem', L) PROVE Refines(Mem, L, Mem')
  <2>1. Settled(Mem', L) /\ SameMemory(Mem, Mem', L)
    BY <1>0, <1>3 DEF Idle, Settled
  <2> QED
    BY <1>0, <2>1, SameView DEF Refines
<1>4. CASE \E e \in mine : createPartition(c, e)
  <2>1. PICK e \in mine : createPartition(c, e)
    BY <1>4
  <2>2. Created(Mem, Mem', L, c, e)
    BY <1>0, <2>1, createPartitionSound
  <2> DEFINE K == L \cup {Mem.slot[e].start}
  <2>3. Settled(Mem', K) /\ Abstract!Service(View(Mem, L), View(Mem', K))
    BY <2>2, createRefines
  <2> QED
    BY <2>3 DEF Refines, Settled
<1>5. CASE \E e \in mine, a \in CutPoints, r \in RegionArg : cutMemoryBlock(c, e, a, r)
  <2>1. PICK e \in mine, a \in CutPoints, r \in RegionArg : cutMemoryBlock(c, e, a, r)
    BY <1>5
  <2>2. Narrowed(Mem, Mem', L, c, e)
    BY <1>0, <2>1, cutMemoryBlockSound
  <2> QED
    BY <1>0, <2>2, cutRefines DEF Refines
<1>6. CASE \E e1, e2 \in mine, r \in RegionArg : mergeMemoryBlocks(c, e1, e2, r)
  <2>1. PICK e1 \in mine, e2 \in mine, r \in RegionArg : mergeMemoryBlocks(c, e1, e2, r)
    BY <1>6
  <2>2. Merged(Mem, Mem', L, c, e1, e2)
    BY <1>0, <2>1, mergeMemoryBlocksSound
  <2> QED
    BY <1>0, <2>2, mergeRefines DEF Refines
<1>7. CASE \E t \in CurrentOrChild(c), e \in mine : prepare(c, t, e)
  <2>1. PICK t \in CurrentOrChild(c), e \in mine : prepare(c, t, e)
    BY <1>7
  <2>2. Prepared(Mem, Mem', L, c, e, t)
    BY <1>0, <2>1, prepareSound
  <2> QED
    BY <1>0, <2>2, prepareRefines DEF Refines
<1>8. CASE \E t \in PDAddr, e \in mine, rights \in GrantRights :
             addMemoryBlock(c, t, e, rights)
  <2>1. PICK t \in PDAddr, e \in mine, rights \in GrantRights :
          addMemoryBlock(c, t, e, rights)
    BY <1>8
  <2>2. Given(Mem, Mem', L, c, e, t)
    BY <1>0, <1>2, <2>1, addMemoryBlockSound
  <2> QED
    BY <1>0, <2>2, addRefines DEF Refines
<1>9. CASE s = "remove" /\ \E e \in mine : removeMemoryBlock(c, e)
  <2>1. PICK e \in mine : removeUncutBlock(c, e) \/ removeCutBlock(c, e)
    BY <1>9 DEF removeMemoryBlock
  <2>2. CASE removeUncutBlock(c, e)
    <3>1. Removed(Mem, Mem', L, c, e)
      BY <1>0, <2>2, removeUncutBlockSound
    <3> QED
      BY <1>0, <3>1, removeRefines DEF Refines
  <2>3. CASE removeCutBlock(c, e)
    <3>1. slot'[e].PDchild = Null
      BY <1>9, <2>3 DEF Completes
    <3>2. Removed(Mem, Mem', L, c, e)
      BY <1>0, <2>3, <3>1, removeCutBlockSound
    <3> QED
      BY <1>0, <3>2, removeRefines DEF Refines
  <2> QED
    BY <2>1, <2>2, <2>3
<1>10. CASE \E e \in mine : deletePartition(c, e)
  <2>1. PICK e \in mine : deletePartition(c, e)
    BY <1>10
  <2>2. PICK K \in SUBSET PDAddr : Deleted(Mem, Mem', L, K, c, e)
    BY <1>0, <2>1, deletePartitionSound
  <2> QED
    BY <2>2, deleteRefines DEF Refines
<1>11. CASE \E t \in CurrentOrChild(c), r \in RegionArg : mapMPU(c, t, r)
  BY <1>0, <1>1, <1>3, <1>11, mapMPUSound
<1>12. CASE \E t \in CurrentOrChild(c), a \in VidtPoints \cup {Null} : setVIDT(c, t, a)
  BY <1>0, <1>1, <1>3, <1>12, setVIDTSound
<1> QED
  BY <1>4, <1>5, <1>6, <1>7, <1>8, <1>9, <1>10, <1>11, <1>12 DEF Service

-----------------------------------------------------------------------------
(* The refinement mapping.                                                 *)

\* What AbstractMemory is made of is the memory of the live partitions.
LEMMA MappingIs ==
  ASSUME NEW L, Settled(Mem, L)
  PROVE  /\ Live = L
         /\ \A p \in L : /\ Mapped(p) = PoolIn(Mem, p)
                         /\ Accessible(p) = OpenIn(Mem, p)
                         /\ Config(p) \cap 1 .. Top = KernIn(Mem, p)
                         /\ pd[p].parent = Mem.pd[p].parent
<1>1. /\ Mem \in Good /\ L \in SUBSET PDAddr /\ Tree(Mem, L) /\ Homes(Mem, L)
      /\ Ranges(Mem, L)
  BY SettledParts
<1>2. Live = L
  BY <1>1, LiveExact, LiveIsLiveOf
<1>3. Mem.slot = slot /\ Mem.pd = pd
  BY DEF Mem
<1> SUFFICES ASSUME NEW p \in L
             PROVE  /\ Mapped(p) = PoolIn(Mem, p) /\ Accessible(p) = OpenIn(Mem, p)
                    /\ Config(p) \cap 1 .. Top = KernIn(Mem, p)
  BY <1>2, <1>3
<1>4. BlocksOf(p) = BlocksIn(Mem, p) /\ Structs(p) = StructsOf(Mem, p)
  BY <1>3 DEF BlocksOf, BlocksIn, Structs, StructsOf
<1>5. ASSUME NEW e \in BlocksIn(Mem, p)
      PROVE  /\ \A u : u \in Units(e) <=> u \in Unit /\ Holds(Mem, p, e, u)
  <2>1. Units(e) = Extent(Mem, e)
    BY <1>3 DEF Units, Extent
  <2>2. Extent(Mem, e) \subseteq PoolIn(Mem, p)
        /\ \A u \in Unit : u \in Extent(Mem, e) <=> Holds(Mem, p, e, u)
    BY <1>1, ExtentIn
  <2>3. PoolIn(Mem, p) \subseteq Unit
    BY DEF PoolIn
  <2> QED
    BY <2>1, <2>2, <2>3
<1>6. Mapped(p) = PoolIn(Mem, p)
  BY <1>4, <1>5 DEF Mapped, PoolIn
<1>7. Accessible(p) = OpenIn(Mem, p)
  BY <1>3, <1>4, <1>5 DEF Accessible, OpenIn
<1>8. Config(p) \cap 1 .. Top = KernIn(Mem, p)
  <2>1. /\ p \in Nat /\ PDSize \in Nat /\ KSSize \in Nat /\ Top \in Nat
        /\ \A k \in StructsOf(Mem, p) : k \in Nat
    <3>1. p \in PDAddr /\ Mem.pd[p].structs \in Seq(KSAddr)
      BY <1>1 DEF Good, GoodPD, Descriptor
    <3> DEFINE s == Mem.pd[p].structs
    <3> HIDE DEF s
    <3>2. \A n \in DOMAIN s : s[n] \in KSAddr
      BY <3>1 DEF s
    <3>3. \A k \in StructsOf(Mem, p) : k \in KSAddr
      BY <3>2 DEF StructsOf, s
    <3> QED
      <4>1. \A x \in 1 .. Top : x \in Nat
        BY ConstantsAssumption
      <4>2. \A q \in PDAddr : q \in Nat
        BY <4>1, ConstantsAssumption DEF PDAddr
      <4>3. \A k \in KSAddr : k \in Nat
        BY <4>1, ConstantsAssumption DEF KSAddr
      <4> QED
        BY <3>1, <3>3, <4>2, <4>3, ConstantsAssumption
  <2>2. \A u \in Unit : u \in p .. p + PDSize - 1 <=> p <= u /\ u < p + PDSize
    BY <2>1 DEF Unit
  <2>3. \A u \in Unit : \A k \in StructsOf(Mem, p) :
          u \in k .. k + KSSize - 1 <=> k <= u /\ u < k + KSSize
    BY <2>1 DEF Unit
  <2> QED
    BY <1>4, <2>2, <2>3 DEF Config, KernIn, Unit
<1> QED
  BY <1>6, <1>7, <1>8

\* The mapping reads the memory of any set of partitions it is sound for.
ReadsMemory == \A L : Settled(Mem, L) => AbstractMemory = View(Mem, L)

\* AbstractMemory is the view of the memory the services work on.
LEMMA MappingReads == ReadsMemory
<1> SUFFICES ASSUME NEW L, Settled(Mem, L) PROVE AbstractMemory = View(Mem, L)
  BY DEF ReadsMemory
<1>1. Live = L
  BY MappingIs
<1>2. MemoryOf(L) = View(Mem, L)
  <2>1. \A p \in L : /\ Mapped(p) = PoolIn(Mem, p) /\ Accessible(p) = OpenIn(Mem, p)
                     /\ Config(p) \cap 1 .. Top = KernIn(Mem, p)
                     /\ pd[p].parent = Mem.pd[p].parent
    BY MappingIs
  <2> QED
    BY <2>1 DEF MemoryOf, View
<1>3. AbstractMemory = MemoryOf(Live)
  BY DEF AbstractMemory
<1> QED
  BY <1>1, <1>2, <1>3

\* A memory that holds between services is one the invariant is about.
LEMMA SettledExists ==
  ASSUME IInv, Consistency
  PROVE  \E L : Settled(Mem, L) /\ OpenAbove(Mem, L)
BY DEF IInv, Consistency, Sound, Settled

\* The boot gives the root what PipAbstract starts with.
LEMMA InitRefines ==
  ASSUME Init
  PROVE  Abstract!Init
<1> DEFINE n  == Len(RootBlocks)
           L  == {RootPD}
           V  == View(Mem, L)
           RS == UNION {RootBlocks[i].start .. RootBlocks[i].end - 1 : i \in DOMAIN RootBlocks}
<1>1. IsBooted(Mem, n)
  BY InitFacts
<1>2. Consistent(Mem, L) /\ Guarded(Mem, L) /\ Mem \in Good
  BY <1>1, BootConsistent DEF IsBooted
<1>3. Settled(Mem, L)
  BY <1>2, NullOutside DEF Settled
<1>4. AbstractMemory = V
  BY <1>3, MappingReads DEF ReadsMemory
<1>5. ASSUME NEW u \in Unit
      PROVE  /\ u \in RS <=> \E e \in BlocksIn(Mem, RootPD) : Holds(Mem, RootPD, e, u)
             /\ \A e \in BlocksIn(Mem, RootPD) : Mem.slot[e].accessible
  <2>1. n \in Nat /\ DOMAIN RootBlocks = 1 .. n /\ u \in Int
    BY RootAssumption, LenProperties, ConstantsAssumption DEF Unit
  <2>2. ASSUME NEW i \in 0 .. n - 1
        PROVE  /\ <<RootKS, i>> \in BlocksIn(Mem, RootPD)
               /\ Mem.slot[<<RootKS, i>>].start = RootBlocks[i + 1].start
               /\ Mem.slot[<<RootKS, i>>].end = RootBlocks[i + 1].end
               /\ Mem.slot[<<RootKS, i>>].accessible
    BY <1>1, BootSlots DEF IsBooted
  <2>3. \A e \in BlocksIn(Mem, RootPD) : e = <<RootKS, e[2]>> /\ e[2] \in 0 .. n - 1
    BY <1>1, BootSlots
  <2>4. \A i \in 1 .. n : RootBlocks[i].start \in Nat /\ RootBlocks[i].end \in Nat
    <3>1. \A i \in 1 .. n : RootBlocks[i] \in [start : 1 .. Top, end : 1 .. Top + 1,
                                               rights : SUBSET Rights]
      BY <2>1, RootAssumption, ElementOfSeq
    <3> QED
      BY <3>1, ConstantsAssumption
  <2>5. ASSUME u \in RS
        PROVE  \E e \in BlocksIn(Mem, RootPD) : Holds(Mem, RootPD, e, u)
    <3>1. PICK i \in 1 .. n : u \in RootBlocks[i].start .. RootBlocks[i].end - 1
      BY <2>1, <2>5
    <3>2. RootBlocks[i].start <= u /\ u < RootBlocks[i].end
      BY <2>1, <2>4, <3>1
    <3>3. i - 1 \in 0 .. n - 1 /\ (i - 1) + 1 = i
      BY <2>1
    <3>4. /\ <<RootKS, i - 1>> \in BlocksIn(Mem, RootPD)
          /\ Mem.slot[<<RootKS, i - 1>>].start = RootBlocks[i].start
          /\ Mem.slot[<<RootKS, i - 1>>].end = RootBlocks[i].end
      BY <2>2, <3>3
    <3> QED
      BY <3>2, <3>4 DEF Holds
  <2>6. ASSUME NEW e \in BlocksIn(Mem, RootPD), Holds(Mem, RootPD, e, u)
        PROVE  u \in RS
    <3>1. e = <<RootKS, e[2]>> /\ e[2] \in 0 .. n - 1
      BY <2>3
    <3>2. /\ Mem.slot[e].start = RootBlocks[e[2] + 1].start
          /\ Mem.slot[e].end = RootBlocks[e[2] + 1].end
      BY <2>2, <3>1
    <3>3. e[2] + 1 \in 1 .. n
      BY <2>1, <3>1
    <3>4. u \in RootBlocks[e[2] + 1].start .. RootBlocks[e[2] + 1].end - 1
      BY <2>1, <2>4, <2>6, <3>2, <3>3 DEF Holds
    <3> QED
      BY <2>1, <3>3, <3>4
  <2>7. \A e \in BlocksIn(Mem, RootPD) : Mem.slot[e].accessible
    BY <2>2, <2>3
  <2> QED
    BY <2>5, <2>6, <2>7
<1>6. RS \subseteq Unit
  <2>1. n \in Nat /\ DOMAIN RootBlocks = 1 .. n /\ Top \in Nat
    BY RootAssumption, LenProperties, ConstantsAssumption
  <2>2. \A i \in 1 .. n : RootBlocks[i] \in [start : 1 .. Top, end : 1 .. Top + 1,
                                             rights : SUBSET Rights]
    BY <2>1, RootAssumption, ElementOfSeq
  <2>3. \A i \in 1 .. n : /\ RootBlocks[i].start \in 1 .. Top
                          /\ RootBlocks[i].end \in 1 .. Top + 1
    BY <2>2
  <2>4. \A i \in 1 .. n : RootBlocks[i].start .. RootBlocks[i].end - 1 \subseteq Unit
    BY <2>1, <2>3 DEF Unit
  <2> QED
    BY <2>1, <2>4
<1> HIDE DEF RS
<1>7. PoolIn(Mem, RootPD) = RS /\ OpenIn(Mem, RootPD) = RS
  BY <1>5, <1>6 DEF PoolIn, OpenIn
<1>8. KernIn(Mem, RootPD) = {}
  <2>1. StructsOf(Mem, RootPD) = {RootKS}
    BY <1>1 DEF IsBooted
  <2>2. /\ RootPD \in Nat /\ RootPD > Top /\ RootKS \in Nat /\ RootKS > Top
        /\ Top \in Nat /\ PDSize \in Nat /\ KSSize \in Nat
    BY ConstantsAssumption
  <2> QED
    BY <2>1, <2>2 DEF KernIn, Unit
<1>9. Mem.pd[RootPD].parent = Null
  BY <1>1 DEF IsBooted
<1> DEFINE given == [p \in PDAddr |-> IF p = RootPD THEN RS ELSE {}]
<1>10. V = [parent |-> [p \in PDAddr |-> Null], pool |-> given, open |-> given,
            kern |-> [p \in PDAddr |-> {}]]
  BY <1>7, <1>8, <1>9 DEF View
<1> QED
  BY <1>4, <1>10 DEF Abstract!Init, RS

\* A step of the services is a step of PipAbstract, or leaves what it sees.
LEMMA StepRefines ==
  ASSUME NoCollect, IInv, Consistency, ReadsMemory, IInv', ReadsMemory', [Next]_vars,
         UNCHANGED vars \/ RemovalsComplete \/ OnlyRootRemoves
  PROVE  [Abstract!Next]_AbstractMemory
<1>1. PICK L : Settled(Mem, L) /\ OpenAbove(Mem, L)
  BY SettledExists
<1>2. AbstractMemory = View(Mem, L)
  BY <1>1 DEF ReadsMemory
<1>3. \A K : Settled(Mem', K) => AbstractMemory' = View(Mem', K)
  BY DEF ReadsMemory
<1>4. CASE UNCHANGED vars
  <2>1. Mem' = Mem
    BY <1>4 DEF Mem, vars
  <2> QED
    BY <1>1, <1>2, <1>3, <2>1
<1>5. CASE ~ UNCHANGED vars
  <2>1. Next /\ (RemovalsComplete \/ OnlyRootRemoves)
    BY <1>5
  <2>2. PICK c \in Live, s \in Services : c \in Callers[s] /\ Service(c, s)
    BY <2>1 DEF Next
  <2>3. s # "collect"
    BY <2>2 DEF NoCollect
  <2>4. L \in SUBSET PDAddr /\ Consistent(Mem, L)
    BY <1>1, SettledParts
  <2>5. c \in L
    BY <2>2, <2>4, LiveIn
  <2>6. s = "remove" => Completes(c)
    BY <2>1, <2>2, <2>4, CallCompletes
  <2>7. Mem' \in Good
    BY DEF IInv, Mem
  <2>8. Refines(Mem, L, Mem')
    BY <1>1, <2>2, <2>3, <2>5, <2>6, <2>7, ServiceRefines
  <2>9. PICK K : /\ Settled(Mem', K)
                 /\ View(Mem', K) = View(Mem, L)
                    \/ Abstract!Service(View(Mem, L), View(Mem', K))
    BY <2>8 DEF Refines
  <2>10. AbstractMemory' = View(Mem', K)
    BY <1>3, <2>9
  <2>11. AbstractMemory' = AbstractMemory \/ Abstract!Service(AbstractMemory, AbstractMemory')
    BY <1>2, <2>9, <2>10
  <2> QED
    BY <2>11 DEF Abstract!Next
<1> QED
  BY <1>4, <1>5

\* Through every sequence of calls, no look-up, flag, slot or free list that a
\* service leaves behind makes a later one give, lend or return memory that
\* PipAbstract would not, when nobody calls collect and every removal of a cut
\* block completes.
THEOREM ImplementsAbstractHolds ==
  NoCollect /\ Spec /\ [][RemovalsComplete]_vars => ImplementsAbstract
<1>1. Init => Abstract!Init
  BY InitRefines
<1>2. NoCollect /\ (IInv /\ Consistency) /\ ReadsMemory /\ (IInv /\ Consistency)'
        /\ ReadsMemory' /\ [Next]_vars /\ [RemovalsComplete]_vars
        => [Abstract!Next]_AbstractMemory
  BY StepRefines
<1>3. NoCollect => NoCollect'
  BY DEF NoCollect
<1>4. ReadsMemory
  BY MappingReads
<1> QED
  BY <1>1, <1>2, <1>3, <1>4, ConsistencyHolds, PTL DEF Spec, ImplementsAbstract, Abstract!Spec

\* With removals left to the root, without that hypothesis.
THEOREM ImplementsAbstractWhenRootRemoves ==
  NoCollect /\ OnlyRootRemoves /\ Spec => ImplementsAbstract
<1>1. Init => Abstract!Init
  BY InitRefines
<1>2. NoCollect /\ OnlyRootRemoves /\ (IInv /\ Consistency) /\ ReadsMemory
        /\ (IInv /\ Consistency)' /\ ReadsMemory' /\ [Next]_vars
        => [Abstract!Next]_AbstractMemory
  BY StepRefines
<1>3. NoCollect /\ OnlyRootRemoves => (NoCollect /\ OnlyRootRemoves)'
  BY DEF NoCollect, OnlyRootRemoves
<1>4. ReadsMemory
  BY MappingReads
<1> QED
  BY <1>1, <1>2, <1>3, <1>4, ConsistencyWhenRootRemoves, PTL
     DEF Spec, ImplementsAbstract, Abstract!Spec

-----------------------------------------------------------------------------
(* The VIDT.                                                               *)

\* What a partition of PipAbstract that lives on loses, another one may access
\* that has lent it to nobody: only remove takes memory from the living.
LEMMA TakenBack ==
  ASSUME NEW V, NEW W, Abstract!Service(V, W), V.parent[RootPD] = Null,
         \A p \in PDAddr : \A a, b \in Abstract!ChildrenOf(V, p) :
           a # b => V.pool[a] \cap V.pool[b] = {},
         NEW x \in PDAddr, x = RootPD \/ W.parent[x] # Null,
         NEW u \in V.pool[x], u \notin W.pool[x]
  PROVE  \E p \in PDAddr : /\ u \in W.open[p]
                           /\ \A q \in Abstract!ChildrenOf(W, p) : u \notin W.pool[q]
<1> DEFINE Goal == \E p \in PDAddr :
                     /\ u \in W.open[p]
                     /\ \A q \in Abstract!ChildrenOf(W, p) : u \notin W.pool[q]
<1>1. /\ RootPD \in PDAddr /\ Null \notin PDAddr
      /\ \A p \in PDAddr : \A q \in Abstract!ChildrenOf(V, p) : q \in PDAddr /\ V.parent[q] = p
  BY NullOutside DEF Abstract!ChildrenOf
<1>2. \A q \in PDAddr : q \in Abstract!Below(V, q)
  BY DEF Abstract!Below
<1>3. /\ V \in Abstract!Memory /\ W \in Abstract!Memory
      /\ \E p \in Abstract!Alive(V) :
           \/ Abstract!cutMemoryBlock(V, W, p) \/ Abstract!mergeMemoryBlocks(V, W, p)
           \/ \E t \in {p} \cup Abstract!ChildrenOf(V, p) :
                Abstract!prepare(V, W, p, t) \/ Abstract!collect(V, W, p, t)
           \/ \E q \in PDAddr : Abstract!createPartition(V, W, p, q)
           \/ \E q \in Abstract!ChildrenOf(V, p) : \/ Abstract!addMemoryBlock(V, W, p, q)
                                                   \/ Abstract!removeMemoryBlock(V, W, p, q)
                                                   \/ Abstract!deletePartition(V, W, p, q)
  BY DEF Abstract!Service
<1>4. PICK p \in PDAddr :
        \/ W.pool = V.pool
        \/ \E q \in Abstract!ChildrenOf(V, p) : \/ Abstract!addMemoryBlock(V, W, p, q)
                                                \/ Abstract!removeMemoryBlock(V, W, p, q)
                                                \/ Abstract!deletePartition(V, W, p, q)
  BY <1>3 DEF Abstract!Alive, Abstract!cutMemoryBlock, Abstract!mergeMemoryBlocks,
              Abstract!prepare, Abstract!collect, Abstract!createPartition, Abstract!Take,
              Abstract!Same
<1>5. ASSUME NEW q \in Abstract!ChildrenOf(V, p), Abstract!addMemoryBlock(V, W, p, q)
      PROVE  Goal
  <2>1. W.pool = [V.pool EXCEPT ![q] = @ \cup (W.pool[q] \ V.pool[q])]
    BY <1>5 DEF Abstract!addMemoryBlock
  <2>2. V.pool[x] \subseteq W.pool[x]
    BY <1>3, <2>1 DEF Abstract!Memory
  <2> QED
    BY <2>2
<1>6. ASSUME NEW q \in Abstract!ChildrenOf(V, p), Abstract!removeMemoryBlock(V, W, p, q)
      PROVE  Goal
  <2> DEFINE U == V.pool[q] \ W.pool[q]
             D == Abstract!Below(V, q)
  <2>1. /\ W.parent = V.parent /\ U \subseteq W.open[p]
        /\ W.pool = [y \in PDAddr |-> IF y \in D THEN V.pool[y] \ U ELSE V.pool[y]]
    BY <1>6 DEF Abstract!removeMemoryBlock, Abstract!Same
  <2>2. q \in D /\ q \in PDAddr
    BY <1>1, <1>2
  <2> HIDE DEF U, D
  <2>3. u \in U
    BY <2>1
  <2>4. u \in V.pool[q] /\ u \notin W.pool[q]
    BY <2>3 DEF U
  <2>5. ASSUME NEW z \in Abstract!ChildrenOf(W, p) PROVE u \notin W.pool[z]
    <3>1. z \in Abstract!ChildrenOf(V, p)
      BY <2>1 DEF Abstract!ChildrenOf
    <3>2. z # q => u \notin V.pool[z]
      BY <2>4, <3>1
    <3>3. z \in PDAddr
      BY <1>1, <3>1
    <3>4. W.pool[z] \subseteq V.pool[z]
      BY <2>1, <3>3
    <3> QED
      BY <2>4, <3>2, <3>4
  <2> QED
    BY <2>1, <2>3, <2>5
<1>7. ASSUME NEW q \in Abstract!ChildrenOf(V, p), Abstract!deletePartition(V, W, p, q)
      PROVE  Goal
  <2> DEFINE D == Abstract!Below(V, q)
  <2>1. /\ W.parent = [y \in PDAddr |-> IF y \in D THEN Null ELSE V.parent[y]]
        /\ W.pool = [y \in PDAddr |-> IF y \in D THEN {} ELSE V.pool[y]]
    BY <1>7 DEF Abstract!deletePartition
  <2>2. RootPD \notin D
    <3> DEFINE S == PDAddr \ {RootPD}
    <3>1. q \in S
      BY <1>1
    <3>2. \A y \in S : Abstract!ChildrenOf(V, y) \subseteq S
      BY <1>1
    <3>3. S \in SUBSET PDAddr /\ RootPD \notin S
      OBVIOUS
    <3> HIDE DEF S
    <3> QED
      BY <3>1, <3>2, <3>3 DEF Abstract!Below
  <2> HIDE DEF D
  <2>3. x \notin D
    BY <2>1, <2>2
  <2> QED
    BY <2>1, <2>3
<1> QED
  BY <1>4, <1>5, <1>6, <1>7

\* What a partition may access and has lent to nobody lies in a block of it
\* that is not shared.
LEMMA UnlentBlock ==
  ASSUME NEW m, NEW L, Settled(m, L), NEW p \in PDAddr, NEW u \in View(m, L).open[p],
         \A q \in Abstract!ChildrenOf(View(m, L), p) : u \notin View(m, L).pool[q]
  PROVE  /\ p \in L /\ u \in PoolIn(m, p)
         /\ \E f \in BlocksIn(m, p) :
              m.slot[f].accessible /\ m.slot[f].inChild = NullSlot /\ Holds(m, p, f, u)
<1> DEFINE V == View(m, L)
<1>1. /\ \A x \in L : V.pool[x] = PoolIn(m, x) /\ V.open[x] = OpenIn(m, x)
      /\ \A x \in PDAddr \ L : V.open[x] = {}
      /\ \A x \in PDAddr : \A q : q \in Abstract!ChildrenOf(V, x)
                                  <=> q \in L \ {RootPD} /\ m.pd[q].parent = x
  BY ViewIs
<1> HIDE DEF V
<1>2. p \in L /\ u \in OpenIn(m, p)
  BY <1>1 DEF V
<1>3. PICK f \in BlocksIn(m, p) : m.slot[f].accessible /\ Holds(m, p, f, u)
  BY <1>2 DEF OpenIn
<1>4. u \in Unit /\ u \in PoolIn(m, p)
  BY <1>2, <1>3 DEF OpenIn, PoolIn
<1>5. m.slot[f].inChild = NullSlot
  <2> SUFFICES ASSUME m.slot[f].inChild # NullSlot PROVE FALSE
    OBVIOUS
  <2>1. /\ m.slot[f].PDchild \in L \ {RootPD} /\ m.pd[m.slot[f].PDchild].parent = p
        /\ Extent(m, f) \subseteq PoolIn(m, m.slot[f].PDchild)
    BY <1>2, Covered
  <2>2. u \in Extent(m, f)
    BY <1>2, <1>3, <1>4, SettledParts, ExtentIn
  <2>3. m.slot[f].PDchild \in Abstract!ChildrenOf(V, p)
    BY <1>1, <2>1
  <2> QED
    BY <1>1, <2>1, <2>2, <2>3 DEF V
<1> QED
  BY <1>2, <1>3, <1>4, <1>5

\* What a service other than setVIDT makes of the VIDTs.
LEMMA ServiceVidts ==
  ASSUME IInv, NEW L \in SUBSET PDAddr, Consistent(Mem, L), NEW c \in L,
         NEW s \in Services \ {"collect", "setVIDT"}, Service(c, s)
  PROVE  VidtsKept(Mem, Mem')
<1>1. c \in PDAddr /\ \A t \in CurrentOrChild(c) : t \in PDAddr
  BY TargetIn
<1>2. CASE s = "create"
  BY <1>1, <1>2, createFades, FadesVidts DEF Service
<1>3. CASE s = "prepare"
  BY <1>1, <1>3, prepareFades, FadesVidts DEF Service
<1>4. CASE s = "add"
  BY <1>1, <1>4, addFades, FadesVidts DEF Service
<1>5. CASE s = "remove"
  BY <1>1, <1>5, removeServiceFades, FadesVidts DEF Service
<1>6. CASE s = "delete"
  BY <1>1, <1>6, deleteFades, FadesVidts DEF Service
<1>7. CASE s = "cut"
  BY <1>1, <1>7, cutFades DEF Service
<1>8. CASE s = "merge"
  BY <1>1, <1>8, mergeFades DEF Service
<1>9. CASE s = "map"
  BY <1>1, <1>9, unmapRegionFades, mapBlockFades DEF Service, mapMPU
<1> QED
  BY <1>2, <1>3, <1>4, <1>5, <1>6, <1>7, <1>8, <1>9 DEF Services

\* setVIDT puts a VIDT into one block of the partition: VidtFits.
LEMMA setVIDTInside ==
  ASSUME IInv, NEW L, Settled(Mem, L), NEW c, NEW t \in L, NEW a \in VidtPoints,
         setVIDT(c, t, a)
  PROVE  a .. a + VidtSize - 1 \subseteq PoolIn(Mem', t)
<1>0. a \in Nat /\ a # Null /\ VidtSize \in Nat
  <2>1. a \in 1 .. Top /\ Top \in Nat /\ VidtSize \in Nat
    BY ConstantsAssumption
  <2> QED
    BY <2>1 DEF Null
<1>1. /\ Mem \in Good /\ L \in SUBSET PDAddr /\ Ranges(Mem, L) /\ Mem.slot = slot
  BY SettledParts DEF Mem
<1> DEFINE e == findBelongingBlock(Mem, t, a)
<1>2. e # NullSlot /\ VidtFits(Mem.slot[e], a)
  BY <1>1, <1>0 DEF setVIDT
<1>3. e \in BlocksIn(Mem, t) /\ Mem.slot[e].start <= a
  BY <1>2, FindBelongingIs
<1> HIDE DEF e
<1>4. Extent(Mem, e) \subseteq PoolIn(Mem, t) /\ Mem.slot[e].start \in Extent(Mem, e)
  BY <1>1, <1>3, ExtentIn
<1>5. Mem.slot[e].start \in Nat /\ Mem.slot[e].end \in Nat
  BY <1>1, <1>3, BlockType
<1>6. a .. a + VidtSize - 1 \subseteq Extent(Mem, e)
  BY <1>0, <1>2, <1>3, <1>5 DEF VidtFits, Extent
<1>7. PoolIn(Mem', t) = PoolIn(Mem, t)
  <2>1. Mem'.slot = Mem.slot /\ Mem'.pd[t].structs = Mem.pd[t].structs
    BY <1>1, setVIDTFades
  <2>2. BlocksIn(Mem', t) = BlocksIn(Mem, t)
    BY <2>1 DEF BlocksIn, SlotsOf
  <2> QED
    BY <2>1, <2>2 DEF PoolIn, Holds
<1> QED
  BY <1>4, <1>6, <1>7

\* VIDTStays reads the live partitions, their memory and what they may use
\* and have not shared.
ReadsPools ==
  \A L : Settled(Mem, L) =>
    /\ Live = L
    /\ \A p \in L : Mapped(p) = PoolIn(Mem, p)
    /\ \A p \in L : \A q \in L \ {p} : \A f \in BlocksIn(Mem, q) : \A u \in Unit :
         Mem.slot[f].accessible /\ Mem.slot[f].inChild = NullSlot /\ Holds(Mem, q, f, u)
           => u \in Reclaimed(p)

\* The memory VIDTStays reads is that of the live partitions.
LEMMA PoolsRead == ReadsPools
<1> SUFFICES ASSUME NEW L, Settled(Mem, L)
             PROVE  /\ Live = L
                    /\ \A p \in L : Mapped(p) = PoolIn(Mem, p)
                    /\ \A p \in L : \A q \in L \ {p} : \A f \in BlocksIn(Mem, q) :
                         \A u \in Unit :
                           Mem.slot[f].accessible /\ Mem.slot[f].inChild = NullSlot
                             /\ Holds(Mem, q, f, u)
                             => u \in Reclaimed(p)
  BY DEF ReadsPools
<1>1. Live = L /\ \A p \in L : Mapped(p) = PoolIn(Mem, p)
  BY MappingIs
<1>2. ASSUME NEW p \in L, NEW q \in L \ {p}, NEW f \in BlocksIn(Mem, q), NEW u \in Unit,
             Mem.slot[f].accessible, Mem.slot[f].inChild = NullSlot, Holds(Mem, q, f, u)
      PROVE  u \in Reclaimed(p)
  <2>1. Mem.slot = slot
    BY DEF Mem
  <2>2. f \in BlocksOf(q)
    BY <2>1 DEF BlocksOf, BlocksIn
  <2>3. u \in Units(f)
    <3>1. u \in Extent(Mem, f)
      BY <1>2, SettledParts, ExtentIn
    <3> QED
      BY <2>1, <3>1 DEF Units, Extent
  <2> QED
    BY <1>1, <1>2, <2>1, <2>2, <2>3 DEF Reclaimed
<1> QED
  BY <1>1, <1>2

\* The children of a partition own different memory.
LEMMA SiblingPools ==
  ASSUME IInv, Consistency, NEW L, Settled(Mem, L), NEW p \in PDAddr,
         NEW a \in Abstract!ChildrenOf(View(Mem, L), p),
         NEW b \in Abstract!ChildrenOf(View(Mem, L), p), a # b
  PROVE  View(Mem, L).pool[a] \cap View(Mem, L).pool[b] = {}
<1>1. Tree(Mem, L) /\ Mem \in Good /\ L \in SUBSET PDAddr /\ Mem.pd = pd
  BY SettledParts DEF Mem
<1>2. \A q \in {a, b} : q \in L \ {RootPD} /\ Mem.pd[q].parent = p
  BY <1>1, ViewTree
<1>3. p \in L
  BY <1>1, <1>2 DEF Tree
<1>4. Live = L /\ \A q \in L : Mapped(q) = PoolIn(Mem, q)
  BY MappingIs
<1>5. PartitionsIsolation /\ PartitionTree
  BY EachProperty DEF AllProperties
<1>6. \A q \in {a, b} : q \in ChildrenOf(p)
  BY <1>1, <1>2, <1>3, <1>4, <1>5 DEF PartitionTree
<1>7. Used(a) \cap Used(b) = {}
  BY <1>3, <1>4, <1>5, <1>6 DEF PartitionsIsolation
<1>8. \A q \in {a, b} : PoolIn(Mem, q) \subseteq Used(q)
  BY <1>2, <1>4 DEF Used, PoolIn, Unit
<1> QED
  BY <1>1, <1>2, <1>7, <1>8, ViewFields

\* A step keeps a VIDT in the memory of its partition, moves it there, or
\* returns that memory to a partition that uses it.
LEMMA StepVidts ==
  ASSUME NoCollect, IInv, Consistency, ReadsPools, IInv', ReadsPools', [Next]_vars,
         UNCHANGED vars \/ RemovalsComplete \/ OnlyRootRemoves
  PROVE  [VIDTStays]_vars
<1> SUFFICES ASSUME ~ UNCHANGED vars PROVE VIDTStays
  OBVIOUS
<1>1. PICK L : Settled(Mem, L) /\ OpenAbove(Mem, L)
  BY SettledExists
<1>2. PICK c \in Live, s \in Services : c \in Callers[s] /\ Service(c, s)
  BY DEF Next
<1>3. /\ L \in SUBSET PDAddr /\ Consistent(Mem, L) /\ Tree(Mem, L) /\ Mem \in Good
      /\ Mem.pd = pd /\ Mem'.pd = pd' /\ Mem' \in Good
  BY <1>1, SettledParts DEF IInv, Mem
<1>4. c \in L
  BY <1>2, <1>3, LiveIn
<1>5. s # "collect" /\ (s = "remove" => Completes(c))
  BY <1>2, <1>3, CallCompletes DEF NoCollect
<1>6. PICK K \in SUBSET PDAddr :
        /\ Settled(Mem', K)
        /\ View(Mem', K) = View(Mem, L) \/ Abstract!Service(View(Mem, L), View(Mem', K))
  BY <1>1, <1>2, <1>3, <1>4, <1>5, ServiceRefines DEF Refines
<1> DEFINE V == View(Mem, L)
           W == View(Mem', K)
<1>7. Live = L /\ \A p \in L : Mapped(p) = PoolIn(Mem, p)
  BY <1>1 DEF ReadsPools
<1>8. /\ Live' = K /\ \A p \in K : Mapped(p)' = PoolIn(Mem', p)
      /\ \A p \in K : \A q \in K \ {p} : \A f \in BlocksIn(Mem', q) : \A u \in Unit :
           Mem'.slot[f].accessible /\ Mem'.slot[f].inChild = NullSlot /\ Holds(Mem', q, f, u)
             => u \in Reclaimed(p)'
  BY <1>6 DEF ReadsPools
<1> SUFFICES ASSUME NEW p \in L \cap K, pd'[p].vidt # Null
             PROVE  \/ VidtUnits(p)' \subseteq Mapped(p)'
                    \/ /\ pd'[p].vidt = pd[p].vidt
                       /\ VidtUnits(p) \subseteq Mapped(p)
                            => VidtUnits(p) \ Mapped(p)' \subseteq Reclaimed(p)'
  BY <1>7, <1>8 DEF VIDTStays
\* What is taken from p is used by another.
<1>9. ASSUME VidtUnits(p) \subseteq Mapped(p), NEW u \in VidtUnits(p) \ Mapped(p)'
      PROVE  u \in Reclaimed(p)'
  <2>1. p \in PDAddr /\ u \in V.pool[p] /\ u \notin W.pool[p]
    BY <1>3, <1>7, <1>8, <1>9, ViewFields
  <2>2. V.parent[RootPD] = Null
    BY <1>3, ViewFields DEF Tree
  <2>3. p = RootPD \/ W.parent[p] # Null
    <3>1. p = RootPD \/ Mem'.pd[p].parent \in K
      BY <1>6, SettledParts DEF Tree
    <3> QED
      BY <1>6, <3>1, ViewFields, NullOutside
  <2>4. Abstract!Service(V, W)
    BY <1>6, <2>1
  <2>5. \A q \in PDAddr : \A a, b \in Abstract!ChildrenOf(V, q) :
          a # b => V.pool[a] \cap V.pool[b] = {}
    BY <1>1, SiblingPools
  <2> HIDE DEF V, W
  <2>6. PICK q \in PDAddr : /\ u \in W.open[q]
                            /\ \A z \in Abstract!ChildrenOf(W, q) : u \notin W.pool[z]
    BY <2>1, <2>2, <2>3, <2>4, <2>5, TakenBack
  <2>7. /\ q \in K /\ u \in PoolIn(Mem', q)
        /\ \E f \in BlocksIn(Mem', q) : /\ Mem'.slot[f].accessible
                                        /\ Mem'.slot[f].inChild = NullSlot
                                        /\ Holds(Mem', q, f, u)
    BY <1>6, <2>6, UnlentBlock DEF W
  <2>8. q # p
    BY <1>6, <2>1, <2>7, ViewFields DEF W
  <2>9. u \in Unit
    BY <2>7 DEF PoolIn
  <2> QED
    BY <1>8, <2>7, <2>8, <2>9
<1>10. CASE pd'[p].vidt = pd[p].vidt
  BY <1>9, <1>10
<1>11. CASE pd'[p].vidt # pd[p].vidt
  <2>1. s = "setVIDT"
    <3>1. ASSUME s # "setVIDT" PROVE FALSE
      <4>1. VidtsKept(Mem, Mem')
        BY <1>2, <1>3, <1>4, <1>5, <3>1, ServiceVidts
      <4> QED
        BY <1>3, <1>11, <4>1 DEF VidtsKept
    <3> QED
      BY <3>1
  <2>2. PICK t \in CurrentOrChild(c), a \in VidtPoints \cup {Null} : setVIDT(c, t, a)
    BY <1>2, <2>1 DEF Service
  <2>3. t \in L
    BY <1>3, <1>4, TargetIn
  <2>4. p = t /\ pd'[p].vidt = a
    BY <1>3, <1>11, <2>2, <2>3, setVIDTFades
  <2>5. a .. a + VidtSize - 1 \subseteq PoolIn(Mem', t)
    BY <1>1, <2>2, <2>3, <2>4, setVIDTInside
  <2> QED
    BY <1>8, <2>4, <2>5 DEF VidtUnits
<1> QED
  BY <1>10, <1>11

\* A VIDT is set in memory of its partition, and what is cut, merged, shared,
\* given to the kernel or deleted later leaves it there; who loses the memory
\* loses it to an ancestor that may access it at once and has it to itself.
THEOREM VIDTHolds ==
  NoCollect /\ Spec /\ [][RemovalsComplete]_vars => VIDTInMappedMemory
<1>1. NoCollect /\ (IInv /\ Consistency) /\ ReadsPools /\ (IInv /\ Consistency)'
        /\ ReadsPools' /\ [Next]_vars /\ [RemovalsComplete]_vars
        => [VIDTStays]_vars
  BY StepVidts
<1>2. NoCollect => NoCollect'
  BY DEF NoCollect
<1>3. ReadsPools
  BY PoolsRead
<1> QED
  BY <1>1, <1>2, <1>3, ConsistencyHolds, PTL DEF Spec, VIDTInMappedMemory

\* With removals left to the root, without that hypothesis.
THEOREM VIDTWhenRootRemoves ==
  NoCollect /\ OnlyRootRemoves /\ Spec => VIDTInMappedMemory
<1>1. NoCollect /\ OnlyRootRemoves /\ (IInv /\ Consistency) /\ ReadsPools
        /\ (IInv /\ Consistency)' /\ ReadsPools' /\ [Next]_vars
        => [VIDTStays]_vars
  BY StepVidts
<1>2. NoCollect /\ OnlyRootRemoves => (NoCollect /\ OnlyRootRemoves)'
  BY DEF NoCollect, OnlyRootRemoves
<1>3. ReadsPools
  BY PoolsRead
<1> QED
  BY <1>1, <1>2, <1>3, ConsistencyWhenRootRemoves, PTL DEF Spec, VIDTInMappedMemory
=============================================================================
