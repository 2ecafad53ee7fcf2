---------------------------- MODULE PipMPU_proofs ----------------------------
(***************************************************************************)
(* The registers of the MPU agree with the table of the running partition, *)
(* the table with the descriptors and the descriptors with each other, for *)
(* every memory layout, table and instruction: proofs about PipMPU.        *)
(***************************************************************************)
EXTENDS PipMPU, PipIsolation_proofs

\* current_partition names a descriptor until the kernel stops, and each
\* descriptor has a table.
CurIsPD == cur \in PDAddr \cup {Null} /\ DOMAIN lut = PDAddr

RegistersInv == CurIsPD /\ RegistersFollowLUT

\* The null address is no descriptor.
LEMMA NullIsNoPD == Null \notin PDAddr
  BY ConstantsAssumption DEF ConstantsAssumption, Null, PDAddr

\* Where the table of the running partition changes, the registers are loaded
\* or the region was cleared.
LEMMA ReplacedKeeps ==
  ASSUME NEW p, NEW R, cur \in PDAddr, RegistersInv, Replaced(p, R)
  PROVE  RegistersInv'
<1>1. cur' = cur /\ cur # Null
  BY NullIsNoPD DEF Replaced
<1>0. DOMAIN lut' = PDAddr
  BY DEF Replaced, LUTAfter
<1>2. CASE p = cur /\ R \cap Regions # {}
  <2>1. hw' = lut'[cur]
    BY <1>2 DEF Replaced
  <2> QED
    BY <1>1, <1>0, <2>1 DEF RegistersInv, CurIsPD, RegistersFollowLUT
<1>3. CASE ~ (p = cur /\ R \cap Regions # {})
  <2>1. hw' = hw
    BY <1>3 DEF Replaced
  <2> SUFFICES ASSUME NEW r \in Regions
               PROVE  hw'[r] = lut'[cur][r] \/ lut'[cur][r] = Off
    BY <1>0, <1>1 DEF RegistersInv, CurIsPD, RegistersFollowLUT
  <2>2. ~ (cur = p /\ r \in R)
    BY <1>3
  <2>3. lut' = LUTAfter(p, R)
    BY DEF Replaced
  <2>4. lut'[cur][r] \in {Off, lut[cur][r]}
    BY <2>2, <2>3 DEF LUTAfter, AllOff
  <2>5. hw[r] = lut[cur][r] \/ lut[cur][r] = Off
    BY <1>1 DEF RegistersInv, RegistersFollowLUT
  <2> QED
    BY <2>1, <2>4, <2>5
<1> QED
  BY <1>2, <1>3

\* A partition that is activated has its table loaded.
LEMMA ActivateKeeps ==
  ASSUME NEW q \in PDAddr, RegistersInv, activate(q), lut' = lut
  PROVE  RegistersInv'
  BY DEF activate, RegistersInv, CurIsPD, RegistersFollowLUT

\* kernel.c loads the table of the root before it starts it.
LEMMA InitRegisters == MPUInit => RegistersInv
  BY DEF MPUInit, RegistersInv, CurIsPD, RegistersFollowLUT, PDAddr

\* updateMPU reloads the registers after the services that may write to the
\* table of the running partition.
LEMMA ServiceCallKeeps ==
  ASSUME cur \in PDAddr, RegistersInv, ServiceCall
  PROVE  RegistersInv'
<1>1. \E p, R : Replaced(p, R)
  BY DEF ServiceCall, cut, merge, map, OtherService
<1> QED
  BY <1>1, ReplacedKeeps

\* Serving a fault writes the table and the registers alike.
LEMMA MemManageKeeps ==
  ASSUME cur \in PDAddr, RegistersInv, MemManage
  PROVE  RegistersInv'
<1>1. cur' = cur
  BY DEF MemManage
<1>2. \E t : Load(t)
  BY DEF MemManage, ServeOne, ServeBoth
<1>3. lut'[cur] = hw' /\ DOMAIN lut' = PDAddr
  BY <1>2 DEF Load, RegistersInv, CurIsPD
<1> QED
  BY <1>1, <1>3 DEF RegistersInv, CurIsPD, RegistersFollowLUT

\* A fault that is not served goes to an ancestor, or the kernel stops.
LEMMA MemManageErrorKeeps ==
  ASSUME cur \in PDAddr, RegistersInv, MemManageError
  PROVE  RegistersInv'
<1>1. PropagateFault
  BY DEF MemManageError
<1>2. lut' = lut
  BY <1>1 DEF PropagateFault
<1>3. CASE \E q \in Ancestors(cur) \ {cur} : activate(q)
  BY <1>2, <1>3, ActivateKeeps DEF Ancestors
<1>4. CASE cur' = Null
  BY <1>2, <1>4 DEF RegistersInv, CurIsPD, RegistersFollowLUT
<1> QED
  BY <1>1, <1>3, <1>4 DEF PropagateFault

\* One case per action.
LEMMA StepRegisters == RegistersInv /\ [MPUNext]_mpuVars => RegistersInv'
<1> SUFFICES ASSUME RegistersInv, [MPUNext]_mpuVars
             PROVE  RegistersInv'
  OBVIOUS
<1>1. CASE UNCHANGED mpuVars
  BY <1>1 DEF mpuVars, RegistersInv, CurIsPD, RegistersFollowLUT
<1>2. CASE MPUNext
  <2> USE <1>2
  <2>1. cur \in PDAddr
    BY DEF MPUNext, RegistersInv, CurIsPD
  <2>2. CASE ServiceCall
    BY <2>1, <2>2, ServiceCallKeeps
  <2>3. ASSUME NEW q \in PDAddr, Switch(q)
        PROVE  RegistersInv'
    BY <2>3, ActivateKeeps DEF Switch
  <2>4. ASSUME NEW i \in Instructions, Start(i)
        PROVE  RegistersInv'
    BY <2>4 DEF Start, RegistersInv, CurIsPD, RegistersFollowLUT
  <2>5. CASE Complete
    BY <2>5 DEF Complete, RegistersInv, CurIsPD, RegistersFollowLUT
  <2>6. CASE MemManage
    BY <2>1, <2>6, MemManageKeeps
  <2>7. CASE MemManageError
    BY <2>1, <2>7, MemManageErrorKeeps
  <2> QED
    BY <2>2, <2>3, <2>4, <2>5, <2>6, <2>7 DEF MPUNext
<1> QED
  BY <1>1, <1>2

\* mal.c (replaceBlockInPhysicalMPU, activate) and exception_handlers.c
\* (reconfigureMpu) are the only places that load the registers, and
\* removeBlockFromPhysicalMPU the only one that leaves them behind the table:
\* whatever the services, faults and switches before, a register differs from
\* the table of the running partition only in a region that was cleared.
THEOREM RegistersAgree == MPUSpec => []RegistersFollowLUT
<1>1. RegistersInv => RegistersFollowLUT
  BY DEF RegistersInv
<1> QED
  BY InitRegisters, StepRegisters, <1>1, PTL DEF MPUSpec

-----------------------------------------------------------------------------
(* Regions.                                                                *)

\* The size of a region is a positive number.
LEMMA Pow2Type == Pow2 \in [Nat -> Nat \ {0}] /\ Pow2[0] = 1
<1>1. Pow2 = Doubled(Pow2)
  BY DoubledExists DEF Pow2, Doubled
<1> QED
  BY <1>1, DoubledGrows

\* The piece that is loaded for an address of a block lies in the block and
\* holds the address: the smallest region always fits.
LEMMA CoveringPiece ==
  ASSUME NEW b \in Entry, NEW a \in Nat, b.start <= a, a < b.end
  PROVE  LET piece == LargestCovering(b, a)
         IN  /\ piece.start \in 0 .. Top + 1 /\ piece.end \in 0 .. Top + 1
             /\ b.start <= piece.start /\ piece.end <= b.end
             /\ piece.start <= a /\ a < piece.end
<1> DEFINE base(k) == a - (a % Pow2[k])
           fits    == {k \in 0 .. Top : b.start <= base(k) /\ base(k) + Pow2[k] <= b.end}
           k       == CHOOSE n \in fits : \A j \in fits : j <= n
<1>1. b.start \in 0 .. Top + 1 /\ b.end \in 0 .. Top + 1 /\ Top \in Nat
  BY ConstantsAssumption DEF Entry
<1>2. 0 \in fits
  <2>1. a % 1 = 0
    OBVIOUS
  <2> QED
    BY <1>1, <2>1, Pow2Type
<1>3. \E n \in fits : \A j \in fits : j <= n
  <2>1. fits \in SUBSET (0 .. Top) /\ fits # {}
    BY <1>2
  <2> HIDE DEF fits
  <2> QED
    BY <1>1, <2>1, GreatestNat
<1>4. k \in fits
  <2> HIDE DEF fits
  <2> QED
    BY <1>3
<1> HIDE DEF k
<1>5. k \in Nat /\ b.start <= base(k) /\ base(k) + Pow2[k] <= b.end
  BY <1>1, <1>4
<1>6. Pow2[k] \in Nat /\ Pow2[k] > 0
  BY <1>5, Pow2Type
<1>7. a % Pow2[k] \in 0 .. Pow2[k] - 1
  BY <1>6
<1>8. LargestCovering(b, a) = [start |-> base(k), end |-> base(k) + Pow2[k]]
  BY SMTT(30) DEF LargestCovering, k
<1> QED
  BY <1>1, <1>5, <1>6, <1>7, <1>8

-----------------------------------------------------------------------------
(* What a region holds after a service.                                    *)

\* A region of a partition is one of R, is empty, or holds a block it held
\* before, where the block was and with the rights it had.
Renews(m, n, L, K, p, R) ==
  \A q \in K : \A k \in Regions :
    LET e == n.pd[q].mpu[k]
    IN  \/ q = p /\ k \in R
        \/ e = NullSlot
        \/ /\ q \in L /\ e = m.pd[q].mpu[k] /\ m.slot[e].present
           /\ SameArea(n.slot[e], m.slot[e])

\* The region of a partition that stays is never one that a new block takes.
NewApart(m, n, L, X, p, R) ==
  \A q \in L : \A k \in Regions :
    LET e == n.pd[q].mpu[k]
    IN  e # NullSlot /\ e = m.pd[q].mpu[k] /\ e \in X => q = p /\ k \in R

\* After a service that adds no block over another's, and writes to the regions
\* of R alone, the other regions still lie in blocks that their partitions may
\* use.
LEMMA RenewsByFading ==
  ASSUME NEW m, NEW n \in Good, NEW L \in SUBSET PDAddr, NEW K \in SUBSET PDAddr,
         Guarded(n, K), NEW p, NEW S, NEW R, S \subseteq R, NEW X,
         FadesBut(m, n, X, p, S), NewApart(m, n, L, X, p, R),
         \A q \in K \ L : \A k \in Regions : n.pd[q].mpu[k] = NullSlot
  PROVE  Renews(m, n, L, K, p, R)
<1> SUFFICES ASSUME NEW q \in K, NEW k \in Regions,
                    ~ (q = p /\ k \in R), n.pd[q].mpu[k] # NullSlot
             PROVE  LET e == n.pd[q].mpu[k]
                    IN  /\ q \in L /\ e = m.pd[q].mpu[k] /\ m.slot[e].present
                        /\ SameArea(n.slot[e], m.slot[e])
  BY DEF Renews
<1> DEFINE e == n.pd[q].mpu[k]
<1>1. q \in L
  OBVIOUS
<1>2. e = m.pd[q].mpu[k]
  BY DEF FadesBut
<1>3. e \notin X
  BY <1>1, <1>2 DEF NewApart
<1>4. e \in BlocksIn(n, q)
  BY DEF Guarded, MPUMapsAccessible
<1>5. e \in Slots /\ n.slot[e].present
  BY <1>4, BlockType
<1>6. BlockFades(n.slot[e], m.slot[e])
  BY <1>3, <1>5 DEF FadesBut
<1> QED
  BY <1>1, <1>2, <1>5, <1>6 DEF BlockFades

\* A memory renews itself.
LEMMA RenewsSelf ==
  ASSUME NEW m \in Good, NEW L \in SUBSET PDAddr, Guarded(m, L), NEW p, NEW R
  PROVE  Renews(m, m, L, L, p, R)
<1>1. NewApart(m, m, L, {}, p, R)
  BY DEF NewApart
<1>2. FadesBut(m, m, {}, p, {})
  BY FadesSelf, FadesAll
<1> QED
  BY <1>1, <1>2, RenewsByFading

\* No region holds a free slot.
LEMMA FreeSlotUnmapped ==
  ASSUME NEW m \in Good, NEW L \in SUBSET PDAddr, Consistent(m, L), Guarded(m, L),
         NEW t \in L, NEW q \in L, NEW k \in Regions, m.pd[q].mpu[k] # NullSlot
  PROVE  m.pd[q].mpu[k] # m.pd[t].firstFree
<1>1. m.slot[m.pd[q].mpu[k]].present
  BY BlockType DEF Guarded, MPUMapsAccessible
<1>2. m.pd[t].firstFree \in FreeIn(m, t) \cup {NullSlot}
  BY DEF Consistent, FreeLists, FreeListOK
<1> QED
  BY <1>1, <1>2 DEF FreeIn

\* Where a partition finds itself after the call, and its regions.
Settles(L, p, R) ==
  \E K \in SUBSET PDAddr :
    /\ cur \in K /\ Consistent(Mem', K) /\ Guarded(Mem', K)
    /\ Renews(Mem, Mem', L, K, p, R)

\* The common end of the services.
LEMMA ServiceSettles ==
  ASSUME IInv, IInv', NEW L \in SUBSET PDAddr, Consistent(Mem, L), Guarded(Mem, L), cur \in L,
         NEW s, s # "collect", Service(cur, s),
         s = "remove" => UNCHANGED vars \/ Completes(cur),
         NEW p, NEW S, NEW R, S \subseteq R, NEW X,
         FadesBut(Mem, Mem', X, p, S), NewApart(Mem, Mem', L, X, p, R)
  PROVE  Settles(L, p, R)
<1>0. Mem \in Good /\ Mem' \in Good
  BY DEF IInv
<1>1. CASE UNCHANGED vars
  <2>1. Mem' = Mem
    BY <1>1 DEF Mem, vars
  <2> QED
    BY <1>0, <2>1, RenewsSelf DEF Settles
<1>2. CASE ~ UNCHANGED vars
  <2>1. SoundFor(Mem', cur, L)
    BY <1>2, ServiceSound
  <2>2. PICK K \in SUBSET PDAddr :
          /\ cur \in K /\ Consistent(Mem', K) /\ Guarded(Mem', K)
          /\ \A q \in K \ L : \A r \in Regions : Mem'.pd[q].mpu[r] = NullSlot
    BY <2>1 DEF SoundFor
  <2>3. Renews(Mem, Mem', L, K, p, R)
    BY <1>0, <2>2, RenewsByFading
  <2> QED
    BY <2>2, <2>3 DEF Settles
<1> QED
  BY <1>1, <1>2

\* What the services that map nothing leave alone.
LEMMA OtherFades ==
  ASSUME IInv, NEW L \in SUBSET PDAddr, Consistent(Mem, L), Guarded(Mem, L), cur \in L,
         NEW s \in Services \ {"cut", "merge", "map", "collect"}, Service(cur, s)
  PROVE  \E X : FadesBut(Mem, Mem', X, cur, {}) /\ NewApart(Mem, Mem', L, X, cur, {})
<1>0. NewApart(Mem, Mem', L, {}, cur, {})
  BY DEF NewApart
<1>1. \A t \in CurrentOrChild(cur) : t \in L
  BY TargetIn
<1>2. CASE s = "create"
  BY <1>0, <1>2, createFades, FadesAll DEF Service
<1>3. CASE s = "prepare"
  BY <1>0, <1>1, <1>3, prepareFades, FadesAll DEF Service
<1>4. CASE s = "add"
  <2>1. PICK t \in PDAddr, e \in SlotsOf(Mem, cur), rights \in GrantRights :
          addMemoryBlock(cur, t, e, rights)
    BY <1>4 DEF Service
  <2>2. Fades(Mem, Mem', {pd[t].firstFree})
    BY <2>1, addFades
  <2>3. t \in L
    <3>1. t \in CurrentOrChild(cur)
      BY <2>1 DEF addMemoryBlock, CurrentOrChild
    <3> QED
      BY <1>1, <3>1
  <2>4. Mem \in Good /\ Mem.pd = pd
    BY DEF IInv, Mem
  <2>5. NewApart(Mem, Mem', L, {pd[t].firstFree}, cur, {})
    BY <2>3, <2>4, FreeSlotUnmapped DEF NewApart
  <2> QED
    BY <2>2, <2>5, FadesAll
<1>5. CASE s = "remove"
  BY <1>0, <1>5, removeServiceFades, FadesAll DEF Service
<1>6. CASE s = "delete"
  BY <1>0, <1>6, deleteFades, FadesAll DEF Service
<1>7. CASE s = "setVIDT"
  BY <1>0, <1>1, <1>7, setVIDTFades DEF Service
<1> QED
  BY <1>2, <1>3, <1>4, <1>5, <1>6, <1>7 DEF Services

\* Every call is a step of PipMemory, and the table follows it.
LEMMA CallSettles ==
  ASSUME NoCollect, IInv, NEW L \in SUBSET PDAddr, Consistent(Mem, L), Guarded(Mem, L),
         cur \in L, ServiceCall, UNCHANGED vars \/ RemovalsComplete \/ OnlyRootRemoves
  PROVE  Next /\ \E p, R : Replaced(p, R) /\ Settles(L, p, R)
<1>0. cur \in Live
  BY LiveExact, LiveIsLiveOf DEF Consistent
<1>1. Mem \in Good /\ Mem.pd = pd
  BY DEF IInv, Mem
<1>2. ASSUME NEW s \in Services, cur \in Callers[s], Service(cur, s)
      PROVE  Next /\ IInv' /\ s # "collect" /\ (s = "remove" => UNCHANGED vars \/ Completes(cur))
  <2>1. Next
    BY <1>0, <1>2 DEF Next
  <2>2. IInv'
    BY <2>1, NextGood
  <2>3. s # "collect"
    BY <1>2 DEF NoCollect
  <2>4. s = "remove" => UNCHANGED vars \/ Completes(cur)
    BY <1>0, <1>2, CallCompletes
  <2> QED
    BY <2>1, <2>2, <2>3, <2>4
<1>3. /\ \A r \in RegionArgs : r \in RegionArg
      /\ {"cut", "merge", "map"} \subseteq Services
  BY MPUAssumption DEF RegionArg, Services
<1>4. ASSUME NEW e \in SlotsOf(Mem, cur), NEW a \in CutPoints, NEW r \in RegionArgs,
             cut(e, a, r), cur \in Callers["cut"]
      PROVE  Next /\ \E p, R : Replaced(p, R) /\ Settles(L, p, R)
  <2> DEFINE R == IndexOf(cur, e) \cup {r}
             X == {e, pd[cur].firstFree}
  <2>1. cutMemoryBlock(cur, e, a, r) /\ Replaced(cur, R)
    BY <1>4 DEF cut
  <2>2. Service(cur, "cut")
    BY <1>3, <2>1 DEF Service
  <2>3. Next /\ IInv'
    BY <1>2, <1>3, <1>4, <2>2
  <2>4. FadesBut(Mem, Mem', X, cur, {r})
    BY <2>1, cutFades
  <2>5. NewApart(Mem, Mem', L, X, cur, R)
    <3> SUFFICES ASSUME NEW q \in L, NEW k \in Regions, Mem.pd[q].mpu[k] # NullSlot,
                        Mem.pd[q].mpu[k] \in X
                 PROVE  q = cur /\ k \in R
      BY DEF NewApart
    <3>1. Mem.pd[q].mpu[k] = e
      BY <1>1, FreeSlotUnmapped
    <3>2. e \in SlotsOf(Mem, q)
      BY <1>1, <3>1, BlockType DEF Guarded, MPUMapsAccessible
    <3>3. q = cur
      BY <3>2, OnePartition DEF Consistent
    <3> QED
      BY <1>1, <3>1, <3>3 DEF IndexOf
  <2> HIDE DEF X, R
  <2>6. {r} \subseteq R
    BY DEF R
  <2>7. Settles(L, cur, R)
    BY <2>2, <2>3, <2>4, <2>5, <2>6, ServiceSettles
  <2> QED
    BY <2>1, <2>3, <2>7
<1>5. ASSUME NEW e1 \in SlotsOf(Mem, cur), NEW e2 \in SlotsOf(Mem, cur), NEW r \in RegionArgs,
             merge(e1, e2, r), cur \in Callers["merge"]
      PROVE  Next /\ \E p, R : Replaced(p, R) /\ Settles(L, p, R)
  <2>1. mergeMemoryBlocks(cur, e1, e2, r) /\ Replaced(cur, {r})
    BY <1>5 DEF merge
  <2>2. Service(cur, "merge")
    BY <1>3, <2>1 DEF Service
  <2>3. Next /\ IInv'
    BY <1>2, <1>3, <1>5, <2>2
  <2>4. FadesBut(Mem, Mem', {e1}, cur, {r}) /\ \A k \in Regions : k # r => Mem'.pd[cur].mpu[k] # e1
    BY <2>1, mergeFades
  <2>5. NewApart(Mem, Mem', L, {e1}, cur, {r})
    <3> SUFFICES ASSUME NEW q \in L, NEW k \in Regions, e1 # NullSlot,
                        Mem.pd[q].mpu[k] = e1, Mem'.pd[q].mpu[k] = e1
                 PROVE  q = cur /\ k = r
      BY DEF NewApart
    <3>1. e1 \in SlotsOf(Mem, q)
      BY <1>1, BlockType DEF Guarded, MPUMapsAccessible
    <3>2. q = cur
      BY <3>1, OnePartition DEF Consistent
    <3> QED
      BY <2>4, <3>2
  <2>6. Settles(L, cur, {r})
    BY <2>2, <2>3, <2>4, <2>5, ServiceSettles
  <2> QED
    BY <2>1, <2>3, <2>6
<1>6. ASSUME NEW t \in CurrentOrChild(cur), NEW r \in RegionArgs,
             map(t, r), cur \in Callers["map"]
      PROVE  Next /\ \E p, R : Replaced(p, R) /\ Settles(L, p, R)
  <2>0. t \in L
    BY TargetIn
  <2>1. PICK R : /\ Replaced(t, R) /\ {r} \subseteq R
                 /\ \/ unmapRegion(cur, t, r)
                    \/ \E e \in SlotsOf(Mem, t) : mapBlock(cur, t, e, r)
    BY <1>6 DEF map
  <2>2. Service(cur, "map")
    BY <1>3, <2>1 DEF Service, mapMPU
  <2>3. Next /\ IInv'
    BY <1>2, <1>3, <1>6, <2>2
  <2>4. FadesBut(Mem, Mem', {}, t, {r})
    BY <2>0, <2>1, unmapRegionFades, mapBlockFades
  <2>5. NewApart(Mem, Mem', L, {}, t, R)
    BY DEF NewApart
  <2>6. Settles(L, t, R)
    BY <2>1, <2>2, <2>3, <2>4, <2>5, ServiceSettles
  <2> QED
    BY <2>1, <2>3, <2>6
<1>7. ASSUME NEW s \in Services \ {"cut", "merge", "map"}, cur \in Callers[s], OtherService(s)
      PROVE  Next /\ \E p, R : Replaced(p, R) /\ Settles(L, p, R)
  <2>1. Service(cur, s) /\ Replaced(cur, {})
    BY <1>7 DEF OtherService
  <2>2. /\ Next /\ IInv' /\ s # "collect"
        /\ s = "remove" => UNCHANGED vars \/ Completes(cur)
    BY <1>2, <1>7, <2>1
  <2>3. PICK X : FadesBut(Mem, Mem', X, cur, {}) /\ NewApart(Mem, Mem', L, X, cur, {})
    BY <2>1, <2>2, OtherFades
  <2>4. Settles(L, cur, {})
    BY <2>1, <2>2, <2>3, ServiceSettles
  <2> QED
    BY <2>1, <2>2, <2>4
<1> QED
  BY <1>4, <1>5, <1>6, <1>7 DEF ServiceCall

-----------------------------------------------------------------------------
(* The table follows the descriptors.                                      *)

\* The live partitions are a set that the invariant is about.
LEMMA LiveSound ==
  ASSUME Consistency
  PROVE  Live \in SUBSET PDAddr /\ Consistent(Mem, Live) /\ Guarded(Mem, Live)
<1>1. PICK L \in SUBSET PDAddr : Consistent(Mem, L) /\ Guarded(Mem, L)
  BY DEF Consistency, Sound
<1>2. L = Live
  BY <1>1, LiveExact, LiveIsLiveOf DEF Consistent
<1> QED
  BY <1>1, <1>2

\* InBlock in a memory m.
HoldsPiece(m, reg, e) ==
  /\ e # NullSlot /\ m.slot[e].present
  /\ m.slot[e].start <= reg.start /\ reg.end <= m.slot[e].end
  /\ reg.rights \subseteq m.slot[e].rights \cup {"r"}

Follows(m, reg, e) == IF reg = Off THEN e = NullSlot ELSE HoldsPiece(m, reg, e)

\* What the table says of the regions, beside its type.
TableFits(m, L, t) ==
  /\ t \in [PDAddr -> [Regions -> Region]]
  /\ \A q \in PDAddr \ L : t[q] = AllOff
  /\ \A q \in L : \A r \in Virtual : Follows(m, t[q][r], m.pd[q].mpu[r])

TableInv ==
  /\ IInv /\ Consistency
  /\ cur \in Live \cup {Null}
  /\ TableFits(Mem, Live, lut)
  /\ hw \in [Regions -> Region]
  /\ flag \in BOOLEAN /\ instr \in Instructions \cup {NoInstr}

\* A disabled region of the hardware is a region.
LEMMA OffRegion == Off \in Region /\ AllOff \in [Regions -> Region]
  BY ConstantsAssumption DEF Off, AllOff, Region

\* A piece of a block is a region, within the block and readable.
LEMMA ConfiguredHolds ==
  ASSUME NEW m \in Good, NEW e \in Slots, m.slot[e].present, NEW a \in Nat,
         m.slot[e].start <= a, a < m.slot[e].end
  PROVE  LET reg == Configured(m, e, a)
         IN  reg \in Region /\ reg # Off /\ HoldsPiece(m, reg, e)
<1> DEFINE piece == LargestCovering(m.slot[e], a)
           reg   == [start |-> piece.start, end |-> piece.end,
                     rights |-> m.slot[e].rights \cup {"r"}]
<1>1. m.slot[e] \in Entry /\ e # NullSlot
  BY EntryOf, NullSlotNoSlot
<1>2. /\ piece.start \in 0 .. Top + 1 /\ piece.end \in 0 .. Top + 1
      /\ m.slot[e].start <= piece.start /\ piece.end <= m.slot[e].end
  BY <1>1, CoveringPiece
<1>3. Configured(m, e, a) = reg
  BY <1>1 DEF Configured
<1> HIDE DEF piece
<1>4. m.slot[e].rights \cup {"r"} \in SUBSET Rights
  BY <1>1 DEF Entry, Rights
<1>5. reg \in Region /\ HoldsPiece(m, reg, e)
  BY <1>1, <1>2, <1>4 DEF Region, HoldsPiece
<1>6. reg # Off
  <2>1. "r" \in reg.rights /\ Off.rights = {}
    BY DEF Off
  <2> QED
    BY <2>1
<1> QED
  BY <1>3, <1>5, <1>6

\* A region that is loaded for a descriptor follows it.
LEMMA FromStartFollows ==
  ASSUME NEW m \in Good, NEW L \in SUBSET PDAddr, Consistent(m, L), Guarded(m, L),
         NEW q \in L, NEW r \in Regions
  PROVE  LET reg == FromStart(m, m.pd[q].mpu[r])
         IN  reg \in Region /\ Follows(m, reg, m.pd[q].mpu[r])
<1> DEFINE e == m.pd[q].mpu[r]
<1>1. CASE e = NullSlot
  <2>1. FromStart(m, e) = Off
    BY <1>1 DEF FromStart, Configured
  <2> QED
    BY <1>1, <2>1, OffRegion DEF Follows
<1>2. CASE e # NullSlot
  <2>1. e \in BlocksIn(m, q)
    BY SMTT(30), <1>2 DEF Guarded, MPUMapsAccessible
  <2>2. e \in Slots /\ m.slot[e].present /\ m.slot[e].start \in Nat
        /\ m.slot[e].start <= m.slot[e].start /\ m.slot[e].start < m.slot[e].end
    BY <2>1, BlockType, BlockRange DEF Consistent
  <2>3. FromStart(m, e) = Configured(m, e, m.slot[e].start)
    BY <1>2 DEF FromStart
  <2> HIDE DEF e
  <2>4. LET reg == Configured(m, e, m.slot[e].start)
        IN  reg \in Region /\ reg # Off /\ HoldsPiece(m, reg, e)
    BY <2>2, ConfiguredHolds
  <2>5. FromStart(m, e) \in Region /\ Follows(m, FromStart(m, e), e)
    BY <2>3, <2>4 DEF Follows
  <2> QED
    BY <2>5 DEF e
<1> QED
  BY <1>1, <1>2

\* After a service the table follows the descriptors again.
LEMMA ReplacedFits ==
  ASSUME IInv, IInv', TableFits(Mem, Live, lut), Consistency, NEW p, NEW R,
         NEW K \in SUBSET PDAddr, Live' = K, Consistent(Mem', K), Guarded(Mem', K),
         Renews(Mem, Mem', Live, K, p, R)
  PROVE  TableFits(Mem', K, LUTAfter(p, R))
<1> DEFINE t == LUTAfter(p, R)
           reg(q, r) == IF q = p /\ r \in R THEN FromStart(Mem', Mem'.pd[q].mpu[r])
                        ELSE IF Mem'.pd[q].mpu[r] = NullSlot /\ Mem.pd[q].mpu[r] # NullSlot THEN Off
                        ELSE lut[q][r]
<1>0. Mem' \in Good /\ Mem'.pd = pd' /\ Mem.pd = pd
  BY DEF IInv, Mem
<1>1. t = [q \in PDAddr |-> IF q \notin K THEN AllOff ELSE [r \in Regions |-> reg(q, r)]]
  BY <1>0 DEF LUTAfter
<1>2. ASSUME NEW q \in K, NEW r \in Regions
      PROVE  /\ reg(q, r) \in Region
             /\ r \in Virtual => Follows(Mem', reg(q, r), Mem'.pd[q].mpu[r])
  <2> DEFINE e == Mem'.pd[q].mpu[r]
  <2>1. CASE q = p /\ r \in R
    BY <1>0, <2>1, FromStartFollows
  <2>2. CASE ~ (q = p /\ r \in R) /\ e = NullSlot /\ Mem.pd[q].mpu[r] # NullSlot
    <3>1. reg(q, r) = Off
      BY <2>2
    <3> QED
      BY <2>2, <3>1, OffRegion DEF Follows
  <2>3. CASE ~ (q = p /\ r \in R) /\ ~ (e = NullSlot /\ Mem.pd[q].mpu[r] # NullSlot)
    <3>1. reg(q, r) = lut[q][r] /\ lut[q][r] \in Region
      BY <2>3 DEF TableFits
    <3>2. CASE q \notin Live
      <4>1. lut[q][r] = Off
        BY <3>2 DEF TableFits, AllOff
      <4>2. e = NullSlot
        BY <2>3, <3>2 DEF Renews
      <4> QED
        BY <3>1, <4>1, <4>2 DEF Follows
    <3>3. CASE q \in Live
      <4>1. r \in Virtual => Follows(Mem, lut[q][r], Mem.pd[q].mpu[r])
        BY <3>3 DEF TableFits
      <4>2. CASE e = NullSlot
        BY SMTT(30), <2>3, <3>1, <4>1, <4>2 DEF Follows, HoldsPiece
      <4>3. CASE e # NullSlot
        <5>1. e = Mem.pd[q].mpu[r] /\ SameArea(Mem'.slot[e], Mem.slot[e])
          BY <2>3, <4>3 DEF Renews
        <5>2. Mem'.slot[e].present
          BY <1>0, <4>3, BlockType DEF Guarded, MPUMapsAccessible
        <5> QED
          BY <3>1, <4>1, <5>1, <5>2 DEF Follows, HoldsPiece, SameArea
      <4> QED
        BY <4>2, <4>3
    <3> QED
      BY <3>2, <3>3
  <2> QED
    BY <2>1, <2>2, <2>3
<1> HIDE DEF reg
<1>3. \A q \in PDAddr \ K : t[q] = AllOff
  BY <1>1
<1>4. \A q \in K : t[q] = [r \in Regions |-> reg(q, r)]
  BY <1>1
<1>5. t \in [PDAddr -> [Regions -> Region]]
  <2> HIDE DEF t
  <2>1. \A q \in K : [r \in Regions |-> reg(q, r)] \in [Regions -> Region]
    BY <1>2
  <2>2. \A q \in PDAddr : t[q] \in [Regions -> Region]
    BY <1>3, <1>4, <2>1, OffRegion
  <2>3. t = [q \in PDAddr |-> t[q]]
    BY <1>1
  <2> QED
    BY <2>2, <2>3
<1> HIDE DEF t
<1>6. \A q \in K : \A r \in Virtual : Follows(Mem', t[q][r], Mem'.pd[q].mpu[r])
  BY <1>2, <1>4 DEF Virtual
<1>7. TableFits(Mem', K, t)
  BY <1>3, <1>5, <1>6 DEF TableFits
<1> QED
  BY <1>7 DEF t

\* Where the memory is not touched, nothing about it changes.
LEMMA StutterMemory ==
  ASSUME UNCHANGED vars, IInv, Consistency
  PROVE  Mem' = Mem /\ Live' = Live /\ IInv' /\ Consistency'
<1>1. Mem' = Mem
  BY DEF Mem, vars
<1>2. Live' = LiveOf(Mem') /\ Live = LiveOf(Mem)
  BY DEF Live, LiveOf, Gen, Brood
<1>3. IInv'
  BY <1>1 DEF IInv
<1>4. Consistency' = Sound(Mem') /\ Sound(Mem)
  BY DEF Consistency, Sound
<1>5. Consistency'
  BY <1>1, <1>4
<1> QED
  BY <1>1, <1>2, <1>3, <1>5

\* The partition that takes over is one of the tree.
LEMMA SwitchTargets ==
  ASSUME Consistency, cur \in Live
  PROVE  Ancestors(cur) \subseteq Live /\ Children(Mem, cur) \cap PDAddr \subseteq Live
<1>1. Children(Mem, cur) \cap PDAddr \subseteq Live
  BY LiveClosed, LiveIsLiveOf
<1> DEFINE f == [q \in PDAddr \ {RootPD} |-> pd[q].parent]
<1>2. IsFiniteSet(DOMAIN f)
  BY PDAddrFinite, FS_Subset
<1>3. \A y \in Live : y \in DOMAIN f => f[y] \in Live
  <2>1. Tree(Mem, Live) /\ Mem.pd = pd
    BY LiveSound DEF Consistent, Mem
  <2> QED
    BY <2>1 DEF Tree
<1> HIDE DEF f
<1>4. Reached(f, cur) \subseteq Live
  BY <1>2, <1>3, ReachedLeast
<1>5. Ancestors(cur) \subseteq Live
  BY <1>4 DEF Ancestors, f
<1> QED
  BY <1>1, <1>5

\* What the table of the running partition must say.
RowFits(t) ==
  t \in [Regions -> Region] /\ \A r \in Virtual : Follows(Mem, t[r], pd[cur].mpu[r])

\* A region that is moved holds a piece of its block; a spare one is free.
LEMMA ReconfiguredFits ==
  ASSUME IInv, cur \in PDAddr, NEW t, RowFits(t), NEW a \in Nat, NEW v \in Virtual,
         isMappedInVirtualMpu(a, v), NEW k \in {v, SpareCode, SpareData}
  PROVE  RowFits(Reconfigured(t, a, v, k))
<1> DEFINE e == pd[cur].mpu[v]
           reg == Configured(Mem, e, a)
           n == Reconfigured(t, a, v, k)
<1>0. Mem \in Good /\ Mem.pd = pd /\ Mem.slot = slot /\ v \in Regions
  BY DEF IInv, Mem, Virtual
<1>1. e # NullSlot /\ slot[e].present /\ slot[e].start <= a /\ a < slot[e].end
  BY DEF isMappedInVirtualMpu
<1>2. e \in Slots
  <2>1. pd[cur] \in GoodPD
    BY <1>0 DEF Good
  <2> QED
    BY <1>0, <1>1, <2>1 DEF GoodPD, Descriptor, SlotRef
<1>3. n = [t EXCEPT ![k] = reg]
  BY DEF Reconfigured
<1> HIDE DEF e
<1>4. reg \in Region /\ reg # Off /\ HoldsPiece(Mem, reg, e)
  BY <1>0, <1>1, <1>2, ConfiguredHolds
<1> HIDE DEF reg, n
<1>5. n \in [Regions -> Region] /\ \A r \in Regions : n[r] = IF r = k THEN reg ELSE t[r]
  BY <1>3, <1>4 DEF RowFits
<1>6. ASSUME NEW r \in Virtual PROVE Follows(Mem, n[r], pd[cur].mpu[r])
  <2>1. CASE r = k
    <3>1. k = v
      BY <2>1, <1>6 DEF Virtual
    <3> QED
      BY <1>4, <1>5, <2>1, <3>1, <1>0 DEF Follows, e
  <2>2. CASE r # k
    BY <1>5, <2>2 DEF RowFits, Virtual
  <2> QED
    BY <2>1, <2>2
<1>7. RowFits(n)
  BY <1>5, <1>6 DEF RowFits
<1> QED
  BY <1>7 DEF n

\* Serving a fault keeps the table of the running partition in order.
LEMMA MemManageFits ==
  ASSUME TableInv, cur \in Live, MemManage
  PROVE  \E t : RowFits(t) /\ Load(t) /\ flag' \in BOOLEAN
<1>1. cur \in PDAddr /\ IInv /\ flag \in BOOLEAN /\ RowFits(lut[cur])
  BY LiveSound DEF TableInv, TableFits, RowFits, Mem
<1>2. instr \in Instruction
  BY MPUAssumption DEF TableInv, MemManage
<1>3. /\ instr.pc \in Nat /\ instr.pc2 \in Nat
      /\ \A a \in DataFaults(instr) : a \in Nat
  <2>1. \A d \in instr.data : d[1] \in Nat
    BY <1>2, ConstantsAssumption DEF Instruction
  <2> QED
    BY <1>2, <2>1, ConstantsAssumption DEF Instruction, DataFaults
<1>4. ASSUME NEW a \in Nat, NEW spare \in {SpareCode, SpareData}, ServeOne(a, spare)
      PROVE  \E t : RowFits(t) /\ Load(t) /\ flag' \in BOOLEAN
  <2>1. PICK v \in Movable(a) :
          /\ Load(Reconfigured(lut[cur], a, v, IF flag THEN spare ELSE v))
          /\ flag' = ~ flag
    BY <1>4 DEF ServeOne
  <2>2. v \in Virtual /\ isMappedInVirtualMpu(a, v)
    BY DEF Movable, findMpuIndex
  <2>3. RowFits(Reconfigured(lut[cur], a, v, IF flag THEN spare ELSE v))
    BY <1>1, <2>2, ReconfiguredFits
  <2> QED
    BY <1>1, <2>1, <2>3
<1>5. ASSUME ServeBoth(instr.pc, instr.pc2)
      PROVE  \E t : RowFits(t) /\ Load(t) /\ flag' \in BOOLEAN
  <2> DEFINE a  == instr.pc
             a2 == instr.pc2
             t1(v) == IF Covers(hw[v], a) THEN lut[cur] ELSE Reconfigured(lut[cur], a, v, v)
             t2(v) == IF Covers(hw[SpareCode], a2) THEN t1(v)
                      ELSE Reconfigured(t1(v), a2, v, SpareCode)
  <2>1. PICK v \in MovableBoth(a, a2) : Load(t2(v)) /\ UNCHANGED flag
    BY <1>5 DEF ServeBoth
  <2>2. v \in Virtual /\ isMappedInVirtualMpu(a, v) /\ isMappedInVirtualMpu(a2, v)
    BY DEF MovableBoth, findMpuIndex
  <2>3. RowFits(t1(v))
    BY <1>1, <1>3, <2>2, ReconfiguredFits
  <2>4. RowFits(t2(v))
    <3> HIDE DEF t1
    <3>1. RowFits(Reconfigured(t1(v), a2, v, SpareCode))
      BY <1>1, <1>3, <2>2, <2>3, ReconfiguredFits
    <3> QED
      BY <2>3, <3>1
  <2> QED
    BY <1>1, <2>1, <2>4
<1> QED
  BY <1>3, <1>4, <1>5 DEF MemManage

\* Boot loads the table of the root; no other partition has one.
LEMMA InitTable == MPUInit => TableInv
<1> SUFFICES ASSUME MPUInit PROVE TableInv
  OBVIOUS
<1>1. IInv /\ Consistency
  BY InitSound DEF MPUInit
<1>2. Live \in SUBSET PDAddr /\ Consistent(Mem, Live) /\ Guarded(Mem, Live) /\ RootPD \in Live
  BY <1>1, LiveSound DEF Consistent, Tree
<1>3. Mem \in Good /\ Mem.pd = pd
  BY <1>1 DEF IInv, Mem
<1>4. lut = [p \in PDAddr |-> [r \in Regions |-> FromStart(Mem, pd[p].mpu[r])]]
  BY DEF MPUInit
<1>5. ASSUME NEW q \in PDAddr \ Live PROVE lut[q] = AllOff
  <2>1. q # RootPD
    BY <1>2
  <2>2. pd[q] = EmptyPD
    BY <2>1 DEF MPUInit, Init
  <2>3. \A r \in Regions : FromStart(Mem, pd[q].mpu[r]) = Off
    BY <2>2 DEF EmptyPD, FromStart, Configured
  <2> QED
    BY <1>4, <2>3 DEF AllOff
<1>6. ASSUME NEW q \in Live, NEW r \in Regions
      PROVE  /\ lut[q][r] = FromStart(Mem, pd[q].mpu[r])
             /\ lut[q][r] \in Region /\ Follows(Mem, lut[q][r], Mem.pd[q].mpu[r])
  <2>1. lut[q][r] = FromStart(Mem, Mem.pd[q].mpu[r])
    BY <1>2, <1>3, <1>4
  <2> QED
    BY <1>2, <1>3, <2>1, FromStartFollows
<1>7. \A q \in Live : lut[q] \in [Regions -> Region]
  <2>1. \A q \in PDAddr : lut[q] = [r \in Regions |-> lut[q][r]]
    BY <1>4
  <2> QED
    BY <1>2, <1>6, <2>1
<1>8. lut \in [PDAddr -> [Regions -> Region]]
  <2>1. \A q \in PDAddr : lut[q] \in [Regions -> Region]
    BY <1>5, <1>7, OffRegion
  <2>2. lut = [q \in PDAddr |-> lut[q]]
    BY <1>4
  <2> QED
    BY <2>1, <2>2
<1>9. TableFits(Mem, Live, lut)
  BY <1>5, <1>6, <1>8 DEF TableFits, Virtual
<1>10. cur = RootPD /\ hw = lut[RootPD] /\ flag = FALSE /\ instr = NoInstr
  BY DEF MPUInit
<1> QED
  BY <1>1, <1>2, <1>8, <1>9, <1>10 DEF TableInv

\* The table and the registers after a transfer of control.
LEMMA ActivateTable ==
  ASSUME TableInv, NEW q \in Live, activate(q), UNCHANGED <<slot, pd, lut, flag>>,
         instr' = NoInstr
  PROVE  TableInv'
<1>1. Mem' = Mem /\ Live' = Live /\ IInv' /\ Consistency'
  BY StutterMemory DEF TableInv, vars
<1>2. Live \in SUBSET PDAddr
  BY LiveSound DEF TableInv
<1>3. lut[q] \in [Regions -> Region]
  BY <1>2 DEF TableInv, TableFits
<1>4. cur' \in Live' \cup {Null} /\ hw' \in [Regions -> Region]
  BY <1>1, <1>3 DEF activate
<1>5. TableFits(Mem', Live', lut')
  BY <1>1 DEF TableInv
<1> QED
  BY <1>1, <1>4, <1>5 DEF TableInv

\* propagateFault switches to an ancestor and loads its table.
LEMMA PropagateTable ==
  ASSUME TableInv, cur \in Live, PropagateFault
  PROVE  TableInv'
<1>1. CASE \E q \in Ancestors(cur) \ {cur} : activate(q)
  BY <1>1, SwitchTargets, ActivateTable DEF PropagateFault, TableInv
<1>2. CASE cur' = Null /\ UNCHANGED hw
  <2>0. UNCHANGED <<slot, pd, lut, hw, flag>> /\ instr' = NoInstr
    BY <1>2 DEF PropagateFault
  <2>1. Mem' = Mem /\ Live' = Live /\ IInv' /\ Consistency'
    BY <2>0, StutterMemory DEF TableInv, vars
  <2>2. TableFits(Mem', Live', lut')
    BY <2>0, <2>1 DEF TableInv
  <2> QED
    BY <1>2, <2>0, <2>1, <2>2 DEF TableInv
<1> QED
  BY <1>1, <1>2 DEF PropagateFault

\* A step that leaves memory, table and registers alone.
LEMMA RestTable ==
  ASSUME TableInv, UNCHANGED <<slot, pd, cur, lut, hw, flag>>,
         instr' \in Instructions \cup {NoInstr}
  PROVE  TableInv'
<1>1. Mem' = Mem /\ Live' = Live /\ IInv' /\ Consistency'
  BY StutterMemory DEF TableInv, vars
<1>2. TableFits(Mem', Live', lut') /\ cur' \in Live' \cup {Null}
  BY <1>1 DEF TableInv
<1> QED
  BY <1>1, <1>2 DEF TableInv

\* The MemManage handler loads a covering region from a block the running
\* partition has mapped.
LEMMA MemManageTable ==
  ASSUME TableInv, cur \in Live, MemManage
  PROVE  TableInv'
<1>1. PICK t : RowFits(t) /\ Load(t) /\ flag' \in BOOLEAN
  BY MemManageFits
<1>2. UNCHANGED <<slot, pd, cur, instr>>
  BY DEF MemManage
<1>3. Mem' = Mem /\ Live' = Live /\ IInv' /\ Consistency'
  BY <1>2, StutterMemory DEF TableInv, vars
<1>4. Live \in SUBSET PDAddr /\ Mem.pd = pd
  BY LiveSound DEF TableInv, Mem
<1>5. TableFits(Mem, Live, lut) /\ lut' = [lut EXCEPT ![cur] = t] /\ t \in [Regions -> Region]
  BY <1>1 DEF TableInv, Load, RowFits
<1>6. lut' \in [PDAddr -> [Regions -> Region]]
  BY <1>4, <1>5 DEF TableFits
<1>7. \A q \in PDAddr : lut'[q] = IF q = cur THEN t ELSE lut[q]
  BY <1>5 DEF TableFits
<1>8. \A q \in Live : \A r \in Virtual : Follows(Mem, lut'[q][r], Mem.pd[q].mpu[r])
  <2> TAKE q \in Live
  <2> TAKE r \in Virtual
  <2>1. CASE q = cur
    BY <1>1, <1>4, <1>7, <2>1 DEF RowFits
  <2>2. CASE q # cur
    BY <1>4, <1>5, <1>7, <2>2 DEF TableFits
  <2> QED
    BY <2>1, <2>2
<1>9. \A q \in PDAddr \ Live : lut'[q] = AllOff
  BY <1>5, <1>7 DEF TableFits
<1>10. TableFits(Mem', Live', lut')
  BY <1>3, <1>6, <1>8, <1>9 DEF TableFits
<1>11. hw' \in [Regions -> Region] /\ cur' \in Live' \cup {Null}
       /\ instr' \in Instructions \cup {NoInstr}
  BY <1>1, <1>2, <1>3 DEF Load, RowFits, TableInv
<1> QED
  BY <1>1, <1>3, <1>10, <1>11 DEF TableInv

\* A service: the descriptors by PipIsolation_proofs, the table after them.
LEMMA ServiceTable ==
  ASSUME NoCollect, TableInv, cur \in Live, ServiceCall,
         UNCHANGED vars \/ RemovalsComplete \/ OnlyRootRemoves
  PROVE  Next /\ TableInv'
<1>1. Live \in SUBSET PDAddr /\ Consistent(Mem, Live) /\ Guarded(Mem, Live)
  BY LiveSound DEF TableInv
<1>2. IInv /\ Consistency /\ TableFits(Mem, Live, lut)
  BY DEF TableInv
<1>3. Next /\ \E p, R : Replaced(p, R) /\ Settles(Live, p, R)
  BY <1>1, <1>2, CallSettles
<1>4. PICK p, R : Replaced(p, R) /\ Settles(Live, p, R)
  BY <1>3
<1>5. PICK K \in SUBSET PDAddr :
        /\ cur \in K /\ Consistent(Mem', K) /\ Guarded(Mem', K)
        /\ Renews(Mem, Mem', Live, K, p, R)
  BY <1>4 DEF Settles
<1>6. Live' = K
  <2>1. K = LiveOf(Mem')
    BY <1>5, LiveExact DEF Consistent
  <2>2. Live' = LiveOf(Mem')
    BY DEF Live, LiveOf, Gen, Brood
  <2> QED
    BY <2>1, <2>2
<1>7. IInv' /\ Consistency'
  <2>1. [Next]_vars
    BY <1>3
  <2> QED
    BY <1>2, <2>1, StepSound
<1>8. TableFits(Mem', K, LUTAfter(p, R))
  BY <1>2, <1>5, <1>6, <1>7, ReplacedFits
<1>9. lut' = LUTAfter(p, R) /\ UNCHANGED <<cur, flag, instr>> /\ hw' \in {lut'[cur], hw}
  BY <1>4 DEF Replaced
<1>10. TableFits(Mem', Live', lut')
  BY <1>6, <1>8, <1>9
<1>11. hw' \in [Regions -> Region]
  <2>1. cur \in PDAddr /\ lut' \in [PDAddr -> [Regions -> Region]]
    BY <1>5, <1>10 DEF TableFits
  <2> QED
    BY <1>9, <2>1 DEF TableInv
<1>12. cur' \in Live' /\ flag' \in BOOLEAN /\ instr' \in Instructions \cup {NoInstr}
  BY <1>5, <1>6, <1>9 DEF TableInv
<1> QED
  BY <1>3, <1>7, <1>10, <1>11, <1>12 DEF TableInv

\* One case per action; on the way, every step is one of PipMemory or leaves
\* the kernel data alone.
LEMMA StepTable ==
  ASSUME NoCollect, TableInv, [MPUNext]_mpuVars,
         UNCHANGED vars \/ RemovalsComplete \/ OnlyRootRemoves
  PROVE  TableInv' /\ [Next]_vars
<1>1. CASE UNCHANGED mpuVars
  BY <1>1, RestTable DEF mpuVars, vars, TableInv
<1>2. CASE MPUNext
  <2>0. cur \in Live /\ Live \subseteq PDAddr
    BY <1>2, LiveSound DEF MPUNext, TableInv
  <2>1. CASE ServiceCall
    BY <2>0, <2>1, ServiceTable
  <2>2. ASSUME NEW q \in PDAddr, Switch(q)
        PROVE  TableInv' /\ [Next]_vars
    <3>1. q \in Live
      BY <2>0, <2>2, SwitchTargets DEF Switch, TableInv
    <3>2. TableInv'
      BY <2>2, <3>1, ActivateTable DEF Switch
    <3> QED
      BY <2>2, <3>2 DEF Switch, vars
  <2>3. ASSUME NEW i \in Instructions, Start(i)
        PROVE  TableInv' /\ [Next]_vars
    BY <2>3, RestTable DEF Start, vars
  <2>4. CASE Complete
    BY <2>4, RestTable DEF Complete, vars
  <2>5. CASE MemManage
    BY <2>0, <2>5, MemManageTable DEF MemManage, vars
  <2>6. CASE MemManageError
    BY <2>0, <2>6, PropagateTable DEF MemManageError, PropagateFault, vars
  <2> QED
    BY <1>2, <2>1, <2>2, <2>3, <2>4, <2>5, <2>6 DEF MPUNext
<1> QED
  BY <1>1, <1>2

\* The handler and the services between them keep the table in step, along
\* every behaviour without collect whose removals complete.
THEOREM TableInvHolds ==
  NoCollect /\ MPUSpec /\ [][RemovalsComplete]_vars => []TableInv
<1>1. NoCollect /\ TableInv /\ [MPUNext]_mpuVars /\ [RemovalsComplete]_vars => TableInv'
  BY StepTable
<1>2. NoCollect => NoCollect'
  BY DEF NoCollect
<1> QED
  BY InitTable, <1>1, <1>2, PTL DEF MPUSpec

\* The MPU adds nothing to what the services do to the kernel data: what is
\* proved of PipMemory holds below it.  A region number of a call is one of
\* RegionArgs, the caller is live, and the handler writes no descriptor.
THEOREM MPUKeepsServices ==
  NoCollect /\ MPUSpec /\ [][RemovalsComplete]_vars => Spec
<1>1. NoCollect /\ TableInv /\ [MPUNext]_mpuVars /\ [RemovalsComplete]_vars => [Next]_vars
  BY StepTable
<1>2. NoCollect => NoCollect'
  BY DEF NoCollect
<1>3. MPUInit => Init
  BY DEF MPUInit
<1> QED
  BY TableInvHolds, <1>1, <1>2, <1>3, PTL DEF MPUSpec, Spec

\* The invariant of the table types it.
LEMMA TableType == TableInv => MPUTypeOK
  BY GoodMeaning, LiveSound DEF TableInv, TableFits, MPUTypeOK

\* The table follows the MPU slots of its partition.
LEMMA TableFollows == TableInv => LUTFollowsMPU
<1> SUFFICES ASSUME TableInv, NEW p \in Live, NEW r \in Virtual
             PROVE  IF lut[p][r] = Off THEN pd[p].mpu[r] = NullSlot
                    ELSE InBlock(lut[p][r], pd[p].mpu[r])
  BY DEF LUTFollowsMPU
<1>1. Follows(Mem, lut[p][r], pd[p].mpu[r]) /\ Mem.slot = slot
  BY DEF TableInv, TableFits, Mem
<1> QED
  BY <1>1 DEF Follows, HoldsPiece, InBlock

\* The registers of the hardware and the entries of the table are well formed
\* whatever pieces mal.c and malinternal.c compute: a block that is configured
\* is present and not empty, so a piece that fits is found.
THEOREM MPUTypeHolds ==
  NoCollect /\ MPUSpec /\ [][RemovalsComplete]_vars => []MPUTypeOK
  BY TableInvHolds, TableType, PTL

\* configure_LUT_entry, removeBlockFromPhysicalMPU and reconfigureMpu keep each
\* region of the table a piece of the block its descriptor names, with rights
\* of that block, while the services resize, free and remap the blocks.
THEOREM TableFollowsMPU ==
  NoCollect /\ MPUSpec /\ [][RemovalsComplete]_vars => []LUTFollowsMPU
  BY TableInvHolds, TableFollows, PTL

-----------------------------------------------------------------------------
(* What a table lets its partition reach.                                  *)

\* A searched region of the table covers only memory that its partition may
\* access, so neither a descriptor nor a kernel structure.
TableWithinAccessible ==
  \A p \in Live : \A r \in Virtual : \A a \in 0 .. Top :
    Covers(lut[p][r], a) =>
      a \in Accessible(p) /\ \A q \in Live : a \notin Config(q)

\* The table opens nothing but what its partition may access.
LEMMA TableReaches == TableInv => TableWithinAccessible
<1> SUFFICES ASSUME TableInv, NEW p \in Live, NEW r \in Virtual, NEW a \in 0 .. Top,
                    Covers(lut[p][r], a)
             PROVE  a \in Accessible(p) /\ \A q \in Live : a \notin Config(q)
  BY DEF TableWithinAccessible
<1> DEFINE e == pd[p].mpu[r]
<1>1. InBlock(lut[p][r], e)
  <2>1. lut[p][r] # Off
    BY ConstantsAssumption DEF Covers, Off
  <2> QED
    BY <2>1, TableFollows DEF LUTFollowsMPU
<1>2. /\ Live \in SUBSET PDAddr /\ Consistent(Mem, Live) /\ Guarded(Mem, Live)
      /\ Mem \in Good /\ Mem.slot = slot /\ Mem.pd = pd
  BY LiveSound DEF TableInv, IInv, Mem
<1>3. e \in BlocksIn(Mem, p) /\ slot[e].accessible
  BY <1>1, <1>2 DEF InBlock, Guarded, MPUMapsAccessible, Virtual
<1>4. a \in Units(e)
  <2>1. lut[p][r] \in Region /\ slot[e].start \in Nat /\ slot[e].end \in Nat
    BY <1>2, <1>3, BlockType DEF TableInv, TableFits, Virtual
  <2>2. lut[p][r].start \in Nat /\ lut[p][r].end \in Nat /\ a \in Nat
    BY <2>1, ConstantsAssumption DEF Region
  <2>3. slot[e].start <= a /\ a < slot[e].end
    BY <1>1, <2>1, <2>2 DEF Covers, InBlock
  <2> HIDE DEF e
  <2>4. a \in slot[e].start .. slot[e].end - 1
    BY <2>1, <2>2, <2>3
  <2> QED
    BY <2>4 DEF Units
<1>5. a \in Accessible(p)
  BY <1>2, <1>3, <1>4 DEF Accessible, BlocksOf, BlocksIn
<1>6. KernelDataIsolation
  BY KernelDataApart DEF TableInv
<1> QED
  BY <1>5, <1>6 DEF KernelDataIsolation

\* What KernelDataUnreachable asks of the registers, the code keeps for the
\* table: what a service makes kernel data is in no searched region of any
\* table.  Only registers loaded before that service may still cover it.
THEOREM TableHidesKernelData ==
  NoCollect /\ MPUSpec /\ [][RemovalsComplete]_vars => []TableWithinAccessible
  BY TableInvHolds, TableReaches, PTL

\* With removals left to the root partition, nothing is asked of them.
THEOREM TableWhenRootRemoves ==
  NoCollect /\ OnlyRootRemoves /\ MPUSpec
    => [](MPUTypeOK /\ LUTFollowsMPU /\ TableWithinAccessible)
<1>1. NoCollect /\ OnlyRootRemoves /\ TableInv /\ [MPUNext]_mpuVars => TableInv'
  BY StepTable
<1>2. NoCollect /\ OnlyRootRemoves => (NoCollect /\ OnlyRootRemoves)'
  BY DEF NoCollect, OnlyRootRemoves
<1> QED
  BY InitTable, <1>1, <1>2, TableType, TableFollows, TableReaches, PTL DEF MPUSpec
=============================================================================
