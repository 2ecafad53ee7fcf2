------------------------------- MODULE PipMPU --------------------------------
(***************************************************************************)
(* The memory protection unit under the memory services: the look-up table *)
(* of each partition (MAL/malinternal.c, MAL/mal.c), the registers of the  *)
(* processor (boot/mpu.c) and the MemManage handler that moves them within *)
(* the blocks of the running partition (boot/exception_handlers.c).        *)
(*                                                                         *)
(* A service changes the descriptor (PipMemory) and the table with it; the *)
(* registers are a copy that is loaded when a region of the running        *)
(* partition is replaced, when a partition is activated and when a         *)
(* MemManage exception has been served.  A block that no region can cover  *)
(* exactly is covered piece by piece: an access behind the loaded piece    *)
(* faults, the handler loads the piece with the faulting address, and the  *)
(* instruction starts again.                                               *)
(***************************************************************************)
EXTENDS PipIsolation

CONSTANTS
  NoInstr,       \* no instruction in progress
  Instructions,  \* bound: what a partition may execute
  RegionArgs     \* bound: the region numbers named in calls

\* The two regions after those searched by findMpuIndex: the first for
\* instructions, the second for data.
SpareData == CHOOSE r \in Regions : \A q \in Regions : q <= r
SpareCode == SpareData - 1
Virtual   == Regions \ {SpareCode, SpareData}

\* An instruction: the unit of its first halfword, whether it is a 32-bit
\* instruction, the unit of its second halfword, and the data it accesses.
Instruction == [pc : 0 .. Top, wide : BOOLEAN, pc2 : 0 .. Top,
                data : SUBSET ((0 .. Top) \X Rights)]

ASSUME MPUAssumption ==
  /\ {0, SpareCode, SpareData} \subseteq Regions
  /\ Instructions \subseteq Instruction
  /\ \A i \in Instructions : i.wide \/ i.pc2 = i.pc
  /\ NoInstr \notin Instruction
  /\ RegionArgs \subseteq Regions \cup {NoRegion}

VARIABLES
  cur,    \* current_partition, Null when the kernel has stopped
  lut,    \* the LUT of each descriptor
  hw,     \* RBAR and RASR of each region
  flag,   \* the static of MemManage_Handler_C
  instr   \* the instruction the current partition executes

mpuVars == <<slot, pd, cur, lut, hw, flag, instr>>

-----------------------------------------------------------------------------
(* Plausible mistakes, each to stand in for a definition below to show     *)
(* that a property then fails.                                             *)

Enclosing(b, a) == [start |-> 0, end |-> 2 ^ (CHOOSE n \in 0 .. Top : 2 ^ n >= b.end)]

NotLoaded(q) == cur' = q /\ UNCHANGED hw

LastUnitMissed(a, v) ==
  LET e == pd[cur].mpu[v]
  IN  e # NullSlot /\ slot[e].present /\ slot[e].start <= a /\ a < slot[e].end - 1

-----------------------------------------------------------------------------
(* Regions and the table.                                                  *)

Region == [start : 0 .. Top + 1, end : 0 .. Top + 1, rights : SUBSET Rights]
Off    == [start |-> 0, end |-> 0, rights |-> {}]
AllOff == [r \in Regions |-> Off]

Covers(reg, a) == reg.start <= a /\ a < reg.end

\* A region has 2^k units.
Pow2[k \in Nat] == IF k = 0 THEN 1 ELSE 2 * Pow2[k - 1]

\* largest_covering_MPU_region, as CoveringRegion shows it: of the regions of
\* 2^k units on a multiple of their size that contain a, the largest in b.
LargestCovering(b, a) ==
  LET base(k) == a - (a % Pow2[k])
      fits    == {k \in 0 .. Top : b.start <= base(k) /\ base(k) + Pow2[k] <= b.end}
      k       == CHOOSE n \in fits : \A j \in fits : j <= n
  IN  [start |-> base(k), end |-> base(k) + Pow2[k]]

\* configure_LUT_entry for the block of slot e.  A region is always readable.
Configured(m, e, a) ==
  IF e = NullSlot THEN Off
  ELSE LET piece == LargestCovering(m.slot[e], a)
       IN  [start |-> piece.start, end |-> piece.end,
            rights |-> m.slot[e].rights \cup {"r"}]

FromStart(m, e) == Configured(m, e, IF e = NullSlot THEN 0 ELSE m.slot[e].start)

IndexOf(p, e) == {r \in Regions : pd[p].mpu[r] = e}

\* A mistake for the next definition: cleared regions stay.
RegionsKept(p, R) ==
  [lut EXCEPT ![p] = [r \in Regions |-> IF r \in R THEN FromStart(Mem', pd'[p].mpu[r])
                                        ELSE @[r]]]

\* The table after a service in which replaceBlockInPhysicalMPU was called for
\* the regions R of p.  A region whose block has gone is cleared
\* (removeBlockFromPhysicalMPU); a descriptor that is erased has no table.
LUTAfter(p, R) ==
  [q \in PDAddr |->
     IF q \notin Live' THEN AllOff
     ELSE [r \in Regions |->
             IF q = p /\ r \in R THEN FromStart(Mem', pd'[q].mpu[r])
             ELSE IF pd'[q].mpu[r] = NullSlot /\ pd[q].mpu[r] # NullSlot THEN Off
             ELSE lut[q][r]]]

\* Only a replacement in the current partition loads the registers.
Replaced(p, R) ==
  /\ lut' = LUTAfter(p, R)
  /\ hw' = IF p = cur /\ R \cap Regions # {} THEN lut'[cur] ELSE hw
  /\ UNCHANGED <<cur, flag, instr>>

-----------------------------------------------------------------------------
(* The services.                                                           *)

cut(e, a, r) ==
  /\ cutMemoryBlock(cur, e, a, r)
  /\ Replaced(cur, IndexOf(cur, e) \cup {r})

merge(e1, e2, r) ==
  /\ mergeMemoryBlocks(cur, e1, e2, r)
  /\ Replaced(cur, {r})

map(t, r) ==
  \/ unmapRegion(cur, t, r) /\ Replaced(t, {r})
  \/ \E e \in SlotsOf(Mem, t) :
       mapBlock(cur, t, e, r) /\ Replaced(t, IndexOf(t, e) \cup {r})

OtherService(s) == Service(cur, s) /\ Replaced(cur, {})

ServiceCall ==
  /\ instr = NoInstr
  /\ LET mine     == SlotsOf(Mem, cur)
         Calls(s) == cur \in Callers[s]
     IN  \/ Calls("cut") /\ \E e \in mine, a \in CutPoints, r \in RegionArgs : cut(e, a, r)
         \/ Calls("merge") /\ \E e1, e2 \in mine, r \in RegionArgs : merge(e1, e2, r)
         \/ Calls("map") /\ \E t \in CurrentOrChild(cur), r \in RegionArgs : map(t, r)
         \/ \E s \in Services \ {"cut", "merge", "map"} : Calls(s) /\ OtherService(s)

-----------------------------------------------------------------------------
(* Transfers of control.                                                   *)

\* updateCurPartAndActivate: the table of q is loaded.
activate(q) == cur' = q /\ hw' = lut[q]

Ancestors(p) ==
  Reached([q \in PDAddr \ {RootPD} |-> pd[q].parent], p) \cap PDAddr

\* Yield to oneself, a child, the parent or the root, an interrupt, a fault of
\* another kind: PipYield says which of them a given state allows.
Switch(q) ==
  /\ q \in Ancestors(cur) \cup Children(Mem, cur)
  /\ activate(q)
  /\ instr' = NoInstr
  /\ UNCHANGED <<slot, pd, lut, flag>>

\* Fault_Handler_C: an ancestor takes the fault, or the kernel stops.
PropagateFault ==
  /\ \/ \E q \in Ancestors(cur) \ {cur} : activate(q)
     \/ cur' = Null /\ UNCHANGED hw
  /\ instr' = NoInstr
  /\ UNCHANGED <<slot, pd, lut, flag>>

-----------------------------------------------------------------------------
(* Executing an instruction.  When regions overlap, the one with the       *)
(* highest number decides; without a region an access is not permitted.    *)

Permitted(h, a, right) ==
  \E r \in Regions : /\ Covers(h[r], a) /\ right \in h[r].rights
                     /\ \A q \in Regions : q > r => ~ Covers(h[q], a)

Fetched(h, i) == Permitted(h, i.pc, "x") /\ Permitted(h, i.pc2, "x")
Done(h, i)    == Fetched(h, i) /\ \A d \in i.data : Permitted(h, d[1], d[2])

Start(i) ==
  /\ instr = NoInstr /\ instr' = i
  /\ UNCHANGED <<slot, pd, cur, lut, hw, flag>>

Complete ==
  /\ instr # NoInstr /\ Done(hw, instr)
  /\ instr' = NoInstr
  /\ UNCHANGED <<slot, pd, cur, lut, hw, flag>>

-----------------------------------------------------------------------------
(* MemManage_Handler_C.                                                    *)

isMappedInVirtualMpu(a, v) ==
  LET e == pd[cur].mpu[v]
  IN  e # NullSlot /\ slot[e].present /\ slot[e].start <= a /\ a < slot[e].end

\* The lowest of the searched regions that holds a, as a set.
findMpuIndex(a) ==
  {v \in Virtual : /\ isMappedInVirtualMpu(a, v)
                   /\ \A q \in Virtual : q < v => ~ isMappedInVirtualMpu(a, q)}

\* reconfigureMpu, on a table: region k gets the piece of block v around a.
Reconfigured(t, a, v, k) == [t EXCEPT ![k] = Configured(Mem, pd[cur].mpu[v], a)]

Load(t) == lut' = [lut EXCEPT ![cur] = t] /\ hw' = t

\* The block that makes an access at a legal is not loaded around a yet.
Movable(a) == {v \in findMpuIndex(a) : ~ Covers(hw[v], a)}

\* A mistake for the next definition: the region of the block every time.
NoTurns(a, spare) ==
  \E v \in Movable(a) : Load(Reconfigured(lut[cur], a, v, v)) /\ flag' = ~ flag

\* DACCVIOL and IACCVIOL16 use the region of the block and a spare one by
\* turns, so that an access that needs two pieces finds both loaded.
ServeOne(a, spare) ==
  \E v \in Movable(a) :
    /\ Load(Reconfigured(lut[cur], a, v, IF flag THEN spare ELSE v))
    /\ flag' = ~ flag

\* Both halfwords lie in one block, and not both are loaded.
MovableBoth(a, a2) ==
  {v \in findMpuIndex(a) : /\ isMappedInVirtualMpu(a2, v)
                           /\ ~ (Covers(hw[v], a) /\ Covers(hw[SpareCode], a2))}

\* IACCVIOL32: each halfword in a region of its own.
ServeBoth(a, a2) ==
  \E v \in MovableBoth(a, a2) :
    LET t1 == IF Covers(hw[v], a) THEN lut[cur]
              ELSE Reconfigured(lut[cur], a, v, v)
        t2 == IF Covers(hw[SpareCode], a2) THEN t1
              ELSE Reconfigured(t1, a2, v, SpareCode)
    IN  Load(t2) /\ UNCHANGED flag

DataFaults(i) ==
  {d[1] : d \in {x \in i.data : Fetched(hw, i) /\ ~ Permitted(hw, x[1], x[2])}}

\* The fault is served and the instruction starts again.
MemManage ==
  /\ instr # NoInstr
  /\ \/ \E a \in DataFaults(instr) : ServeOne(a, SpareData)
     \/ ~ Fetched(hw, instr) /\ ~ instr.wide /\ ServeOne(instr.pc, SpareCode)
     \/ ~ Fetched(hw, instr) /\ instr.wide /\ ServeBoth(instr.pc, instr.pc2)
  /\ UNCHANGED <<slot, pd, cur, instr>>

\* The handler finds no block that would make the access legal.
MemManageError ==
  /\ instr # NoInstr
  /\ \/ \E a \in DataFaults(instr) : Movable(a) = {}
     \/ ~ Fetched(hw, instr) /\ ~ instr.wide /\ Movable(instr.pc) = {}
     \/ ~ Fetched(hw, instr) /\ instr.wide /\ MovableBoth(instr.pc, instr.pc2) = {}
  /\ PropagateFault

-----------------------------------------------------------------------------

\* Boot has entered the root.
MPUInit ==
  /\ Init
  /\ cur = RootPD
  /\ lut = [p \in PDAddr |-> [r \in Regions |-> FromStart(Mem, pd[p].mpu[r])]]
  /\ hw = lut[RootPD]
  /\ flag = FALSE /\ instr = NoInstr

MPUNext ==
  /\ cur # Null
  /\ \/ ServiceCall
     \/ \E q \in PDAddr : Switch(q)
     \/ \E i \in Instructions : Start(i)
     \/ Complete
     \/ MemManage
     \/ MemManageError

\* The processor goes on with the instruction it has started; nothing makes it
\* start one, call a service or take an interrupt.
MPUSpec == MPUInit /\ [][MPUNext]_mpuVars /\ WF_mpuVars(Complete \/ MemManage \/ MemManageError)

-----------------------------------------------------------------------------
(* Properties.                                                             *)

MPUTypeOK ==
  /\ TypeOK
  /\ cur \in PDAddr \cup {Null}
  /\ lut \in [PDAddr -> [Regions -> Region]] /\ hw \in [Regions -> Region]
  /\ flag \in BOOLEAN /\ instr \in Instructions \cup {NoInstr}

InBlock(reg, e) ==
  /\ e # NullSlot /\ slot[e].present
  /\ slot[e].start <= reg.start /\ reg.end <= slot[e].end
  /\ reg.rights \subseteq slot[e].rights \cup {"r"}

\* A region that the handler searches holds a piece of the block that the
\* descriptor names there, and none when it names none.
LUTFollowsMPU ==
  \A p \in Live : \A r \in Virtual :
    IF lut[p][r] = Off THEN pd[p].mpu[r] = NullSlot
    ELSE InBlock(lut[p][r], pd[p].mpu[r])

\* The registers differ from the table of the running partition only where the
\* table was cleared after they were loaded.
RegistersFollowLUT ==
  cur # Null => \A r \in Regions : hw[r] = lut[cur][r] \/ lut[cur][r] = Off

\* An access that a block enabled in one of the searched regions allows.
Allowed(d) ==
  \E v \in Virtual :
    LET e == pd[cur].mpu[v]
    IN  e # NullSlot /\ d[1] \in Units(e) /\ d[2] \in slot[e].rights \cup {"r"}

\* An instruction within one executable block, and its data.
Legitimate(i) ==
  /\ \A d \in i.data : Allowed(d)
  /\ \E v \in Virtual : LET e == pd[cur].mpu[v]
                        IN  /\ e # NullSlot /\ {i.pc, i.pc2} \subseteq Units(e)
                            /\ "x" \in slot[e].rights

\* "for any legitimate memory access in an enabled memory block, Pip-MPU
\* reloads the MPU": however the regions stand after the accesses, services
\* and switches before it, no legitimate instruction ends in a fault.
NoFalseFault == [][MemManageError => ~ Legitimate(instr)]_mpuVars

\* A legitimate access may be delayed by the reloading, not put off for ever:
\* the pieces that an instruction needs do not evict each other endlessly.
AccessServed == instr # NoInstr ~> instr = NoInstr

\* "all metadata structures used for describing the partitioning model, should
\* never be accessible to any partitions", as the registers stand.  (The code
\* does not keep this.)
KernelDataUnreachable ==
  cur # Null =>
    \A q \in Live : \A a \in Config(q) : \A right \in Rights : ~ Permitted(hw, a, right)
=============================================================================
