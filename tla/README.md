# Pip-MPU: a TLA+ development of the kernel

Pip-MPU is a separation kernel for ARMv7-M microcontrollers. The user code runs
in *partitions*, which form a tree below the root partition. A partition may
create children, give them memory, take it back and delete them; the kernel
keeps the memory of siblings apart, keeps its own data out of everybody's reach
and schedules nothing: partitions hand the processor to each other with
`yield`, and interrupts and faults are turned into a switch to the root or to
the parent. The code is in `src/core` (the memory services, written in Coq and
translated to C) and `src/arch/dwm1001` (C: memory abstraction layer, boot,
exception handlers, `yield`). Paths below are relative to the repository.

## 1. Inventory

### Components, state, operations

| Component | State | Operations | Code |
|---|---|---|---|
| Kernel data | Partition descriptors (`PDTable`): first kernel structure, free-list head, number of free slots, number of structures, parent, MPU regions, LUT, VIDT address, interrupt state. Kernel structures: a fixed number of slots, each with a block entry, a share entry (Sh1) and a cut entry (SC). Both kinds live in user memory that was taken out of reach. | Look-ups by start, exact range, contained address, slot address; reads and writes of fields | `ADT.h`, `mal.c`, `Internal.v` |
| Memory services | none of their own | `createPartition`, `cutMemoryBlock`, `mergeMemoryBlocks`, `prepare`, `addMemoryBlock`, `removeMemoryBlock`, `deletePartition`, `collect`, `mapMPU`, `readMPU`, `findBlock`, `setVIDT` | `Services.v`, `Internal.v` |
| Boot | the root's descriptor and first structure, kernel statics | `malInit`: three blocks, three regions, the root's VIDT | `malinit.c`, `link.ld` |
| Virtual and hardware MPU | the regions and the LUT of each descriptor; the MPU registers | `enableBlockInMPU`, `removeBlockFromPhysicalMPU`, `configure_LUT_entry`, `largest_covering_MPU_region`, `activate` | `mal.c`, `malinternal.c`, `mpu.c` |
| MemManage | a static flag, the LUT, the registers | on a fault on a mapped address, load a region that covers it; otherwise a fault | `exception_handlers.c` |
| Yield | current partition, interrupt states; saved contexts and VIDTs in user memory | a chain of checks, save the caller's context, load the callee's | `yield_c.c`, `pip_interrupt_calls.c` |
| Interrupts and faults | – | an interrupt is a forced yield to the root; a fault one to the parent, then to the grandparent | `exception_handlers.c` |
| Dispatch | – | the SVC number selects a service | `svc_handler.c` |
| Register access, start-up, drivers, vendored headers, Coq model of the MAL, Coq proofs, tests | – | – | see `PROJECT.json` |

### Interaction

A partition makes a system call; the kernel runs with interrupts masked until
it returns, so services never interleave with each other. Between two calls
anything may happen that the tree of partitions can do: the caller yields to a
child, to its parent or is interrupted to the root, and another partition
calls. Everything a service trusts was written by earlier calls of other
partitions. All links cross partitions: the share entry of a parent's slot
points to a slot of the child; the accessible flag of the ancestors depends on
what the descendants did with their copy; the free list of a partition runs
through structures that were given to it by different partitions.

### What is hard

* **Sequences of calls.** A block is shared over several levels, cut below, cut
  again, merged in another order, partly used for kernel data, taken back at
  the top. Each call is correct only in states the other calls leave behind.
* **Implicit invariants.** "If accessible, then PDflag can't be set, we just need
  to check PDchild": many services drop a check because others are believed to
  maintain it.
* **Edited lists.** The free list and the cut lists are singly linked, share
  their storage with block bounds, and are walked while they are edited.
* **Stale references.** MPU regions, share entries, the VIDT address and saved
  contexts refer to slots and addresses whose meaning changes later.
* **Partial failure.** A service that has begun to write can still return false.
* **Bounds.** Slots, structures per partition (also the fuel of all searches),
  regions, block ends that are sometimes inclusive and sometimes exclusive.

`PROJECT.json` lists these with the line where each bites.

### What makes each component correct

* Kernel data: the blocks of a partition do not overlap; cut lists are
  contiguous; the free list holds the free slots, each once, in their default
  state; no more structures than the searches can visit.
* Memory services: kernel data is inaccessible to everyone; siblings use
  disjoint memory; a child uses only memory of its parent; the tree stays a
  tree; shares are recorded on both sides; rights never grow.
* MPU: only blocks that are present and accessible are mapped, and the hardware
  never allows more than the running partition's blocks.
* Yield, interrupts, faults: a context is only loaded from and saved to memory
  the partition owns with the right permission; a failing yield
  switches nothing; an interrupt or fault reaches a partition that can handle it, or
  stops the kernel.

## 2. Plan

| # | Module | Models | Composes | State |
|---|---|---|---|---|
| 1 | `PipKernelData` | constants, kernel data, look-ups | – | done |
| 2 | `PipMemory` | the ten services that change kernel data | `PipKernelData` | done |
| 3 | `PipIsolation` | the properties | `PipMemory` | done |
| 4 | `PipConsistency` | the inductive invariant behind the properties of `PipIsolation` | `PipIsolation` | done |
| 5 | `NaturalFacts` | least elements, induction over a set, iteration, multiples, powers of two: for the other proofs | – | done |
| 6 | `PipMemory_proofs` | typing and the bound on structures; what following links reaches: ancestors, cut lists, copies, live partitions; what the invariant says of one memory, and what keeps it | `PipConsistency` | done |
| 7 | `PipYield` | `yield`, contexts, interrupt state, the interrupt handler, propagation of faults | – | done |
| 8 | `PipYield_proofs` | typing, masking, what a switch resumes, delivery of interrupts | `PipYield` | done |
| 9 | `CoveringRegion` | `largest_covering_MPU_region` | – | done |
| 10 | `CoveringRegion_proofs` | the region is in the block, aligned, and the largest | `CoveringRegion` | done |
| 11 | `PipMPU` | LUT, registers, `activate`, MemManage with its flag and the two spare regions, under the memory services and switches | `PipIsolation` | done |
| 12 | `PipMPU_proofs` | registers, table and descriptors agree | `PipMPU` | done |
| 13 | `PipAbstract` | the promise: partitions that own memory, open some of it, lend it to children and give it to the kernel | – | done |
| 14 | `PipRefinement` | `PipMemory` implements `PipAbstract` | `PipIsolation`, `PipAbstract` | done |
| 15 | `PipAbstract_proofs` | isolation, from the promise alone | `PipAbstract` | done |
| 16 | `PipServices_proofs` | each service but `collect` keeps the invariant, and what it does to the memory | `PipConsistency` | done |
| 17 | `PipIsolation_proofs` | the boot, the steps, the properties; each service but `collect` is a step of `PipAbstract` | `PipRefinement`, `PipConsistency` | done |

A further module that composes `PipMemory` with all of `PipYield` was planned
and is not written. `PipMPU` already composes the services with the running
partition and with switches. What `PipYield` takes from the services is the rights of
a partition on the few addresses it uses, and its `MemoryService` lets these
change at any time and in any way the instance permits, more than the services
can do; so its properties hold in the composition.

## 3. The modules

### `PipKernelData`

An address is a unit of 32 bytes, the granularity of every cut; unit 0 is null
and a block covers `start .. end-1`. Two variables hold all kernel data:

* `slot`, a function from slot addresses `<<structure, index>>` to entries. One
  record has the fields of the block entry (`start end present accessible
  rights`), of Sh1 (`PDchild inChild PDflag`) and of SC (`origin next`). A free
  slot keeps the link to the next free slot in its end address
  (`Internal.v:523`); the record has a field `nextFree` for it, since no code
  reads the end of a slot without having found it present.
* `pd`, a function from descriptor addresses to descriptors. The linked list of
  structures is a sequence, head first. The LUT is a variable of `PipMPU`, the
  interrupt state one of `PipYield`.

Only the units in `PDHomes` and `KSHomes` may become descriptors and
structures; this bounds the domain of the two functions. The look-ups scan the
structures in list order, each from its first slot, and return the first match,
as `findBlockInKSAux` does.

`Live` is the set of partitions that can run: the root and the registered
children of live partitions. What remains in the memory of a deleted partition
is kept in the variables, as it is in memory, until a service erases it.

### `PipMemory`

First a group of *plausible mistakes*, operators with the parameters of a
definition they may stand in for, which show that the properties can fail; they
are not used by the specification. Then the functions of `Internal.v` that
change state, as functions from a memory (the record of `slot` and `pd`) to a
memory, then one action per service:

| Action | Service | Note |
|---|---|---|
| `createPartition(c, e)` | `Services.v:64` | erase, initialise, flag, hide here and above |
| `cutMemoryBlock(c, e, a, r)` | `Services.v:143` | the second half goes to the first free slot; the ancestors lose the block at the first cut |
| `mergeMemoryBlocks(c, e1, e2, r)` | `Services.v:253` | |
| `prepare(c, t, e)` | `Services.v:340` | `t` is the caller or a child |
| `addMemoryBlock(c, t, e, rights)` | `Services.v:482` | |
| `removeMemoryBlock(c, e)` | `Services.v:572` | `removeUncutBlock` and `removeCutBlock`, the latter with its early return |
| `deletePartition(c, e)` | `Services.v:623` | |
| `collect(c, t)` | `Services.v:676` | `collectFreeSlots` follows the walk of `Internal.v:1121` with its predecessor |
| `mapMPU(c, t, r)` | `Services.v:720` | `unmapRegion` for a null block, `mapBlock` otherwise |
| `setVIDT(c, t, a)` | `Services.v:867` | |

A call is one step because the kernel runs it with interrupts masked. The next
call may come from any live partition: `yield` lets a partition hand the
processor to a child or to its parent, and an interrupt hands it to the root.
A call whose checks fail changes nothing and is a stuttering step. `Callers`
says which partitions make which calls in an instance.

`findBlock(c, t, a, r)` is not an action, since it changes no kernel data: it is
the condition under which the service answers (`Services.v:818`): a block of `t`
holds `a`, and the block of `t` that holds the buffer address `r` is one of the
caller's, which it may read and write. `readMPU` returns an entry of `mpu` and is left out.

The fuel of the recursive functions is not modelled: chains are followed to
their end, and the theorem `StructuresBounded` is what justifies it for the
searches.

### `PipIsolation`

The properties, after `proof/Isolation.v` and `proof/Consistency.v`, over the
live partitions. The definitions in the repository that say "the entry of a
slot is in the slot's structure" hold here by construction and are left out.

### `PipConsistency`

The properties of `PipIsolation` are not inductive, neither one by one nor
together. `PipConsistency` states what is: predicates over a memory `m`, so that
they can be said of the memories between two steps of a service, and over a set
`L` of partitions, so that a partition can be added before it is linked and
dropped after it is unlinked. `Consistent(m, L)` says how the data fits together:

| Part | Says |
|---|---|
| `Tree` | the root has no parent, every other partition of `L` has one in `L`, and no set of partitions is closed under parents: there is no cycle |
| `Homes` | a flagged block is the descriptor of a child of its owner, tied to nobody else, and each partition but the root has such a block in its parent |
| `Structures` | the structures of different partitions are disjoint, and each but the root's first starts a block of its partition, or one of its parent that is recorded for it, which is shared with nobody |
| `Ranges` | blocks are not empty, readable, and do not overlap |
| `Cuts` | a block with a successor touches it, and both have the same origin |
| `Shares` | a recorded child is a child, and a share names a block of that child with the same start and origin |
| `Containment` | every block of a child is a part of a block that its parent shared with it, starts its life at the start of that block (`origin`), has no right that one lacks, and reaches its end if it has no successor |
| `FreeLists` | the links of the free slots form one list from `firstFree` to its end, of `nbFree` slots in their default state |

and `Guarded(m, L)` what the accessible flags protect: blocks that hold kernel
data are hidden, a share stays accessible only while the copy is whole and
accessible, and the MPU maps accessible blocks once. `OpenAbove(m, L)` is the other
direction: a block is accessible when its copy in a child is and has not been cut,
so that hiding a block higher up must have hidden what is below. `Consistency` is
that some `L` makes the three true. The two hypotheses under which it is inductive,
`NoCollect` and `RemovalsComplete`, are defined there as well.

### `MCPipMemory` and the configurations

Boot blocks, sites for descriptors and structures, grants and callers of each
instance, and the view `LiveData`: TLC identifies states that agree on the data
of the live partitions. This is sound because no service reads what is left in
the memory of a deleted partition: `createPartition` and `prepare` erase a block
before they use it, look-ups start from live descriptors, and every property
speaks of live partitions only (`TypeOK` and the bound on structures speak of
all; they are evaluated on each state TLC generates for a new view, and are
theorems besides).

### `PipYield`

Control passes between partitions by a service call, an interrupt or a fault;
all three run the same chain of functions (`yield_c.c`), which ends in a switch
or in a code that says what was wrong with the caller or the callee. The state
is what these functions read and write:

| Variable | Code |
|---|---|
| `cur`, `interruptState`, `vidt` | the current partition; `interruptState` and `vidtAddr` of the descriptors |
| `rights` | what `findBelongingBlock` and the present, accessible, R and W flags say; a block that is not found or not present gives none |
| `table`, `currentInterrupt` | the two fields of `vidt_t`, in user memory |
| `contexts` | `isBasicFrame` and `pipflags` of the context stored at an area; registers are left out |
| `basepri`, `usesFpu`, `fpuHoldsData`, `previousContextUseFpu` | BASEPRI, FPCA, whether the FPU registers hold some context's data, the static of `yield_c.c` |
| `fault`, `panic` | the arguments of `propagateFault`, `Kernel_Panic` |

An *area* is an address at which contexts may be stored. What the bytes of an
address decide is given by constants: the block it lies in, whether it is
aligned, which frames fit before the end of the block. VIDT indices are those of
the source. `pipflags` and the interrupt state matter only as zero or not, and a
code only by whom it blames, since the handlers branch on that.

The effects come in the order of the code. `enter` announces the interrupt in
the callee's VIDT, saves the caller's context and loads the callee's from
memory *after* the save. `refuse` is what a failing call has done by then: the
number is announced, and `previousContextUseFpu` set, if the checks got that
far. `fallback` is the handlers' second attempt with a null context.

| Action | Code |
|---|---|
| `yield` | `yieldGlue` and the chain, to itself, a child or the parent |
| `Interrupt` | `Interrupt_Handler_C`, enabled unless BASEPRI masks |
| `RaiseFault`, `propagateFault` | `Fault_Handler_C_Irq`; one step per level of the recursion |
| `setIntState`, `setVIDT` | the services; `getIntState` changes no state |
| `MemoryService` | any memory service, as a choice of new rights |
| `WriteEntry`, `WriteContext`, `UseFpu` | user code: a partition may write its VIDTs and contexts whenever it runs, in blocks it may write |

### `MCPipYield`

Two families of instances: a root and a child with three areas, one of them too
small for an extended frame, in a version in which the child keeps what the
handlers need to save its context, while the root may lose its VIDT and access to
its own and to the shared block (`Sound...`), and one in which the child loses its
VIDT, rights or save area (`Lossy...`); and a chain of three partitions (`Chain...`).

### `CoveringRegion`

The loops of `largest_covering_MPU_region`, one action per round and direction,
from an initial state for every block and address. The address space has `2^W`
units and wraps around; the smallest region, 32 bytes, has `Grain` units, so that
there are addresses inside it. The code has two conventions for the end of a
block: `malinit` and the right part of a cut store the last byte, `cutMemoryBlock`
stores for the left part the first byte behind it. `limit` is the unit behind the
block, `end` is the stored address and one more, and the code, which compares
with `end`, is run with both. `AtTheEnd` says whether the address stored as the
end of a left part, which `isMappedInVirtualMpu` accepts, is asked for as well.

### `PipMPU`

`PipMPU` runs under the services of `PipMemory` and adds what stands between
them and the processor:

| Variable | Code |
|---|---|
| `cur` | `current_partition`; null after the kernel has stopped |
| `lut` | `LUT` of each descriptor, an interval and rights for each region |
| `hw` | RBAR and RASR of the regions (`mpu.c`) |
| `flag` | the static of `MemManage_Handler_C` |
| `instr` | the instruction in progress: the units of its one or two halfwords and its data accesses |

| Action | Code |
|---|---|
| `cut`, `merge`, `map`, `OtherService` | the services, by the running partition, with the calls of `enableBlockInMPU` and `removeBlockFromPhysicalMPU` they make; only a replacement in the current partition loads the registers (`mal.c:1033`) |
| `Switch` | any change of the running partition: `yield`, an interrupt, a fault of another kind (`updateCurPartAndActivate`). Which of them a state allows is the subject of `PipYield` |
| `Start`, `Complete` | a partition starts an instruction; it ends when every access is permitted by the region with the highest number that covers it |
| `MemManage` | the handler finds the block in the searched regions, loads a piece of it around the faulting address, and the instruction starts again. A data or 16-bit instruction fault uses the block's own region and a spare one by turns, according to `flag`; a 32-bit instruction uses both |
| `MemManageError`, `PropagateFault` | no searched region allows the access: an ancestor gets the fault, or the kernel stops |

The last two regions (`SpareCode`, `SpareData`) are written by the handler and
not searched by it (`findMpuIndex`). The region for a block and an address is
`LargestCovering`, the result that `RegionInBlock`, `RegionAligned` and
`RegionLargest` establish for `CoveringRegion`.

### `PipAbstract` and `PipRefinement`

`PipAbstract` says what the services promise, without slots, flags, free lists
or cut lists. One variable holds for each partition its parent, its `pool` (what
it owns, including what it has lent), the part that is `open` to it, and `kern`,
the memory that holds the kernel's data about it. Each service is a relation
between the memory before and after. What makes it a promise is what the
relations exclude: `prepare` may take only memory that is open to the caller and
lent to no child, and takes it from all ancestors; `removeMemoryBlock` takes from
a child and everyone below it the same memory, of which the kernel holds nothing
and which the caller may then access;
`Reopened` lets only the caller and its ancestors regain access, and only to
memory they own.

`PipRefinement` maps the kernel data to this: `pool` and `open` of a live partition
are the units of its present and its accessible blocks, `kern` the units of its
descriptor and structures; what is not live has nothing. `ImplementsAbstract` is
the specification of `PipAbstract` under this mapping. Every call of `PipMemory`
maps to a step of the same service, or to none (a cut that hides nothing,
`mapMPU`, `setVIDT`).

## 4. What the runs show

Each run uses the specification of its module. `CHECK_DEADLOCK FALSE` is set in
the runs of `PipMemory` because failing calls are stuttering steps: in a bounded
instance the sites may be used up so that every enabled call fails, and the real
kernel then just returns false. In `PipYield` and `PipMPU` it is set because the
kernel may stop for good (`Kernel_Panic`), and in `CoveringRegion` because the
function ends.

| Run | Instance | Distinct states | Properties |
|---|---|---|---|
| `OneChild` | root and one child, 7 units, 5 slots per structure, 2 structures per partition, two cut points; all seven services by both | 108 214 | `TypeOK`, `noDupMappedPaddrList`, `CutBlocksContiguous`, `FreeListExact`, `sharedBlockIsInChild`, `maxNbPrepareIsMaxNbKernels` |
| `ThreeLevels` | root, child, grandchild (or two children); the grandchild does not cut | 76 900 | `KernelDataIsolation`, `VerticalSharing`, `PartitionTree`, `childsBlocksPropsInParent`, `accessibleParentPaddrIsAccessibleIntoChild`, `accessibleChildPaddrIsAccessibleIntoParent`, `AccessibleNoPDFlag`, `RightsNeverGrow`, `PartitionsIsolation`, `noChildImpliesAddressesNotShared`, `Consistency`, `ImplementsAbstract` |
| `Collect` | `collect` with structures given by the root, no sharing | 553 | `FreeListExact`, `FindBlockWritesAtHome`, `ImplementsAbstract` |
| `Mapping` | two regions and VIDTs of two units; `mapMPU` and `setVIDT` by parent and child | 22 164 | `MPUFromAccessibleBlocks`, `Consistency`, `VIDTInMappedMemory` |
| `Yield` | root and child; the root may lose its VIDT, its own block and the shared one, the child nothing | 1 232 928 | `TypeOK`, `OnlyRootMasks`, `FpuPrivate`, `ResumesAnnounced` |
| `Handlers` | three levels; root and child may have no VIDT or a null entry, the child no write access or too small a save area | 609 088 | `InterruptReachesRoot`, `FaultReachesAncestor`, `FaultHandled` |
| `Region` | all blocks of up to 32 of the smallest regions, with both ends, all addresses | 106 328 | `RegionInBlock`, `RegionAligned`, `RegionLargest`, `Termination` |
| `Mpu` | root with a block of six units and one of two, one child, four regions, four instructions | 54 574 | `MPUTypeOK`, `LUTFollowsMPU`, `RegistersFollowLUT`, `NoFalseFault`, `AccessServed` |

`FindBlockWritesAtHome` is about the one service that writes its answer to memory
of a partition: when `findBlock` answers, the answer starts in memory that the
caller may access and that holds no kernel data. It says nothing of the calls
that do not answer, which include all for a child (below), nor of the length of
the record, which `copyBlock` writes unchecked (`Services.v:844`).

`FpuPrivate` appears in a passing and in a violation run. It does not hold when a
handler gives up saving a context with data in the FPU and then enters the
partition that handles the interrupt. In `Yield` that does not happen: the child keeps
its VIDT, its rights and save areas in which any frame fits, and what the root
loses makes the second attempt fail, if there is one. `TypeOK`, `OnlyRootMasks` and
`ResumesAnnounced` are proved for every instance (section 5), whatever is lost.

`ImplementsAbstract` is the strongest of the properties of `PipMemory`: it
relates the states before and after each call, at every level of the tree. It
implies that a call takes memory from no partition that its service does not
name, that hiding a block for kernel data reaches all ancestors, and that nothing is given back to a
caller that the kernel still needs. It also implies `KernelDataIsolation`, by the
theorem `PromiseIsolates`, which `Collect` therefore does not check again.

The runs that end in a violation show where the code departs from what the
repository says of it.

* `CollectFreeList` (`inclFreeSlotsBlockEntries`). `collectFreeSlotsRecAux` passes
  the slot it has just unlinked on as the predecessor of the next one. Two slots
  of the collected structure in a row behind a slot of another structure: the
  second stays reachable. The free list then leads into memory that was given
  back.
* `FpuOnFallback` (`FpuPrivate`). When the interrupted context cannot be saved,
  the second attempt reads its `isBasicFrame` through a null pointer. At address
  0 the vector table has the stack top, which is not zero, so the context counts
  as a basic one and the FPU registers are not cleared for the root.
* `RegistersBehind` (`KernelDataUnreachable`). A block that is enabled in the MPU
  becomes a descriptor or a structure: `removeBlockFromPhysicalMPU` clears the
  region in the descriptor and in the LUT, but nothing loads the registers until
  the next switch, fault or replacement.
* `RegionBehindCut` (`RegionWithinBlock`). For the address stored as the end of
  the left part of a cut the handler computes a region that is not in the block.

### Departures without a run

These were read in the code while it was modelled. The passing runs of `PipMemory`
exclude the first two: `OneChild`, `ThreeLevels` and `Mapping` make no `collect`,
in `Collect` nothing is shared and all slots of a collected structure are at the
front of the list or alone, and the deepest partition of `ThreeLevels` does not
cut.

* `Internal.v:422`. A block the caller got by a cut is shared, the child cuts it,
  the caller takes it back: the child's subblocks are freed, then the update of
  the ancestors finds no block of that range and the service fails, with the
  share still recorded (against `sharedBlockIsInChild`).
* `Internal.v:1244`. A child prepares itself in a block its parent shared with
  it; `collect` by the parent finds the block in the parent's own list, takes
  the structure and clears the share, while the block is still in the child's
  list (against `PartitionsIsolation`).
* `Services.v:832`. `findBlock` is documented for "the current partition or a child"
  (`Services.v:807`), and `PipInternals.md:115` says that it "finds a block in the
  current partition or in a child partition". The code looks the result buffer up
  in `globalIdPD`, the partition that is searched, and then tests whether the slot
  it found is one of the caller's. A slot belongs to one partition, so for a child
  `findBlock` always returns false. The comment above ("Check that blockResult
  is present and available in currentPart", `Services.v:830`) asks for a look-up in
  the caller, which is commented out (`Services.v:831`). The model has the look-up
  of the code; `FindBlockWritesAtHome` rests only on the slot being the caller's.
* `yield_c.c:641`. A misaligned save address of the interrupted partition is
  reported with the code for the callee's context; the handler takes no second
  attempt and the kernel panics (against `InterruptReachesRoot`). All areas of
  `Handlers` are aligned.
* `exception_handlers.c:213`. If the VIDT of a partition that a fault comes from is
  not usable, `propagateFault` makes its second attempt at the parent only and does
  not look at the result, so that a parent that cannot take the fault ends it: no
  grandparent is tried (against `FaultReachesAncestor`). In `Handlers` the grandchild
  always has a usable VIDT, and above the child there is only the root; in `Yield` only
  the root, with no one above it, can be without one.
* `pip_interrupt_calls.c:53`. `getIntState` reads at the slot of the child's block
  instead of at the descriptor.
* `Services.v:535`. The test of `addMemoryBlock` and `removeMemoryBlock` that a
  block does not contain the caller's VIDT compares the child's VIDT address with
  the caller's slot, as `PipMemory` models it.
* `Services.v:756`. `mapMPU` passes the address of the slot, not the start of the
  block, to `checkMPUEntryZero`.
* `exception_handlers.c:570`. A spare region of the LUT keeps a piece of a block
  after the block has been unmapped or taken away, because only regions that name
  it are cleared. `LUTFollowsMPU` speaks of the searched regions for that reason.
  The stale piece has the higher number: if it has fewer rights than the block
  that now lies there, it refuses an access that the block allows. In `Mpu` all
  shared blocks keep their rights.
* `mapMPU` and the services with a region argument accept the two spare regions
  as well; a block that is mapped there is not found by `findMpuIndex`
  (`RegionArgs` of `Mpu` leaves them out).
* A block has at most three regions at a time, its own and the two spare ones,
  and data can use only one of the latter. An instruction with data in three
  pieces besides its own, or a 32-bit one with code in two pieces and data in two others, faults for ever:
  with such an instruction in `Mpu` `AccessServed` does not hold. The instructions of
  `Mpu` need at most three pieces, data at most two. One of these may still be preempted
  again and again between its faults while other partitions flip `flag`;
  `AccessServed` counts a switch away as the end of the attempt, after which the
  instruction starts anew.
* The tests that speak of the "physical MPU" (`main_test.c:3222`) look at the
  descriptor's `mpu`, not at the LUT or the registers.

### Bounds

Seven units of memory and five slots per structure are the smallest instance in
which a boot block can be cut twice, one part shared and cut again below, while
two other blocks hold a descriptor and structures. Two structures per partition
let the free list cross structures, and `MaxPrepare = 2` lets the bound be
reached. Three levels are the least at which "all ancestors" differs from "the
parent", and two children the least for siblings. Two cut points on one block
give three subblocks, so that a merge leaves a list that is still cut. Grants
`{r}` and `{r, w}` let a right be dropped. `MinBlock`, `PDSize` and `KSSize` are
one unit; the sizes only guard calls. `Regions` is empty except in `Mapping`:
the regions influence no other property.

In `PipYield`, two partitions are enough for everything but the propagation of
faults, where three levels are the least at which a double fault exists. Each
instance has a context that starts basic and one that may be extended, both
values of the flags, an area an extended frame does not fit in (`Yield`,
`Handlers`), and the save indices 8, 9 and 10, the fault 4 (MemManage), the
interrupt 15 (SysTick) and one index for yields. Other indices behave like one
of these. In `Yield` caller and callee may name the same area, so that a save
writes over the context that is about to be loaded; the root loses a block as it does
when it gives its own to the kernel or the child cuts the shared one.

`Region` has `W = 7` and `Grain = 2`: blocks end in the lower half of the address
space, as all memory of the board does (`link.ld:79`, `link.ld:80`), and reach its
middle, where `1 << 31` appears. `Rounds` is the 32 of the source reduced to this
width. Two units in the smallest region are enough for an address that is not the
first of it and for an end that is one address off.

In `Mpu` the root has a block of six units, which takes four regions to cover, the
smallest in which the pieces around two addresses can differ in size and evict
each other, and a block of two units that may become the descriptor and the
structure of a child. Four regions are two searched and two spare ones. The
instructions are one of 16 bits with two stores, all three in different pieces, one of 32
bits across the border of two pieces with a load from a third, one whose load is in
the other block, and one fetched from a block that is not executable. Root and child map;
the other services are called by the root.

### Fairness

No service waits for another, and nothing makes a partition run a given
instruction or an interrupt arrive. The specification of `PipYield` assumes
`WF_vars(propagateFault)`: a handler that the processor has entered goes on, as
nothing can preempt it (PRIMASK is set). `CoveringRegion` assumes
`WF_vars(Next)`: a function that runs takes its next step. `PipMPU` assumes weak
fairness of `Complete \/ MemManage \/ MemManageError`: the processor goes on with an
instruction it has started, to its end or to its fault. Nothing makes a partition
start an instruction or call, and an interrupt may come between any two faults.

## 5. What is proved

`PipMemory_proofs` proves, for every value of the constants that satisfies
`ConstantsAssumption` and `RootAssumption`:

* `TypeCorrect`: `Spec => []TypeOK`;
* `StructuresBounded`: `Spec => []maxNbPrepareIsMaxNbKernels`.

The inductive invariant is `IInv`, that the memory is in `Good`: well-typed, and
each descriptor's `nbPrepare` is the length of its list of structures and at
most `MaxPrepare`. Neither half is inductive alone: `collect` decrements
`nbPrepare`, which stays a natural number only because a list it takes a
structure from is not empty; and `prepare` adds a structure after its check only
if hiding the block has not changed the counter in between
(`hideKeepsStructures`). The proof follows the code: one lemma for each internal
function says that it maps `Good` to `Good`, one for each service composes them,
`ServiceGood` and `NextGood` collect the services.

The bound matters because the searches of `Internal.v` run with `maxNbPrepare`
as fuel and answer "not found" when it is used up.

### Isolation and consistency of the kernel data

`PipIsolation_proofs` proves all properties of `PipIsolation`, here the invariants:

* `ConsistencyHolds`: `NoCollect /\ Spec /\ [][RemovalsComplete]_vars => [](IInv /\ Consistency)`;
* under the same hypotheses the seventeen properties, each in a theorem of its own:
  `KernelDataIsolationHolds`, `PartitionsIsolationHolds`, `VerticalSharingHolds`
  (the three isolation properties of `proof/Isolation.v`), `BlocksDisjoint`,
  `SharesMatch`, `ChildBlocksComeFromParent`, `UnsharedIsPrivate`,
  `AccessReachesCopies`, `AccessReachesParents`, `AccessibleIsNoDescriptor`, `CutListsContiguous`,
  `FreeListHolds`, `FreeListStaysHome`, `PartitionTreeHolds`, `FindBlockWrites`,
  `MPUMapsOwnBlocks`, `RightsNeverGrowHolds`;
* `IsolationWhenRootRemoves`: `NoCollect /\ OnlyRootRemoves /\ Spec => []AllProperties`,
  the same seventeen without a hypothesis about steps.

*Assumptions.* The constants satisfy `ConstantsAssumption` and `RootAssumption`
as before, and `BootAssumption`: the blocks the root starts with are not empty,
lie apart and are readable, which `link.ld` and `malinit.c` lay down. A descriptor and
a structure take at least one unit each (`PDSize`, `KSSize`). There is no
bound on the number of partitions, the depth of the tree, the blocks or the
structures.

*Hypotheses on the calls.* Both exclude what the code gets wrong, not what is hard
to prove. `NoCollect`: no partition calls `collect`, which can leave slots of the
collected structure in the free list (`CollectFreeList`) and give a parent memory
its child still maps (`Internal.v:1244`, below section 4).
`RemovalsComplete`: a removal of a cut block does not take the early return of
`Internal.v:422`, after which the share still names slots that have been freed.
That return needs a partition that cut the block before it shared it, so a root
that removes never takes it: its blocks have no ancestors to update. The runs `OneChild`,
`ThreeLevels` and `Mapping` satisfy both hypotheses. `Collect` calls `collect`
without sharing, and its properties are only model-checked there.

*The invariant.* `Consistency` (section 3). What it adds to the properties: that
every structure starts a block of its partition or of its parent, and every
descriptor one of its parent, so that what `KernelBlocksHidden` hides is all
kernel data, at every level; that a block of a child without a successor reaches
the end of the block it is a part of, which makes the cut list complete, since
otherwise `removeMemoryBlock`, which follows the links from the first subblock, could
miss one; `OpenAbove`, which speaks of a copy wherever it has not been cut, since what
is hidden above and open below for the length of a call is then one path of copies,
shown again from the bottom up; that the blocks of a child are parts of shared blocks of its parent, which
carries a fact about one level to all levels; and that the free list has neither a
cycle nor a second way in. Lists and trees are stated without following a link ("every
set of free slots that is not empty has one whose successor is outside", and the same
of parents), which a change of one link disturbs as little as possible. It is stated for
some `L` that contains the live partitions rather than for `Live`, since `Live` is
defined by following links and changes in the middle of a service. TLC checks it in
`ThreeLevels`, where it has three levels and two siblings, and in `Mapping`, where regions
are in use.

*The argument.* `PipMemory_proofs` turns "followed to the end" into induction: a
chain of links is a recursive function on the naturals; a set that contains the
start and is closed under the link contains what is reached, and what is reached is
closed, since a function on a finite set runs into its end or a cycle within as
many steps as it has elements. It also has what the services share:
two blocks of one partition that overlap are the same; a block that is in no child
overlaps no block of a child; taking the head of the free list, putting a path of
slots in front of it, hiding a block in a set of ancestors, showing it again, each
keep `Consistent` or the part it touches. `PipServices_proofs` has one lemma for
each service and the lemmas about its intermediate memories: `cutMemoryBlockSound`
(the ancestors lose the block before it is split), `mergeMemoryBlocksSound`,
`prepareSound`, `createPartitionSound`, `addMemoryBlockSound`, the two cases of
`removeMemoryBlock`, where the copies form a chain down the tree or a list in the
child, `deletePartitionSound`, which drops the whole subtree from `L`, and
`mapMPU` and `setVIDT`. `PipIsolation_proofs` adds that the state `malInit` leaves is
consistent (`InitSound`) and that every disjunct of `Next` is one of these
(`NextSound`), and derives each property from the invariant alone.

### The VIDT

`VIDTInMappedMemory` relates the states before and after a call, and follows from
the invariant and from what a call does to the memory of the partitions:

* `VIDTHolds`: `NoCollect /\ Spec /\ [][RemovalsComplete]_vars => VIDTInMappedMemory`;
* `VIDTWhenRootRemoves`: `NoCollect /\ OnlyRootRemoves /\ Spec => VIDTInMappedMemory`.

No service but `setVIDT` writes the address of a VIDT, except to clear it with the
descriptor (`ServiceVidts`, from `Fades`, below), and `setVIDT` writes one that
fits in a block (`setVIDTInside`). A VIDT can then only lose memory when its
partition does, and what a call takes from a partition is a question about
`PipAbstract`: `TakenBack` finds that only `removeMemoryBlock` takes memory from a
partition that lives on, that the caller may then access it, and that no child of
the caller has it, since the child it was taken from was the only one that did
(`SiblingPools`). That the caller may access it is the part of the promise that
needs `OpenAbove`: the removal of a cut block shows the caller's block again, and that
of an uncut one leaves it as it is, which is accessible because the copy is.
`UnlentBlock` brings the result back to a block that is not shared.

### Yield, interrupts and the MPU

`PipYield_proofs` proves, from the assumptions of `PipYield` on its constants
(the tree, the places, the indices, the bounds):

* `YieldTypeCorrect`: `Spec => []TypeOK`;
* `RootMasking`: `Spec => []OnlyRootMasks`;
* `Resumption`: `Spec => ResumesAnnounced`;
* `InterruptDelivery`: `Spec => InterruptReachesRoot` if
  `Areas \subseteq Aligned`. The hypothesis is needed: a misaligned save area of
  the interrupted partition is the counterexample (section 4);
* `FaultClimbs`: `Spec => FaultReachesAncestor` if `Areas \subseteq Aligned` and
  `[]FaultsComeWithVidt`: a partition that a fault comes from has a VIDT unless the
  root is next. Both are needed, for the reasons section 4 gives at
  `yield_c.c:641` and `exception_handlers.c:213`; both hold in `Handlers`;
* `FpuCleared`: `Spec => []FpuPrivate` if `[]FpuDataIsSaved`: no partition has
  data in the FPU registers when a handler gives up saving its context and enters
  another partition without. It holds in `Yield`; the run `FpuOnFallback` breaks it. Every other switch clears the
  registers, so the two second attempts are all there is to repair.

The inductive invariant is `IInv`, `TypeOK` and `OnlyRootMasks`. The lemmas
follow the chain of functions: what `switchContext`, `enter`, `refuse`,
`fallback` and `deliver` each establish from a typed state; `Inductive` has one
step per action. `Resumption` is a step property that rests on two facts: the
callee was `Ready` before the save, and if the save wrote over its context, the
saved frame fits in that area, because the save was checked for room
(`EnterResumes`). `InterruptDelivery` shows that with aligned areas no result
blames the root when the root is ready, and that both attempts then enter it.
`FaultClimbs` rests on `PassedOver`, an invariant over the levels already tried:
an ancestor of the running partition is still above the fault, or cannot take it.
It survives a level because a refusal changes nothing that decides who is ready;
`ancestors` is a least set, so that `AncestorsClimb` needs no induction.

`PipMPU_proofs` proves `RegistersAgree`, `MPUSpec => []RegistersFollowLUT`, from
the assumptions of `PipMemory` and `MPUAssumption`: the registers differ from the
table of the running partition only in regions that the table has cleared. The
inductive invariant adds that the running partition is a descriptor or null and
that every descriptor has a table. A service changes the table of one partition
at regions it replaces, and elsewhere only clears (`ReplacedKeeps`); switches and
the handler load what they leave behind. The theorem needs no property of
`PipMemory`: it holds whatever the services do to the descriptors.

The table itself does depend on them. Under `NoCollect` and `RemovalsComplete`
`PipMPU_proofs` proves of `MPUSpec`

* `MPUTypeHolds`: `[]MPUTypeOK`;
* `TableFollowsMPU`: `[]LUTFollowsMPU`;
* `MPUKeepsServices`: `Spec` of `PipMemory`, so that everything proved of the
  services holds under the MPU;
* `TableHidesKernelData`: no searched region of a table covers a descriptor or a
  kernel structure, nor memory its partition may not access. The registers do
  not keep this (`RegistersBehind`), which places the fault: the table is right, and is not
  loaded;
* `TableWhenRootRemoves`: typing and the two properties of the table with
  `OnlyRootRemoves` in place of `RemovalsComplete`.

The inductive invariant is `TableInv`: `IInv` and `Consistency`, the running
partition is live or null, the table of a partition that is not live is off, and
that of a live one follows its descriptor (`TableFits`). A service is the
hard case, as it does not write the table except at the regions it replaces: elsewhere
an entry stays right because the block it was computed from is still where it was.
`Fades` says that of each internal function (`PipMemory_proofs`) and service (the end of
`PipServices_proofs`): blocks keep their range and rights or go, and regions their
block. What is left are the
slots a service fills or resizes. A new block takes a free slot, which no region
names (`FreeSlotUnmapped`, from the free lists and `MPUMapsAccessible`); the block that
is cut is in its caller's regions only, which `cut` replaces; the block that grows by a
merge has left all regions but the one that is replaced. A new partition has
no region at all, which the lemmas of `PipServices_proofs` say of the set they reach
(`SoundFor`). The pieces themselves need the range of the block (`Ranges`): a piece
around an address of it exists, since the region of one unit fits (`CoveringPiece`).

`PipAbstract_proofs` proves `PromiseIsolates`, `Spec => []Isolation` of
`PipAbstract` if `ConstantsOK`: a child uses memory of its parent only, two children
never the same, and no partition may access what holds data of the kernel.
Isolation is not inductive. The invariant `Inv` adds `OpenOwned`, that what is open to a
partition is its own, and `DeadEmpty`, that what is no partition has no memory, so
that a new one starts with none. There is one lemma per service; the deletion of
a subtree rests on `BelowClosed`. With `ImplementsAbstract` the theorem splits
isolation of the kernel in two: the services keep the promise, and the promise
isolates, both for every tree and memory.

### The services keep the promise

`PipIsolation_proofs` proves the refinement under the hypotheses on the calls
given above:

* `ImplementsAbstractHolds`:
  `NoCollect /\ Spec /\ [][RemovalsComplete]_vars => ImplementsAbstract`;
* `ImplementsAbstractWhenRootRemoves`: `NoCollect /\ OnlyRootRemoves /\ Spec => ImplementsAbstract`.

It says more than the invariants. They speak of one memory and hold of a service
that returns a wrong block, or reopens too much of it, as long as the result is
consistent; the refinement fixes what each call may change, for the caller, the
child and everyone above and below.

*The argument.* It has two halves. The first is about the kernel data: each lemma of
`PipServices_proofs` states, next to the invariant, the effect of its service on three
functions of the memory, `PoolIn`, `OpenIn` and `KernIn` (the units of the
blocks of a partition, of its accessible blocks, and of its descriptor and
structures). Seven relations name these effects: `Created`, `Prepared`, `Narrowed`
(a cut), `Merged`, `Given`, `Removed` and `Deleted`. The invariant is what makes an
effect on a slot one on units: blocks of a partition do not overlap, so what is
taken with one block is not still there with another.

The second half is about the tree. `View` is the memory of `PipAbstract` read
from a kernel memory and a set of partitions, and each effect is shown to be a
relation of `PipAbstract` between two views (`createRefines` to `deleteRefines`).
What is needed beyond the effect:

* `Below` of `PipAbstract`, a least set, is the part of the tree that a deletion
  cuts off (`BelowIs`), and contains the end of every path from its top
  (`BelowOnPath`);
* the partitions that own a given unit lie on one path from the root, as siblings share
  nothing: who owns memory that the caller has, and has not lent, is above the
  caller (`OwnerAbove`), so all that lose access by `prepare`, or regain it by a
  merge, are ancestors, which is what `Reopened` asks;
* what is open to a partition is its own and apart from all kernel data
  (`OpenFacts`), and what it may give away is open to it and in no child
  (`UsableFree`);
* the child a block is shared with owns all of it, however it has cut it up
  (`Covered`), so a removal takes the same units from the child and everyone
  below it (`LeftAbove`);
* what a partition owns and is made of lies in the blocks tied to it in its
  parent (`HeldByTied`), so the parent has all of it back after a deletion.

`MappingIs` shows that the variables of `PipAbstract` under the mapping are the view
of the present memory, for any set the invariant is about: `Live` is that set
(`LiveExact`). `InitRefines` and `StepRefines` put the halves together.

### The region that is loaded

`CoveringRegion_proofs` proves of `largest_covering_MPU_region`, for every width of
the address space, every memory in its lower half, every block and every address
of it:

* `RegionInBlockHolds`: `AtTheEnd = FALSE /\ Spec => []RegionInBlock`;
* `RegionAlignedHolds`: `AtTheEnd = FALSE /\ Spec => []RegionAligned`;
* `RegionLargestHolds`: `AtTheEnd = FALSE /\ W <= Rounds /\ Spec => []RegionLargest`.

*Assumptions.* `WidthAssumption`: the smallest region is a power of two, of more than
one unit (32 bytes in the code), and memory ends in the lower half of the address
space, as all memory of the board does (`link.ld`). *Hypotheses.* `AtTheEnd = FALSE` leaves
out the one address behind the left part of a cut, for which the region does
leave the block (`RegionBehindCut`). `W <= Rounds`: the for loop may run as often as an
address has bits. The code has 32 for both; a shorter loop would still return an
aligned region of the block, and perhaps not the largest.

*The argument.* The inductive invariant is `SearchInv`. While the candidate grows it is
a region of 2^j units in the block (`Searching`), and `j` is at least the number
of rounds done, unless the candidate is the lower half of the address space, at
which the search stays: so the loop does not run out of rounds before that. A round
makes the region larger because bottom and top are 2^j apart: one of them is
an odd multiple of 2^j and the other an even one (`OddStep`). While it shrinks
(`Lowering`, `Raising`), the candidate of 2^k units is too large and one of 2^j
still fits, which is why the inner loops end inside the block and not below one
region. That no region is larger follows from the last one that was
not in the block: of two regions around an address the larger contains the smaller
(`Nested`), so none of a larger size fits (`NextTooLarge`). A stored end of one unit
more than the block has never lets a region end there, since regions and blocks
end on multiples of the smallest region (`Gap`).

The powers of two are a recursive function, and that `Pow2[k]` is positive, doubles
and divides the larger ones is induction on the exponent: `NaturalFacts` has the
induction, over a set of natural numbers, and the multiples.

## 6. Only model-checked, and not modelled

These properties are checked on the instances above and not proved.

* The properties of `Collect`, with `collect` among the calls. No inductive
  invariant exists: the calls of that instance are among those that break the
  free lists in a larger one.
* `NoFalseFault`. It does not hold in general: a stale piece in a spare region can
  refuse an access (section 4).
* `FaultReachesAncestor` and `FpuPrivate` outside the hypotheses of section 5, where
  they do not hold in general.
* `AccessServed`, `FaultHandled` and `Termination`: liveness under fairness is
  beyond the proof system.

Left out of the modules: `readMPU` and `getIntState`, which change no state; outside
`CoveringRegion` the last byte of a block, below the granularity of a unit: an
access to the first byte behind a cut may be taken by the handler for one to the
left part, which `RegionBehindCut` shows for the region alone. In `PipYield`: areas that overlap each
other or a VIDT, the registers of a context, and the exception frame that the
kernel pushes on the stack of the partition it enters.

Not modelled: register access for partitions, a table of allowed device registers
that holds no kernel state (a refused access ends in `Fault_Handler_C_Irq`, which is
`RaiseFault` of `PipYield`); the two debugging calls that set the privilege level;
start-up code, console and C library; vendored code; the Coq description of the
MAL, the proofs and the build. Of the lines of the repository most are
vendored device headers and drivers, on which no kernel behaviour depends.
