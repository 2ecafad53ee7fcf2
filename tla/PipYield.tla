------------------------------- MODULE PipYield --------------------------------
(***************************************************************************)
(* Transfer of control between partitions: the yield service (yield_c.c),  *)
(* the interrupt and fault handlers that reuse it (exception_handlers.c)   *)
(* and the interrupt state (pip_interrupt_calls.c).                        *)
(*                                                                         *)
(* The kernel runs with PRIMASK set, so a service call and an interrupt    *)
(* are one step each.  The handling of a fault is one step per level of    *)
(* the recursion of propagateFault; no partition runs between them.        *)
(*                                                                         *)
(* Partitions write their own memory at any time, VIDTs and contexts       *)
(* included.  A VIDT is a table of pointers to areas, the places a context *)
(* can be saved to or loaded from; areas do not overlap each other nor the *)
(* VIDTs.  The partition tree is fixed, and what a memory service does to  *)
(* it is one choice of the new rights.                                     *)
(***************************************************************************)
EXTENDS Naturals

CONSTANTS
  Partitions, Root,
  Parent,             \* the parent of each partition but the root
  Blocks,
  Areas,              \* addresses at which a context may be stored
  Vidts,              \* addresses at which a VIDT may be stored
  NULL,
  BlockOf,            \* the block an area or a VIDT lies in
  Aligned,            \* the areas on a 4-byte boundary
  Room,               \* the frames that fit between an area and the block end
  BigEnough,          \* the VIDTs whose block is as large as a VIDT
  Indices,            \* entries of a VIDT
  CLI_SAVE_INDEX, STI_SAVE_INDEX, DOUBLE_FAULT_LEVEL,
  Interrupts, Faults, \* exception numbers, indices of a VIDT too
  YieldIndices,       \* bound: the indices yields use
  Mappings,           \* bound: what the memory services may make of the rights
  VidtChoices,        \* bound: the VIDTs each partition may be given
  Pointers,           \* bound: what partitions write in each VIDT entry
  UserContexts,       \* bound: what partitions write in each area
  InitialMemory       \* bound: what the partitions have set up at first

\* An interrupt mask or pipflags is zero or not.
Flags  == {0, 1}
\* isBasicFrame is 1, 0, or a value that means nothing.
Frames == {"basic", "extended", "other"}
Contexts == [frame : Frames, pipflags : Flags]
\* A block that findBelongingBlock does not find, or that is not present,
\* has no rights: the callers treat the three cases alike.
Rights == SUBSET {"accessible", "read", "write"}

SaveIndices == {CLI_SAVE_INDEX, STI_SAVE_INDEX, DOUBLE_FAULT_LEVEL}

ASSUME TreeAssumption ==
  /\ Root \in Partitions
  /\ Parent \in [Partitions \ {Root} -> Partitions]

ASSUME PlacesAssumption ==
  /\ NULL \notin Areas \cup Vidts
  /\ NULL \notin [irq : Faults, at : Partitions, save : SaveIndices]
  /\ BlockOf \in [Areas \cup Vidts -> Blocks]
  /\ Room \in [Areas -> SUBSET {"basic", "extended"}]

ASSUME IndicesAssumption ==
  SaveIndices \cup Interrupts \cup Faults \cup YieldIndices \subseteq Indices

ASSUME BoundsAssumption ==
  /\ Mappings \subseteq [Partitions -> [Blocks -> Rights]]
  /\ VidtChoices \in [Partitions -> SUBSET (Vidts \cup {NULL})]
  /\ Pointers \in [Vidts -> [Indices -> SUBSET (Areas \cup {NULL})]]
  /\ UserContexts \in [Areas -> SUBSET Contexts]
  /\ InitialMemory \subseteq
       [rights   : Mappings,
        vidt     : [Partitions -> Vidts \cup {NULL}],
        table    : [Vidts -> [Indices -> Areas \cup {NULL}]],
        contexts : [Areas -> Contexts]]

VARIABLES
  cur,                   \* the current partition
  interruptState,        \* interruptState of each partition descriptor
  basepri,               \* BASEPRI masks interrupts
  rights,                \* rights of each partition on each block
  vidt,                  \* vidtAddr of each partition descriptor
  table,                 \* contexts of each VIDT
  currentInterrupt,      \* currentInterrupt of each VIDT
  contexts,              \* what each area holds
  usesFpu,               \* FPCA: the running context has used the FPU
  fpuHoldsData,          \* the FPU registers hold data of some context
  previousContextUseFpu,
  fault,                 \* the fault being propagated
  panic                  \* Kernel_Panic was called

memory == <<rights, vidt, table>>
vars == <<cur, interruptState, basepri, rights, vidt, table, currentInterrupt,
          contexts, usesFpu, fpuHoldsData, previousContextUseFpu,
          fault, panic>>

Fault == [irq : Faults, at : Partitions, save : SaveIndices]

TypeOK ==
  /\ cur \in Partitions
  /\ interruptState \in [Partitions -> Flags]
  /\ basepri \in BOOLEAN /\ panic \in BOOLEAN
  /\ usesFpu \in BOOLEAN /\ fpuHoldsData \in BOOLEAN
  /\ previousContextUseFpu \in BOOLEAN
  /\ rights \in [Partitions -> [Blocks -> Rights]]
  /\ vidt \in [Partitions -> Vidts \cup {NULL}]
  /\ table \in [Vidts -> [Indices -> Areas \cup {NULL}]]
  /\ currentInterrupt \in [Vidts -> Indices \cup {NULL}]
  /\ contexts \in [Areas -> Contexts]
  /\ fault \in Fault \cup {NULL}

-----------------------------------------------------------------------------
(* What yield checks.                                                      *)

MayUse(p, place, need) ==
  place # NULL /\ need \subseteq rights[p][BlockOf[place]]

VidtUsable(p) == MayUse(p, vidt[p], {"accessible"}) /\ vidt[p] \in BigEnough

Entry(p, i) == table[vidt[p]][i]

Loadable(p, a) ==
  /\ MayUse(p, a, {"accessible", "read"})
  /\ a \in Aligned
  /\ contexts[a].frame \in Room[a]

\* p can be entered by index i: its VIDT and the context it points to are valid.
Ready(p, i) == VidtUsable(p) /\ Loadable(p, Entry(p, i))

\* The frame that the exception entry stacks.
Interrupted == IF usesFpu THEN "extended" ELSE "basic"

-----------------------------------------------------------------------------
(* Plausible mistakes, one per property, each to stand in for a definition *)
(* below and show that the property then fails.                            *)

NoRoomCheck(caller, save) ==
  IF ~ MayUse(caller, save, {"accessible", "write"}) THEN "caller"
  ELSE IF save \notin Aligned THEN "callee" ELSE "success"

BlamesCallee(caller, save) ==
  IF ~ MayUse(caller, save, {"accessible", "write"}) THEN "callee"
  ELSE IF save \notin Aligned THEN "callee"
  ELSE IF Interrupted \notin Room[save] THEN "caller"
  ELSE "success"

CountedFromOne(callee, idx) == [currentInterrupt EXCEPT ![vidt[callee]] = idx + 1]

AnyoneMasks(callee, ctx)    == ctx.pipflags # 0

TrustsRoot(callee, flagsOnYield, ctx, clearFpu) ==
  /\ cur' = callee
  /\ interruptState' = [interruptState EXCEPT ![cur] = flagsOnYield,
                                              ![callee] = ctx.pipflags]
  /\ basepri' = (callee = Root /\ ctx.pipflags = 0)
  /\ usesFpu' = (ctx.frame = "extended")
  /\ fpuHoldsData' = (ctx.frame = "extended"
                        \/ (fpuHoldsData /\ ~ (clearFpu /\ callee # Root)))

SkipsToRoot(f)              == [f EXCEPT !.at = Root, !.save = DOUBLE_FAULT_LEVEL]
SameLevel(f)                == [f EXCEPT !.save = DOUBLE_FAULT_LEVEL]

-----------------------------------------------------------------------------
(* The results of yield, as far as the handlers tell them apart: the codes *)
(* that blame the caller, those that blame the callee, and success.        *)

saveSourcePartCtx(caller, save) ==
  IF ~ MayUse(caller, save, {"accessible", "write"}) THEN "caller"
  ELSE IF save \notin Aligned THEN "callee"
  ELSE IF Interrupted \notin Room[save] THEN "caller"
  ELSE "success"

getTargetPartVidt(callee, caller, idx, save) ==
  IF ~ Ready(callee, idx) THEN "callee"
  ELSE IF save = NULL THEN "success"
  ELSE saveSourcePartCtx(caller, save)

getSourcePartVidt(callee, caller, idx, saveIdx) ==
  IF ~ VidtUsable(caller) THEN "caller"
  ELSE getTargetPartVidt(callee, caller, idx, Entry(caller, saveIdx))

-----------------------------------------------------------------------------
(* The effects of yield.                                                   *)

writeContext(save, flagsOnWake) ==
  IF save = NULL THEN contexts
  ELSE [contexts EXCEPT ![save] = [frame |-> Interrupted, pipflags |-> flagsOnWake]]

announce(callee, idx) == [currentInterrupt EXCEPT ![vidt[callee]] = idx]

\* Only the root chooses not to be interrupted.
enforceInterrupts(callee, ctx) == ~ (callee = Root /\ ctx.pipflags = 0)

switchContext(callee, flagsOnYield, ctx, clearFpu) ==
  /\ cur' = callee
  /\ interruptState' = [interruptState EXCEPT ![cur] = flagsOnYield,
                                              ![callee] = ctx.pipflags]
  /\ basepri' = ~ enforceInterrupts(callee, ctx)
  /\ usesFpu' = (ctx.frame = "extended")
  /\ fpuHoldsData' = (ctx.frame = "extended" \/ (fpuHoldsData /\ ~ clearFpu))

\* The switch once every check has passed.  extended says whether the context
\* that was handed down, if any, is an FPU context.
enter(callee, idx, save, flagsOnYield, flagsOnWake, extended) ==
  /\ currentInterrupt' = announce(callee, idx)
  /\ contexts' = writeContext(save, flagsOnWake)
  /\ previousContextUseFpu' = extended
  /\ switchContext(callee, flagsOnYield, contexts'[Entry(callee, idx)], extended)

\* What a yield that fails has done by the time it fails.
refuse(callee, caller, idx) ==
  /\ currentInterrupt' = IF VidtUsable(caller) /\ VidtUsable(callee)
                         THEN announce(callee, idx) ELSE currentInterrupt
  /\ previousContextUseFpu' = IF VidtUsable(caller) /\ Ready(callee, idx)
                              THEN usesFpu ELSE previousContextUseFpu
  /\ UNCHANGED <<cur, interruptState, basepri, contexts, usesFpu, fpuHoldsData>>

\* The handlers' second attempt: nothing is saved and no interrupted context is
\* handed down, so that its isBasicFrame is read at address 0, where the vector
\* table has the non-null address of the stack.
fallback(callee, idx, flagsOnYield) ==
  IF Ready(callee, idx)
  THEN /\ enter(callee, idx, NULL, flagsOnYield, 0, FALSE)
       /\ UNCHANGED panic
  ELSE /\ currentInterrupt' = IF VidtUsable(callee) THEN announce(callee, idx)
                              ELSE currentInterrupt
       /\ panic' = TRUE
       /\ UNCHANGED <<cur, interruptState, basepri, contexts, usesFpu,
                      fpuHoldsData, previousContextUseFpu>>

\* An attempt to hand idx to callee that ends at callee, or in a failed second
\* attempt.
deliver(callee, caller, idx, saveIdx, flags, fallbackFlags) ==
  LET result == getSourcePartVidt(callee, caller, idx, saveIdx)
  IN  \/ /\ result = "success"
         /\ enter(callee, idx, Entry(caller, saveIdx), flags, flags, usesFpu)
         /\ UNCHANGED panic
      \/ /\ result = "caller"
         /\ fallback(callee, idx, fallbackFlags)

-----------------------------------------------------------------------------
(* What partitions do.                                                     *)

Running == ~ panic /\ fault = NULL

Children == {p \in Partitions \ {Root} : Parent[p] = cur}

\* Code of the partition: a VIDT entry, an area, an FPU instruction.
WriteEntry(v, i, a) ==
  /\ Running
  /\ MayUse(cur, v, {"accessible", "write"})
  /\ table' = [table EXCEPT ![v][i] = a]
  /\ UNCHANGED <<cur, interruptState, basepri, rights, vidt, currentInterrupt,
                 contexts, usesFpu, fpuHoldsData, previousContextUseFpu,
                 fault, panic>>

WriteContext(a, ctx) ==
  /\ Running
  /\ MayUse(cur, a, {"accessible", "write"})
  /\ contexts' = [contexts EXCEPT ![a] = ctx]
  /\ UNCHANGED <<memory, cur, interruptState, basepri, currentInterrupt,
                 usesFpu, fpuHoldsData, previousContextUseFpu, fault,
                 panic>>

UseFpu ==
  /\ Running
  /\ usesFpu' = TRUE /\ fpuHoldsData' = TRUE
  /\ UNCHANGED <<memory, cur, interruptState, basepri, currentInterrupt,
                 contexts, previousContextUseFpu, fault, panic>>

\* VidtChoices holds what passes the checks on the block's size and sharing.
setVIDT(p, v) ==
  /\ Running
  /\ p \in Children \cup {cur}
  /\ v = NULL \/ MayUse(p, v, {"accessible"})
  /\ vidt' = [vidt EXCEPT ![p] = v]
  /\ UNCHANGED <<cur, interruptState, basepri, rights, table, currentInterrupt,
                 contexts, usesFpu, fpuHoldsData, previousContextUseFpu,
                 fault, panic>>

\* A call to a memory service, for what it does to the rights.
MemoryService(r) ==
  /\ Running
  /\ rights' = r
  /\ UNCHANGED <<cur, interruptState, basepri, vidt, table, currentInterrupt,
                 contexts, usesFpu, fpuHoldsData, previousContextUseFpu,
                 fault, panic>>

setIntState(flags) ==
  /\ Running
  /\ interruptState' = [interruptState EXCEPT ![cur] = flags]
  /\ basepri' = IF cur = Root THEN flags = 0 ELSE basepri
  /\ UNCHANGED <<memory, cur, currentInterrupt, contexts, usesFpu,
                 fpuHoldsData, previousContextUseFpu, fault, panic>>

\* To itself, a child, or the parent.
Callees == Children \cup {cur} \cup (IF cur = Root THEN {} ELSE {Parent[cur]})

yield(callee, idx, saveIdx, flagsOnYield, flagsOnWake) ==
  /\ Running
  /\ callee \in Callees
  /\ IF getSourcePartVidt(callee, cur, idx, saveIdx) = "success"
     THEN enter(callee, idx, Entry(cur, saveIdx), flagsOnYield, flagsOnWake, usesFpu)
     ELSE refuse(callee, cur, idx)
  /\ UNCHANGED <<memory, fault, panic>>

-----------------------------------------------------------------------------
(* Exceptions.                                                             *)

saveIndexOf(state) == IF state = 0 THEN CLI_SAVE_INDEX ELSE STI_SAVE_INDEX

Interrupt(irq) ==
  LET state == interruptState[cur]
      saveIdx == saveIndexOf(state)
  IN  /\ Running /\ ~ basepri
      /\ \/ deliver(Root, cur, irq, saveIdx, state, 0)
         \/ /\ getSourcePartVidt(Root, cur, irq, saveIdx) = "callee"
            /\ refuse(Root, cur, irq)
            /\ panic' = TRUE
      /\ UNCHANGED <<memory, fault>>

\* The running partition faults.
RaiseFault(irq) ==
  /\ Running
  /\ fault' = [irq |-> irq, at |-> cur, save |-> saveIndexOf(interruptState[cur])]
  /\ UNCHANGED <<memory, cur, interruptState, basepri, currentInterrupt,
                 contexts, usesFpu, fpuHoldsData, previousContextUseFpu,
                 panic>>

doubleFault(f) == [f EXCEPT !.at = Parent[f.at], !.save = DOUBLE_FAULT_LEVEL]

\* One level of propagateFault: from fault.at to its parent.
propagateFault ==
  LET p == fault.at
      flags == interruptState[cur]
  IN  /\ ~ panic /\ fault # NULL
      /\ \/ /\ p = Root
            /\ panic' = TRUE /\ fault' = NULL
            /\ UNCHANGED <<cur, interruptState, basepri, currentInterrupt,
                           contexts, usesFpu, fpuHoldsData,
                           previousContextUseFpu>>
         \/ /\ p # Root
            /\ deliver(Parent[p], p, fault.irq, fault.save, flags, flags)
            /\ fault' = NULL
         \/ /\ p # Root
            /\ getSourcePartVidt(Parent[p], p, fault.irq, fault.save) = "callee"
            /\ refuse(Parent[p], p, fault.irq)
            /\ fault' = doubleFault(fault)
            /\ UNCHANGED panic
      /\ UNCHANGED memory

-----------------------------------------------------------------------------
(* Boot enters the root masked.  In the initial states the root runs with  *)
(* the partitions created and their memory set up, before any yield.       *)

Init ==
  /\ \E m \in InitialMemory : /\ rights = m.rights /\ vidt = m.vidt
                              /\ table = m.table /\ contexts = m.contexts
  /\ cur = Root
  /\ interruptState = [p \in Partitions |-> 0]
  /\ basepri = TRUE
  /\ currentInterrupt = [v \in Vidts |-> NULL]
  /\ usesFpu = FALSE /\ fpuHoldsData = FALSE /\ previousContextUseFpu = FALSE
  /\ fault = NULL
  /\ panic = FALSE

Next ==
  \/ \E v \in Vidts, i \in Indices : \E a \in Pointers[v][i] : WriteEntry(v, i, a)
  \/ \E a \in Areas : \E ctx \in UserContexts[a] : WriteContext(a, ctx)
  \/ UseFpu
  \/ \E p \in Partitions : \E v \in VidtChoices[p] : setVIDT(p, v)
  \/ \E r \in Mappings : MemoryService(r)
  \/ \E flags \in Flags : setIntState(flags)
  \/ \E callee \in Partitions, idx, saveIdx \in YieldIndices,
        flagsOnYield, flagsOnWake \in Flags :
          yield(callee, idx, saveIdx, flagsOnYield, flagsOnWake)
  \/ \E irq \in Interrupts : Interrupt(irq)
  \/ \E irq \in Faults : RaiseFault(irq)
  \/ propagateFault

\* The processor goes on with a handler it has entered; nothing makes a
\* partition run a given instruction, or an interrupt arrive.
Spec == Init /\ [][Next]_vars /\ WF_vars(propagateFault)
-----------------------------------------------------------------------------
(* Properties.                                                             *)

\* Interrupts are masked exactly while the root runs in state 0: whoever else
\* runs can be interrupted, whatever context it was entered with, and the root
\* gets the state it asked for back with its context (yield_c.c:770, "Only the
\* root partition can choose to be interrupted or not").
OnlyRootMasks == basepri = (cur = Root /\ interruptState[Root] = 0)

\* A context without FPU starts and runs with clear FPU registers, whichever
\* contexts ran before and whether or not they were saved (yield_c.c:822, "clear
\* it in order to avoid data leakage").
FpuPrivate == ~ usesFpu => ~ fpuHoldsData

\* What runs after the step is the context that the VIDT designates for the
\* interrupt announced there, in a block that the partition may read.
Resumed ==
  LET v == vidt[cur']
      a == table[v][currentInterrupt'[v]]
  IN  /\ MayUse(cur', a, {"accessible", "read"})
      /\ contexts'[a].frame \in Room[a]
      /\ usesFpu' = (contexts'[a].frame = "extended")
      /\ interruptState'[cur'] = contexts'[a].pipflags

\* Another partition that starts running resumes such a context, although the
\* save may have written over it after the checks (yield_c.c:497, "enough space
\* between the address of the context of the callee and the end").
ResumesAnnounced == [][cur' # cur => Resumed]_vars

\* An interrupt that the root can handle is handled by the root, in whatever
\* condition the interrupted partition left its own VIDT and save areas
\* (exception_handlers.c:123, "the save of the interrupted context is abandoned
\* and the context of the root partition ... is restored").
InterruptReachesRoot ==
  [][\A irq \in Interrupts :
       Interrupt(irq) /\ Ready(Root, irq)
         => ~ panic' /\ cur' = Root
            /\ currentInterrupt'[vidt[Root]] = irq]_vars

\* The least set with the parent of p and the parents of its members.
ancestors(p) ==
  LET Above(q) == IF q = Root THEN {} ELSE {Parent[q]}
  IN  {a \in Partitions :
         \A s \in SUBSET Partitions :
           Above(p) \cup UNION {Above(q) : q \in s} \subseteq s => a \in s}

\* The kernel gives up on a fault only if no ancestor of the partition that
\* faulted can handle it (exception_handlers.c:269, "the fault is propagated to
\* the grandparent, up to the root partition").
FaultReachesAncestor ==
  [][fault # NULL /\ panic'
       => \A p \in ancestors(cur) : ~ Ready(p, fault.irq)]_vars

\* A fault is eventually taken by an ancestor, or the kernel stops on it: the
\* recursion over the levels ends.
FaultHandled == fault # NULL ~> fault = NULL
=============================================================================
