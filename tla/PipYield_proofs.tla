--------------------------- MODULE PipYield_proofs -----------------------------
(***************************************************************************)
(* Proofs about the transfer of control, for every tree of partitions,     *)
(* layout of memory and choice of the bounds.                              *)
(***************************************************************************)
EXTENDS PipYield, TLAPS

\* The part of the type invariant that the switch of context changes.
Control ==
  /\ cur \in Partitions
  /\ interruptState \in [Partitions -> Flags]
  /\ basepri \in BOOLEAN
  /\ usesFpu \in BOOLEAN /\ fpuHoldsData \in BOOLEAN
  /\ previousContextUseFpu \in BOOLEAN
  /\ currentInterrupt \in [Vidts -> Indices \cup {NULL}]
  /\ contexts \in [Areas -> Contexts]

\* The inductive invariant.  That the switch sets BASEPRI from the flags of the
\* context needs the types of the state the flags end up in.
IInv == TypeOK /\ OnlyRootMasks

-----------------------------------------------------------------------------
(* The operators that yield is made of.                                    *)

\* What a usable VIDT lists are areas of memory, or nothing.
LEMMA UsableVidt ==
  ASSUME TypeOK, NEW p \in Partitions, VidtUsable(p)
  PROVE  /\ vidt[p] \in Vidts
         /\ \A i \in Indices : Entry(p, i) \in Areas \cup {NULL}
  BY PlacesAssumption DEF TypeOK, VidtUsable, MayUse, Entry

\* Who is ready for an interrupt has a context for it, readable and whole.
LEMMA ReadyTarget ==
  ASSUME TypeOK, NEW p \in Partitions, NEW i \in Indices, Ready(p, i)
  PROVE  /\ Entry(p, i) \in Areas
         /\ MayUse(p, Entry(p, i), {"accessible", "read"})
         /\ contexts[Entry(p, i)].frame \in Room[Entry(p, i)]
  BY UsableVidt DEF Ready, Loadable, MayUse

\* Whatever is saved, every area holds a context, and one whose frame fits in it
\* when it fitted before.
LEMMA WriteContextTypes ==
  ASSUME TypeOK, NEW save \in Areas \cup {NULL}, NEW f \in Flags
  PROVE  writeContext(save, f) \in [Areas -> Contexts]
  <1>1. [frame |-> Interrupted, pipflags |-> f] \in Contexts
    BY DEF Interrupted, Contexts, Frames
  <1>2. QED
    BY <1>1 DEF TypeOK, writeContext

\* The index announced is written to the VIDT of the partition that runs.
LEMMA AnnounceTypes ==
  ASSUME TypeOK, NEW p \in Partitions, VidtUsable(p), NEW i \in Indices
  PROVE  /\ announce(p, i) \in [Vidts -> Indices \cup {NULL}]
         /\ announce(p, i)[vidt[p]] = i
  BY UsableVidt DEF TypeOK, announce

\* switchContext makes the callee run with the flags of its context, and masks
\* interrupts only for the root.
LEMMA Switch ==
  ASSUME TypeOK, NEW callee \in Partitions, NEW f \in Flags, NEW ctx \in Contexts,
         NEW clear \in BOOLEAN, switchContext(callee, f, ctx, clear)
  PROVE  /\ cur' = callee
         /\ interruptState' \in [Partitions -> Flags]
         /\ interruptState'[callee] = ctx.pipflags
         /\ usesFpu' = (ctx.frame = "extended")
         /\ basepri' \in BOOLEAN /\ usesFpu' \in BOOLEAN /\ fpuHoldsData' \in BOOLEAN
         /\ OnlyRootMasks'
  <1>1. ctx.pipflags \in Flags
    BY DEF Contexts
  <1>2. /\ interruptState' \in [Partitions -> Flags]
        /\ interruptState'[callee] = ctx.pipflags
    BY <1>1 DEF TypeOK, switchContext
  <1>3. basepri' = (callee = Root /\ ctx.pipflags = 0)
    BY DEF switchContext, enforceInterrupts
  <1>4. OnlyRootMasks'
    BY <1>2, <1>3, TreeAssumption DEF switchContext, OnlyRootMasks
  <1>5. QED
    BY <1>2, <1>3, <1>4, Zenon DEF switchContext

\* The tail of a yield that succeeds leaves all it writes well typed.
LEMMA Enter ==
  ASSUME TypeOK, NEW callee \in Partitions, NEW i \in Indices,
         NEW save \in Areas \cup {NULL}, NEW f \in Flags, NEW w \in Flags,
         NEW extended \in BOOLEAN, Ready(callee, i),
         enter(callee, i, save, f, w, extended)
  PROVE  Control' /\ OnlyRootMasks'
  <1> DEFINE ctx == contexts'[Entry(callee, i)]
  <1>1. VidtUsable(callee)
    BY DEF Ready
  <1>2. contexts' \in [Areas -> Contexts]
    BY WriteContextTypes DEF enter
  <1>3. ctx \in Contexts
    BY <1>2, ReadyTarget
  <1>4. switchContext(callee, f, ctx, extended)
    BY DEF enter
  <1> HIDE DEF ctx
  <1>5. /\ cur' = callee
        /\ interruptState' \in [Partitions -> Flags]
        /\ basepri' \in BOOLEAN /\ usesFpu' \in BOOLEAN /\ fpuHoldsData' \in BOOLEAN
        /\ OnlyRootMasks'
    BY <1>3, <1>4, Switch
  <1>6. currentInterrupt' \in [Vidts -> Indices \cup {NULL}]
    BY <1>1, AnnounceTypes DEF enter
  <1>7. previousContextUseFpu' \in BOOLEAN
    BY DEF enter
  <1>8. QED
    BY <1>2, <1>5, <1>6, <1>7, Zenon DEF Control

\* A refused yield leaves the partition that made it running, as masked as it was.
LEMMA Refuse ==
  ASSUME IInv, NEW callee \in Partitions, NEW caller \in Partitions,
         NEW i \in Indices, refuse(callee, caller, i)
  PROVE  Control' /\ OnlyRootMasks'
  <1> USE DEF IInv
  <1>1. currentInterrupt' \in [Vidts -> Indices \cup {NULL}]
    BY AnnounceTypes DEF refuse, TypeOK
  <1>2. previousContextUseFpu' \in BOOLEAN
    BY DEF refuse, TypeOK
  <1>3. UNCHANGED <<cur, interruptState, basepri, contexts, usesFpu, fpuHoldsData>>
    BY DEF refuse
  <1>4. OnlyRootMasks'
    BY <1>3 DEF OnlyRootMasks
  <1>5. QED
    BY <1>1, <1>2, <1>3, <1>4 DEF Control, TypeOK

\* A second attempt of a handler, with nothing to save, enters the callee or
\* gives up.
LEMMA Fallback ==
  ASSUME IInv, NEW callee \in Partitions, NEW i \in Indices, NEW f \in Flags,
         fallback(callee, i, f)
  PROVE  Control' /\ OnlyRootMasks' /\ panic' \in BOOLEAN
  <1> USE DEF IInv
  <1>1. CASE Ready(callee, i)
    <2>1. enter(callee, i, NULL, f, 0, FALSE) /\ UNCHANGED panic
      BY <1>1 DEF fallback
    <2>2. 0 \in Flags
      BY DEF Flags
    <2>3. QED
      BY <1>1, <2>1, <2>2, Enter DEF TypeOK
  <1>2. CASE ~ Ready(callee, i)
    <2>1. /\ currentInterrupt' = IF VidtUsable(callee) THEN announce(callee, i)
                                 ELSE currentInterrupt
          /\ panic' = TRUE
          /\ UNCHANGED <<cur, interruptState, basepri, contexts, usesFpu,
                         fpuHoldsData, previousContextUseFpu>>
      BY <1>2 DEF fallback
    <2>2. currentInterrupt' \in [Vidts -> Indices \cup {NULL}]
      BY <2>1, AnnounceTypes DEF TypeOK
    <2>3. OnlyRootMasks'
      BY <2>1 DEF OnlyRootMasks
    <2>4. QED
      BY <2>1, <2>2, <2>3 DEF Control, TypeOK
  <1>3. QED
    BY <1>1, <1>2

\* A yield succeeds only if the callee can be entered and the caller's save
\* address is null or an area that the interrupted frame fits in.
LEMMA Success ==
  ASSUME TypeOK, NEW callee \in Partitions, NEW caller \in Partitions,
         NEW i \in Indices, NEW s \in Indices,
         getSourcePartVidt(callee, caller, i, s) = "success"
  PROVE  /\ Ready(callee, i)
         /\ VidtUsable(caller)
         /\ Entry(caller, s) \in Areas \cup {NULL}
         /\ Entry(caller, s) # NULL => Interrupted \in Room[Entry(caller, s)]
  <1>1. VidtUsable(caller)
    BY DEF getSourcePartVidt
  <1>2. getTargetPartVidt(callee, caller, i, Entry(caller, s)) = "success"
    BY <1>1 DEF getSourcePartVidt
  <1>3. Ready(callee, i)
    BY <1>2 DEF getTargetPartVidt
  <1>4. Entry(caller, s) # NULL => saveSourcePartCtx(caller, Entry(caller, s)) = "success"
    BY <1>2, <1>3 DEF getTargetPartVidt
  <1>5. Entry(caller, s) # NULL => Interrupted \in Room[Entry(caller, s)]
    BY <1>4 DEF saveSourcePartCtx
  <1>6. QED
    BY <1>1, <1>3, <1>5, UsableVidt

\* A handler enters the callee, or tries again with nothing to save.
LEMMA Deliver ==
  ASSUME IInv, NEW callee \in Partitions, NEW caller \in Partitions,
         NEW i \in Indices, NEW s \in Indices, NEW f \in Flags, NEW g \in Flags,
         deliver(callee, caller, i, s, f, g)
  PROVE  Control' /\ OnlyRootMasks' /\ panic' \in BOOLEAN
  <1> USE DEF IInv
  <1>1. CASE /\ getSourcePartVidt(callee, caller, i, s) = "success"
             /\ enter(callee, i, Entry(caller, s), f, f, usesFpu)
             /\ UNCHANGED panic
    <2>1. Ready(callee, i) /\ Entry(caller, s) \in Areas \cup {NULL}
      BY <1>1, Success
    <2>2. usesFpu \in BOOLEAN /\ panic \in BOOLEAN
      BY DEF TypeOK
    <2>3. QED
      BY <1>1, <2>1, <2>2, Enter
  <1>2. CASE fallback(callee, i, g)
    BY <1>2, Fallback
  <1>3. QED
    BY <1>1, <1>2 DEF deliver

-----------------------------------------------------------------------------
(* Type correctness, and who masks interrupts.                             *)

\* Every step keeps the types, and leaves the mask to the root.
LEMMA Inductive == IInv /\ [Next]_vars => IInv'
  <1> SUFFICES ASSUME IInv, [Next]_vars PROVE IInv'
    OBVIOUS
  <1> USE DEF IInv
  \* A step that leaves the memory alone is typed by what it does to the rest.
  <1>a. ASSUME Control', OnlyRootMasks', UNCHANGED memory, panic' \in BOOLEAN,
               fault' \in Fault \cup {NULL}
        PROVE  IInv'
    BY <1>a DEF Control, TypeOK, memory
  <1>b. /\ panic \in BOOLEAN /\ fault \in Fault \cup {NULL}
        /\ cur \in Partitions
        /\ \A p \in Partitions : interruptState[p] \in Flags
    BY DEF TypeOK
  <1>1. ASSUME NEW v \in Vidts, NEW i \in Indices, NEW a \in Pointers[v][i],
               WriteEntry(v, i, a)
        PROVE  IInv'
    <2>1. a \in Areas \cup {NULL}
      BY BoundsAssumption
    <2>2. table' \in [Vidts -> [Indices -> Areas \cup {NULL}]]
      BY <1>1, <2>1 DEF WriteEntry, TypeOK
    <2>3. QED
      BY <1>1, <2>2 DEF WriteEntry, TypeOK, OnlyRootMasks
  <1>2. ASSUME NEW a \in Areas, NEW ctx \in UserContexts[a], WriteContext(a, ctx)
        PROVE  IInv'
    <2>1. ctx \in Contexts
      BY BoundsAssumption
    <2>2. contexts' \in [Areas -> Contexts]
      BY <1>2, <2>1 DEF WriteContext, TypeOK
    <2>3. QED
      BY <1>2, <2>2 DEF WriteContext, TypeOK, OnlyRootMasks, memory
  <1>3. ASSUME UseFpu PROVE IInv'
    BY <1>3 DEF UseFpu, TypeOK, OnlyRootMasks, memory
  <1>4. ASSUME NEW p \in Partitions, NEW v \in VidtChoices[p], setVIDT(p, v)
        PROVE  IInv'
    <2>1. v \in Vidts \cup {NULL}
      BY BoundsAssumption
    <2>2. vidt' \in [Partitions -> Vidts \cup {NULL}]
      BY <1>4, <2>1 DEF setVIDT, TypeOK
    <2>3. QED
      BY <1>4, <2>2 DEF setVIDT, TypeOK, OnlyRootMasks
  <1>5. ASSUME NEW r \in Mappings, MemoryService(r) PROVE IInv'
    <2>1. rights' \in [Partitions -> [Blocks -> Rights]]
      BY <1>5, BoundsAssumption DEF MemoryService
    <2>2. QED
      BY <1>5, <2>1 DEF MemoryService, TypeOK, OnlyRootMasks
  <1>6. ASSUME NEW flags \in Flags, setIntState(flags) PROVE IInv'
    <2>1. /\ interruptState' = [interruptState EXCEPT ![cur] = flags]
          /\ basepri' = IF cur = Root THEN flags = 0 ELSE basepri
          /\ UNCHANGED <<memory, cur, currentInterrupt, contexts, usesFpu,
                         fpuHoldsData, previousContextUseFpu, fault, panic>>
      BY <1>6 DEF setIntState
    <2>2. interruptState' \in [Partitions -> Flags]
      BY <2>1 DEF TypeOK
    <2>3. basepri' \in BOOLEAN
      BY <2>1 DEF TypeOK
    <2>4. OnlyRootMasks'
      <3>1. CASE cur = Root
        BY <3>1, <2>1 DEF OnlyRootMasks, TypeOK
      <3>2. CASE cur # Root
        BY <3>2, <2>1 DEF OnlyRootMasks, TypeOK
      <3>3. QED
        BY <3>1, <3>2
    <2>5. Control'
      BY <2>1, <2>2, <2>3 DEF Control, TypeOK
    <2>6. QED
      BY <1>a, <1>b, <2>1, <2>4, <2>5
  <1>8. ASSUME NEW callee \in Partitions, NEW i \in YieldIndices, NEW s \in YieldIndices,
               NEW f \in Flags, NEW w \in Flags, yield(callee, i, s, f, w)
        PROVE  IInv'
    <2>1. i \in Indices /\ s \in Indices
      BY IndicesAssumption
    <2>2. UNCHANGED <<memory, fault, panic>>
      BY <1>8 DEF yield
    <2>3. CASE getSourcePartVidt(callee, cur, i, s) = "success"
      <3>1. enter(callee, i, Entry(cur, s), f, w, usesFpu)
        BY <1>8, <2>3 DEF yield
      <3>2. Ready(callee, i) /\ Entry(cur, s) \in Areas \cup {NULL}
        BY <1>b, <2>1, <2>3, Success
      <3>3. usesFpu \in BOOLEAN
        BY DEF TypeOK
      <3>4. Control' /\ OnlyRootMasks'
        BY <2>1, <3>1, <3>2, <3>3, Enter
      <3>5. QED
        BY <1>a, <1>b, <2>2, <3>4
    <2>4. CASE getSourcePartVidt(callee, cur, i, s) # "success"
      <3>1. refuse(callee, cur, i)
        BY <1>8, <2>4 DEF yield
      <3>2. Control' /\ OnlyRootMasks'
        BY <1>b, <2>1, <3>1, Refuse
      <3>3. QED
        BY <1>a, <1>b, <2>2, <3>2
    <2>5. QED
      BY <2>3, <2>4
  <1>9. ASSUME NEW irq \in Interrupts, Interrupt(irq) PROVE IInv'
    <2> DEFINE state == interruptState[cur]
               save  == saveIndexOf(state)
    <2>1. /\ irq \in Indices /\ save \in Indices
          /\ state \in Flags /\ 0 \in Flags
      BY <1>b, IndicesAssumption DEF saveIndexOf, SaveIndices, Flags
    <2>2. /\ deliver(Root, cur, irq, save, state, 0)
             \/ (refuse(Root, cur, irq) /\ panic' = TRUE)
          /\ UNCHANGED <<memory, fault>>
      BY <1>9 DEF Interrupt
    <2> HIDE DEF state, save
    <2>3. Root \in Partitions
      BY TreeAssumption
    <2>4. CASE deliver(Root, cur, irq, save, state, 0)
      <3>1. Control' /\ OnlyRootMasks' /\ panic' \in BOOLEAN
        BY <1>b, <2>1, <2>3, <2>4, Deliver
      <3>2. QED
        BY <1>a, <1>b, <2>2, <3>1
    <2>5. CASE refuse(Root, cur, irq) /\ panic' = TRUE
      <3>1. Control' /\ OnlyRootMasks'
        BY <1>b, <2>1, <2>3, <2>5, Refuse
      <3>2. QED
        BY <1>a, <1>b, <2>2, <2>5, <3>1
    <2>6. QED
      BY <2>2, <2>4, <2>5
  <1>10. ASSUME NEW irq \in Faults, RaiseFault(irq) PROVE IInv'
    <2>1. fault' \in Fault
      BY <1>10, <1>b DEF RaiseFault, Fault, saveIndexOf, SaveIndices
    <2>2. QED
      BY <1>10, <2>1 DEF RaiseFault, TypeOK, OnlyRootMasks, memory
  <1>11. ASSUME propagateFault PROVE IInv'
    <2> DEFINE p     == fault.at
               flags == interruptState[cur]
    <2>1. fault \in Fault
      BY <1>11, <1>b DEF propagateFault
    <2>2. /\ p \in Partitions /\ fault.irq \in Indices /\ fault.save \in Indices
          /\ flags \in Flags
          /\ p # Root => Parent[p] \in Partitions
      BY <2>1, <1>b, IndicesAssumption, TreeAssumption DEF Fault
    <2>3. UNCHANGED memory
      BY <1>11 DEF propagateFault
    <2>4. NULL \in Fault \cup {NULL}
      OBVIOUS
    <2>5. CASE /\ panic' = TRUE /\ fault' = NULL
               /\ UNCHANGED <<cur, interruptState, basepri, currentInterrupt,
                              contexts, usesFpu, fpuHoldsData,
                              previousContextUseFpu>>
      BY <2>3, <2>5 DEF TypeOK, OnlyRootMasks, memory
    <2>6. CASE /\ p # Root
               /\ deliver(Parent[p], p, fault.irq, fault.save, flags, flags)
               /\ fault' = NULL
      <3>1. Control' /\ OnlyRootMasks' /\ panic' \in BOOLEAN
        BY <2>2, <2>6, Deliver
      <3>2. QED
        BY <1>a, <1>b, <2>3, <2>4, <2>6, <3>1
    <2>7. CASE /\ p # Root
               /\ refuse(Parent[p], p, fault.irq)
               /\ fault' = doubleFault(fault)
               /\ UNCHANGED panic
      <3>1. Control' /\ OnlyRootMasks'
        BY <2>2, <2>7, Refuse
      <3>2. fault' \in Fault
        BY <2>1, <2>2, <2>7 DEF doubleFault, Fault, SaveIndices
      <3>3. QED
        BY <1>a, <1>b, <2>3, <2>7, <3>1, <3>2
    <2>8. QED
      BY <1>11, <2>5, <2>6, <2>7 DEF propagateFault
  <1>12. CASE UNCHANGED vars
    BY <1>12 DEF vars, TypeOK, OnlyRootMasks
  <1>13. QED
    BY <1>1, <1>2, <1>3, <1>4, <1>5, <1>6, <1>8, <1>9, <1>10, <1>11, <1>12
    DEF Next

\* The boot starts the root in a state of the invariant.
LEMMA Initial == Init => IInv
  <1> SUFFICES ASSUME Init PROVE IInv
    OBVIOUS
  <1>1. /\ rights \in [Partitions -> [Blocks -> Rights]]
        /\ vidt \in [Partitions -> Vidts \cup {NULL}]
        /\ table \in [Vidts -> [Indices -> Areas \cup {NULL}]]
        /\ contexts \in [Areas -> Contexts]
    BY BoundsAssumption DEF Init
  <1>2. QED
    BY <1>1, TreeAssumption DEF Init, IInv, TypeOK, OnlyRootMasks, Flags

\* The inductive invariant holds in every reachable state.
LEMMA Invariance == Spec => []IInv
  BY Initial, Inductive, PTL DEF Spec

\* Every variable keeps its type: whatever partitions write in VIDTs and
\* contexts, the kernel only enters partitions and saves frames.
THEOREM YieldTypeCorrect == Spec => []TypeOK
  <1>1. IInv => TypeOK
    BY DEF IInv
  <1>2. QED
    BY <1>1, Invariance, PTL

\* Interrupts are masked exactly while the root runs in state 0, across yields,
\* interrupts, faults and setIntState.
THEOREM RootMasking == Spec => []OnlyRootMasks
  <1>1. IInv => OnlyRootMasks
    BY DEF IInv
  <1>2. QED
    BY <1>1, Invariance, PTL

-----------------------------------------------------------------------------
(* What a partition resumes.                                               *)

\* The callee resumes the context its VIDT lists, even if the caller was saved
\* to it just before.
LEMMA EnterResumes ==
  ASSUME TypeOK, NEW callee \in Partitions, NEW i \in Indices,
         NEW save \in Areas \cup {NULL}, NEW f \in Flags, NEW w \in Flags,
         NEW extended \in BOOLEAN, Ready(callee, i),
         save # NULL => Interrupted \in Room[save],
         enter(callee, i, save, f, w, extended)
  PROVE  /\ cur' = callee
         /\ currentInterrupt'[vidt[callee]] = i
         /\ Resumed
  <1> DEFINE a == Entry(callee, i)
  <1>1. /\ a \in Areas
        /\ MayUse(callee, a, {"accessible", "read"})
        /\ contexts[a].frame \in Room[a]
    BY ReadyTarget
  <1>2. VidtUsable(callee)
    BY DEF Ready
  <1>3. currentInterrupt'[vidt[callee]] = i
    BY <1>2, AnnounceTypes DEF enter
  <1>4. contexts' = writeContext(save, w) /\ contexts' \in [Areas -> Contexts]
    BY WriteContextTypes DEF enter
  <1>5. contexts'[a].frame \in Room[a]
    <2>1. CASE save = NULL
      BY <1>1, <1>4, <2>1 DEF writeContext
    <2>2. CASE save # NULL
      <3>1. contexts' = [contexts EXCEPT ![save] = [frame |-> Interrupted,
                                                    pipflags |-> w]]
        BY <1>4, <2>2 DEF writeContext
      <3>2. CASE a = save
        BY <1>1, <2>2, <3>1, <3>2 DEF TypeOK
      <3>3. CASE a # save
        BY <1>1, <3>1, <3>3 DEF TypeOK
      <3>4. QED
        BY <3>2, <3>3
    <2>3. QED
      BY <2>1, <2>2
  <1>6. switchContext(callee, f, contexts'[a], extended) /\ contexts'[a] \in Contexts
    BY <1>1, <1>4 DEF enter
  <1>7. /\ cur' = callee
        /\ interruptState'[callee] = contexts'[a].pipflags
        /\ usesFpu' = (contexts'[a].frame = "extended")
    BY <1>6, Switch
  <1>8. table[vidt[cur']][currentInterrupt'[vidt[cur']]] = a
    BY <1>3, <1>7 DEF Entry
  <1> HIDE DEF a
  <1>9. Resumed
    BY <1>1, <1>5, <1>7, <1>8, Zenon DEF Resumed
  <1>10. QED
    BY <1>3, <1>7, <1>9

\* A handler resumes the callee's context, or leaves the partition running that
\* cannot be served.
LEMMA DeliverResumes ==
  ASSUME TypeOK, NEW callee \in Partitions, NEW caller \in Partitions,
         NEW i \in Indices, NEW s \in Indices, NEW f \in Flags, NEW g \in Flags,
         deliver(callee, caller, i, s, f, g)
  PROVE  \/ cur' = callee /\ currentInterrupt'[vidt[callee]] = i /\ Resumed
            /\ UNCHANGED panic
         \/ cur' = cur /\ ~ Ready(callee, i)
  <1>1. CASE /\ getSourcePartVidt(callee, caller, i, s) = "success"
             /\ enter(callee, i, Entry(caller, s), f, f, usesFpu)
             /\ UNCHANGED panic
    <2>1. usesFpu \in BOOLEAN
      BY DEF TypeOK
    <2>2. /\ Ready(callee, i)
          /\ Entry(caller, s) \in Areas \cup {NULL}
          /\ Entry(caller, s) # NULL => Interrupted \in Room[Entry(caller, s)]
      BY <1>1, Success
    <2>3. cur' = callee /\ currentInterrupt'[vidt[callee]] = i /\ Resumed
      BY <1>1, <2>1, <2>2, EnterResumes
    <2>4. QED
      BY <1>1, <2>3
  <1>2. CASE fallback(callee, i, g) /\ Ready(callee, i)
    <2>1. enter(callee, i, NULL, g, 0, FALSE) /\ UNCHANGED panic
      BY <1>2 DEF fallback
    <2>2. 0 \in Flags
      BY DEF Flags
    <2>3. QED
      BY <1>2, <2>1, <2>2, EnterResumes
  <1>3. CASE fallback(callee, i, g) /\ ~ Ready(callee, i)
    BY <1>3 DEF fallback
  <1>4. QED
    BY <1>1, <1>2, <1>3 DEF deliver

\* No step switches partitions without resuming one of the contexts of the
\* next.
LEMMA StepResumes == TypeOK /\ [Next]_vars => [cur' # cur => Resumed]_vars
  <1> SUFFICES ASSUME TypeOK, Next, cur' # cur PROVE Resumed
    OBVIOUS
  <1>1. /\ cur \in Partitions /\ usesFpu \in BOOLEAN /\ 0 \in Flags
        /\ \A p \in Partitions : interruptState[p] \in Flags
    BY DEF TypeOK, Flags
  <1>2. ASSUME NEW callee \in Partitions, NEW i \in YieldIndices, NEW s \in YieldIndices,
               NEW f \in Flags, NEW w \in Flags, yield(callee, i, s, f, w)
        PROVE  Resumed
    <2>1. i \in Indices /\ s \in Indices
      BY IndicesAssumption
    <2>2. getSourcePartVidt(callee, cur, i, s) = "success"
      BY <1>2 DEF yield, refuse
    <2>3. enter(callee, i, Entry(cur, s), f, w, usesFpu)
      BY <1>2, <2>2 DEF yield
    <2>4. /\ Ready(callee, i)
          /\ Entry(cur, s) \in Areas \cup {NULL}
          /\ Entry(cur, s) # NULL => Interrupted \in Room[Entry(cur, s)]
      BY <1>1, <2>1, <2>2, Success
    <2>5. QED
      BY <1>1, <2>1, <2>3, <2>4, EnterResumes
  <1>3. ASSUME NEW irq \in Interrupts, Interrupt(irq) PROVE Resumed
    <2> DEFINE state == interruptState[cur]
               save  == saveIndexOf(state)
    <2>1. /\ irq \in Indices /\ save \in Indices /\ state \in Flags
          /\ Root \in Partitions
      BY <1>1, IndicesAssumption, TreeAssumption DEF saveIndexOf, SaveIndices
    <2>2. deliver(Root, cur, irq, save, state, 0)
      BY <1>3 DEF Interrupt, refuse
    <2>3. QED
      BY <1>1, <2>1, <2>2, DeliverResumes
  <1>4. ASSUME propagateFault PROVE Resumed
    <2> DEFINE p     == fault.at
               flags == interruptState[cur]
    <2>1. p # Root /\ deliver(Parent[p], p, fault.irq, fault.save, flags, flags)
      BY <1>4 DEF propagateFault, refuse
    <2>2. fault \in Fault
      BY <1>4 DEF propagateFault, TypeOK
    <2>3. /\ p \in Partitions /\ fault.irq \in Indices /\ fault.save \in Indices
          /\ flags \in Flags /\ Parent[p] \in Partitions
      BY <1>1, <2>1, <2>2, IndicesAssumption, TreeAssumption DEF Fault
    <2>4. QED
      BY <2>1, <2>3, DeliverResumes
  <1>5. QED
    BY <1>2, <1>3, <1>4
    DEF Next, WriteEntry, WriteContext, UseFpu, setVIDT, MemoryService,
        setIntState, RaiseFault

\* A partition that starts running resumes the context that its VIDT holds for
\* the announced interrupt, whole and in a block it may read, even when the save
\* has just written over that context.
THEOREM Resumption == Spec => ResumesAnnounced
  BY YieldTypeCorrect, StepResumes, PTL DEF Spec, ResumesAnnounced

\* An interrupt the root is ready for reaches the root.
LEMMA InterruptStep ==
  ASSUME Areas \subseteq Aligned, TypeOK, NEW irq \in Interrupts,
         Interrupt(irq), Ready(Root, irq)
  PROVE  ~ panic' /\ cur' = Root /\ currentInterrupt'[vidt[Root]] = irq
  <1> DEFINE state == interruptState[cur]
             save  == saveIndexOf(state)
  <1>1. /\ irq \in Indices /\ save \in Indices /\ state \in Flags /\ 0 \in Flags
        /\ Root \in Partitions /\ cur \in Partitions
    BY IndicesAssumption, TreeAssumption DEF TypeOK, saveIndexOf, SaveIndices, Flags
  <1>2. getSourcePartVidt(Root, cur, irq, save) # "callee"
    <2>1. CASE VidtUsable(cur)
      <3>1. Entry(cur, save) \in Areas \cup {NULL}
        BY <1>1, <2>1, UsableVidt
      <3>2. Entry(cur, save) # NULL
              => saveSourcePartCtx(cur, Entry(cur, save)) # "callee"
        BY <3>1 DEF saveSourcePartCtx
      <3>3. QED
        BY <2>1, <3>2 DEF getSourcePartVidt, getTargetPartVidt
    <2>2. CASE ~ VidtUsable(cur)
      BY <2>2 DEF getSourcePartVidt
    <2>3. QED
      BY <2>1, <2>2
  <1>3. deliver(Root, cur, irq, save, state, 0) /\ ~ panic
    BY <1>2 DEF Interrupt, Running
  <1>4. QED
    BY <1>1, <1>3, DeliverResumes

\* When save addresses are aligned, an interrupt that the root can handle is
\* handled by the root, whatever else is wrong with the VIDT and the save areas
\* of the partition it interrupts.
THEOREM InterruptDelivery ==
  ASSUME Areas \subseteq Aligned
  PROVE  Spec => InterruptReachesRoot
  <1>1. TypeOK => [\A irq \in Interrupts :
                     Interrupt(irq) /\ Ready(Root, irq)
                       => ~ panic' /\ cur' = Root
                          /\ currentInterrupt'[vidt[Root]] = irq]_vars
    BY InterruptStep
  <1>2. QED
    BY <1>1, YieldTypeCorrect, PTL DEF InterruptReachesRoot

-----------------------------------------------------------------------------
(* How far a fault climbs.                                                 *)

\* The ancestors of a partition are its parent and the ancestors of that.
LEMMA AncestorsClimb ==
  ASSUME NEW p \in Partitions
  PROVE  /\ ancestors(p) \subseteq Partitions
         /\ p = Root => ancestors(p) = {}
         /\ p # Root => ancestors(p) \subseteq {Parent[p]} \cup ancestors(Parent[p])
  <1> DEFINE Above(q)  == IF q = Root THEN {} ELSE {Parent[q]}
             Up(q, s)  == Above(q) \cup UNION {Above(r) : r \in s} \subseteq s
  <1>1. \A q : ancestors(q) = {a \in Partitions : \A s \in SUBSET Partitions :
                                 Up(q, s) => a \in s}
    BY DEF ancestors
  <1>2. ASSUME p = Root PROVE ancestors(p) = {}
    <2>1. Up(p, {})
      BY <1>2
    <2> HIDE DEF Up
    <2>2. \A a \in ancestors(p) : \A s \in SUBSET Partitions : Up(p, s) => a \in s
      BY <1>1
    <2>3. \A a \in ancestors(p) : a \in {}
      BY <2>1, <2>2
    <2> QED
      BY <2>3
  <1>3. ASSUME p # Root, NEW a \in ancestors(p), a # Parent[p]
        PROVE  a \in ancestors(Parent[p])
    <2>1. SUFFICES ASSUME NEW s \in SUBSET Partitions, Up(Parent[p], s) PROVE a \in s
      BY <1>1, <1>3
    <2> DEFINE t == s \cup {Parent[p]}
    <2>2. t \in SUBSET Partitions
      BY <1>3, TreeAssumption
    <2>3. ASSUME NEW r \in t PROVE Above(r) \subseteq t
      BY <2>1
    <2>4. Up(p, t)
      BY <1>3, <2>3
    <2>5. a \in t
      BY <1>1, <1>3, <2>2, <2>4
    <2> QED
      BY <1>3, <2>5
  <1> QED
    BY <1>1, <1>2, <1>3

\* The ancestors that the fault has passed cannot take it.
PassedOver ==
  fault # NULL =>
    \A q \in ancestors(cur) : q \in ancestors(fault.at) \/ ~ Ready(q, fault.irq)

\* A partition that a fault comes from, be it the one that faulted or one that
\* could not take it, has a VIDT unless the root is next.
FaultsComeWithVidt ==
  fault # NULL /\ fault.at # Root /\ Parent[fault.at] # Root => VidtUsable(fault.at)

\* When save areas are aligned, a fault is passed on only if the parent cannot
\* take it; with a usable VIDT below, it is not even tried twice.
LEMMA OnlyTheParentRefuses ==
  ASSUME Areas \subseteq Aligned, TypeOK, NEW callee \in Partitions,
         NEW caller \in Partitions, NEW i \in Indices, NEW s \in Indices
  PROVE  /\ getSourcePartVidt(callee, caller, i, s) = "callee" => ~ Ready(callee, i)
         /\ getSourcePartVidt(callee, caller, i, s) = "caller" /\ VidtUsable(caller)
              => Ready(callee, i)
  <1>1. CASE VidtUsable(caller)
    <2>1. Entry(caller, s) \in Areas \cup {NULL}
      BY <1>1, UsableVidt
    <2>2. Entry(caller, s) # NULL => saveSourcePartCtx(caller, Entry(caller, s)) # "callee"
      BY <2>1 DEF saveSourcePartCtx
    <2> QED
      BY <2>2 DEF getSourcePartVidt, getTargetPartVidt
  <1>2. CASE ~ VidtUsable(caller)
    BY <1>2 DEF getSourcePartVidt
  <1> QED
    BY <1>1, <1>2

\* propagateFault passes over the ancestors that cannot take the fault, and
\* over no other.
LEMMA PassesOver ==
  ASSUME Areas \subseteq Aligned, TypeOK, PassedOver, FaultsComeWithVidt, [Next]_vars
  PROVE  /\ PassedOver'
         /\ [fault # NULL /\ panic'
               => \A p \in ancestors(cur) : ~ Ready(p, fault.irq)]_vars
  <1>1. ASSUME propagateFault
        PROVE  /\ PassedOver'
               /\ panic' => \A p \in ancestors(cur) : ~ Ready(p, fault.irq)
    <2> DEFINE p     == fault.at
               flags == interruptState[cur]
    <2>1. /\ fault \in Fault /\ fault # NULL /\ ~ panic
          /\ UNCHANGED memory
      BY <1>1 DEF propagateFault, TypeOK
    <2>2. /\ p \in Partitions /\ fault.irq \in Indices /\ fault.save \in Indices
          /\ flags \in Flags
          /\ p # Root => Parent[p] \in Partitions
      BY <2>1, IndicesAssumption, TreeAssumption DEF Fault, TypeOK
    <2>3. p # Root /\ Parent[p] # Root => VidtUsable(p)
      BY <2>1 DEF FaultsComeWithVidt
    <2>4. CASE p = Root
      <3>1. fault' = NULL
        BY <1>1, <2>4 DEF propagateFault
      <3>2. ancestors(p) = {}
        BY <2>2, <2>4, AncestorsClimb
      <3> QED
        BY <2>1, <3>1, <3>2 DEF PassedOver
    <2>5. CASE /\ p # Root
               /\ deliver(Parent[p], p, fault.irq, fault.save, flags, flags)
               /\ fault' = NULL
      <3>1. CASE Ready(Parent[p], fault.irq)
        BY <2>1, <2>5, <3>1 DEF deliver, fallback, PassedOver
      <3>2. CASE ~ Ready(Parent[p], fault.irq)
        <4>1. getSourcePartVidt(Parent[p], p, fault.irq, fault.save) # "success"
          BY <2>2, <2>5, <3>2, Success
        <4>2. panic' => Parent[p] = Root
          BY <2>2, <2>3, <2>5, <3>2, <4>1, OnlyTheParentRefuses DEF deliver
        <4>3. ASSUME panic', NEW q \in ancestors(cur) PROVE ~ Ready(q, fault.irq)
          BY <2>1, <2>2, <2>5, <3>2, <4>2, <4>3, AncestorsClimb DEF PassedOver
        <4> QED
          BY <2>5, <4>3 DEF PassedOver
      <3> QED
        BY <3>1, <3>2
    <2>6. CASE /\ p # Root
               /\ getSourcePartVidt(Parent[p], p, fault.irq, fault.save) = "callee"
               /\ refuse(Parent[p], p, fault.irq)
               /\ fault' = doubleFault(fault)
               /\ UNCHANGED panic
      <3>1. UNCHANGED <<memory, contexts, cur>>
        BY <2>1, <2>6 DEF refuse
      <3>2. ~ Ready(Parent[p], fault.irq)
        BY <2>2, <2>3, <2>6, OnlyTheParentRefuses
      <3>3. fault'.irq = fault.irq /\ fault'.at = Parent[p]
        BY <2>1, <2>6 DEF doubleFault, Fault
      <3>4. ASSUME NEW q \in ancestors(cur)
            PROVE  q \in ancestors(fault'.at) \/ ~ Ready(q, fault'.irq)
        BY <2>1, <2>2, <2>6, <3>2, <3>3, AncestorsClimb DEF PassedOver
      <3> HIDE DEF p, flags
      <3> QED
        BY <2>1, <2>6, <3>1, <3>4
        DEF PassedOver, memory, Ready, VidtUsable, Loadable, MayUse, Entry
    <2> QED
      BY <1>1, <2>4, <2>5, <2>6 DEF propagateFault
  <1>2. ASSUME NEW irq \in Faults, RaiseFault(irq) PROVE PassedOver'
    BY <1>2 DEF RaiseFault, PassedOver
  <1>3. CASE UNCHANGED vars
    BY <1>3 DEF vars, PassedOver, Ready, VidtUsable, Loadable, MayUse, Entry
  <1>4. ASSUME Running, UNCHANGED fault PROVE PassedOver' /\ fault = NULL
    BY <1>4 DEF Running, PassedOver
  <1> QED
    BY <1>1, <1>2, <1>3, <1>4
    DEF Next, WriteEntry, WriteContext, UseFpu, setVIDT, MemoryService,
        setIntState, yield, Interrupt, RaiseFault, Running, vars

\* When save areas are aligned and no fault comes from a partition without a
\* VIDT, but for the children of the root, the kernel gives up on a fault only if
\* no ancestor can handle it.  Were the VIDT missing, the second attempt at the
\* parent would be the last one, whatever the grandparent could do.
THEOREM FaultClimbs ==
  ASSUME Areas \subseteq Aligned
  PROVE  Spec /\ []FaultsComeWithVidt => FaultReachesAncestor
  <1>1. Init => PassedOver
    BY DEF Init, PassedOver
  <1>2. TypeOK /\ PassedOver /\ FaultsComeWithVidt /\ [Next]_vars
          => /\ PassedOver'
             /\ [fault # NULL /\ panic'
                   => \A p \in ancestors(cur) : ~ Ready(p, fault.irq)]_vars
    BY PassesOver
  <1>3. QED
    BY <1>1, <1>2, YieldTypeCorrect, PTL DEF Spec, FaultReachesAncestor

-----------------------------------------------------------------------------
(* Who may leave data in the FPU registers.                                *)

\* A handler that hands i over gives up saving the caller's context, and its
\* second attempt succeeds.
EntersUnsaved(callee, caller, i, s) ==
  getSourcePartVidt(callee, caller, i, s) = "caller" /\ Ready(callee, i)

\* No context with data in the FPU is given up for another one.
FpuDataIsSaved ==
  fpuHoldsData =>
    /\ \A irq \in Interrupts :
         ~ EntersUnsaved(Root, cur, irq, saveIndexOf(interruptState[cur]))
    /\ fault # NULL /\ fault.at # Root
         => ~ EntersUnsaved(Parent[fault.at], fault.at, fault.irq, fault.save)

\* A context switch with a save clears the FPU registers the callee has no use
\* for.
LEMMA EnterClears ==
  ASSUME TypeOK, FpuPrivate, NEW callee, NEW i, NEW save, NEW f, NEW w,
         enter(callee, i, save, f, w, usesFpu)
  PROVE  FpuPrivate'
  <1> DEFINE ctx == contexts'[Entry(callee, i)]
  <1>1. switchContext(callee, f, ctx, usesFpu)
    BY DEF enter
  <1> HIDE DEF ctx
  <1>2. /\ usesFpu' = (ctx.frame = "extended")
        /\ fpuHoldsData' = (ctx.frame = "extended" \/ (fpuHoldsData /\ ~ usesFpu))
    BY <1>1 DEF switchContext
  <1> QED
    BY <1>2, Zenon DEF FpuPrivate

\* A second attempt leaves the FPU registers clear when it finds them so, and
\* as they are when it fails.
LEMMA FallbackKeepsClear ==
  ASSUME NEW callee, NEW i, NEW f, FpuPrivate, fpuHoldsData => ~ Ready(callee, i),
         fallback(callee, i, f)
  PROVE  FpuPrivate'
  <1>1. CASE Ready(callee, i)
    <2> DEFINE ctx == contexts'[Entry(callee, i)]
    <2>1. switchContext(callee, f, ctx, FALSE)
      BY <1>1 DEF fallback, enter
    <2> HIDE DEF ctx
    <2>2. /\ usesFpu' = (ctx.frame = "extended")
          /\ fpuHoldsData' = (ctx.frame = "extended" \/ (fpuHoldsData /\ ~ FALSE))
      BY <2>1 DEF switchContext
    <2>3. ~ fpuHoldsData
      BY <1>1
    <2> QED
      BY <2>2, <2>3, Zenon DEF FpuPrivate
  <1>2. CASE ~ Ready(callee, i)
    BY <1>2 DEF fallback, FpuPrivate
  <1> QED
    BY <1>1, <1>2

\* Only a step that gives up a context with FPU data leaves that data behind.
LEMMA FpuStep ==
  ASSUME TypeOK, FpuPrivate, FpuDataIsSaved, [Next]_vars
  PROVE  FpuPrivate'
  <1>1. ASSUME NEW callee \in Partitions, NEW i, NEW s, NEW f, NEW w,
               yield(callee, i, s, f, w)
        PROVE  FpuPrivate'
    <2>1. CASE enter(callee, i, Entry(cur, s), f, w, usesFpu)
      BY <2>1, EnterClears
    <2>2. CASE refuse(callee, cur, i)
      BY <2>2 DEF refuse, FpuPrivate
    <2> QED
      BY <1>1, <2>1, <2>2 DEF yield
  <1>2. ASSUME NEW callee, NEW caller, NEW i, NEW s, NEW f, NEW g,
               deliver(callee, caller, i, s, f, g),
               fpuHoldsData => ~ EntersUnsaved(callee, caller, i, s)
        PROVE  FpuPrivate'
    <2>1. CASE enter(callee, i, Entry(caller, s), f, f, usesFpu)
      BY <2>1, EnterClears
    <2>2. CASE /\ getSourcePartVidt(callee, caller, i, s) = "caller"
               /\ fallback(callee, i, g)
      BY <1>2, <2>2, FallbackKeepsClear DEF EntersUnsaved
    <2> QED
      BY <1>2, <2>1, <2>2 DEF deliver
  <1>3. ASSUME NEW irq \in Interrupts, Interrupt(irq) PROVE FpuPrivate'
    <2> DEFINE state == interruptState[cur]
               save  == saveIndexOf(state)
    <2>1. fpuHoldsData => ~ EntersUnsaved(Root, cur, irq, save)
      BY DEF FpuDataIsSaved
    <2>2. CASE deliver(Root, cur, irq, save, state, 0)
      <3> HIDE DEF state, save
      <3> QED
        BY <1>2, <2>1, <2>2
    <2>3. CASE refuse(Root, cur, irq)
      BY <2>3 DEF refuse, FpuPrivate
    <2> QED
      BY <1>3, <2>2, <2>3 DEF Interrupt
  <1>4. ASSUME propagateFault PROVE FpuPrivate'
    <2> DEFINE p     == fault.at
               flags == interruptState[cur]
    <2>1. CASE UNCHANGED <<usesFpu, fpuHoldsData>>
      BY <2>1 DEF FpuPrivate
    <2>2. CASE p # Root /\ deliver(Parent[p], p, fault.irq, fault.save, flags, flags)
      <3>1. fault # NULL
        BY <1>4 DEF propagateFault
      <3>2. fpuHoldsData
              => ~ EntersUnsaved(Parent[p], p, fault.irq, fault.save)
        BY <2>2, <3>1 DEF FpuDataIsSaved
      <3> QED
        BY <1>2, <2>2, <3>2
    <2> QED
      BY <1>4, <2>1, <2>2 DEF propagateFault, refuse
  <1>5. CASE UseFpu
    BY <1>5 DEF UseFpu, FpuPrivate
  <1>6. CASE UNCHANGED <<usesFpu, fpuHoldsData>>
    BY <1>6 DEF FpuPrivate
  <1> QED
    BY <1>1, <1>3, <1>4, <1>5, <1>6
    DEF Next, WriteEntry, WriteContext, setVIDT, MemoryService, setIntState,
        RaiseFault, vars

\* FPU data passes to a context without FPU only where a handler gives up saving
\* the context of a partition that has such data and enters another: yields, and
\* the first attempts of the handlers, clear the registers.
THEOREM FpuCleared == Spec /\ []FpuDataIsSaved => []FpuPrivate
  <1>1. Init => FpuPrivate
    BY DEF Init, FpuPrivate
  <1>2. TypeOK /\ FpuPrivate /\ FpuDataIsSaved /\ [Next]_vars => FpuPrivate'
    BY FpuStep
  <1>3. QED
    BY <1>1, <1>2, YieldTypeCorrect, PTL DEF Spec
=============================================================================
