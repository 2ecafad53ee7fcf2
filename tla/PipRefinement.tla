---------------------------- MODULE PipRefinement ----------------------------
(***************************************************************************)
(* The memory services implement PipAbstract.                              *)
(***************************************************************************)
EXTENDS PipIsolation

\* The kernel data, read as PipAbstract does.  What is not a live partition
\* has no parent and no memory.
MemoryOf(live) ==
  [parent |-> [p \in PDAddr |-> IF p \in live THEN pd[p].parent ELSE Null],
   pool   |-> [p \in PDAddr |-> IF p \in live THEN Mapped(p) ELSE {}],
   open   |-> [p \in PDAddr |-> IF p \in live THEN Accessible(p) ELSE {}],
   kern   |-> [p \in PDAddr |-> IF p \in live THEN Config(p) \cap 1 .. Top ELSE {}]]

\* The only element, so that TLC evaluates Live once.
AbstractMemory == CHOOSE m \in {MemoryOf(live) : live \in {Live}} : TRUE

Abstract == INSTANCE PipAbstract WITH
  Partitions <- PDAddr, Root <- RootPD, None <- Null, Space <- 1 .. Top,
  RootSpace <- UNION {RootBlocks[n].start .. RootBlocks[n].end - 1 : n \in DOMAIN RootBlocks},
  mem <- AbstractMemory

ASSUME AbstractConstants == Abstract!ConstantsOK

\* Every service does to the memory of the partitions what PipAbstract allows
\* it (Services.v): no look-up, flag, slot or free list left behind makes a
\* later one give, lend or return other memory.
ImplementsAbstract == Abstract!Spec
=============================================================================
