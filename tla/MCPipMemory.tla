---------------------------- MODULE MCPipMemory ------------------------------
(***************************************************************************)
(* Small instances of the memory services for TLC.                         *)
(***************************************************************************)
EXTENDS PipRefinement, PipConsistency

rw  == {"r", "w"}
rwx == {"r", "w", "x"}
Block(s, t, rights) == [start |-> s, end |-> t, rights |-> rights]

Common == {"create", "cut", "merge", "prepare", "add", "remove", "delete"}
\* Every partition may call the services of S, none the others.
Everybody(S) == [s \in Services |-> IF s \in S THEN PDAddr ELSE {}]

\* Kernel data of the live partitions.  No service reads what is left in the
\* memory of a deleted partition before it has been erased, so states that
\* differ only there are the same state (VIEW).  Evaluating TypeOK makes TLC
\* store slot and pd as tables.
LiveData ==
  LET live == Live
  IN  <<TypeOK, [p \in live |-> pd[p]],
        [e \in UNION {SlotsOf(Mem, p) : p \in live} |-> slot[e]]>>

\* One child.  Three boot blocks as in malinit.c, the last one outside RAM.
OneChildBlocks  == <<Block(1, 2, rw), Block(2, 3, rw), Block(3, 4, rw), Block(4, 8, rwx)>>
OneChildRAM     == 1 .. 3
OneChildPDs     == {1}
OneChildKSs     == {2, 3}
OneChildGrants  == {{"r"}, rw}
OneChildCallers == Everybody(Common)

CollectBlocks  == <<Block(1, 2, rw), Block(2, 7, rw)>>
CollectRAM     == 1 .. 6
CollectPDs     == {1}
CollectKSs     == {2, 3, 4}
CollectGrants  == {rw}
CollectCallers == [Everybody({"create", "cut", "prepare", "delete", "collect"})
                     EXCEPT !["prepare"] = {RootPD}]

ThreeLevelsBlocks  == <<Block(1, 2, rw), Block(2, 3, rw), Block(3, 7, rw)>>
ThreeLevelsRAM     == 1 .. 6
ThreeLevelsPDs     == {1, 3}
ThreeLevelsKSs     == {2, 4}
ThreeLevelsGrants  == {{"r"}, rw}
ThreeLevelsCallers == [Everybody(Common) EXCEPT !["cut"] = {RootPD, 1}]

\* MPU regions and VIDTs, set by a partition for itself or for a child.
MappingBlocks  == <<Block(1, 2, rw), Block(2, 3, rw), Block(4, 8, rw)>>
MappingRAM     == 1 .. 7
MappingPDs     == {1}
MappingKSs     == {2}
MappingGrants  == {rw}
MappingCallers == Everybody(Common \cup {"map", "setVIDT"})

\* The Collect run, with more callers.
AnyCollectCallers == [CollectCallers EXCEPT !["add"] = {RootPD}]
=============================================================================
