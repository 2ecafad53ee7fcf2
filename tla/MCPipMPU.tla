------------------------------ MODULE MCPipMPU -------------------------------
(***************************************************************************)
(* Small instances of the memory protection unit for TLC.                  *)
(***************************************************************************)
EXTENDS PipMPU

rw  == {"r", "w"}
rwx == {"r", "w", "x"}
Block(s, t, rights) == [start |-> s, end |-> t, rights |-> rights]

\* A block of six units, which takes four regions to cover, and two units for
\* the kernel data of a child.  Both blocks are enabled at boot.
MPUBlocks  == <<Block(1, 7, rwx), Block(7, 9, rw)>>
MPURAM     == 1 .. 8
MPURegions == 0 .. 3
MPURegionArgs == {NoRegion, 1}
MPUPDs     == {7}
MPUKSs     == {8}
MPUGrants  == {rwx}
MPUCallers == [s \in Services |->
                 CASE s = "map" -> {RootPD, 7}
                   [] s \in {"create", "cut", "merge", "prepare", "add", "remove", "delete"} -> {RootPD}
                   [] OTHER -> {}]

Narrow(p, data)     == [pc |-> p, wide |-> FALSE, pc2 |-> p, data |-> data]
Wide(p, p2, data)   == [pc |-> p, wide |-> TRUE, pc2 |-> p2, data |-> data]
MPUInstructions ==
  {Narrow(2, {<<5, "w">>, <<6, "w">>}), Wide(1, 2, {<<5, "r">>}),
   Narrow(4, {<<7, "r">>}), Narrow(7, {})}

\* What the kernel can tell apart.
MPUView == LET live == Live
           IN  <<TypeOK, [p \in live |-> <<pd[p], lut[p]>>],
                 [e \in UNION {SlotsOf(Mem, p) : p \in live} |-> slot[e]],
                 cur, hw, flag, instr>>
=============================================================================
