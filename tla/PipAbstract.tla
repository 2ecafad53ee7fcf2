----------------------------- MODULE PipAbstract -----------------------------
(***************************************************************************)
(* What the memory services promise, without blocks, slots, free lists or  *)
(* flags: partitions own memory, open some of it, lend it to children and  *)
(* give it to the kernel.  A service is a relation between the memory      *)
(* before it, m, and after it, n.  PipRefinement shows PipMemory to        *)
(* implement this.                                                         *)
(***************************************************************************)
CONSTANTS Partitions, Root, None, Space, RootSpace

ConstantsOK == Root \in Partitions /\ None \notin Partitions /\ RootSpace \subseteq Space

VARIABLE mem

\* parent: None for the root and for what is no partition; pool: what a
\* partition owns, with what it has lent; open: the part of it that it may
\* access; kern: what holds the kernel's data about it.
Memory == [parent : [Partitions -> Partitions \cup {None}],
           pool : [Partitions -> SUBSET Space],
           open : [Partitions -> SUBSET Space],
           kern : [Partitions -> SUBSET Space]]

Alive(m)         == {p \in Partitions : p = Root \/ m.parent[p] # None}
ChildrenOf(m, p) == {q \in Partitions : m.parent[q] = p}

\* The least set with q that is closed under children.
Below(m, q) ==
  {x \in Partitions : \A S \in SUBSET Partitions :
     q \in S /\ (\A p \in S : ChildrenOf(m, p) \subseteq S) => x \in S}

\* What p may give away: open to it and lent to no child.
Free(m, p) == m.open[p] \ UNION {m.pool[q] : q \in ChildrenOf(m, p)}

Held(m) == UNION {m.kern[q] : q \in Partitions}

Same(m, n, fields) == \A f \in fields : n[f] = m[f]

\* Only p and the partitions above it may open memory again, and only memory
\* of U that they own.
Reopened(m, n, p, U) ==
  \A x \in Partitions : n.open[x] \subseteq m.open[x]
                        \/ /\ n.open[x] \ m.open[x] \subseteq U \cap m.pool[x]
                           /\ p \in Below(m, x)

Kept(m, n, X) == \A x \in X : m.open[x] \subseteq n.open[x]

-----------------------------------------------------------------------------

\* The kernel takes from p, and from everyone above, memory of which a part
\* holds data about t.
Take(m, n, p, t) ==
  LET U == m.open[p] \ n.open[p]
      K == n.kern[t] \ m.kern[t]
  IN  /\ K # {} /\ K \subseteq U /\ U \subseteq Free(m, p)
      /\ Same(m, n, {"pool"})
      /\ n.open = [x \in Partitions |-> m.open[x] \ U]
      /\ n.kern = [m.kern EXCEPT ![t] = @ \cup K]

createPartition(m, n, p, q) ==
  /\ q # Root /\ m.parent[q] = None
  /\ Take(m, n, p, q)
  /\ n.parent = [m.parent EXCEPT ![q] = p]

prepare(m, n, p, t) == Same(m, n, {"parent"}) /\ Take(m, n, p, t)

\* The other partitions lose what p cuts.
cutMemoryBlock(m, n, p) ==
  LET U == UNION {m.open[x] \ n.open[x] : x \in Partitions}
  IN  /\ Same(m, n, {"parent", "pool", "kern"})
      /\ U \subseteq Free(m, p)
      /\ n.open = [x \in Partitions |-> IF x = p THEN m.open[x] ELSE m.open[x] \ U]

mergeMemoryBlocks(m, n, p) ==
  /\ Same(m, n, {"parent", "pool", "kern"})
  /\ m.open # n.open
  /\ Kept(m, n, Partitions) /\ Reopened(m, n, p, Free(m, p))

addMemoryBlock(m, n, p, q) ==
  LET U == n.pool[q] \ m.pool[q]
  IN  /\ Same(m, n, {"parent", "kern"})
      /\ U \subseteq Free(m, p)
      /\ n.pool = [m.pool EXCEPT ![q] = @ \cup U]
      /\ n.open = [m.open EXCEPT ![q] = @ \cup U]

\* q and all below it lose U, which was open to q, so that the kernel holds none
\* of it; p may access it.
removeMemoryBlock(m, n, p, q) ==
  LET U == m.pool[q] \ n.pool[q]
      D == Below(m, q)
  IN  /\ Same(m, n, {"parent", "kern"})
      /\ U # {} /\ U \subseteq m.open[q] /\ U \subseteq n.open[p]
      /\ n.pool = [x \in Partitions |-> IF x \in D THEN m.pool[x] \ U ELSE m.pool[x]]
      /\ \A x \in D : n.open[x] = m.open[x] \ U
      /\ Kept(m, n, Partitions \ D) /\ Reopened(m, n, p, U)

\* q and all below it end; p has back what q owned and what the kernel held
\* for q.
deletePartition(m, n, p, q) ==
  LET D          == Below(m, q)
      Ended(f,e) == [x \in Partitions |-> IF x \in D THEN e ELSE f[x]]
  IN  /\ n.parent[q] = None /\ n.parent = Ended(m.parent, None)
      /\ n.pool = Ended(m.pool, {}) /\ n.kern = Ended(m.kern, {})
      /\ \A x \in D : n.open[x] = {}
      /\ m.pool[q] \cup m.kern[q] \subseteq n.open[p]
      /\ Kept(m, n, Partitions \ D) /\ Reopened(m, n, p, Space \ Held(n))

\* p has back memory that the kernel held for t.
collect(m, n, p, t) ==
  LET K == m.kern[t] \ n.kern[t]
  IN  /\ K # {} /\ K \subseteq n.open[p]
      /\ Same(m, n, {"parent", "pool"})
      /\ n.kern = [m.kern EXCEPT ![t] = @ \ K]
      /\ Kept(m, n, Partitions) /\ Reopened(m, n, p, Space \ Held(n))

-----------------------------------------------------------------------------

Init ==
  LET given == [p \in Partitions |-> IF p = Root THEN RootSpace ELSE {}]
  IN  mem = [parent |-> [p \in Partitions |-> None], pool |-> given, open |-> given,
             kern |-> [p \in Partitions |-> {}]]

Service(m, n) ==
  /\ m \in Memory /\ n \in Memory
  /\ \E p \in Alive(m) :
       \/ cutMemoryBlock(m, n, p) \/ mergeMemoryBlocks(m, n, p)
       \/ \E t \in {p} \cup ChildrenOf(m, p) : prepare(m, n, p, t) \/ collect(m, n, p, t)
       \/ \E q \in Partitions : createPartition(m, n, p, q)
       \/ \E q \in ChildrenOf(m, p) : \/ addMemoryBlock(m, n, p, q)
                                      \/ removeMemoryBlock(m, n, p, q)
                                      \/ deletePartition(m, n, p, q)

Next == \E m \in {mem}, n \in {mem'} : Service(m, n)

Spec == Init /\ [][Next]_mem

-----------------------------------------------------------------------------
(* The promise (proof/Isolation.v).                                        *)

Used(m, q) == m.pool[q] \cup m.kern[q]

VerticalSharing(m) ==
  \A p \in Partitions : \A q \in ChildrenOf(m, p) : Used(m, q) \subseteq m.pool[p]

PartitionsIsolation(m) ==
  \A p \in Partitions : \A a, b \in ChildrenOf(m, p) :
    a # b => Used(m, a) \cap Used(m, b) = {}

KernelDataIsolation(m) ==
  \A p, q \in Partitions : m.open[p] \cap m.kern[q] = {}

\* A child uses memory of its parent only, two children never the same, and no
\* partition may access memory that holds data of the kernel.
Isolation ==
  VerticalSharing(mem) /\ PartitionsIsolation(mem) /\ KernelDataIsolation(mem)
=============================================================================
