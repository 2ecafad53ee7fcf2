------------------------- MODULE PipAbstract_proofs --------------------------
(***************************************************************************)
(* The promise of PipAbstract keeps partitions and kernel data apart, for  *)
(* every set of partitions and every memory.                               *)
(***************************************************************************)
EXTENDS PipAbstract, TLAPS

\* A partition may access no more than it owns, and what is no partition has
\* no memory.
OpenOwned(m) == \A p \in Partitions : m.open[p] \subseteq m.pool[p]
DeadEmpty(m) == \A p \in Partitions \ Alive(m) : m.pool[p] = {} /\ m.kern[p] = {}

Inv(m) == /\ m \in Memory
          /\ OpenOwned(m) /\ DeadEmpty(m)
          /\ VerticalSharing(m) /\ PartitionsIsolation(m) /\ KernelDataIsolation(m)

\* q is in Below(m, q), and with a partition its children are.
LEMMA BelowClosed ==
  ASSUME NEW m, NEW q \in Partitions
  PROVE  /\ q \in Below(m, q) /\ Below(m, q) \subseteq Partitions
         /\ \A p \in Below(m, q) : ChildrenOf(m, p) \subseteq Below(m, q)
  BY DEF Below, ChildrenOf

\* The child of a partition is a partition that lives.
LEMMA ChildAlive ==
  ASSUME ConstantsOK, NEW m, NEW p \in Partitions, NEW q \in ChildrenOf(m, p)
  PROVE  q \in Alive(m) /\ q \in Partitions
  BY DEF ConstantsOK, ChildrenOf, Alive

\* The memory of a partition stays apart when the kernel takes some of it for
\* data about t.
LEMMA TakeKeeps ==
  ASSUME NEW m, NEW n \in Memory, Inv(m), NEW p \in Alive(m), NEW t \in Partitions,
         Take(m, n, p, t)
  PROVE  OpenOwned(n) /\ KernelDataIsolation(n)
  BY DEF Take, Inv, OpenOwned, KernelDataIsolation, Memory, Alive, Same

\* prepare takes a block that the caller had open for the caller or a child.
LEMMA PrepareKeeps ==
  ASSUME ConstantsOK, NEW m, NEW n \in Memory, Inv(m), NEW p \in Alive(m),
         NEW t \in {p} \cup ChildrenOf(m, p), prepare(m, n, p, t)
  PROVE  Inv(n)
<1> DEFINE K == n.kern[t] \ m.kern[t]
<1>1. /\ p \in Partitions /\ t \in Partitions
      /\ n.parent = m.parent /\ n.pool = m.pool
      /\ n.kern = [m.kern EXCEPT ![t] = @ \cup K]
      /\ K \subseteq Free(m, p)
  BY DEF prepare, Take, Same, Alive, ChildrenOf
<1>2. /\ m.kern \in [Partitions -> SUBSET Space] /\ m.pool \in [Partitions -> SUBSET Space]
      /\ \A x \in Partitions : n.kern[x] = IF x = t THEN m.kern[x] \cup K ELSE m.kern[x]
  BY <1>1 DEF Inv, Memory
<1>3. K \subseteq m.open[p] /\ \A q \in ChildrenOf(m, p) : K \cap m.pool[q] = {}
  BY <1>1 DEF Free
<1>4. \A x : ChildrenOf(n, x) = ChildrenOf(m, x)
  BY <1>1 DEF ChildrenOf
<1>5. OpenOwned(n) /\ KernelDataIsolation(n)
  BY <1>1, TakeKeeps DEF prepare
<1>6. DeadEmpty(n)
  <2>1. Alive(n) = Alive(m) /\ t \in Alive(m)
    BY <1>1, ChildAlive DEF Alive
  <2> QED
    BY <1>1, <1>2, <2>1 DEF DeadEmpty, Inv
<1>7. VerticalSharing(n)
  BY <1>1, <1>2, <1>3, <1>4 DEF VerticalSharing, Used, Inv, OpenOwned, ChildrenOf
<1>8. PartitionsIsolation(n)
  BY <1>1, <1>2, <1>3, <1>4 DEF PartitionsIsolation, KernelDataIsolation, VerticalSharing,
     Used, Inv, OpenOwned, ChildrenOf
<1> QED
  BY <1>5, <1>6, <1>7, <1>8 DEF Inv

\* createPartition makes a partition that owns nothing, from memory the caller
\* had open.
LEMMA CreateKeeps ==
  ASSUME ConstantsOK, NEW m, NEW n \in Memory, Inv(m), NEW p \in Alive(m), NEW q \in Partitions,
         createPartition(m, n, p, q)
  PROVE  Inv(n)
<1> DEFINE K == n.kern[q] \ m.kern[q]
<1>1. /\ p \in Partitions /\ p # q /\ q \notin Alive(m)
      /\ n.parent = [m.parent EXCEPT ![q] = p] /\ n.pool = m.pool
      /\ n.kern = [m.kern EXCEPT ![q] = @ \cup K]
      /\ K \subseteq Free(m, p)
  BY DEF createPartition, Take, Same, Alive
<1>2. /\ m.pool[q] = {} /\ m.kern[q] = {}
      /\ \A x \in Partitions : n.kern[x] = IF x = q THEN K ELSE m.kern[x]
  BY <1>1 DEF Inv, Memory, DeadEmpty
<1>3. K \subseteq m.open[p] /\ \A x \in ChildrenOf(m, p) : K \cap m.pool[x] = {}
  BY <1>1 DEF Free
<1>4. /\ ChildrenOf(n, p) = ChildrenOf(m, p) \cup {q}
      /\ \A x \in Partitions \ {p} : ChildrenOf(n, x) = ChildrenOf(m, x)
      /\ \A x \in Partitions : q \notin ChildrenOf(m, x)
  <2>1. m.parent \in [Partitions -> Partitions \cup {None}] /\ m.parent[q] = None
    BY DEF Inv, Memory, createPartition
  <2> QED
    BY <1>1, <2>1 DEF ChildrenOf, ConstantsOK
<1>5. OpenOwned(n) /\ KernelDataIsolation(n)
  BY <1>1, TakeKeeps DEF createPartition
<1>6. DeadEmpty(n)
  <2>1. Alive(n) = Alive(m) \cup {q}
    BY <1>1 DEF Alive, Inv, Memory, ConstantsOK
  <2> QED
    BY <1>1, <1>2, <2>1 DEF DeadEmpty, Inv
<1>7. VerticalSharing(n)
  <2>1. Used(n, q) \subseteq n.pool[p]
    BY <1>1, <1>2, <1>3 DEF Used, Inv, OpenOwned
  <2>2. \A x \in Partitions : \A a \in ChildrenOf(m, x) : Used(n, a) = Used(m, a)
    BY <1>1, <1>2, <1>4 DEF Used, ChildrenOf
  <2> QED
    BY <1>1, <1>4, <2>1, <2>2 DEF VerticalSharing, Inv
<1>8. PartitionsIsolation(n)
  <2>1. \A x \in ChildrenOf(m, p) : Used(n, x) \cap Used(n, q) = {}
    <3>1. Used(n, q) = K
      BY <1>1, <1>2 DEF Used
    <3> SUFFICES ASSUME NEW x \in ChildrenOf(m, p) PROVE Used(n, x) \cap K = {}
      BY <3>1
    <3>2. x \in Partitions /\ x # q
      BY <1>1, <1>4 DEF ChildrenOf
    <3>3. n.kern[x] = m.kern[x] /\ n.pool[x] = m.pool[x]
      BY <1>1, <1>2, <3>2
    <3>4. m.open[p] \cap m.kern[x] = {}
      BY <1>1, <3>2 DEF KernelDataIsolation, Inv
    <3>5. K \cap m.pool[x] = {} /\ K \cap m.kern[x] = {}
      BY <1>3, <3>4
    <3> QED
      BY <3>3, <3>5 DEF Used
  <2>2. \A x \in Partitions : \A a \in ChildrenOf(m, x) : Used(n, a) = Used(m, a)
    BY <1>1, <1>2, <1>4 DEF Used, ChildrenOf
  <2> QED
    BY <1>1, <1>4, <2>1, <2>2 DEF PartitionsIsolation, Inv
<1> QED
  BY <1>5, <1>6, <1>7, <1>8 DEF Inv

\* Opening and closing memory leaves who owns what alone.
LEMMA OwnersKept ==
  ASSUME NEW m, NEW n \in Memory, Inv(m), Same(m, n, {"parent", "pool"}),
         \A x \in Partitions : n.kern[x] \subseteq m.kern[x]
  PROVE  DeadEmpty(n) /\ VerticalSharing(n) /\ PartitionsIsolation(n)
<1>1. n.parent = m.parent /\ n.pool = m.pool
  BY DEF Same
<1>2. Alive(n) = Alive(m) /\ \A x : ChildrenOf(n, x) = ChildrenOf(m, x)
  BY <1>1 DEF Alive, ChildrenOf
<1>3. \A x \in Partitions : Used(n, x) \subseteq Used(m, x)
  BY <1>1 DEF Used
<1>4. DeadEmpty(n)
  BY <1>1, <1>2 DEF DeadEmpty, Inv
<1>5. ASSUME NEW p \in Partitions, NEW q \in ChildrenOf(n, p)
      PROVE  Used(n, q) \subseteq n.pool[p]
  <2>1. q \in ChildrenOf(m, p) /\ q \in Partitions
    BY <1>2, <1>5 DEF ChildrenOf
  <2>2. Used(m, q) \subseteq m.pool[p]
    BY <2>1 DEF Inv, VerticalSharing
  <2> QED
    BY <1>1, <1>3, <2>1, <2>2
<1>6. ASSUME NEW p \in Partitions, NEW a \in ChildrenOf(n, p), NEW b \in ChildrenOf(n, p),
             a # b
      PROVE  Used(n, a) \cap Used(n, b) = {}
  <2>1. /\ a \in ChildrenOf(m, p) /\ a \in Partitions
        /\ b \in ChildrenOf(m, p) /\ b \in Partitions
    BY <1>2, <1>6 DEF ChildrenOf
  <2>2. Used(m, a) \cap Used(m, b) = {}
    BY <1>6, <2>1 DEF Inv, PartitionsIsolation
  <2> QED
    BY <1>3, <2>1, <2>2
<1> QED
  BY <1>4, <1>5, <1>6 DEF VerticalSharing, PartitionsIsolation

\* cutMemoryBlock only closes memory of the caller.
LEMMA CutKeeps ==
  ASSUME NEW m, NEW n \in Memory, Inv(m), NEW p \in Alive(m), cutMemoryBlock(m, n, p)
  PROVE  Inv(n)
<1>1. n.parent = m.parent /\ n.pool = m.pool /\ n.kern = m.kern
      /\ \A x \in Partitions : n.open[x] \subseteq m.open[x]
  BY DEF cutMemoryBlock, Same, Memory, Inv
<1>2. OpenOwned(n) /\ KernelDataIsolation(n)
  BY <1>1 DEF OpenOwned, KernelDataIsolation, Inv
<1>3. DeadEmpty(n) /\ VerticalSharing(n) /\ PartitionsIsolation(n)
  BY <1>1, OwnersKept DEF Same
<1> QED
  BY <1>2, <1>3 DEF Inv

\* mergeMemoryBlocks opens again only what no child and no structure of the
\* caller is made of.
LEMMA MergeKeeps ==
  ASSUME NEW m, NEW n \in Memory, Inv(m), NEW p \in Alive(m), mergeMemoryBlocks(m, n, p)
  PROVE  Inv(n)
<1>1. /\ n.parent = m.parent /\ n.pool = m.pool /\ n.kern = m.kern
      /\ p \in Partitions
      /\ Free(m, p) \subseteq m.open[p]
      /\ Reopened(m, n, p, Free(m, p))
  BY DEF mergeMemoryBlocks, Same, Alive, Free
<1>2. OpenOwned(n) /\ KernelDataIsolation(n)
  BY <1>1 DEF OpenOwned, KernelDataIsolation, Inv, Reopened
<1>3. DeadEmpty(n) /\ VerticalSharing(n) /\ PartitionsIsolation(n)
  BY <1>1, OwnersKept DEF Same
<1> QED
  BY <1>2, <1>3 DEF Inv

\* collect gives back a structure of the caller or a child.
LEMMA CollectKeeps ==
  ASSUME NEW m, NEW n \in Memory, Inv(m), NEW p \in Alive(m), NEW t \in Partitions,
         collect(m, n, p, t)
  PROVE  Inv(n)
<1>1. /\ n.parent = m.parent /\ n.pool = m.pool
      /\ Reopened(m, n, p, Space \ Held(n))
      /\ \A x \in Partitions : n.kern[x] \subseteq m.kern[x]
  BY DEF collect, Same, Inv, Memory
<1>2. OpenOwned(n)
  BY <1>1 DEF OpenOwned, Inv, Reopened
<1>3. KernelDataIsolation(n)
  BY <1>1 DEF KernelDataIsolation, Inv, Reopened, Held
<1>4. DeadEmpty(n) /\ VerticalSharing(n) /\ PartitionsIsolation(n)
  BY <1>1, OwnersKept DEF Same
<1> QED
  BY <1>2, <1>3, <1>4 DEF Inv

\* addMemoryBlock gives the child memory that the caller had open.
LEMMA AddKeeps ==
  ASSUME ConstantsOK, NEW m, NEW n \in Memory, Inv(m), NEW p \in Alive(m),
         NEW q \in ChildrenOf(m, p), addMemoryBlock(m, n, p, q)
  PROVE  Inv(n)
<1> DEFINE U == n.pool[q] \ m.pool[q]
<1>1. /\ p \in Partitions /\ q \in Alive(m) /\ q \in Partitions
      /\ n.parent = m.parent /\ n.kern = m.kern
      /\ U \subseteq m.open[p] /\ \A x \in ChildrenOf(m, p) : U \cap m.pool[x] = {}
  BY ChildAlive DEF addMemoryBlock, Same, Alive, Free
<1>2. \A x \in Partitions :
        /\ n.pool[x] = IF x = q THEN m.pool[x] \cup U ELSE m.pool[x]
        /\ n.open[x] = IF x = q THEN m.open[x] \cup U ELSE m.open[x]
  BY DEF addMemoryBlock, Inv, Memory
<1>3. Alive(n) = Alive(m) /\ \A x : ChildrenOf(n, x) = ChildrenOf(m, x)
  BY <1>1 DEF Alive, ChildrenOf
<1>4. OpenOwned(n)
  BY <1>2 DEF OpenOwned, Inv
<1>5. DeadEmpty(n)
  BY <1>1, <1>2, <1>3 DEF DeadEmpty, Inv
<1>6. KernelDataIsolation(n)
  BY <1>1, <1>2 DEF KernelDataIsolation, Inv
<1>7. /\ \A x \in Partitions \ {q} : Used(n, x) = Used(m, x)
      /\ Used(n, q) = Used(m, q) \cup U
  BY <1>1, <1>2 DEF Used
<1>8. \A x \in Partitions : m.pool[x] \subseteq n.pool[x]
  BY <1>2
<1>9. VerticalSharing(n)
  <2>1. \A x \in Partitions : q \in ChildrenOf(m, x) => x = p
    BY DEF ChildrenOf
  <2>2. U \subseteq m.pool[p]
    BY <1>1 DEF Inv, OpenOwned
  <2> QED
    BY <1>1, <1>3, <1>7, <1>8, <2>1, <2>2 DEF VerticalSharing, Inv, ChildrenOf
<1>10. PartitionsIsolation(n)
  <2>1. \A x \in ChildrenOf(m, p) : U \cap Used(m, x) = {}
    BY <1>1 DEF KernelDataIsolation, Used, Inv, ChildrenOf
  <2>2. \A x \in Partitions : q \in ChildrenOf(m, x) => x = p
    BY DEF ChildrenOf
  <2> QED
    BY <1>1, <1>3, <1>7, <2>1, <2>2 DEF PartitionsIsolation, Inv, ChildrenOf
<1> QED
  BY <1>4, <1>5, <1>6, <1>9, <1>10 DEF Inv

\* What is taken from q was open to it, so it holds no data of the kernel, and
\* it goes from everything below.
LEMMA RemoveKeeps ==
  ASSUME ConstantsOK, NEW m, NEW n \in Memory, Inv(m), NEW p \in Alive(m),
         NEW q \in ChildrenOf(m, p), removeMemoryBlock(m, n, p, q)
  PROVE  Inv(n)
<1> DEFINE U == m.pool[q] \ n.pool[q]
           D == Below(m, q)
<1>1. /\ q \in Partitions /\ n.parent = m.parent /\ n.kern = m.kern
      /\ U \subseteq m.open[q]
      /\ \A x \in Partitions : n.pool[x] = IF x \in D THEN m.pool[x] \ U ELSE m.pool[x]
      /\ \A x \in D : n.open[x] = m.open[x] \ U
      /\ Reopened(m, n, p, U)
  BY ChildAlive DEF removeMemoryBlock, Same, ChildrenOf
<1>2. /\ D \subseteq Partitions
      /\ \A x \in D : ChildrenOf(m, x) \subseteq D
  BY <1>1, BelowClosed
<1>3. Alive(n) = Alive(m) /\ \A x : ChildrenOf(n, x) = ChildrenOf(m, x)
  BY <1>1 DEF Alive, ChildrenOf
<1>4. \A x \in Partitions : U \cap m.kern[x] = {}
  BY <1>1 DEF Inv, KernelDataIsolation
<1>5. \A x \in Partitions : Used(n, x) \subseteq Used(m, x)
  BY <1>1 DEF Used
<1>6. OpenOwned(n)
  <2> SUFFICES ASSUME NEW x \in Partitions
               PROVE  n.open[x] \subseteq n.pool[x]
    BY DEF OpenOwned
  <2>1. m.open[x] \subseteq m.pool[x]
    BY DEF Inv, OpenOwned
  <2>2. CASE x \in D
    BY <1>1, <2>1, <2>2
  <2>3. CASE x \notin D
    <3>1. n.pool[x] = m.pool[x]
      BY <1>1, <2>3
    <3>2. n.open[x] \subseteq m.open[x] \cup m.pool[x]
      BY <1>1 DEF Reopened
    <3> QED
      BY <2>1, <3>1, <3>2
  <2> QED
    BY <2>2, <2>3
<1>7. DeadEmpty(n)
  BY <1>1, <1>3 DEF DeadEmpty, Inv
<1>8. KernelDataIsolation(n)
  <2>1. \A x \in Partitions : n.open[x] \subseteq m.open[x] \cup U
    BY <1>1 DEF Reopened
  <2> QED
    BY <1>1, <1>4, <2>1 DEF KernelDataIsolation, Inv
<1>9. VerticalSharing(n)
  <2> SUFFICES ASSUME NEW x \in Partitions, NEW a \in ChildrenOf(m, x)
               PROVE  Used(n, a) \subseteq n.pool[x]
    BY <1>3 DEF VerticalSharing
  <2>0. a \in Partitions
    BY DEF ChildrenOf
  <2>1. Used(m, a) \subseteq m.pool[x]
    BY DEF VerticalSharing, Inv
  <2>2. CASE x \in D
    <3>1. a \in D
      BY <1>2, <2>2
    <3>2. Used(n, a) \cap U = {}
      BY <1>1, <1>4, <2>0, <3>1 DEF Used
    <3> QED
      BY <1>1, <1>5, <2>0, <2>1, <2>2, <3>2
  <2>3. CASE x \notin D
    BY <1>1, <1>5, <2>0, <2>1, <2>3
  <2> QED
    BY <2>2, <2>3
<1>10. PartitionsIsolation(n)
  <2>1. PartitionsIsolation(m)
    BY DEF Inv
  <2>2. \A x \in Partitions : /\ ChildrenOf(n, x) = ChildrenOf(m, x)
                             /\ ChildrenOf(m, x) \subseteq Partitions
    BY <1>3 DEF ChildrenOf
  <2> QED
    BY <1>5, <2>1, <2>2 DEF PartitionsIsolation
<1> QED
  BY <1>6, <1>7, <1>8, <1>9, <1>10 DEF Inv

\* The partitions that end own nothing, no child outlives its parent, and what
\* is opened again holds no data of the partitions that go on.
LEMMA DeleteKeeps ==
  ASSUME ConstantsOK, NEW m, NEW n \in Memory, Inv(m), NEW p \in Alive(m),
         NEW q \in ChildrenOf(m, p), deletePartition(m, n, p, q)
  PROVE  Inv(n)
<1> DEFINE D == Below(m, q)
<1>1. /\ q \in Partitions
      /\ \A x \in Partitions :
           /\ n.parent[x] = IF x \in D THEN None ELSE m.parent[x]
           /\ n.pool[x] = IF x \in D THEN {} ELSE m.pool[x]
           /\ n.kern[x] = IF x \in D THEN {} ELSE m.kern[x]
      /\ \A x \in D : n.open[x] = {}
      /\ Reopened(m, n, p, Space \ Held(n))
  <2>1. q \in Partitions
    BY DEF ChildrenOf
  <2>2. /\ n.parent = [x \in Partitions |-> IF x \in D THEN None ELSE m.parent[x]]
        /\ n.pool = [x \in Partitions |-> IF x \in D THEN {} ELSE m.pool[x]]
        /\ n.kern = [x \in Partitions |-> IF x \in D THEN {} ELSE m.kern[x]]
        /\ \A x \in D : n.open[x] = {}
        /\ Reopened(m, n, p, Space \ Held(n))
    BY Zenon DEF deletePartition
  <2> QED
    BY <2>1, <2>2
<1>2. /\ D \subseteq Partitions
      /\ \A x \in D : ChildrenOf(m, x) \subseteq D
  BY <1>1, BelowClosed
<1>3. \A x \in Partitions : \A a \in ChildrenOf(n, x) :
        a \in ChildrenOf(m, x) /\ a \in Partitions \ D /\ x \notin D
  BY <1>1, <1>2 DEF ChildrenOf, ConstantsOK
<1>4. \A x \in Partitions \ D : Used(n, x) = Used(m, x) /\ n.pool[x] = m.pool[x]
  BY <1>1 DEF Used
<1>5. OpenOwned(n)
  <2> SUFFICES ASSUME NEW x \in Partitions
               PROVE  n.open[x] \subseteq n.pool[x]
    BY DEF OpenOwned
  <2>1. CASE x \in D
    BY <1>1, <2>1
  <2>2. CASE x \notin D
    BY <1>1, <2>2 DEF Reopened, Inv, OpenOwned
  <2> QED
    BY <2>1, <2>2
<1>6. DeadEmpty(n)
  <2>1. \A x \in Partitions \ D : x \in Alive(n) <=> x \in Alive(m)
    BY <1>1 DEF Alive
  <2> QED
    BY <1>1, <2>1 DEF DeadEmpty, Inv
<1>7. KernelDataIsolation(n)
  <2> SUFFICES ASSUME NEW x \in Partitions, NEW y \in Partitions
               PROVE  n.open[x] \cap n.kern[y] = {}
    BY DEF KernelDataIsolation
  <2>1. n.kern[y] \subseteq Held(n) /\ n.kern[y] \subseteq m.kern[y]
    BY <1>1 DEF Held
  <2>2. m.open[x] \cap m.kern[y] = {}
    BY DEF Inv, KernelDataIsolation
  <2>3. n.open[x] \subseteq m.open[x] \cup (Space \ Held(n))
    BY <1>1 DEF Reopened
  <2> QED
    BY <2>1, <2>2, <2>3
<1>8. VerticalSharing(n)
  BY <1>3, <1>4 DEF VerticalSharing, Inv
<1>9. PartitionsIsolation(n)
  BY <1>3, <1>4 DEF PartitionsIsolation, Inv
<1> QED
  BY <1>5, <1>6, <1>7, <1>8, <1>9 DEF Inv

-----------------------------------------------------------------------------

\* The boot: the root has all its memory, and no child.
LEMMA InitInv ==
  ASSUME ConstantsOK
  PROVE  Init => Inv(mem)
<1> SUFFICES ASSUME Init
             PROVE  Inv(mem)
  OBVIOUS
<1>1. mem \in Memory
  BY DEF Init, Memory, ConstantsOK
<1>2. /\ \A x \in Partitions : mem.open[x] = mem.pool[x] /\ mem.kern[x] = {}
      /\ \A x \in Partitions : x # Root => mem.pool[x] = {}
      /\ \A x \in Partitions : mem.parent[x] = None
  BY DEF Init
<1>3. \A x \in Partitions : ChildrenOf(mem, x) = {}
  BY <1>2 DEF ChildrenOf, ConstantsOK
<1> QED
  BY <1>1, <1>2, <1>3 DEF Inv, OpenOwned, DeadEmpty, Alive, VerticalSharing,
     PartitionsIsolation, KernelDataIsolation

\* Every service keeps the invariant of the abstract memory.
LEMMA ServiceKeeps ==
  ASSUME ConstantsOK, NEW m, NEW n, Inv(m), Service(m, n)
  PROVE  Inv(n)
<1>1. n \in Memory
  BY DEF Service
<1>2. PICK p \in Alive(m) :
        \/ cutMemoryBlock(m, n, p) \/ mergeMemoryBlocks(m, n, p)
        \/ \E t \in {p} \cup ChildrenOf(m, p) : prepare(m, n, p, t) \/ collect(m, n, p, t)
        \/ \E q \in Partitions : createPartition(m, n, p, q)
        \/ \E q \in ChildrenOf(m, p) : \/ addMemoryBlock(m, n, p, q)
                                       \/ removeMemoryBlock(m, n, p, q)
                                       \/ deletePartition(m, n, p, q)
  BY DEF Service
<1>3. {p} \cup ChildrenOf(m, p) \subseteq Partitions
  BY DEF Alive, ChildrenOf
<1> QED
  BY <1>1, <1>2, <1>3, CutKeeps, MergeKeeps, PrepareKeeps, CollectKeeps, CreateKeeps,
     AddKeeps, RemoveKeeps, DeleteKeeps

\* Whatever services the partitions call, in any order, two children of one
\* partition never use the same memory, a child uses only its parent's, and
\* memory that holds descriptors or kernel structures is open to no one
\* (proof/Isolation.v): for every set of partitions and every memory.
THEOREM PromiseIsolates ==
  ASSUME ConstantsOK
  PROVE  Spec => []Isolation
<1>1. Init => Inv(mem)
  BY InitInv
<1>2. Inv(mem) /\ [Next]_mem => Inv(mem)'
  <2> SUFFICES ASSUME Inv(mem), [Next]_mem
               PROVE  Inv(mem)'
    OBVIOUS
  <2>1. CASE Next
    <3>1. Service(mem, mem')
      BY <2>1 DEF Next
    <3>2. Inv(mem')
      BY <3>1, ServiceKeeps
    <3> QED
      BY <3>2 DEF Inv, OpenOwned, DeadEmpty, Alive, VerticalSharing, PartitionsIsolation,
         KernelDataIsolation, ChildrenOf, Used
  <2>2. CASE UNCHANGED mem
    BY <2>2 DEF Inv, OpenOwned, DeadEmpty, Alive, VerticalSharing, PartitionsIsolation,
         KernelDataIsolation, ChildrenOf, Used
  <2> QED
    BY <2>1, <2>2
<1>3. Inv(mem) => Isolation
  BY DEF Inv, Isolation
<1> QED
  BY <1>1, <1>2, <1>3, PTL DEF Spec
=============================================================================
