------------------------------ MODULE MCPipYield -------------------------------
(***************************************************************************)
(* Small instances of the transfer of control for TLC.                     *)
(***************************************************************************)
EXTENDS PipYield, TLC

all  == {"accessible", "read", "write"}
both == {"basic", "extended"}
Ctx(frame, flags) == [frame |-> frame, pipflags |-> flags]

\* The indices of the source that the instances use: 4 a fault, 15 SysTick.
MCIndices == {0, 4, 8, 9, 10, 15}

\* A root and one child.  Block "br" is the root's own, block "bc" is shared
\* with the child.  A basic frame alone fits at "c2".
PairParent  == [p \in {"child"} |-> "root"]
PairBlockOf == [a \in {"r1", "vr"} |-> "br"] @@ [a \in {"c1", "c2", "vc"} |-> "bc"]
PairRoom    == "r1" :> both @@ "c1" :> both @@ "c2" :> {"basic"}
\* Rights of the root on its own and on the shared block, of the child on the latter.
PairRights(r, rs, rc) ==
  "root" :> ("br" :> r @@ "bc" :> rs) @@ "child" :> ("br" :> {} @@ "bc" :> rc)
PairContexts == "r1" :> {Ctx("basic", 0), Ctx("extended", 1)}
             @@ "c1" :> {Ctx("basic", 1), Ctx("extended", 0), Ctx("other", 0)}
             @@ "c2" :> {Ctx("basic", 0), Ctx("extended", 1)}

\* Only what is listed differs from null.
Entries(t) == [i \in MCIndices |-> IF i \in DOMAIN t THEN t[i] ELSE NULL]
Choices(t) == [i \in MCIndices |-> IF i \in DOMAIN t THEN t[i] ELSE {NULL}]

\* The child keeps its VIDT and save areas that any frame fits in, so every
\* handler saves the context it interrupts.  The root may lose what the kernel
\* takes of its own block, where its VIDT and its contexts are, or what the child
\* cuts of the shared one, and may have no VIDT.
hidden == {"read", "write"}
SoundMappings == {PairRights(r, rs, all) : r, rs \in {all, hidden}}
SoundVidts    == "root" :> {"vr", NULL} @@ "child" :> {"vc"}
SoundPointers == "vr" :> Choices(0 :> {"r1", "c2"} @@ 15 :> {"r1"} @@ 4 :> {"r1"})
              @@ "vc" :> Choices(0 :> {"c1", "c2", NULL} @@ 8 :> {"c1"} @@ 9 :> {"c1", NULL})
SoundMemory   == {[rights   |-> PairRights(all, all, all),
                   vidt     |-> "root" :> "vr" @@ "child" :> "vc",
                   table    |-> "vr" :> Entries(0 :> "r1" @@ 15 :> "r1" @@ 4 :> "r1")
                             @@ "vc" :> Entries(0 :> "c1" @@ 8 :> "c1" @@ 9 :> "c1"),
                   contexts |-> "r1" :> Ctx("basic", 0) @@ "c1" :> Ctx("basic", 1)
                             @@ "c2" :> Ctx("basic", 0)]}

\* The child may lose its VIDT or its rights on its memory, or have a save area
\* too small.
LossyMappings == {PairRights(all, all, r) : r \in {all, {"accessible", "read"}, {"read", "write"}, {}}}
LossyVidts    == "root" :> {"vr"} @@ "child" :> {"vc", NULL}
LossyPointers == "vr" :> Choices(0 :> {"r1"} @@ 15 :> {"r1", NULL})
              @@ "vc" :> Choices(0 :> {"c1"} @@ 8 :> {"c1", "c2"} @@ 9 :> {"c1", NULL})

LossyContexts == [PairContexts EXCEPT !["c2"] = {Ctx("basic", 0)}]

\* A root, its child and its grandchild, each with a block of its own that its
\* ancestors share.
ChainParent  == "child" :> "root" @@ "grandchild" :> "child"
ChainBlockOf == [a \in {"r1", "vr"} |-> "br"] @@ [a \in {"c1", "vc"} |-> "bc"]
             @@ [a \in {"g1", "vg"} |-> "bg"]
ChainRoom    == [a \in {"r1", "c1", "g1"} |-> IF a = "c1" THEN {"basic"} ELSE both]
ChainRights(lost) ==
  LET owners == "br" :> {"root"} @@ "bc" :> {"root", "child"}
             @@ "bg" :> {"root", "child", "grandchild"}
  IN  [p \in {"root", "child", "grandchild"} |->
         [b \in {"br", "bc", "bg"} |->
            IF p \notin owners[b] THEN {} ELSE IF p = lost THEN {"accessible", "read"} ELSE all]]
ChainMappings == {ChainRights(NULL), ChainRights("child")}
ChainVidts    == "root" :> {"vr", NULL} @@ "child" :> {"vc", NULL} @@ "grandchild" :> {"vg"}
ChainPointers == "vr" :> Choices(4 :> {"r1", NULL} @@ 15 :> {"r1"})
              @@ "vc" :> Choices(0 :> {"c1"} @@ 4 :> {"c1", NULL} @@ 9 :> {"c1"}
                               @@ 10 :> {"c1", NULL})
              @@ "vg" :> Choices(0 :> {"g1"})
ChainContexts == "r1" :> {Ctx("basic", 1)} @@ "c1" :> {Ctx("basic", 1), Ctx("basic", 0)}
              @@ "g1" :> {Ctx("basic", 1)}
ChainMemory   == {[rights   |-> ChainRights(NULL),
                   vidt     |-> "root" :> "vr" @@ "child" :> "vc" @@ "grandchild" :> "vg",
                   table    |-> "vr" :> Entries(4 :> "r1" @@ 15 :> "r1")
                             @@ "vc" :> Entries(0 :> "c1" @@ 4 :> "c1" @@ 9 :> "c1")
                             @@ "vg" :> Entries(0 :> "g1"),
                   contexts |-> [a \in {"r1", "c1", "g1"} |-> Ctx("basic", 1)]]}
=============================================================================
