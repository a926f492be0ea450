----------------------------- MODULE MCChainState -----------------------------
(***************************************************************************)
(* Instances of ChainState: two branches, A and B, that fork at genesis.    *)
(* The configurations choose how long they are, which blocks are bad, and   *)
(* how much work a block adds.                                              *)
(***************************************************************************)
EXTENDS ChainState, TLC

CONSTANTS G, A1, A2, A3, B1, B2, B3

Tree == (A1 :> G) @@ (A2 :> A1) @@ (A3 :> A2) @@ (B1 :> G) @@ (B2 :> B1) @@ (B3 :> B2)
Depth == (G :> 0) @@ (A1 :> 1) @@ (A2 :> 2) @@ (A3 :> 3) @@ (B1 :> 1) @@ (B2 :> 2) @@ (B3 :> 3)
Order == (G :> 0) @@ (A1 :> 1) @@ (A2 :> 2) @@ (A3 :> 3) @@ (B1 :> 4) @@ (B2 :> 5) @@ (B3 :> 6)

MCParent == [b \in Block \ {G} |-> Tree[b]]
MCHeight == [b \in Block |-> Depth[b]]
MCAddr == [b \in Block |-> Order[b]]

\* Every block adds the same work: ties at every height.
EvenWork == [b \in Block |-> 2 * Depth[b]]
\* The blocks of B are heavier: A3 ties with B2.
SkewedWork == [b \in Block |-> IF b \in {B1, B2, B3} THEN 3 * Depth[b] ELSE 2 * Depth[b]]
\* The work of B comes with its last block.
LateWork == [b \in Block |-> IF b \in {B1, B2} THEN Depth[b] ELSE 3 * Depth[b]]
=============================================================================
