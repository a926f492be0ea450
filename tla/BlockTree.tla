------------------------------ MODULE BlockTree ------------------------------
(***************************************************************************)
(* The tree of blocks that CBlockIndex objects form through their pprev     *)
(* pointers (src/chain.h, src/chain.cpp).  The tree is a constant: a block  *)
(* determines its parent, its height and the work of its chain; what the    *)
(* node knows of the tree is state, and belongs to the modules that use it. *)
(* The skip list behind GetAncestor is an index over the same relation.     *)
(***************************************************************************)
EXTENDS Naturals, FiniteSets

CONSTANTS Block,    \* the blocks considered, genesis included
          Genesis,
          Parent,   \* pprev: [Block \ {Genesis} -> Block]
          Height    \* nHeight: [Block -> Nat]

ASSUME BlockTreeAssumption ==
  /\ IsFiniteSet(Block)
  /\ Genesis \in Block
  /\ Parent \in [Block \ {Genesis} -> Block]
  /\ Height \in [Block -> Nat]
  /\ Height[Genesis] = 0
  /\ \A b \in Block \ {Genesis} : Height[b] = Height[Parent[b]] + 1

\* A set of blocks that contains the parent of each of its members.
ClosedUnderParent(S) == \A b \in S \ {Genesis} : Parent[b] \in S

\* The blocks on the path from genesis to b, b included: pindex->GetAncestor(h)
\* for every h up to pindex->nHeight.
Ancestors == [b \in Block |->
                {a \in Block : \A S \in SUBSET Block :
                                 b \in S /\ ClosedUnderParent(S) => a \in S}]

Descendants(b) == {d \in Block : b \in Ancestors[d]}

Children(b) == {c \in Block \ {Genesis} : Parent[c] = b}

\* One of the two blocks is an ancestor of the other.
AreOnTheSameFork(a, b) == a \in Ancestors[b] \/ b \in Ancestors[a]

\* The highest block the chains of a and b share.
LastCommonAncestor(a, b) ==
  CHOOSE c \in Ancestors[a] \cap Ancestors[b] :
    \A d \in Ancestors[a] \cap Ancestors[b] : Height[d] <= Height[c]

\* The block on b's chain right above its ancestor a.
NextTowards(a, b) == CHOOSE c \in Ancestors[b] \cap Children(a) : TRUE
=============================================================================
