---------------------------- MODULE MCCoinsFlush ----------------------------
(* Two branches of two blocks.  Output o1 is created on both branches, at
   different heights, and spent on one; o2 is created on both at the same
   height and spent on the other; o3 is created and spent within one block. *)
EXTENDS CoinsFlush

CONSTANTS A1, A2, B1, B2, o1, o2, o3

MCParent == [b \in Block \ {Genesis} |->
               CASE b = A2 -> A1 [] b = B2 -> B1 [] OTHER -> Genesis]
MCHeight == [b \in Block |-> IF b = Genesis THEN 0 ELSE IF b \in {A1, B1} THEN 1 ELSE 2]
MCCreates == [b \in Block |-> CASE b = A1 -> {o1, o2}
                                [] b = B1 -> {o2}
                                [] b = B2 -> {o1, o3}
                                [] OTHER -> {}]
MCSpends == [b \in Block |-> CASE b = A2 -> {o1}
                               [] b = B2 -> {o2, o3}
                               [] OTHER -> {}]

Empty == [o \in OutPoint |-> Spent]
MCUtxo == [b \in Block |-> CASE b = Genesis -> Empty
                             [] b \in {A1, B1} -> Apply(b, Empty)
                             [] b = A2 -> Apply(A2, Apply(A1, Empty))
                             [] b = B2 -> Apply(B2, Apply(B1, Empty))]
=============================================================================
