------------------------------ MODULE MCMempool ------------------------------
\* Two branches of blocks.  In A1 the child 1 precedes its parent 3, as the
\* order of ids has it; 2 spends outputs of both, 4 the coinbase of A1, which is
\* mature for A2; 5, in B1, conflicts with 3; 6 is not final at the genesis block
\* and invalid under the rules that follow B2, 8 invalid before them; both branches
\* confirm 7.  B3 is invalid.
EXTENDS Mempool

CONSTANTS G, A1, A2, B1, B2, B3, proof1, proof2, proof3

MCParent == A1 :> G @@ A2 :> A1 @@ B1 :> G @@ B2 :> B1 @@ B3 :> B2
MCHeight == G :> 0 @@ A1 :> 1 @@ A2 :> 2 @@ B1 :> 1 @@ B2 :> 2 @@ B3 :> 3

MCInputs == 1 :> {<<3, 0>>} @@ 2 :> {<<1, 0>>, <<3, 1>>} @@ 3 :> {<<9, 0>>}
            @@ 4 :> {<<10, 0>>} @@ 5 :> {<<9, 0>>} @@ 6 :> {<<9, 1>>}
            @@ 7 :> {<<9, 2>>} @@ 8 :> {<<9, 1>>} @@ 9 :> {} @@ 10 :> {}
MCNumOutputs == 1 :> 1 @@ 2 :> 0 @@ 3 :> 2 @@ 4 :> 0 @@ 5 :> 0 @@ 6 :> 0 @@ 7 :> 0
                @@ 8 :> 0 @@ 9 :> 3 @@ 10 :> 1
MCFirstHeight == [t \in Tx |-> IF t \in {4, 6} THEN 2 ELSE 0]
MCGoodFlags == [t \in Tx |-> IF t = 6 THEN {0} ELSE IF t = 8 THEN {1} ELSE {0, 1}]
MCTxsOf == G :> <<9>> @@ A1 :> <<10, 1, 3>> @@ A2 :> <<2, 4, 7>>
           @@ B1 :> <<5, 7>> @@ B2 :> <<>> @@ B3 :> <<>>
MCFlags == [b \in Block |-> IF b \in {B2, B3} THEN 1 ELSE 0]
MCOutPoint == proof1 :> <<9, 0>> @@ proof2 :> <<9, 2>> @@ proof3 :> <<9, 0>>
=============================================================================
