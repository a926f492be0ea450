------------------------------ MODULE MCTxIndex ------------------------------
\* A branch of two blocks and one of a single block on the genesis block.  The
\* first blocks of both hold the same transaction, one of them besides another.
EXTENDS TxIndex, TLC

CONSTANTS G, A1, A2, B1, tA1, tA2, tAB

MCParent == A1 :> G @@ A2 :> A1 @@ B1 :> G
MCHeight == G :> 0 @@ A1 :> 1 @@ A2 :> 2 @@ B1 :> 1
MCTxsOf == G :> {} @@ A1 :> {tA1, tAB} @@ A2 :> {tA2} @@ B1 :> {tAB}
=============================================================================
