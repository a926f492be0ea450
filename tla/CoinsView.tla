------------------------------ MODULE CoinsView ------------------------------
(***************************************************************************)
(* What the stack of coin views promises to the code that connects and     *)
(* disconnects blocks (the CCoinsView interface of src/coins.h):            *)
(* "committed" is the unspent-output set of the active chain (pcoinsTip)    *)
(* and "working" is the set that the block being processed sees (the local  *)
(* "view" of ConnectTip and DisconnectTip).  Caches, flags and the database *)
(* do not appear: CoinsCache is shown to implement this module.             *)
(***************************************************************************)
CONSTANTS OutPoint,  \* the outpoints considered
          Coin,      \* the unspent coins an outpoint can hold
          Spent      \* Coin::IsSpent(): no unspent coin

VARIABLES committed, working

absVars == <<committed, working>>

Map == [OutPoint -> Coin \cup {Spent}]

AbsInit == /\ committed \in Map
           /\ working = committed

\* The block being processed creates an output, or restores a spent one.
Add(o, c) == /\ working' = [working EXCEPT ![o] = c]
             /\ UNCHANGED committed

\* The block being processed spends an output.
Spend(o) == /\ working' = [working EXCEPT ![o] = Spent]
            /\ UNCHANGED committed

\* The block is accepted: its effects become those of the active chain.
Commit == /\ committed' = working
          /\ UNCHANGED working

\* The block is rejected: its effects vanish.
Discard == /\ working' = committed
           /\ UNCHANGED committed

AbsNext == \/ \E o \in OutPoint : Spend(o) \/ \E c \in Coin : Add(o, c)
           \/ Commit
           \/ Discard

AbsSpec == AbsInit /\ [][AbsNext]_absVars
=============================================================================
