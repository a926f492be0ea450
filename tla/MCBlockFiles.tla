---------------------------- MODULE MCBlockFiles ----------------------------
(***************************************************************************)
(* A chain of two blocks and a branch of one.  A file takes two small       *)
(* blocks, so that files are left while blocks stored in them are not yet   *)
(* connected, and A2 is larger than a file.                                 *)
(***************************************************************************)
EXTENDS BlockFiles

CONSTANTS A1, A2, B1

MCParent == [b \in Block \ {Genesis} |-> IF b = A2 THEN A1 ELSE Genesis]
MCHeight == [b \in Block |-> CASE b = Genesis -> 0 [] b = A2 -> 2 [] OTHER -> 1]
MCSize == [b \in Block |-> IF b = A2 THEN 4 ELSE 1]
MCUndoSize == [b \in Block |-> 1]
=============================================================================
