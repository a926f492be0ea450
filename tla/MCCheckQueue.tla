---------------------------- MODULE MCCheckQueue ----------------------------
(***************************************************************************)
(* Two workers and the master, up to four checks per block of which one     *)
(* fails, two blocks, the pool started twice.                               *)
(***************************************************************************)
EXTENDS CheckQueue
=============================================================================
