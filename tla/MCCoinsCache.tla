---------------------------- MODULE MCCoinsCache ----------------------------
(* CoinsCache with two outpoints, two coin values per outpoint, so that a coin
   can be replaced by a different one, and two block hashes. *)
EXTENDS CoinsCache
=============================================================================
