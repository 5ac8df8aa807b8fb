----------------------------- MODULE MCDBQueue ------------------------------
(***************************************************************************)
(* Small instances of DBQueue.                                              *)
(***************************************************************************)
EXTENDS DBQueue, TLC

Sym == Permutations(Clients) \cup Permutations(Values)
=============================================================================
