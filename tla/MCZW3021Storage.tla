--------------------------- MODULE MCZW3021Storage ---------------------------
(***************************************************************************)
(* ZW3021Storage for TLC: the two RPC threads run the same code.           *)
(***************************************************************************)
EXTENDS ZW3021Storage, TLC

ThreadSymmetry == Permutations(Threads)
=============================================================================
