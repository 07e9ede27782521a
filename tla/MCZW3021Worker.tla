--------------------------- MODULE MCZW3021Worker ---------------------------
(* Model values and symmetry for checking ZW3021Worker with TLC.           *)
EXTENDS ZW3021Worker, TLC

CallerSymmetry == Permutations(Callers)
=============================================================================
