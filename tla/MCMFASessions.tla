--------------------------- MODULE MCMFASessions ----------------------------
(* Symmetry for model checking MFASessions: the requests in flight are      *)
(* interchangeable; sessions and secrets are numbered and are not.          *)
EXTENDS MFASessions, TLC

Symmetry == Permutations(Reqs)
=============================================================================
