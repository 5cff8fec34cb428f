---------------------------- MODULE MCAuthTokens ----------------------------
(* Symmetry for model checking AuthTokens: the requests in flight are       *)
(* interchangeable; tokens are numbered in the order of issue and are not.  *)
EXTENDS AuthTokens, TLC

Symmetry == Permutations(Reqs)
=============================================================================
