---------------------------- MODULE MCLoginLock ----------------------------
(* Bounds and symmetry for model checking LoginLock, and the size of the   *)
(* budget of failures in closed form.                                      *)
EXTENDS LoginLock, Combinatorics, TLC

Symmetry == Permutations(Reqs)

\* Up to the threshold of service.go:344 and four requests at a time.
ASSUME Budgets ==
  \A threshold \in 1..5, k \in 1..4 :
    Cardinality(Spreads(k, threshold)) = choose(threshold - 1 + k, k)
=============================================================================
