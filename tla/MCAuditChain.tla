---------------------------- MODULE MCAuditChain ----------------------------
(* Symmetry for model checking AuditChain: the callers are interchangeable; *)
(* identifiers are ordered and are not permuted.                            *)
EXTENDS AuditChain, TLC

Symmetry == Permutations(Loggers)
=============================================================================
