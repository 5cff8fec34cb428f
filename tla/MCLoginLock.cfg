\* Two concurrent logins, three failures to a lock: the smallest threshold at
\* which a count can be lost more than once between two resets.
SPECIFICATION Spec
CONSTANTS
  Reqs = {r1, r2}
  Threshold = 3
  LockFor = 1
  OpLockFor = 2
  MaxTime = 3
  MaxWrong = 7
  Faults = TRUE
SYMMETRY Symmetry
INVARIANTS
  FreshMeansOpen
  CountsAccounted
  MissesWithinBudget
PROPERTIES
  BarredRowUntouched
  LockNeedsFailures
CHECK_DEADLOCK FALSE
