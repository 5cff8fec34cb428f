\* Two concurrent callers and three rows: the smallest table with a fork and a
\* row after it.  Two nanoseconds to a tick of the column.
SPECIFICATION Spec
CONSTANTS
  Loggers = {l1, l2}
  Actions = {login}
  Forged = forged
  Details = {"canonical", "compact"}
  Ids = {1, 2, 3}
  Resolution = 2
  MaxTime = 4
  MaxRows = 3
  MaxTampered = 1
  Faults = TRUE
SYMMETRY Symmetry
INVARIANTS
  TypeOK
  LinksPointBack
  HonestChainVerifies
  TamperEvident
CHECK_DEADLOCK FALSE
