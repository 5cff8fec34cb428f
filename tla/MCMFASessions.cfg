\* Two requests race for two sessions; secrets replace one another; the
\* clock runs past the lifetime of an access token and of a session.
SPECIFICATION Spec
CONSTANTS
  Reqs = {r1, r2}
  AccessTTL = 2
  MFATTL = 1
  MaxSessions = 2
  MaxSetups = 2
  MaxTime = 3
SYMMETRY Symmetry
INVARIANTS
  TakenIsGone
  SecretReadAfterTaking
PROPERTIES
  SessionIsOneTime
\* The system may run out of time with every request answered.
CHECK_DEADLOCK FALSE
