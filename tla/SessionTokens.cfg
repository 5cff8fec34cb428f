\* Two sessions on one host, or on two, and two connections: a token is
\* presented twice at once, and the host goes between the SET and the INSERT.
CONSTANTS
  Sessions = {s1, s2}
  Conns = {c1, c2}
  Hosts = {h1, h2}
SPECIFICATION Spec
INVARIANTS
  AnsweredIsWhole
  HalvesAccounted
PROPERTIES
  TokenOnce
CHECK_DEADLOCK FALSE
