\* Two connections, to one session or to two; a channel of two frames, and up
\* to four to send into it.
SPECIFICATION Spec
CONSTANTS
  Conns = {c1, c2}
  Sessions = {s1, s2}
  NoConn = none
  Capacity = 2
  MaxFrames = 2
INVARIANTS
  RegistrationHasHandler
  NeverClosedTwice
  OrphansWereOverwritten
  FramesAccounted
PROPERTY HandlersReturn
\* The server may have crashed, and every client may have left.
CHECK_DEADLOCK FALSE
