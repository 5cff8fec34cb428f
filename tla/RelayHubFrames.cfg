\* One connection and one frame.
SPECIFICATION Spec
CONSTANTS
  Conns = {c1}
  Sessions = {s1}
  NoConn = none
  Capacity = 1
  MaxFrames = 1
INVARIANT FramesReachRelay
CHECK_DEADLOCK FALSE
