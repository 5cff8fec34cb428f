\* Two addresses, two requests in any three instants, eight instants: windows
\* that overlap, touch and leave gaps.
SPECIFICATION LimiterSpec
CONSTANTS
  Addrs = {a, b}
  Limit = 2
  Window = 3
  MaxTime = 7
INVARIANTS
  WindowBound
  MemoryBound
PROPERTY Refinement
