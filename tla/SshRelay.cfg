\* Three bytes of output through a buffer of two; two pieces of input, one more
\* than the channel holds.
CONSTANTS
  InputCapacity = 1
  BufSize = 2
  MaxInput = 2
  MaxOutput = 3
SPECIFICATION SshSpec
INVARIANTS
  OutputIsWhole
  ConnectionAccounted
PROPERTIES
  ServerEndReleases
\* The relay ends, or never starts.
CHECK_DEADLOCK FALSE
