\* Three policies of seven bodies, two users of whom one is in a group, two
\* hosts, two readings of the clock: policies apply at once, disagree, tie, and
\* one goes with its host.
CONSTANTS
  alice = alice
  bob = bob
  ops = ops
  h1 = h1
  h2 = h2
  none = none
  AnyHost = AnyHost
  Always = Always
  NoRow = NoRow
  Members <- MCMembers
  Users = {alice, bob}
  Hosts = {h1, h2}
  Hours = {0, 1, 2}
  Exts = {"exe", "txt"}
  Sizes = {1, 100, 101}
  Bodies <- MCBodies
  Blank <- MCBlank
  Times = {1, 2}
  MaxPolicies = 3
SPECIFICATION Spec
INVARIANTS
  RefusedByHours
  ManagersNeverLaxer
PROPERTIES
  DeletionIsLocal
  NewcomersYield
CHECK_DEADLOCK FALSE
