SPECIFICATION MCSpec
CONSTANTS
  Parts = {"watch"}
  small = small
  large = large
  r1 = r1
  LogSettings <- MCLogSettings
  a = a
  b = b
  c1 = c1
  c2 = c2
  WatchSettings <- SameDir
  alice = alice
  bob = bob
  a1 = a1
  a2 = a2
  b1 = b1
  Requests <- MCRequests
CHECK_DEADLOCK FALSE
INVARIANT LiveStaysListed
