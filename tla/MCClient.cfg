SPECIFICATION MCSpec
CONSTANTS
  Parts = {"client", "access", "parse"}
  owner = "o"
  User = {"o", "u"}
  Name <- MCName
  Readers <- MCReaders
  Writers <- MCWriters
  QueueLen = 1
  Watcher = {"v", "w"}
  MaxLinkHops = 3
  Settings <- MCSettings
  ann = ann
  bob = bob
  cyd = cyd
  g = g
  h = h
  Lists <- MCLists
  MaxForget = 1
CHECK_DEADLOCK FALSE
INVARIANT FilesFollowAccess
INVARIANT RenameLosesNothing
INVARIANT ListenersMissNone
INVARIANT GlobIsRight
INVARIANT AccessIsRight
INVARIANT ParseIsRight
PROPERTY CallsReturn
