SPECIFICATION MCSpec
CONSTANTS
  Parts = {"access"}
  owner = "o"
  User = {"o", "u"}
  Name <- MCName
  Readers <- MCReaders
  Writers <- MCWriters
  QueueLen = 1
  Watcher = {"w"}
  MaxLinkHops = 3
  Settings <- MCSettings
  ann = ann
  bob = bob
  cyd = cyd
  g = g
  h = h
  Lists <- FewLists
  MaxForget = 0
CHECK_DEADLOCK FALSE
INVARIANT UsersComplete
