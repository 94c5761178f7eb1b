SPECIFICATION MCSpec
CONSTANTS
  Parts = {"dir"}
  c1 = c1
  c2 = c2
  Client = {c1, c2}
  Name <- MCName
  Dirs <- MCDirs
  Links <- MCLinks
  watcher = watcher
  Settings <- MCLinkSettings
  r1 = r1
  r2 = r2
  r3 = r3
  None = None
  BlockSettings <- MCBlockSettings
CHECK_DEADLOCK FALSE
INVARIANT LinkHasEntry
