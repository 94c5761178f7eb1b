SPECIFICATION FairSpec
CONSTANTS
    t1 = t1
    t2 = t2
    Thread = {t1, t2}
    Name <- MCName
    Dirs <- MCDirs
    Links <- MCLinks
    Xattr <- MCXattr
    Settings <- MCSettings
INVARIANT RefFileIsRef
INVARIANT ClosedIsStored
PROPERTY RequestsReturn
CHECK_DEADLOCK FALSE
