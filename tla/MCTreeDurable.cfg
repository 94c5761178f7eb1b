SPECIFICATION DurableSpec
CONSTANTS
  a = a
  b = b
  Elem <- MCElem
  Path <- MCPath
  Val = {v1}
  Faults = {"torn", "store", "save", "delete"}
  MaxLog = 3
  MaxFails = 2
INVARIANT CleanIsPacked
INVARIANT NewNeverFails
INVARIANT SeenIsDurable
PROPERTY ImplementsDirTree
