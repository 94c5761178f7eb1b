SPECIFICATION MCSpec
CONSTANTS
  Parts = {"tree", "trees"}
  a = a
  b = b
  Elem <- MCElem
  Path <- MCPath
  Val = {v1}
  Faults = {"append", "torn", "store", "save", "create", "window", "delete", "unseen"}
  MaxLog = 2
  MaxFails = 1
  alice = alice
  bob = bob
  a1 = a1
  a2 = a2
  b1 = b1
  l1 = l1
  l2 = l2
  NoSession = NoSession
  User = {alice, bob}
  Session = {a1, a2, b1}
  UserOf <- MCUserOf
  Lock = {l1, l2}
  Settings <- MCTreesSettings
INVARIANT IInv
INVARIANT StoreMeetsNoDirtyKid
INVARIANT TreesAreRight
