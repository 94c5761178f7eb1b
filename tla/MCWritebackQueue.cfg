SPECIFICATION FairSpec
CONSTANTS
  x = x
  y = y
  z = z
  e1 = e1
  e2 = e2
  Location = {x, y, z}
  Endpoint = {e1, e2}
  EndpointOf <- MCEndpointOf
  Client = {c1}
  Writer = {w1, w2}
  Settings <- MCSettings
CHECK_DEADLOCK FALSE
INVARIANT BooksAreRight
INVARIANT FlushMeansStored
PROPERTY EventuallyStored
PROPERTY QueueReturns
