\* A static cluster, as factory.rs builds it.
CONSTANTS
  b1 = b1
  b2 = b2
  r1 = r1
  r2 = r2
  None = None
  Backends <- TwoBackends
  Requests = {r1, r2}
  Input <- SessionInput
  Keys <- MCKeys
  Ring <- MCRing
  Source = "static"
  Found <- StaticFound
  Selection = "round_robin"
  HashSource <- NoHash
  HealthCheck = None
  ConsecutiveSuccess = 1
  ConsecutiveFailure = 1
  MaxIterations = 3
SPECIFICATION Spec
INVARIANT
  AlreadyPopulated
CHECK_DEADLOCK FALSE
