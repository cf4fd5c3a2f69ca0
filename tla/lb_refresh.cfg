\* A cluster found by dns, checked, with any answer at any time.
CONSTANTS
  b1 = b1
  b2 = b2
  r1 = r1
  r2 = r2
  None = None
  Backends <- TwoBackends
  Requests = {r1}
  Input <- SessionInput
  Keys <- MCKeys
  Ring <- MCRing
  Source = "dns"
  Found <- AnyFound
  Selection = "round_robin"
  HashSource <- NoHash
  HealthCheck = "custom"
  ConsecutiveSuccess = 1
  ConsecutiveFailure = 2
  MaxIterations = 3
SPECIFICATION FairSpec
INVARIANTS
  TypeOK
  TablesAgree
  HealthFollowsChecks
  UnavailableExplained
PROPERTIES
  FlipsAreEarned
  KeepsChecking
  ImplementsUpstream
