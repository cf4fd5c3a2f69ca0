\* A cluster read from a file that changes at any time, with sticky sessions,
\* unchecked.
CONSTANTS
  b1 = b1
  b2 = b2
  r1 = r1
  r2 = r2
  None = None
  Backends <- TwoBackends
  Requests = {r1, r2}
  Input <- SessionInput
  Keys <- MCKeys
  Ring <- MCRing
  Source = "file"
  Found <- AnyFound
  Selection = "consistent"
  HashSource <- CookieHash
  HealthCheck = None
  ConsecutiveSuccess = 1
  ConsecutiveFailure = 1
  MaxIterations = 4
SPECIFICATION FairSpec
INVARIANT
  Sticky
PROPERTY
  ImplementsUpstream
