SPECIFICATION FairSpec
CONSTANTS
  None = None
  Admins = {a1, a2}
  MaxChanges = 2
  Load <- MCLoad
  Clients <- MCClients
  Keys <- MCKeys
  Bodies <- MCBodies
  Owner <- MCOwner
  MaxReqPerSec = 1
  MaxConcurrent = 1
  MaxBodySize = 2
  MaxRetries <- MCRetries
  MaxWindow = 1
INVARIANTS
  RateHolds
  InflightHolds
  BodiesHold
  LastAttempt
  AcknowledgedHolds
PROPERTY
  CatchesUp
CHECK_DEADLOCK FALSE
