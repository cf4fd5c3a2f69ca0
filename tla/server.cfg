\* The gateway with every small configuration, and lessons 00 to 05.
SPECIFICATION FairSpec
CONSTANTS
  Confs <- MCConfs
  Ids <- MCIds
  Conns = {c1, c2}
  DefaultGrace = 3
  None = None
INVARIANTS
  UpstreamsBacked
  GraceSuffices
PROPERTY
  TermExits
CHECK_DEADLOCK FALSE
