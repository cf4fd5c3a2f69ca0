\* Lesson 03: SIGTERM while its job runs.
SPECIFICATION FairSpec
CONSTANTS
  Confs <- MCConfs
  Ids <- MCIds
  Conns = {c1}
  DefaultGrace = 3
  None = None
INVARIANT
  JobFinished
CHECK_DEADLOCK FALSE
