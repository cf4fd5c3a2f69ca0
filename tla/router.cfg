\* Every configuration of at most three routes.
CONSTANTS
  h1 = h1
  h2 = h2
  a1 = a1
  a2 = a2
  None = None
  Routes <- MCRoutes
  Confs <- MCConfs
  Paths <- MCPaths
  Hosts <- MCHosts
  Matches <- MCMatches
  Blocks <- MCBlocks
SPECIFICATION Spec
INVARIANTS
  TypeOK
  RegistryComplete
  MatchSound
  RefusalExplained
  RegexInOrder
  AclFaithful
CHECK_DEADLOCK FALSE
