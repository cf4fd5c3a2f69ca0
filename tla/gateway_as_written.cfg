\* The code as it stands, two concurrent requests, a chain with an arbitrary
\* middleware.
SPECIFICATION Spec
CONSTANTS
  Requests = {r1, r2}
  c1 = c1
  c2 = c2
  None = None
  Chain <- PluginChain
  PluginDecisions <- AnyPlugin
  MaxBytes = 3
  MaxBody = 4
  RetryBuffer = 2
  MaxRetries = 2
  FiledAs = "ArcRouteConf"
  Inputs <- FewInputs
  Entries <- MCEntries
  Clients <- MCClients
  Upstreams <- TwoUpstreams
  Pools <- MCPools
  Hosts = {}
  Sni <- MCSni
  ClientHeaders <- MCClientHeaders
  ReplyHeaders <- MCReplyHeaders
  Malformed <- MCMalformed
INVARIANTS
  MetricsExact
PROPERTY
  StopHaltsAfterRouting
SYMMETRY Interchangeable
CHECK_DEADLOCK FALSE
