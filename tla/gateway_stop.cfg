\* A chain with an arbitrary middleware.
SPECIFICATION Spec
CONSTANTS
  Requests = {r1}
  c1 = c1
  c2 = c2
  None = None
  Chain <- PluginChain
  PluginDecisions <- AnyPlugin
  MaxBytes = 3
  MaxBody = 4
  RetryBuffer = 2
  MaxRetries = 2
  FiledAs = "ArcRouteConf"
  Inputs <- FewInputs
  Entries <- MCEntries
  Clients <- MCClients
  Upstreams <- TwoUpstreams
  Pools <- MCPools
  Hosts = {}
  Sni <- MCSni
  ClientHeaders <- MCClientHeaders
  ReplyHeaders <- MCReplyHeaders
  Malformed <- MCMalformed
INVARIANTS
  StopHalts
CHECK_DEADLOCK FALSE
