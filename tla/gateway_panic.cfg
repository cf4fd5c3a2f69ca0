\* The code as it stands.
SPECIFICATION Spec
CONSTANTS
  Requests = {r1}
  c1 = c1
  c2 = c2
  None = None
  Chain <- MainChain
  PluginDecisions <- NoPlugin
  MaxBytes = 3
  MaxBody = 4
  RetryBuffer = 2
  MaxRetries = 2
  FiledAs = "ArcRouteConf"
  Inputs <- FewInputs
  Entries <- MCEntries
  Clients <- MCClients
  Upstreams <- TwoUpstreams
  Pools <- MCPools
  Hosts = {}
  Sni <- MCSni
  ClientHeaders <- MCClientHeaders
  ReplyHeaders <- MCReplyHeaders
  Malformed <- MCMalformed
INVARIANTS
  NoPanic
CHECK_DEADLOCK FALSE
