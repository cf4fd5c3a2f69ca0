\* One request with every input, a middleware that may fail in any hook; the
\* route configuration filed by value.
SPECIFICATION FairSpec
CONSTANTS
  Requests = {r1}
  c1 = c1
  c2 = c2
  None = None
  Chain <- PluginChain
  PluginDecisions <- FailingPlugin
  MaxBytes = 3
  MaxBody = 4
  RetryBuffer = 2
  MaxRetries = 2
  FiledAs = "RouteConf"
  Inputs <- AllInputs
  Entries <- MCEntries
  Clients <- MCClients
  Upstreams <- MCUpstreams
  Pools <- MCPools
  Hosts <- MCHosts
  Sni <- MCSni
  ClientHeaders <- MCClientHeaders
  ReplyHeaders <- MCReplyHeaders
  Malformed <- MCMalformed
INVARIANTS
  TypeOK
  NoPanic
  AclRespected
  BodyWithinLimit
  SizeRejectionJustified
  Answered
  StatusTruthful
  HeadersApplied
  PageFits
PROPERTY
  Terminates
CHECK_DEADLOCK FALSE
