\* Every caching lesson, three requests.
SPECIFICATION FairSpec
CONSTANTS
  Requests = {r1, r2, r3}
  AgeCap = 4
  None = None
INVARIANTS
  Coalesced
  PurgedIsGone
PROPERTIES
  NoOlderContent
  Ends
