\* Two lines that compete for an index, over a link.
SPECIFICATION FairSpec
CONSTANTS
  Addr <- MCPair
  NumLines = 2
  Policies <- MCPolicies
  BypassModes <- MCOff
  BypassToggles = FALSE
  Callbacks <- MCOne
  OrbMaxSize = 2
  CrbMaxSize = 2
  DramRqSize = 2
  DramWqSize = 1
  LinkLatency = 1
  FrontendLatency = 0
  BackendLatency = 1
  MaxRequests = 3
INVARIANT
  OneReadPerWaiter
PROPERTIES
  Drained
  ImplementsFairLineService
