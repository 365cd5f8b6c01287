SPECIFICATION Spec
CONSTANTS
  Addr <- MCPair
  NumLines = 2
  Policies <- MCPolicies
  BypassModes <- MCOff
  BypassToggles = FALSE
  Callbacks <- MCBoth
  OrbMaxSize = 2
  CrbMaxSize = 2
  DramRqSize = 1
  DramWqSize = 1
  LinkLatency = 0
  FrontendLatency = 0
  BackendLatency = 0
  MaxRequests = 4
INVARIANT NoUntrackedResponse
