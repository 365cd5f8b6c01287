SPECIFICATION Spec
CONSTANTS
  Addr <- MCAddr
  NumLines = 2
  Policies <- MCPolicies
  BypassModes <- MCOff
  BypassToggles = FALSE
  Callbacks <- MCOne
  OrbMaxSize = 2
  CrbMaxSize = 2
  DramRqSize = 1
  DramWqSize = 1
  LinkLatency = 0
  FrontendLatency = 0
  BackendLatency = 1
  MaxRequests = 3
INVARIANT ResponsesReadyInOrder
