\* Three lines on two indices over a link, in all policies, with bypass switched
\* on and off between cycles and packets that may signal twice.
SPECIFICATION Spec
CONSTANTS
  Addr <- MCAddr
  NumLines = 2
  Policies <- MCPolicies
  BypassModes <- MCOn
  BypassToggles = TRUE
  Callbacks <- MCBoth
  OrbMaxSize = 2
  CrbMaxSize = 2
  DramRqSize = 2
  DramWqSize = 1
  LinkLatency = 1
  FrontendLatency = 0
  BackendLatency = 1
  MaxRequests = 3
INVARIANTS
  TypeOK
  OneRequestPerIndex
  HeldHasBlocker
  ReadsConserved
  DirtyNotLost
  WithinCapacity
PROPERTIES
  NearDispatchInOrder
