SPECIFICATION Spec
CONSTANTS
  NumDevices = 2
  NumAddresses = 3
  NumSlots = 3
  NumEndpoints = 3
  HubEndpoint = 3
  RootHubNumPorts = 2
  MaxExternalHubPorts = 15
  MaxEnums = 3
  MaxCreates = 2
  MaxFailures = 1
INVARIANTS
  OwnSlot
  NoSlotLost
CHECK_DEADLOCK FALSE
