SPECIFICATION FairSpec
CONSTANTS
  NumXHCEntries = 3
  NumBounceEntries = 3
  MaxEvents = 3
  MaxStops = 1
  MaxRestarts = 1
INVARIANTS
  NoLostContinuation
PROPERTIES
  PolledInOrder
  StopScooped
  EventsSettle
CHECK_DEADLOCK FALSE
