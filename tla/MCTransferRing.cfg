SPECIFICATION Spec
CONSTANTS
  NumTRBs = 7
  MaxTD = 3
  MaxTRBs = 14
  MaxReinits = 1
  MaxSuspectTRBs = 3
CONSTRAINT Followed
INVARIANTS
  TypeOK
  NothingHidden
  FitSuffices
  NothingStranded
  RoomWhenIdle
PROPERTIES
  HwInOrder
  EventOfOldestTD
CHECK_DEADLOCK FALSE
