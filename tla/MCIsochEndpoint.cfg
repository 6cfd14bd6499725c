SPECIFICATION Spec
CONSTANTS
  NumSlots = 3
  MaxTDs = 3
  MaxPerRequest = 2
  MaxAborts = 1
  MaxOdd = 1
INVARIANTS
  NoTDLost
  SuccessIsDone
  ReturnedInOrder
  NoTDForgotten
CHECK_DEADLOCK FALSE
