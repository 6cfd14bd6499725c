SPECIFICATION FairSpec
CONSTANTS
  NumTRBs = 3
  MaxTDs = 3
  MaxRequests = 2
  MaxFailures = 1
INVARIANTS
  ReturnedInOrder
  SuccessIsDone
  NoRequestLost
  QueueNotForgotten
PROPERTIES
  EveryRequestReturns
CHECK_DEADLOCK FALSE
