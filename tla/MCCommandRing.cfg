SPECIFICATION FairSpec
CONSTANTS
  NumTRBs = 4
  MaxCmds = 4
  MaxResets = 1
INVARIANTS
  TypeOK
  NoDanglingCallback
  ResultIsOwn
  NothingHidden
  NoLostWakeup
PROPERTIES
  HwRunsOnceInOrder
  CallReturns
CHECK_DEADLOCK FALSE
