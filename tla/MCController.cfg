SPECIFICATION LifeSpec
CONSTANTS
  Wrap = 2
  SplitCounter = TRUE
  LowWraps = 2
  MaxTicks = 5
  MaxPower = 2
  MaxLifeFailures = 2
CONSTRAINT Followed
INVARIANT RunsProgrammed
PROPERTY FrameNumberNeverGoesBack
CHECK_DEADLOCK FALSE
