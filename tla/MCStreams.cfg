SPECIFICATION StreamsSpec
CONSTANTS
  MaxStream = 7
  StackSize = 3
  NumTRBs = 3
  NumPages = 8
  MaxCalls = 2
INVARIANTS StackSuffices EventFindsItsStream NoStreamLeftBehind
CHECK_DEADLOCK FALSE
