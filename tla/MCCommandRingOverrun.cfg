SPECIFICATION Spec
CONSTANTS
  NumTRBs = 4
  MaxCmds = 2
  MaxResets = 0
PROPERTIES
  RetNeverOverrun
CHECK_DEADLOCK FALSE
