SPECIFICATION Spec
CONSTANTS
  NumTRBs = 4
  MaxTDs = 2
  MaxRequests = 3
  MaxFailures = 0
PROPERTIES
  FlushedEventsDiscarded
CHECK_DEADLOCK FALSE
