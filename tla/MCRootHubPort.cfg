SPECIFICATION Spec
CONSTANTS
  NumEach = 2
  Wired = {{1}, {2}}
  Retries = 2
  MaxHw = 3
  MaxHub = 3
  MaxSleeps = 1
INVARIANTS
  RightPortAsked
  NoChangeForgotten
  NoPortLeftResuming
CHECK_DEADLOCK FALSE
