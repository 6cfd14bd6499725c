SPECIFICATION FairSpec
CONSTANTS
  Items = {1, 2, 3}
  MAX_FREE_RETENTION = 1
  MaxAdds = 6
INVARIANTS
  ListsPartition
PROPERTIES
  ImplementsQueue
  Flushed
CHECK_DEADLOCK FALSE
