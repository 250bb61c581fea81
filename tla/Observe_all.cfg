SPECIFICATION FairSpec
CONSTANTS
  Server = {1}
  Target = {"resource", "object"}
  MaxTasks = 2
  MaxSets = 2
  NoTask = NoTask
  Wedged = Wedged
  Null = Null
  Unallocated = Unallocated
  Uninit = Uninit
  Freed = Freed
INVARIANTS
  FaultsAsKnown
  
PROPERTIES
  ImplementsSubscriptions
  ValueReported
CHECK_DEADLOCK FALSE
