SPECIFICATION Spec
CONSTANTS
  Server = {1, 2}
  Object = {2, 3}
  Multiple = {2, 3}
  AccessControl = 2
  AllInstances = AllInstances
  Null = Null
  Freed = Freed
  MaxId = 1
  MaxAcoId = 2
  BootPolicy <- MCBootPolicy
  Written <- MCWritten
  MaxCommands = 0
  Careful = TRUE
INVARIANTS
  TypeOK
  AcoDescribesLive
PROPERTIES
  ImplementsAccessPolicy
  OnlyByRight
CHECK_DEADLOCK FALSE
