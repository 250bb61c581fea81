SPECIFICATION Spec
CONSTANTS
  Server = {1, 2}
  Object = {2, 3, 4}
  Multiple = {2, 3}
  AccessControl = 2
  AllInstances = AllInstances
  Null = Null
  Freed = Freed
  MaxId = 0
  MaxAcoId = 2
  BootPolicy <- MCBootPolicyAny
  Written = {}
  MaxCommands = 3
  Careful = FALSE
PROPERTIES
  NewInstanceIsCreators
CHECK_DEADLOCK FALSE
