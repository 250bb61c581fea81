SPECIFICATION ValuesSpec
CONSTANTS
  Sample <- MCSample
  Rounded <- MCRounded
  InstanceId = {300, 33000}
  EntrySample <- MCEntrySample
  BufferSize = 400
  MaxSteps = 3
  Unset = Unset
INVARIANTS
  DecodesIffPortable
PROPERTIES
  WriteBackRestores
CHECK_DEADLOCK FALSE
