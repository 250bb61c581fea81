SPECIFICATION Spec
CONSTANTS
  Server = {1, 2}
  Setter = {"app"}
  Observable <- MCObservable
  Value = {0, 2}
  Payload <- MCPayload
  Default <- MCDefault
  MaxWrites = 2
  MaxSets = 2
  MaxAge = 3
  Null = Null
INVARIANTS
  TypeOK
  LookupsAsDocumented
  FaultsAsKnown
PROPERTIES
  NotTooOften
CHECK_DEADLOCK FALSE
