SPECIFICATION Spec
CONSTANTS
  Addr = {a1, a2, a3}
  Key = {1, 2}
  Value = {v, w}
  Thread = {app, mqtt}
  MaxCalls = 6
  Null = Null
SYMMETRY MCSymmetry
INVARIANTS
  FaultsAsKnown
PROPERTIES
  ImplementsKeyedList
  LoopsSeeAll
  FindsWhatWasThere
CHECK_DEADLOCK FALSE
