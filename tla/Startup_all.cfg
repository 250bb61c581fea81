SPECIFICATION FairSpec
CONSTANTS
  Server = {1, 2}
  Manners = {"careful", "any"}
  NoServer = 0
INVARIANTS
  HandOver
PROPERTIES
  ImplementsStartService
  StateAdvances
  BootstrapReturns
  StartReturns
CHECK_DEADLOCK FALSE
