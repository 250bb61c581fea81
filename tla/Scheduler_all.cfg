SPECIFICATION FairSpec
CONSTANTS
  c1 = c1
  c2 = c2
  t1 = t1
  t2 = t2
  Client = {c1, c2}
  SchedThread = SchedThread
  Nobody = Nobody
  Task = {t1, t2}
  NoTask = NoTask
  Wedged = Wedged
  IdOf <- MCUniqueIds
  Period <- MCPeriod
  Never = Never
  CancelAgain = TRUE
INVARIANTS
  TypeOK
  FunctionsExclusive
  CancelIsFinal
  NeverOversleeps
PROPERTIES
  ImplementsTimerService
  ArmedTaskRuns
  StopEndsThread
