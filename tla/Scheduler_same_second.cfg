SPECIFICATION Spec
CONSTANTS
  c1 = c1
  c2 = c2
  t1 = t1
  t2 = t2
  Client = {c1, c2}
  SchedThread = SchedThread
  Nobody = Nobody
  Task = {t1, t2}
  NoTask = NoTask
  Wedged = Wedged
  IdOf <- MCSameSecond
  Period <- MCPeriod
  Never = Never
  CancelAgain = FALSE
INVARIANTS
  CancelIsFinal
