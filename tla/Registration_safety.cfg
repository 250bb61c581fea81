SPECIFICATION Spec
CONSTANTS
  Server = {1, 2}
  Request = {"write", "observe", "cancel", "refused"}
  MaxTasks = 3
  Nobody = Nobody
  NoServer = NoServer
  NoTask = NoTask
  Wedged = Wedged
INVARIANTS
  TypeOK
  NoRequestOnceDeregistering
  PendingIsHandled
  NoUpdateAfterDeregister
  RegisteredKeepsTasks
  NullOnlyThen
CHECK_DEADLOCK FALSE
