SPECIFICATION FairSpec
CONSTANTS
  Server = {1, 2}
  Request = {"read", "write", "observe", "cancel", "execute"}
  MaxTasks = 2
  Nobody = Nobody
  NoServer = NoServer
  NoTask = NoTask
  Wedged = Wedged
PROPERTIES
  RegisterReturns
  RequestsEnd
  DeregistersUnlessHung
CHECK_DEADLOCK FALSE
