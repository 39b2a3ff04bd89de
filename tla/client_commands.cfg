SPECIFICATION Spec
CONSTANTS
  Null = Null
  DefaultDb = 0
  Channels = {}
  Dbs = {0, 1}
  MaxStreams = 3
  FaultyStreams = {1, 2}
  RequirePass = FALSE
  MaxLoads = 0
  MaxPushes = 0
  MaxCmds = 4
  UserCommands <- CommandSet
  ForcedCalls = FALSE
  MayEnd = TRUE
  AuthPass = FALSE
  NoReadyCheck = FALSE
  EnableOfflineQueue = TRUE
  MaxAttempts = 0
  LateClose = FALSE
  LateStart = FALSE
INVARIANTS
  Aligned
  IssueOrder
  DbRestored
  OfflineReplayed
PROPERTIES
  NoReconnectAfterClose
CHECK_DEADLOCK FALSE
