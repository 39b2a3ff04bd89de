SPECIFICATION Spec
CONSTANTS
  Null = Null
  DefaultDb = 0
  Channels = {}
  Dbs = {0, 1}
  MaxStreams = 2
  FaultyStreams = {1}
  RequirePass = FALSE
  MaxLoads = 0
  MaxPushes = 0
  MaxCmds = 2
  UserCommands <- Gets
  ForcedCalls = FALSE
  MayEnd = FALSE
  AuthPass = FALSE
  NoReadyCheck = FALSE
  EnableOfflineQueue = TRUE
  MaxAttempts = 0
  LateClose = FALSE
  LateStart = FALSE
INVARIANTS
  NoLostPromise
CHECK_DEADLOCK FALSE
