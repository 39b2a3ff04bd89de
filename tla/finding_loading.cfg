SPECIFICATION FairSpec
CONSTANTS
  Null = Null
  DefaultDb = 0
  Channels = {}
  Dbs = {0, 1}
  MaxStreams = 2
  FaultyStreams = {1}
  RequirePass = TRUE
  MaxLoads = 1
  MaxPushes = 0
  MaxCmds = 1
  UserCommands <- Gets
  ForcedCalls = FALSE
  MayEnd = FALSE
  AuthPass = TRUE
  NoReadyCheck = FALSE
  EnableOfflineQueue = TRUE
  MaxAttempts = 0
  LateClose = FALSE
  LateStart = FALSE
PROPERTIES
  Recovers
CHECK_DEADLOCK FALSE
