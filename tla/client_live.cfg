SPECIFICATION FairSpec
CONSTANTS
  Null = Null
  DefaultDb = 0
  Channels = {"a", "b"}
  Dbs = {0, 1}
  MaxStreams = 3
  FaultyStreams = {1, 2}
  RequirePass = FALSE
  MaxLoads = 1
  MaxPushes = 0
  MaxCmds = 3
  UserCommands <- SubscribeSet
  ForcedCalls = FALSE
  MayEnd = FALSE
  AuthPass = FALSE
  NoReadyCheck = FALSE
  EnableOfflineQueue = TRUE
  MaxAttempts = 0
  LateClose = FALSE
  LateStart = FALSE
INVARIANTS
  SubscriptionsRestored
PROPERTIES
  Recovers
  SentDrains
CHECK_DEADLOCK FALSE
