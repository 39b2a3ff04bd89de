SPECIFICATION Spec
CONSTANTS
  Null = Null
  DefaultDb = 0
  Channels = {}
  Dbs = {0, 1}
  MaxStreams = 3
  FaultyStreams = {1, 2}
  RequirePass = FALSE
  MaxLoads = 1
  MaxPushes = 1
  MaxCmds = 2
  UserCommands <- EverySet
  ForcedCalls = TRUE
  MayEnd = TRUE
  AuthPass = FALSE
  NoReadyCheck = TRUE
  EnableOfflineQueue = TRUE
  MaxAttempts = 2
  LateClose = TRUE
  LateStart = TRUE
INVARIANTS
  TypeOK
  QueuedIsPending
PROPERTIES
  WrittenOnce
  DbKeptUntilSelect
  RefinesPipe
CHECK_DEADLOCK FALSE
