SPECIFICATION Spec
CONSTANTS
  Nesting <- Depths
  ReplyStreams <- UpToTwo
  MaxConnections = 2
  MaxThrows = 1
INVARIANTS
  TypeOK
  RepliesRead
  RepliesAsSent
  NothingHeldBack
CHECK_DEADLOCK FALSE
