SPECIFICATION FairSpec
CONSTANTS
  MaxCalls = 2
  Queueable = {"incr", "bad"}
  MaxQueued = 2
  MaxLosses = 1
  MaxOthers = 1
  EnableOfflineQueue = TRUE
  NotInMulti = NotInMulti
INVARIANTS
  TypeOK
  TransactionsWhole
  OwnReplies
  IncrCountsOwn
  EvalOnceUnlessRejected
PROPERTIES
  CallsSettle
CHECK_DEADLOCK FALSE
