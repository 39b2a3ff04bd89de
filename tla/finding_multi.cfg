SPECIFICATION Spec
CONSTANTS
  MaxCalls = 1
  Queueable = {"incr"}
  MaxQueued = 2
  MaxLosses = 0
  MaxOthers = 0
  EnableOfflineQueue = TRUE
  NotInMulti = NotInMulti
INVARIANTS
  QueuedCommandsTold
CHECK_DEADLOCK FALSE
