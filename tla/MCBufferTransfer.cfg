SPECIFICATION FairSpec
CONSTANTS
  MaxSessions = 2
  MaxGuests = 1
  MaxUpdates = 3
  NotBlocked = NotBlocked
  Consumer <- MCConsumers
  Proc <- MCProc
  Semaphore <- MCSemaphore
INVARIANTS TypeOK NothingOverwritten PointsWhole
PROPERTIES PointsKeepComing
CHECK_DEADLOCK FALSE
