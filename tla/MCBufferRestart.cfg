SPECIFICATION Spec
CONSTANTS
  MaxSessions = 1
  MaxGuests = 2
  MaxUpdates = 3
  NotBlocked = NotBlocked
  Consumer <- MCConsumer
  Proc <- MCProc
  Semaphore <- MCSemaphore
INVARIANTS NothingOverwritten
CHECK_DEADLOCK FALSE
