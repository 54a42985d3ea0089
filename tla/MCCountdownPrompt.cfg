SPECIFICATION FairSpec
CONSTANTS
  First = 10
  StartAfter = "prompt"
  NotBlocked = "running"
  Proc <- MCProc
  Semaphore <- MCSemaphore
PROPERTIES CountdownCompletes
CHECK_DEADLOCK FALSE
