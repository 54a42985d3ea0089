SPECIFICATION FairSpec
CONSTANTS
  First = 10
  StartAfter = "sem_wait"
  NotBlocked = "running"
  Proc <- MCProc
  Semaphore <- MCSemaphore
INVARIANTS TypeOK ReceivedInOrder CounterNotShared
PROPERTIES ImplementsMailbox CountdownCompletes
