SPECIFICATION FairSpec
CONSTANTS
  Iterations = 4
  NotBlocked = NotBlocked
  Proc <- MCProc
  Semaphore <- MCSemaphore
INVARIANTS TypeOK BatchNotShared ProcessedOnce
PROPERTIES BenchmarkEnds
