SPECIFICATION FairSpec
CONSTANTS
  Capacity = 3
  Initial = 2
  Writer <- MCWriter
INVARIANTS TypeOK MutexInitialised RecordsWhole NothingLost OvershootBounded
PROPERTIES LockServed ReaderCatchesUp
