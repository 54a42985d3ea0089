SPECIFICATION FairSpec
CONSTANTS
  MAX_STRING_LENGTH = 4
  Lengths <- MCLengths
  MaxUpdates = 3
INVARIANTS TypeOK FreshValues QuietCopyWhole
PROPERTIES LastStringShown
CHECK_DEADLOCK FALSE
