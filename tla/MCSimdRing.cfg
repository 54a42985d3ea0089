SPECIFICATION FairSpec
CONSTANTS
  Capacity = 3
  Part <- MCPart
  MaxBatches = 5
INVARIANTS TypeOK BatchesWhole ResultsStay
PROPERTIES ConsumerServes
CHECK_DEADLOCK FALSE
