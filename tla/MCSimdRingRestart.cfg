SPECIFICATION Spec
CONSTANTS
  Capacity = 3
  Part <- MCPart
  MaxBatches = 3
INVARIANTS Connectable
CHECK_DEADLOCK FALSE
