SPECIFICATION Spec
CONSTANTS
  Capacity = 3
  Initial = 2
  Writer <- MCWriter
INVARIANT EveryRecordPrinted
