\* A body of 34 bytes fits into 43.
CONSTANTS
  MaxLen = 43
  MaxByte = 21
  MaxField = 44
SPECIFICATION Spec
INVARIANT NeverPanics
CHECK_DEADLOCK FALSE
