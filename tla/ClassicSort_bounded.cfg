SPECIFICATION Spec
CONSTANTS
  Values = {1, 2, 3, 4}
  MaxLen = 6
INVARIANTS Sorts
CHECK_DEADLOCK FALSE
