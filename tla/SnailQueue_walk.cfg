SPECIFICATION Spec
CONSTANTS
  Values = {v1, v2}
  Width = 6
  Default = 2
  Requests = {0, 1, 3, 4, 5}
  Limits = {0, 2}
  MaxTaken = 5
INVARIANTS SizeIsDistance FullAtCapacity VisitsQueued
PROPERTIES TraversalComplete ImplementsFifo
CHECK_DEADLOCK FALSE
