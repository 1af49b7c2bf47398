SPECIFICATION Spec
INVARIANTS Detached OneReturns
PROPERTIES SomebodyReturns
CHECK_DEADLOCK FALSE
