SPECIFICATION FairSpec
CONSTANTS
  ByteMod = 3
  Counts = {0, 1, 2}
  Faults = {"calloc", "pthread_create", "push_cb", "exit"}
  MaxPushes = 3
  MaxPools = 2
INVARIANTS TypeOK OneThreadPerContext NoneLeftRunning Balanced
PROPERTIES AcceptedIsConsumed
CHECK_DEADLOCK FALSE
