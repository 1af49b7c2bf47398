SPECIFICATION FairSpec
CONSTANTS
  Threads = {t1, t2}
  EnableLock = TRUE
  Level = 2
  UseLimit = 2
  LongMsgs = {2, 3}
  Faults = {"init", "fopen", "rename", "format", "fwrite", "flush", "same_second"}
  MaxMsgs = 3
  MaxRaced = 2
  MaxInits = 2
  MaxTime = 1
INVARIANTS TypeOK LinesWhole NoLineLost FileBounded LockHeldInside Chronicle
PROPERTIES AppendReturns
CHECK_DEADLOCK FALSE
