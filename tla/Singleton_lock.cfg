SPECIFICATION FairSpec
CONSTANTS
  Pids = {p1, p2, p3}
  IOFails = TRUE
  MaxStarts = 4
INVARIANTS TypeOK OneInstance PidFileNamesOwner
PROPERTIES UsurperReturns
CHECK_DEADLOCK FALSE
