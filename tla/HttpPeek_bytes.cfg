SPECIFICATION Spec
CONSTANTS
  Messages <- MCMessages
  Unroll = 4
INVARIANTS StaysInside ParsesWhatWasSent
CHECK_DEADLOCK FALSE
