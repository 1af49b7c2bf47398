SPECIFICATION Spec
CONSTANTS
  Lines <- MCLines
  FormatLine <- MCFormatLine
  CheckLine <- MCCheckLine
  Originals <- MCOriginals
  FlagSets = {{}, {"e"}, {"i", "b"}, {"i", "e", "b"}, {"c", "i"}}
  Saves = {"path", "out"}
  Faults = {"crash", "open", "read", "disk full", "large"}
  Reuse = FALSE
  MaxCalls = 3
INVARIANTS SavesTheLines SavedIsFormatted FailureHarmless Recoverable
CHECK_DEADLOCK FALSE
