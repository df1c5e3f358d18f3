SPECIFICATION Spec
CONSTANTS
  MaxEntries = 2
  MaxRuns = 2
CHECK_DEADLOCK FALSE
INVARIANTS GenStays
