SPECIFICATION Spec
CONSTANTS
  MaxEntries = 4
  MaxRuns = 3
CHECK_DEADLOCK FALSE
INVARIANTS TypeOK PipFirst OthersStay GenBehind
