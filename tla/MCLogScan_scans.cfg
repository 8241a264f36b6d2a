SPECIFICATION Spec
CONSTANTS
  Lookback = 2
  MaxLines = 2
  MaxTime = 4
  MaxEntries = 3
  None = None
INVARIANTS TypeOK NoEntryTwice BurstLeavesATrace
