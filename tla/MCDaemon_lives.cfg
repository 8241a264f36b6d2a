\* Starts, stops, kills and upgrades of the daemon, through to its pruning.
SPECIFICATION FairSpec
CONSTANTS
  Version <- Three
  Initial = 1
  Broken <- Middle
  SampleInterval = 15
  PruneEvery = 2
  TickErrors = TRUE
INVARIANTS
  TypeOK
  RecordIsTrue
  UpMeansMigrated
PROPERTIES
  InOrder
  ComesUp
  PruneGoesOn
CHECK_DEADLOCK FALSE
