SPECIFICATION FairSpec
CONSTANTS
  PruneEvery = 3
  LogEvery = 2
  TickErrors = TRUE
PROPERTY SigtermEndsTheDaemon
CHECK_DEADLOCK FALSE
