SPECIFICATION Spec
CONSTANTS
  Unit <- TwoUnits
  Oneshot <- Second
  Movable <- NoUnit
  Pid = {p1, p2}
  Run = {r1, r2, r3}
  Births = 2
  Faults = {"error", "crash", "reboot", "reuse"}
  None = None
INVARIANTS TypeOK OneOpenRun ClosedMeansGone OneRunPerProcess SamplesAreOpen MetricsAreTheRunsOwn
PROPERTY ImplementsRunTable
SYMMETRY Interchangeable
