SPECIFICATION Spec
CONSTANTS
  Run = {r1, r2}
  MetricsDays = 1
  RunsDays = 2
  EventsDays = 1
  BatchSize = 1
  LastDay = 3
  None = None
INVARIANTS TypeOK MetricsHaveTheirRun NothingOldIsLeft
PROPERTIES ImplementsRunTable
SYMMETRY RunSymmetry
