SPECIFICATION Spec
CONSTANTS
  Unit <- OneUnit
  Oneshot <- NoUnit
  Movable <- OneUnit
  Pid = {p1}
  Run = {r1, r2}
  Births = 2
  Faults = {}
  None = None
INVARIANT ExitIsTheRunsOwn
