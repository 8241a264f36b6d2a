\* Every command that looks, while what it looks at changes twice.
SPECIFICATION Spec
CONSTANTS
  Service = {1, 2}
  Group = {8, 9}
  Managed = 0
  Package = {1, 2}
  Task = {1, 2}
  Declares <- MCDeclares
  InGroup <- MCInGroup
  Arg = 1
  Limit = 1
  MaxChanges = 2
INVARIANTS
  TypeOK
  LinesAreTrue
  NothingMissed
  FailureHasItsReason
  CountsFit
