SPECIFICATION Spec
CONSTANTS
  o1 = o1
  o2 = o2
  p1 = p1
  p2 = p2
  a1 = a1
  a2 = a2
  w1 = w1
  w2 = w2
  Operators = {o1, o2}
  Probes = {p1}
  Runs = {a1, a2}
  Initial = a1
  Workers = {w1}
  SlowAborts = FALSE
  FullBudget = 2
  MaxAttempts = 2
  RetryDelays = 1
  MaxDisturbances = 1
INVARIANTS
  TypeOK
  WholeObject
  DeletedIsClean
  MediaAwaited
  WithinBudget
  OneResult
PROPERTIES
  KeepsLife
  WakeUpKept
CHECK_DEADLOCK FALSE
