SPECIFICATION Spec
CONSTANTS
  HoursPerDay = 2
  ZoneOffset = 1
  SettleHour = 1
  MaxAmount = 2
  s1 = s1
  s2 = s2
  s3 = s3
  owner = owner
  other = other
  legacy = legacy
  c1 = c1
  c2 = c2
  low = low
  good = good
  best = best
  k1 = k1
  k2 = k2
  NoCycle = NoCycle
  NoGrade = NoGrade
  OwnerOf <- MCOwnerOf
  PointsOf <- MCPoints
  Submissions = {s1, s2, s3}
  Owners = {owner, other}
  Cycles = {legacy, c1}
  Grades = {good, best}
  Passing = {good, best}
  Accruing = {good, best}
  Keys = {k1, k2}
  Withdrawals = {1}
  Schedulers = {p1, p2}
  p1 = p1
  p2 = p2
  EvaluationsOf <- NoEvaluation
  MaxDuplicates = 0
  MaxClock = 2
  MaxCrashes = 0
  ImportedQuality <- GroupedQuality
  ImportedItems <- GroupedItems
  ImportedCycles <- GroupedCycle
  ImportedRequests <- OldRequests
  Opening <- OldBalance
SYMMETRY TwoSchedulers
INVARIANTS
  SettledBacked
  RequestsBacked
  LedgerExplainsItems
  SettlementNeverRefused
  RetentionOnlyPaid
PROPERTIES
  KeepsPromise
