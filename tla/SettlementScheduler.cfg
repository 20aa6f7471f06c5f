SPECIFICATION FairSpec
CONSTANTS
  HoursPerDay = 2
  ZoneOffset = 1
  SettleHour = 1
  MaxAmount = 2
  s1 = s1
  s2 = s2
  s3 = s3
  owner = owner
  other = other
  legacy = legacy
  c1 = c1
  c2 = c2
  low = low
  good = good
  best = best
  k1 = k1
  k2 = k2
  NoCycle = NoCycle
  NoGrade = NoGrade
  OwnerOf <- MCOwnerOf
  PointsOf <- MCPoints
  Submissions = {s1}
  Owners = {owner}
  Cycles = {c1}
  Grades = {low, good}
  Passing = {good}
  Accruing = {good}
  Keys = {}
  Withdrawals = {}
  Schedulers = {p1, p2}
  p1 = p1
  p2 = p2
  EvaluationsOf <- OneEvaluation
  MaxDuplicates = 1
  MaxClock = 2
  MaxCrashes = 1
  ImportedQuality <- MissedQuality
  ImportedItems <- NoItems
  ImportedCycles <- NoCycles
  ImportedRequests <- NoRequests
  Opening <- NoBalance
PROPERTIES
  EntitledIsCredited
  DueIsSettled
