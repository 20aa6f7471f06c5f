SPECIFICATION FairSpec
CONSTANTS
  r1 = r1
  r2 = r2
  t1 = t1
  t2 = t2
  u1 = u1
  h1 = h1
  h2 = h2
  NoAsset = NoAsset
  Runs = {r1}
  Assets = {t1}
  RunOf <- MCRunOf
  Handlers = {h1, h2}
  Refinement = {TRUE, FALSE}
  RetryDelays = 1
  MaxDisturbances = 2
INVARIANTS
  OneModelCall
  PairedPublication
PROPERTIES
  CutEventually
  JsonEventually
CHECK_DEADLOCK FALSE
