SPECIFICATION Spec
CONSTANTS
  r1 = r1
  r2 = r2
  t1 = t1
  t2 = t2
  u1 = u1
  h1 = h1
  h2 = h2
  NoAsset = NoAsset
  Runs = {r1, r2}
  Assets = {t1, t2}
  RunOf <- MCRunOf
  Handlers = {h1, h2}
  Refinement = {FALSE}
  RetryDelays = 1
  MaxDisturbances = 1
INVARIANTS
  TypeOK
  PairedPublication
  SourceKept
PROPERTIES
  KeepsArchive
SYMMETRY TwoTasks
CHECK_DEADLOCK FALSE
