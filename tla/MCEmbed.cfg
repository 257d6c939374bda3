\* A scheduled embed, a user's embed with either model, and changes meanwhile.
SPECIFICATION FairSpec
CONSTANTS
  p1 = p1
  p2 = p2
  a = a
  b = b
  h1 = h1
  h2 = h2
  None = None
  Coll = {a, b}
  File <- TwoFiles
  Hash = {h1}
  Headed = {}
  Model <- TwoModels
  Default <- Small
  Dimension <- OwnDimension
  Runner = {p1, p2}
  Cron = {p1}
  MaxRuns = 1
  MaxChanges = 3
  MaxFailures = 1
INVARIANTS
  TypeOK
  Covered
  HealthAgrees
PROPERTIES
  SoloCleanupReclaims
  Searchable
