\* Two model names that differ in punctuation.
SPECIFICATION Spec
CONSTANTS
  p1 = p1
  p2 = p2
  a = a
  b = b
  h1 = h1
  h2 = h2
  None = None
  Coll = {a, b}
  File <- TwoFiles
  Hash = {h1}
  Headed = {h1}
  Model <- AlikeModels
  Default <- Small
  Dimension <- AlikeDimension
  Runner = {p1}
  Cron = {}
  MaxRuns = 2
  MaxChanges = 0
  MaxFailures = 0
INVARIANT
  OwnTable
