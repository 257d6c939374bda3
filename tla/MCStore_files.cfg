\* Two files in one collection, and a body that cannot be indexed.
SPECIFICATION Spec
CONSTANTS
  p1 = p1
  p2 = p2
  a = a
  b = b
  h1 = h1
  h2 = h2
  None = None
  Proc = {p1, p2}
  Coll = {a}
  Hash = {h1, h2}
  File <- TwoFiles
  Poison = {h2}
  Ops = {"reindex", "add", "remove", "cleanup"}
  Cron = {}
  MaxOps = 1
  MaxMishaps = 1
SYMMETRY SymmetricProcs
PROPERTIES
  SoloFailure
  ImplementsCatalog
