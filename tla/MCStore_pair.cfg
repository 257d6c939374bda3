\* Every pair of commands on two collections, from every database at rest.
SPECIFICATION Spec
CONSTANTS
  p1 = p1
  p2 = p2
  a = a
  b = b
  h1 = h1
  h2 = h2
  None = None
  Proc = {p1, p2}
  Coll = {a, b}
  Hash = {h1, h2}
  File <- OneFileEach
  Poison = {}
  Ops = {"reindex", "add", "remove", "cleanup"}
  Cron = {}
  MaxOps = 1
  MaxMishaps = 1
SYMMETRY Symmetric
INVARIANTS
  TypeOK
  BodyPresent
  NoOrphanDocument
PROPERTIES
  SoloFailure
  PublishesWhatItRead
  SoloSweepReclaims
  ImplementsCatalog
