\* A scheduled `update` and one command of a user, over a tree that changes.
SPECIFICATION FairSpec
CONSTANTS
  p1 = p1
  p2 = p2
  a = a
  b = b
  h1 = h1
  h2 = h2
  None = None
  Proc = {p1, p2}
  Coll = {a, b}
  Hash = {h1}
  File <- OneFileEach
  Poison = {}
  Ops = {"reindex", "add", "remove", "cleanup"}
  Cron = {p1}
  MaxOps = 1
  MaxMishaps = 1
PROPERTIES
  Converges
