\* Hybrid queries with a router that fails and collections that change.
SPECIFICATION Spec
CONSTANTS
  a = a
  b = b
  spare = spare
  d1 = d1
  d2 = d2
  d3 = d3
  None = None
  Scale = 11913300
  Unit = 6
  Top = 1
  Mid = 2
  MaxRank = 3
  Coll = {1, 2}
  Doc = {d1, d2, d3}
  CollOf <- DocCollOf
  Born <- BornAs
  Defaults <- EitherDefault
  Names = {a, b, spare}
  Rankings <- SomeRankings
  Vectors = {TRUE, FALSE}
  Relevance = {0, 6}
  Requests <- SomeRequests
  Headroom = 2
  MaxChanges = 1
INVARIANTS
  TypeOK
  AnswerIsWhatWasFound
  FusionRespectsTheLists
  TopStays
  SurvivesServices
CHECK_DEADLOCK FALSE
