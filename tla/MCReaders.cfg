\* Every kind of reader beside the commits of the writers.
SPECIFICATION Spec
CONSTANTS
  h1 = h1
  h2 = h2
  None = None
  Coll = {1, 2}
  Segment = {1, 2, 3, 4, 5}
  Begins <- Begun
  File <- TwoFiles
  Hash = {h1, h2}
  Hex = {1}
  Docid <- SameDocid
  Huge = {h2}
  Matching = {h1, h2}
  Rank <- Ranks
  Chunks <- FourChunks
  Closeness <- Similar
  Prefix <- SomePrefixes
  Tree <- Trees
  Born <- BornAs
  Names = {2}
  Asks <- AllAsks
  Fetch = 1
  Limit = 1
  MaxWrites = 2
INVARIANTS
  TypeOK
  LookupExact
  FetchExact
  SearchExact
  CheckFindsEveryGap
  AnswerWasTrue
  ScopeKept
  RaisesOnlyForTheDeleted
