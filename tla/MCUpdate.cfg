\* Three names, two versions of a tree, one change by somebody else.
SPECIFICATION FairSpec
CONSTANTS
  Name = {1, 2, 3}
  Tree = {old, new}
  Gone = Gone
  NoName = NoName
  MaxChanges = 1
  old = old
  new = new
INVARIANTS
  TypeOK
  Accounted
  FreshAfterRun
PROPERTIES
  TruthfulExit
  Ends
