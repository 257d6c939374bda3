\* A collection removed or renamed under the loop, a directory that is gone.
SPECIFICATION Spec
CONSTANTS
  Name = {1, 2}
  Tree = {old, new}
  Gone = Gone
  NoName = NoName
  MaxChanges = 1
  old = old
  new = new
INVARIANT
  OneFailureDoesNotAbort
