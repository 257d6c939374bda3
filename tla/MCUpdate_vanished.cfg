\* Nothing disturbs the run; a source directory is gone from the start.
SPECIFICATION Spec
CONSTANTS
  Name = {1, 2}
  Tree = {old, new}
  Gone = Gone
  NoName = NoName
  MaxChanges = 0
  old = old
  new = new
PROPERTY
  VanishedSourceFails
