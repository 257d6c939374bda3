\* Two terminals, four commands and two mishaps; three pids.
SPECIFICATION Spec
CONSTANTS
  Terminal = {t1, t2}
  Pid = {p1, p2, p3}
  Empty = Empty
  None = None
  MaxOps = 4
  MaxMishaps = 2
SYMMETRY Symmetric
INVARIANTS
  NoneUnreachable
  TracebackSurvives
PROPERTIES
  StopLeavesNothing
  OnlyTheStoppedIsInTheWay
\* No command may be left to give.
CHECK_DEADLOCK FALSE
