\* The pure functions over all short inputs.  A call returns once.
SPECIFICATION Spec
CHECK_DEADLOCK FALSE
CONSTANTS
  Char <- Alphabet
  Calls <- AllCalls
  MaxChars = 3
  Overlap = 1
  Margin = 1
  MaxLen = 5
  MaxBraceExpansions = 3
  None = None
INVARIANTS
  PlacesAreTrue
  WrittenIsMeant
  MeasuresAreHonest
