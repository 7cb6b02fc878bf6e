SPECIFICATION Spec
CONSTANTS
  Callers = {c1, c2, c3}
  Rotates = TRUE
  MaxTokens = 4
  NotThere = NotThere
  Truncated = Truncated
  Mixed = Mixed
SYMMETRY Symmetry
INVARIANTS
  OneSaver
  FileUsable
PROPERTIES
  LoadFailsForCause
