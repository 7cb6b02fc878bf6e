SPECIFICATION FileSpec
CONSTANTS
  Runs = {w1, w2, w3}
  MaxSecond = 3
  Original = Original
  Absent = Absent
  Torn = Torn
  Defaults = Defaults
  Refused = Refused
SYMMETRY Symmetry
INVARIANTS
  FoundIsKept
  NothingLost
PROPERTIES
  StartsForCause
