\* The smallest batch whose calls are all left out.
SPECIFICATION Spec
CONSTANTS
  N = 2
  Nested = {}
  Limits = {2}
  Modes = {TRUE}
INVARIANTS
  NilMeansAllRan
CHECK_DEADLOCK FALSE
