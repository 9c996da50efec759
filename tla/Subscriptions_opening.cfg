\* A client whose SSE stream is open, and a list change.
SPECIFICATION Spec
CONSTANTS
  Stdio = {}
  Streams = {h1}
  Updates = {}
  ListChanges = {l1}
  Pipelining = FALSE
  MaxOps <- MCOnSessions
INVARIANTS
  ListChangesReachConnected
CHECK_DEADLOCK FALSE
