\* A client with an SSE stream that subscribes by POST and has had a notification.
SPECIFICATION Spec
CONSTANTS
  Stdio = {}
  Streams = {h1}
  Updates = {u1}
  ListChanges = {l1}
  Pipelining = FALSE
  MaxOps <- MCPosted
INVARIANTS
  UpdatesReachStreams
CHECK_DEADLOCK FALSE
