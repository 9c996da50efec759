\* Clients that wait for each answer, a session and a stream, one update, two list changes.
SPECIFICATION Spec
CONSTANTS
  Stdio = {s1}
  Streams = {h1}
  Updates = {u1}
  ListChanges = {l1, l2}
  Pipelining = FALSE
  MaxOps <- MCOnSessions
INVARIANTS
  ListChangesReachListeners
  UpdatesReachSubscribers
  NoStrayUpdates
  LastRequestDecides
SYMMETRY MCSymmetry
CHECK_DEADLOCK FALSE
