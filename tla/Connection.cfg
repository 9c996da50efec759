\* A call and a nested call, one ask in all, whose handler may call back, while
\* someone closes and cancels.
SPECIFICATION FairSpec
CONSTANTS
  Calls = {c1, c2}
  Nested = {c2}
  Closers = {k1}
  NoCall = NoCall
  MaxAsk = 1
INVARIANTS
  AnsweredByOwnHandler
  ClosedWhenQuiet
PROPERTIES
  CallsReturn
  CancelAndCloseStopServer
\* The system stops when every call has returned.
CHECK_DEADLOCK FALSE
