\* Three calls, the first of which is the meta-tool again; the semaphore is smaller
\* than the batch, or there is none.
SPECIFICATION FairSpec
CONSTANTS
  N = 3
  Nested = {1}
  Limits = {2}
  Modes = {TRUE, FALSE}
INVARIANTS
  FanOut
  ErrorTellsFailures
PROPERTIES
  ImplementsBatch
  BatchReturns
  CloseEnds
\* The system stops when the batch has returned.
CHECK_DEADLOCK FALSE
