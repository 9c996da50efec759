\* Two calls, a server request with an id, one goroutine that closes; the read
\* loop closes too, at end of input.
SPECIFICATION FairSpec
CONSTANTS
  Calls = {c1, c2}
  Inbound = {q1}
  Asks = {q1}
  Closers = {k1}
  NoCall = NoCall
  MaxId = 2
INVARIANTS
  OwnReply
  NoLostWaiter
  LeaksOnlyOnCancel
  ChannelDiscipline
PROPERTIES
  NoCallHangs
  ImplementsExchange
CHECK_DEADLOCK FALSE
