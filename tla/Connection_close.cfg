SPECIFICATION FairSpec
CONSTANTS
  Calls = {c1}
  Nested = {}
  Closers = {k1}
  NoCall = NoCall
  MaxAsk = 1
PROPERTIES
  CloseStopsServer
CHECK_DEADLOCK FALSE
