SPECIFICATION AnsweringSpec
CONSTANTS
  Requests = {r1, r2}
  Notes = {}
  MaxAsk = 2
  MaxReplies = 3
PROPERTIES
  ReadLoopStaysFree
CHECK_DEADLOCK FALSE
