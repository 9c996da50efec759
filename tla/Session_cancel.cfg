SPECIFICATION AnsweringSpec
CONSTANTS
  Requests = {r1}
  Notes = {n1}
  MaxAsk = 1
  MaxReplies = 1
PROPERTIES
  ReturnsOnCancel
CHECK_DEADLOCK FALSE
