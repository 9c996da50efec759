\* A client that answers each server-to-client request exactly once, under weak
\* fairness of the server's goroutines.
SPECIFICATION AnsweringSpec
CONSTANTS
  Requests = {r1}
  Notes = {n1}
  MaxAsk = 2
  MaxReplies = 1
PROPERTIES
  RequestsAreAnswered
  CancelReleasesHandlers
  ReturnsAfterCancelAndEOF
  ReadLoopStaysFree
  ImplementsExchange
CHECK_DEADLOCK FALSE
