\* Every interleaving of two requests and one notification, two server-to-client
\* requests in all, and a client that may reply three times to each of them.
SPECIFICATION Spec
CONSTANTS
  Requests = {r1, r2}
  Notes = {n1}
  MaxAsk = 2
  MaxReplies = 3
SYMMETRY Symmetry
INVARIANTS
  PendingMatchesAskers
  FirstReplyWins
  AnsweredExactlyOnce
PROPERTIES
  SilentAfterReturn
\* The session ends when ServeStdio has returned.
CHECK_DEADLOCK FALSE
