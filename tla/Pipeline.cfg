SPECIFICATION Spec
CONSTANTS
  Callers = {c1, c2}
  Notes = {n1}
  Chains <- MCChains
  Outcomes = {"ok", "invalid", "internal", "panic"}
  Capacity = 3
  TokenUnit = 2
  Refill = 1
  MaxAttempts = 2
  BaseDelay = 2
  MaxDelay = 3
  Multiplier = 2
  Retryable = {"limited", "internal", "masked", "lost"}
  MaxTime = 2
INVARIANTS
  RateBound
  NothingEscapes
  CountsMatchAnswers
  RetryKeepsPolicy
CHECK_DEADLOCK FALSE
