SPECIFICATION MCFairSpec
CONSTANTS
  App = {"a", "b"}
  Version = {1}
  Reader = {q1}
  Fallback <- Operator
  Cached = TRUE
  MaxEdition = 3
  MaxRestart = 2
  None = None
CHECK_DEADLOCK FALSE
INVARIANT NotModifiedIsTrue
PROPERTY CatchesUp
