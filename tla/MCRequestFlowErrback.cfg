CONSTANTS
  r1 = r1
  r2 = r2
  Requests = {r1, r2}
  HasErrback = {r1}
  HandlesStatus = {r2}
  DontRetry = {r2}
  FilterEnabled = TRUE
  MaxRetryTimes <- MCMaxRetryTimes
  MaxReturns = 1
  NumMiddlewares = 4
  DepthAt = 2
  Failing = {1, 3}
  Taking = {1}
SPECIFICATION Spec
INVARIANT TimeoutReachesErrback
CHECK_DEADLOCK FALSE
