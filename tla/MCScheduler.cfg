CONSTANTS
  a1 = a1
  a2 = a2
  c = c
  Requests <- MCRequests
  Fingerprint <- MCFingerprint
  InitialPriority <- MCPriority
  Unfiltered = {c}
  FilterEnabled = TRUE
  Lifo = TRUE
  PriorityAdjust <- MCPriorityAdjust
  MaxRetryTimes <- MCMaxRetryTimes
SPECIFICATION FairSpec
INVARIANTS
  FilteredHasTwin
  DuplicateNeedsOverlap
  QueueIsExact
PROPERTIES
  BestIsTaken
  AcceptedIsTaken
CHECK_DEADLOCK FALSE
