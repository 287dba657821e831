CONSTANTS
  a1 = a1
  a2 = a2
  b1 = b1
  a = a
  b = b
  Requests <- MCRequests
  Domains <- MCDomains
  DomainOf <- MCDomainOf
  SlotConcurrency <- MCConcurrency
  SlotDelay <- MCDelay
  SlotQueueSize <- MCQueueSize
  ConcurrentRequests = 2
  Randomize = TRUE
  ClearAge = 1
  NoDomain = NoDomain
SPECIFICATION FairSpec
INVARIANT FinishFindsSlot
PROPERTIES
  IntervalKept
  EveryAdmittedFetched
  ImplementsPool
CHECK_DEADLOCK FALSE
