CONSTANTS
  i1 = i1
  i2 = i2
  i3 = i3
  i4 = i4
  Items <- MCItems
  ConcurrentItems = 2
  Connected = {"ItemScraped", "ItemDropped"}
  MaxTriggers = 2
SPECIFICATION FairSpec
PROPERTIES
  EveryItemHandled
  ImplementsPool
CHECK_DEADLOCK FALSE
