CONSTANTS
  r1 = r1
  r2 = r2
  i1 = i1
  Requests = {r1, r2}
  Items = {}
  Starts = {r1}
  Finds <- MCFindsPage
  RequestRoom = 2
  ItemRoom = 1
  ResponseRoom = 1
  MaxInterrupts = 2
  MaxTriggers = 1
  MaxIdle = 2
  MaxClosed = 2
SPECIFICATION Spec
INVARIANTS
  StopIsPrompt
  SecondCloseNeedsHaste
CHECK_DEADLOCK FALSE
