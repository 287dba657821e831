CONSTANTS
  r1 = r1
  r2 = r2
  i1 = i1
  Requests = {r1, r2}
  Items = {i1}
  Starts = {r1}
  Finds <- MCFinds
  RequestRoom = 2
  ItemRoom = 1
  ResponseRoom = 1
  MaxInterrupts = 0
  MaxTriggers = 1
  MaxIdle = 1
  MaxClosed = 1
SPECIFICATION Spec
PROPERTIES
  IdleMeansDone
CHECK_DEADLOCK FALSE
