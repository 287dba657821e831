CONSTANTS
  page = page
  late = late
  closed = closed
  r1 = r1
  r2 = r2
  r3 = r3
  Signals <- MCSignals
  Receivers <- MCReceivers
  Accepts <- MCAccepts
  Index <- MCIndex
  LastSignal = closed
SPECIFICATION FairSpec
INVARIANTS
  WgIsExact
  OnlyOverlapsEscape
PROPERTIES
  Delivered
  CloseReturns
  ImplementsBus
CHECK_DEADLOCK FALSE
