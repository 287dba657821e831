CONSTANTS
  p1 = p1
  p2 = p2
  Programs = {p1, p2}
  BatchSize = 1
  Broken = {2}
  MaxRows = 3
  MaxCrawls = 2
  MaxStarts = 2
SPECIFICATION FairSpec
INVARIANTS
  TwiceNeedsOverlap
  
  UnsavedIsRemembered
PROPERTIES
  RowsAreTaken
  MarksAreWritten
CHECK_DEADLOCK FALSE
