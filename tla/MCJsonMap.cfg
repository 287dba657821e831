CONSTANTS
  t1 = t1
  t2 = t2
  t3 = t3
  m1 = m1
  m2 = m2
  good = good
  bad = bad
  odd = odd
  ill = ill
  worse = worse
  mark = mark
  NoThread = NoThread
  Threads = {t1, t2, t3}
  Maps = {m1, m2}
  NumKeys = 2
  Inputs = {good, bad}
  Accepted = {good}
  Normal <- MCNormal
  Calls <- MCCalls
  Wide = 6
  Narrow = 2
  Single = 3
  Double = 4
  Fraction = 2
  OddKeys = {odd}
  Replaced <- MCReplaced
  NaN = NaN
  Unspecified = Unspecified
  GoTypes <- MCGoTypes
  GoValues <- MCGoValues
  Depth <- MCDepth
  Stands <- MCStands
SPECIFICATION FairSpec
INVARIANTS
  KnotNeedsNesting
  StoredIsStorable
  PlainReadsBack
  TextReadsBack
  NumbersOnlyLoseFractions
PROPERTIES
  ImplementsAtomicMaps
  CallsEnd
CHECK_DEADLOCK FALSE
