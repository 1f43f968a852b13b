SPECIFICATION FairSpec
CONSTANTS
  b1 = b1
  s1 = s1
  OrderIds = {b1, s1}
  QuoteIds = {q1}
  Pairs <- OnePair
  MaxAttempts = 2
  MaxCrashes = 0
PROPERTIES
  EveryMatchResolves
CHECK_DEADLOCK FALSE
