SPECIFICATION Spec
CONSTANTS
  b1 = b1
  s1 = s1
  OrderIds = {b1, s1}
  QuoteIds = {q1}
  Pairs <- OnePair
  MaxAttempts = 1
  MaxCrashes = 0
INVARIANTS
  SettledNeverFailed
CHECK_DEADLOCK FALSE
