SPECIFICATION FairSpec
CONSTANTS
  b1 = b1
  s1 = s1
  OrderIds = {b1, s1}
  QuoteIds = {q1}
  Pairs <- OnePair
  MaxAttempts = 2
  MaxCrashes = 2
INVARIANTS
  FilledOnChain
  LegsAgree
  ClaimedIsInFlight
  RowsAgree
PROPERTIES
  EveryMatchEnds
CHECK_DEADLOCK FALSE
