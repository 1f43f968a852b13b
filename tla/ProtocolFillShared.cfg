SPECIFICATION Spec
CONSTANTS
  OrderIds = {o1, o2}
  QuoteIds = {q1}
  OwnQuotesOnly = FALSE
  MaxCrashes = 0
  None = None
INVARIANTS
  LocalFillIsReal
CHECK_DEADLOCK FALSE
