SPECIFICATION FairSpec
CONSTANTS
  OrderIds = {o1, o2}
  QuoteIds = {q1}
  OwnQuotesOnly = TRUE
  MaxCrashes = 1
  None = None
INVARIANTS
  LocalFillIsReal
  ClosedRowsAreReal
PROPERTIES
  EveryQuoteCloses
CHECK_DEADLOCK FALSE
