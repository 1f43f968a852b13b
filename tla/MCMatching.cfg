SPECIFICATION Spec
CONSTANTS
  Orders <- CrossingOrdersIds
  OrderOf <- CrossingOrders
  NoOrder = NoOrder
  MaxRequests = 4
  MaxTime = 2
  MaxCrashes = 1
INVARIANTS
  BookMirrorsTable
  TimePriorityKept
  ClaimedOnce
  MatchesAreSettleable
PROPERTIES
  UndisturbedArrivalTakesBest
CHECK_DEADLOCK FALSE
