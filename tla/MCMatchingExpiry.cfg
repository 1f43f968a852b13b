SPECIFICATION Spec
CONSTANTS
  Orders <- CrossingOrdersIds
  OrderOf <- CrossingOrders
  NoOrder = NoOrder
  MaxRequests = 4
  MaxTime = 1
  MaxCrashes = 0
PROPERTIES
  ArrivalTakesBest
CHECK_DEADLOCK FALSE
