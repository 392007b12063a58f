CONSTANTS
  TestnetOrders = {o1,o2}
  OrderNotional = 2
  ExposureLimit = 3
SPECIFICATION TestnetSpec
INVARIANTS TestnetExposureWithinLimit
CHECK_DEADLOCK FALSE
