SPECIFICATION Spec
CONSTANTS
  Roles = {"normal", "breaker"}
  MaxInputs = 1
  G = 4
  MaxTotal = 3
  MaxK = 3
  Ranges <- AllRanges
  QueueSize = 1
  MaxRequests = 1
INVARIANT CacheInOrder
CHECK_DEADLOCK FALSE
