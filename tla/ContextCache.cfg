SPECIFICATION Spec
CONSTANTS
  Roles = {"normal", "breaker"}
  MaxInputs = 1
  G = 4
  MaxTotal = 3
  MaxK = 3
  Ranges <- AllRanges
  QueueSize = 1
  MaxRequests = 2
ACTION_CONSTRAINT SameHistory
INVARIANT InvokerGetsRange
CHECK_DEADLOCK FALSE
