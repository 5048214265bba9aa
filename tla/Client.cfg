SPECIFICATION FairSpec
CONSTANTS
  Models = {1, 2, 3, 4, 5}
  Enumerations <- MCEnumerations
  MaxModels = 7
  MaxK = 3
  MaxEndpoints = 2
INVARIANTS
  TypeOK
  StopsAtFixedPoint
  OneTooManyAtMost
  RangeDelivered
PROPERTIES
  ClientStops
CHECK_DEADLOCK FALSE
