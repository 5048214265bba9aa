SPECIFICATION Spec
CONSTANTS
  N = 2
  PackSizes = {0, 1, 2}
  MaxModels = 3
  MaxRequests = 2
PROPERTY InconsistentNeighborIsReal
CHECK_DEADLOCK FALSE
