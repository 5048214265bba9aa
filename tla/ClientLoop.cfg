SPECIFICATION FairSpec
CONSTANTS
  Models = {1, 2, 3, 4, 5}
  Enumerations <- MCEnumerations
  MaxModels = 7
  MaxK = 3
  MaxEndpoints = 2
PROPERTIES
  ClientAlwaysStops
CHECK_DEADLOCK FALSE
