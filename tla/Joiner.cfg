SPECIFICATION FairSpec
CONSTANTS
  N = 2
  PackSizes = {0, 1, 2}
  MaxModels = 3
  MaxRequests = 2
CONSTRAINT Synchronised
INVARIANTS
  TypeOK
  EveryCombinationJoined
  NeverJoinedTwice
  FirstPacksNeverEmpty
  RegistrationsExact
PROPERTIES
  OnlyInconsistencyOrphans
  CallsReturn
CHECK_DEADLOCK FALSE
