SPECIFICATION FairSpec
CONSTANTS
  Contexts = {1, 2, 3}
  Root = 1
  Client = 1023
  Topologies <- IrreducibleTopologies
  QueueSize = 2
  MaxAsks = 1
  MaxQueries = 1
PROPERTIES
  ClientAnswered
CHECK_DEADLOCK FALSE
