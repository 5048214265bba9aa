SPECIFICATION FairSpec
CONSTANTS
  Daemons = {1, 2}
  Neighbors <- MCNeighbors
  Clients = {101, 102}
  ClientId = 1023
  IoThreads = 2
  MaxRequests <- MCMaxRequests
INVARIANTS
  TypeOK
  NoRefusedConnection
  AnswerFindsOutput
  AnswersRouted
PROPERTIES
  ShutdownWithLastHandler
  EveryDaemonServes
CHECK_DEADLOCK FALSE
