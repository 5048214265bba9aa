SPECIFICATION FairSpec
CONSTANTS
  Contexts = {1, 2, 3, 4, 5}
  Root = 1
  Client = 1023
  Topologies <- ReducibleTopologies
  QueueSize = 2
  MaxAsks = 2
  MaxQueries = 1
ACTION_CONSTRAINT AskOnce
INVARIANTS
  TypeOK
  EvaluatorExclusive
  OneRequestPerInvoker
  AnswerToOpenQuery
  NoWaitCircle
PROPERTIES
  ClientAnswered
CHECK_DEADLOCK FALSE
