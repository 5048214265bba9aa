SPECIFICATION FairSpec
CONSTANTS
  Roles = {"normal", "breaker"}
  MaxInputs = 2
  G = 4
  MaxTotal = 3
  MaxK = 3
  Ranges <- AllRanges
  QueueSize = 1
  MaxRequests = 2
ACTION_CONSTRAINT FewInputs
INVARIANTS
  TypeOK
  AnswerExact
  AnswerBounded
  EvaluatorDrained
PROPERTY RequestEnds
CHECK_DEADLOCK FALSE
