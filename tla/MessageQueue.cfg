SPECIFICATION FairSpec
CONSTANTS
  Producers = {p1, p2}
  Consumers = {c1, c2}
  Capacity = 2
  MaxCalls = 3
INVARIANTS
  TypeOK
  CountersExact
  OrderPreserved
  NoLostWakeup
PROPERTIES
  ImplementsChannel
  AllDelivered
CHECK_DEADLOCK FALSE
