CONSTANTS
  p1 = p1
  p2 = p2
  c1 = c1
  c2 = c2
  None = None
  Producers <- TwoProducers
  Consumers <- TwoConsumers
  ItemsPer = 2
  Executors <- BothExecutors
  Spawnings <- OneOrTwo
SPECIFICATION Spec
CHECK_DEADLOCK FALSE
INVARIANT TypeOK
INVARIANT Conservation
PROPERTY SingleThreadStops
