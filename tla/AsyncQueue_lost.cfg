CONSTANTS
  p1 = p1
  p2 = p2
  c1 = c1
  c2 = c2
  None = None
  Producers <- TwoProducers
  Consumers <- OneConsumer
  ItemsPer = 2
  Executors <- ThreadPool
  Spawnings <- JustOne
SPECIFICATION Spec
CHECK_DEADLOCK FALSE
PROPERTY AllConsumed
