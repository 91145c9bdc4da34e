CONSTANTS
  T = T
  X = X
  Waiters <- MCWaiters
  Awaiting <- MCAwaiting
  Main = T
  MaxEmits = 3
SPECIFICATION Spec
INVARIANT CompletionOnce
