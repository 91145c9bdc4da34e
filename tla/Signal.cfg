CONSTANTS t1 = t1  t2 = t2  OnVel = OnVel  OnGameOver = OnGameOver  None = None  Add = Add  Sub = Sub
CONSTANTS Threads <- MCThreads  Topics <- MCTopics  Handlers <- MCHandlers
          Reemit <- MCReemit  Scripts <- MCScripts  Registered <- MCRegistered
          Policies <- BothPolicies  Svcs <- MCSvcs  SvcHandlers <- MCSvcHandlers
SPECIFICATION SvcSpec
\* Each thread makes its calls and stops.
CHECK_DEADLOCK FALSE
INVARIANT SvcTypeOK
INVARIANT EmitStable
PROPERTY AllReturn
