CONSTANT Bodies <- MCBodies
SPECIFICATION Spec
\* A body is finite: once all of it is passed, or parse returns false,
\* the caller makes no more calls.
CHECK_DEADLOCK FALSE
INVARIANT TypeOK
INVARIANT DeliveredPrefix
INVARIANT SameOutcome
