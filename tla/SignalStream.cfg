CONSTANTS
  A = A
  B = B
  C = C
  X = X
  ModA = A
  ModB = B
  ModC = C
  Stream = X
  MaxEmits = 5
SPECIFICATION Spec
INVARIANT InOrderOnce
PROPERTY AllPrinted
CHECK_DEADLOCK FALSE
