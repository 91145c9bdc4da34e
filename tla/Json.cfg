CONSTANTS
  NaNValue = NaNValue
  GarbageText = GarbageText
  AbsentValue = AbsentValue
  Types <- MCTypes
  Ints <- MCInts
  Doubles <- MCDoubles
  NaN <- NaNValue
  Strs <- MCStrs
  KeyOrder <- MCKeyOrder
  Trees <- MCTrees
  MaxItems = 2
  Foreign <- MCForeign
  Garbage <- GarbageText
  Absent <- AbsentValue
  PersonType <- Person2T
  Tokens <- MCTokens
  Stoi <- MCStoi
  SetValue = "Das.Auto"
  MaxKeys = 3
SPECIFICATION JsonSpec
INVARIANT RoundTrip
PROPERTY SetWritesPath
CHECK_DEADLOCK FALSE
