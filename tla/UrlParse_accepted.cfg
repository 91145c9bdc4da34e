CONSTANTS
  Schemes <- MCSchemes
  Tokens <- AcceptedTokens
  MaxTokens = 4
  Indeterminate = Indeterminate
SPECIFICATION Spec
INVARIANT AcceptedAsSpecified
