CONSTANTS
  Schemes <- MCSchemes
  Tokens <- MCTokens
  MaxTokens = 4
  Indeterminate = Indeterminate
SPECIFICATION UrlSpec
INVARIANT UrlTypeOK
INVARIANT DecompositionAgrees
INVARIANT CanonIdempotent
INVARIANT CanonMatchesReference
