CONSTANTS
  Verbs <- MCVerbs
  Unknown <- UnknownVerb
  Templates <- DotTemplates
  PrefixChoices <- MCPrefixes
  Tokens <- MCTokens
  MaxLen = 8
  MaxRoutes = 2
  MountChoices <- NoMounts
  DocRoots <- MCRoots
  Root = Root
SPECIFICATION Spec
INVARIANT RouterAsSpecified
