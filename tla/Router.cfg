CONSTANTS
  Verbs <- MCVerbs
  Unknown <- UnknownVerb
  Templates <- MCTemplates
  PrefixChoices <- MCPrefixes
  Tokens <- StaticTokens
  MaxLen = 8
  MaxRoutes = 2
  MountChoices <- MCMounts
  DocRoots <- MCRoots
  Root = Root
SPECIFICATION Spec
INVARIANT TypeOK
INVARIANT RouteSelection
INVARIANT ParamsRebuildPath
INVARIANT NoEscape
