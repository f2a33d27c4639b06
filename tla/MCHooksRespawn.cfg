SPECIFICATION Spec
CONSTANTS
  Contexts <- MCContexts
  Root = "http"
  Parent <- MCParent
  IfBlocks = {"if"}
INVARIANT ReplacementHooked
