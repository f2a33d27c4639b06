SPECIFICATION Spec
CONSTANTS
  Contexts <- MCContexts
  Root = "http"
  Parent <- MCParent
  IfBlocks = {"if"}
INVARIANTS LiveMeansHooked HookedMeansAsked NearestSays
