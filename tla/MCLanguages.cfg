SPECIFICATION BuildSpec
CONSTANTS
  MaxNPMDepth = 3
  Kubernetes = "k8s"
  StagedModules = {"k8s", "api"}
  Stdlib = "stdlib"
  Scans <- MCScans
  LangRoots <- MCRoots
  LangImports <- MCImports
  LangResolve <- MCResolve
  LangIsModule <- MCIsModule
  NeedsGraph <- MCNeedsGraph
  CanonPath <- MCCanon
  SpecTopLevel <- TopLevel
  Dotted <- MCDotted
  Scopes <- MCScopes
  NodeBuiltins <- MCNodeBuiltins
  PyBuiltins <- MCPyBuiltins
INVARIANTS
  NothingPassedOver
  UnreachedIsUnloadable
  AbsenceIsComplete
  GoTruthful
CHECK_DEADLOCK FALSE
