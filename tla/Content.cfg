SPECIFICATION Spec
CONSTANTS
  node = node
  edge = edge
  e1 = e1
  e2 = e2
  Editor = {e1, e2}
  Object = {node, edge}
  Edge = {edge}
  Refers <- MCRefers
  Manifest <- MCManifest
  Drafts <- MCDrafts
  ProjectId = 3
  EngineOf <- MCEngineOf
  NeedsOf <- MCNeedsOf
  Catalogs <- MCCatalogs
  Asked <- MCAsked
  None = None
  Package = {1, 2, 3}
  Version <- MCVersion
  EngineVersion <- MCEngine
  MaxRequests = 4
  MaxCrashes = 1
INVARIANTS HistoryStands RegistriesAgree ResolutionHolds InstallOrder
PROPERTIES ResolutionEnds
CHECK_DEADLOCK FALSE
