CONSTANTS
  RawData <- RunRawData
  Policies <- MCPolicies
  Templates <- MCTemplates
  NowEpoch = 125
  ControlCatalog <- MCControlCatalog
  PyDicts <- MCPyDicts
  PyPaths <- MCPyPaths
  PyDefaults <- MCPyDefaults
  MaxCalls = 2
  None = None
  Missing = Missing
  Error = Error
  Absent = Absent
  NotDir = NotDir
  Dir = Dir
SPECIFICATION FairSpec
CHECK_DEADLOCK FALSE
CONSTRAINT OneOperationAtATime
INVARIANTS
  TypeOK
  ObservationsMirrorReports
  GetDictSafelyFollowsPath
  ControlIdsInCatalogOrder
  ConsistentImpliesSomeResourceFound
  CheckerFailsOnlyOnMalformedInput
  ReportFileChangedOnlyAfterRender
  SuccessMeansComponentDefinition
PROPERTY
  DeliverableRefinement
