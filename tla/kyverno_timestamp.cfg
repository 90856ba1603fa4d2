CONSTANTS
  RawData <- UntimedData
  Policies <- NoPolicies
  Templates <- MCTemplates
  NowEpoch = 125
  ControlCatalog <- MCControlCatalog
  PyDicts <- MCPyDicts
  PyPaths <- MCPyPaths
  PyDefaults <- MCPyDefaults
  MaxCalls = 2
  None = None
  Missing = Missing
  Error = Error
  Absent = Absent
  NotDir = NotDir
  Dir = Dir
SPECIFICATION Spec
CHECK_DEADLOCK FALSE
INVARIANT EvaluatedOnFromTimestampOrNow
