\* generate_pvp_result of the OCM plugin over every raw data of MC_OcmResult
CONSTANTS
  None = None
  Unbound = Unbound
  Now = Now
  Absent = Absent
  NotDir = NotDir
  RawData <- MCRawData
  OcmPolicies <- NoPolicies
  OcmTemplates <- MCTemplates
  Namespace = "hub"
  Selectors <- MCSelectors
  MaxCalls = 2
SPECIFICATION OcmSpec
INVARIANT SubjectDiagnosticsFromOwnRecord
\* generate_pvp_result returns or raises, and then nothing more happens
CHECK_DEADLOCK FALSE
