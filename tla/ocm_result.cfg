\* the OCM plugin: generate_pvp_result over every raw data of MC_OcmResult,
\* and generate_pvp_policy over the templates and policies of MC_OcmResult
CONSTANTS
  None = None
  Unbound = Unbound
  Now = Now
  Absent = Absent
  NotDir = NotDir
  RawData <- RunRawData
  OcmPolicies <- MCPolicies
  OcmTemplates <- MCTemplates
  Namespace = "hub"
  Selectors <- MCSelectors
  MaxCalls = 2
SPECIFICATION OcmFairSpec
CONSTRAINT OneOperationAtATime
INVARIANTS
  PolicyTypeOK
  ObservationsMirrorClusterPolicies
  SubjectTimeFromOwnHistory
PROPERTY
  DeliverableRefinement
\* each call returns or raises, and then nothing more happens
CHECK_DEADLOCK FALSE
