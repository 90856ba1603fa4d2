\* generate_pvp_result over the raw data of MC_Auditree, and repeated
\* generate_pvp_policy calls with its parameter lists
CONSTANTS
  None = None
  Missing = Missing
  Error = Error
  RawData <- RunRawData
  Templates <- OneTemplate
  ParamLists <- PolicyParams
SPECIFICATION Spec
CONSTRAINT OneOperationAtATime
INVARIANTS
  TypeOK
  MergeMatchesSpec
  SubjectsFailClosed
  ParametersApplied
