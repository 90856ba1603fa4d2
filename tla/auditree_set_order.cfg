\* generate_pvp_result of the Auditree plugin over the raw data of MC_Auditree
CONSTANTS
  None = None
  Missing = Missing
  Error = Error
  RawData <- ResultData
  Templates <- OneTemplate
  ParamLists <- NoParams
SPECIFICATION Spec
INVARIANT MergedInFirstSeenOrder
