\* generate_pvp_policy of the Auditree plugin, called repeatedly with the
\* parameter lists of MC_Auditree
CONSTANTS
  None = None
  Missing = Missing
  Error = Error
  RawData <- NoRawData
  Templates <- BoolTemplates
  ParamLists <- BoolParams
SPECIFICATION Spec
INVARIANT SubstitutionKeepsTypes
