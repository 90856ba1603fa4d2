\* Spec 4.2: extraction raises nothing (expected to be violated).
CONSTANTS
  PvpName = "OCM"
  RuleIdColumn = "Rule_Id"
  CheckIdColumn = "Check_Id"
  None = None
  Error = Error
  CDefs <- ExtractCDefs
  PvpResults <- ExtractPvps
  OtherResults <- NoOtherResults
SPECIFICATION MCSpec
CHECK_DEADLOCK FALSE
INVARIANT ExtractionNeverRaises
