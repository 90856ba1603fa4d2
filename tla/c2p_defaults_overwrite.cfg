\* Spec 8.2: defaulting never overwrites a given title (expected to be violated).
CONSTANTS
  PvpName = "OCM"
  RuleIdColumn = "Rule_Id"
  CheckIdColumn = "Check_Id"
  None = None
  Error = Error
  CDefs <- ProjectCDefs
  PvpResults <- ProjectPvps
  OtherResults <- NoOtherResults
SPECIFICATION MCSpec
CHECK_DEADLOCK FALSE
PROPERTY DefaultsKeepGivenFields
