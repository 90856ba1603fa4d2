\* Spec 4.5: a missing cross-reference gives an empty subject list, never
\* an error or an omitted rule (expected to be violated).
CONSTANTS
  PvpName = "OCM"
  RuleIdColumn = "Rule_Id"
  CheckIdColumn = "Check_Id"
  None = None
  Error = Error
  CDefs <- ProjectCDefs
  PvpResults <- ProjectPvps
  OtherResults <- NoOtherResults
SPECIFICATION MCSpec
INVARIANT EveryRuleListed
CHECK_DEADLOCK FALSE
