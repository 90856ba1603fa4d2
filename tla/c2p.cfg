\* Extraction against many component-definitions, and projection of many
\* PVPResults against a few.
CONSTANTS
  PvpName = "OCM"
  RuleIdColumn = "Rule_Id"
  CheckIdColumn = "Check_Id"
  None = None
  Error = Error
  CDefs <- AllCDefs
  PvpResults <- AllPvps
  OtherResults <- MCOtherResults
SPECIFICATION MCSpec
INVARIANT ViewerTypeOK
INVARIANT GroupPropsMatchesSpec
INVARIANT ProjectionRoundTrip
INVARIANT ProjectionFailsOnlyOnMalformedInput
INVARIANT ReportMirrorsObservations
INVARIANT MergedReviewCoversRuns
\* the viewer command and the heterogeneous sample each end a run: such a
\* state is final
CHECK_DEADLOCK FALSE
