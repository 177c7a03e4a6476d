SPECIFICATION Spec
CONSTANTS
  None = None  t = t
  Setups <- AllSetups
  Histories <- AllHistories
INVARIANTS TypeOK SuccessIsTrue NoSessionLeft TableShowsTheChange SkippedIsSaid ReportAddsUp TotalCoversSessions
PROPERTIES OnlyWhatWasAsked
CHECK_DEADLOCK FALSE
