SPECIFICATION FairSpec
CONSTANTS
  NumCases = 2
  NumRuns = 2
  Count = 2
  MaxLen = 1
  MaxLog = 3
  Verdicts = {"graph_done", "runner_failed"}
  Copies = 1
INVARIANTS CollectedIsFirstVerdict MissingHasReason ExitTellsTruth
PROPERTY RunEnds
CHECK_DEADLOCK FALSE
