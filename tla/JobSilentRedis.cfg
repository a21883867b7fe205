SPECIFICATION FairSpec
CONSTANTS
  Jobs = {j1, j2}
  JobTimeout = 1
  Grace = 2
  PublishTime = 1
  Retries = 0
  Hang = TRUE
  Reset = FALSE
PROPERTY ShutdownTerminates
CHECK_DEADLOCK FALSE
