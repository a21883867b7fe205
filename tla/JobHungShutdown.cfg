SPECIFICATION FairSpec
CONSTANTS
  Jobs = {j1}
  JobTimeout = 2
  Grace = 1
  PublishTime = 1
  Retries = 0
  Hang = TRUE
  Reset = FALSE
PROPERTY ShutdownTerminates
CHECK_DEADLOCK FALSE
