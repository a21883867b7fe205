SPECIFICATION Spec
CONSTANTS
  Jobs = {j1}
  JobTimeout = 2
  Grace = 4
  PublishTime = 1
  Retries = 0
  Hang = FALSE
  Reset = FALSE
INVARIANT SingleVerdict
CHECK_DEADLOCK FALSE
