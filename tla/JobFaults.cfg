SPECIFICATION Spec
CONSTANTS
  Jobs = {j1, j2}
  JobTimeout = 1
  Grace = 1
  PublishTime = 0
  Retries = 1
  Hang = TRUE
  Reset = TRUE
SYMMETRY Symmetry
PROPERTIES ImplementsContract CancelledJobReports
CHECK_DEADLOCK FALSE
