SPECIFICATION FairSpec
CONSTANTS
  Jobs = {j1, j2}
  JobTimeout = 2
  Grace = 4
  PublishTime = 1
  Retries = 0
  Hang = FALSE
  Reset = FALSE
INVARIANTS TypeOK GraceCoversJobs EndedJobReadable
PROPERTY AcceptedJobReported
CHECK_DEADLOCK FALSE
