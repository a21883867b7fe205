SPECIFICATION FairSpec
CONSTANTS
    run1 = run1
    run2 = run2
    run3 = run3
    old = old
    new = new
    None = None
    Last = 3
    Runs <- MCRuns
    Runtimes <- MCRuntimes
    Elevated <- MCElevated
    Tables <- MCTables
    Indexes <- MCIndexes
    Length <- MCLength
INVARIANTS
    ServesOnWholeSchema
    RefusalHasReason
    NoRecordingConflict
PROPERTIES
    RunsEnd
CHECK_DEADLOCK FALSE
