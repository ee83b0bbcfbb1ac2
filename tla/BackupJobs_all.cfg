SPECIFICATION FairSpec
CONSTANTS
    manual = manual
    nightly = nightly
    Job = {manual, nightly}
    Kind <- KindOf
    Total <- TotalOf
    Stopper = {x1}
    NoJob = NoJob
    MaxRestarts = 1
    MaxFaults = 1
CHECK_DEADLOCK FALSE
INVARIANTS TypeOK StatusTellsOutcome RegisteredIsLive
PROPERTIES RemainingNeverStarted StopIsNotAFailure ResultIsFinal ManualJobCloses
