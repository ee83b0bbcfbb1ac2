SPECIFICATION Spec
CONSTANTS
    manual = manual
    nightly = nightly
    Job = {manual, nightly}
    Kind <- KindOf
    Total <- TotalOf
    Stopper = {x1, x2}
    NoJob = NoJob
    MaxRestarts = 0
    MaxFaults = 0
CHECK_DEADLOCK FALSE
PROPERTIES OnlyHungRowsAreClosed
