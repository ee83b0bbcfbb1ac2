SPECIFICATION Spec
CONSTANTS
    d1 = d1
    d2 = d2
    f1 = f1
    f2 = f2
    N = 2
    Domain = {d1}
    DomainOf <- OneDomain
    File = {f1, f2}
    FileOf <- OwnName
    Retention = 1
    DeleteLocal = TRUE
    Blind = TRUE
    Deleter = {x1}
    System = System
    Nothing = Nothing
    MaxScans = 0
    MaxFaults = 1
    MaxRestarts = 1
CHECK_DEADLOCK FALSE
INVARIANTS TypeOK LastCopySurvives UploadingHasOwner
