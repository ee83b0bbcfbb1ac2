SPECIFICATION FairSpec
CONSTANTS
    d1 = d1
    d2 = d2
    f1 = f1
    f2 = f2
    N = 1
    Domain = {d1}
    DomainOf <- OneDomain
    File = {f1}
    FileOf <- OneName
    Retention = 1
    DeleteLocal = FALSE
    Blind = FALSE
    Deleter = {x1, x2}
    System = System
    Nothing = Nothing
    MaxScans = 2
    MaxFaults = 2
    MaxRestarts = 1
CHECK_DEADLOCK FALSE
INVARIANTS SuccessfulIsWhole
PROPERTIES UploadSettles
