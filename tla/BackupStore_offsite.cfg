SPECIFICATION Spec
CONSTANTS
    d1 = d1
    d2 = d2
    f1 = f1
    f2 = f2
    N = 1
    Domain = {d1}
    DomainOf <- OneDomain
    File = {f1}
    FileOf <- OneName
    Retention = 1
    DeleteLocal = TRUE
    Blind = FALSE
    Deleter = {x1}
    System = System
    Nothing = Nothing
    MaxScans = 1
    MaxFaults = 0
    MaxRestarts = 0
CHECK_DEADLOCK FALSE
INVARIANTS OffSiteIsNotCorrupt
