SPECIFICATION PanelSpec
CONSTANTS
    Mailbox = {m1, m2}
    Worker = {w1, w2}
    Request = {r1, r2}
    NoMailbox = NoMailbox
    QueueSize = 1
    MaxJobs = 2
    MaxDbFaults = 1
    MaxStops = 1
    f1 = f1
    p1 = p1
    Finding = {f1}
    Path = {p1}
    PathOf <- FoundAt
    Handler = {r1, r2}
    Nothing = Nothing
    MaxRows = 2
    MaxFaults = 1
    MaxRestarts = 1
    q1 = q1
    q2 = q2
    Session = {s1}
    Call = {q1, q2}
    NoSession = NoSession
    stateCacheTTL = 1
    settingTTL = 1
    touchInterval = 1
    IdleLimit = {1}
    Latency = 1
    Horizon = 5
    MaxVersions = 2
    MaxSaves = 1
    MaxReadFaults = 1
    MaxChanges = 3
    MaxPortFaults = 2
    MaxPanelStops = 1
    a1 = a1
    a2 = a2
    a3 = a3
    c1 = c1
    c2 = c2
    c3 = c3
    Asker = {a1, a2, a3}
    Process = {"panel", "timer"}
    ProcessOf <- InProcess
    Connection = {c1, c2, c3}
    PoolOf <- InPool
    None = None
    MaxSlotFaults = 3
    MaxSlotStops = 2
    Customer = {k1, k2}
    Creation = {q1, q2}
    Free = Free
    MaxDomain = 2
    MaxDb = 1
    ResellerMaxDomain = 2
    MaxLookupFaults = 1
    MaxGiven = 1
    Statements = 3
    MaxEdits = 1
    MaxSqlFaults = 2
    MaxRunnerStops = 1
    shop = shop
    blog = blog
    Domain = {shop, blog}
    Frequency <- Daily
    Hour <- Hours
    Pass = {"ticker", "operator"}
    Durations = {2}
    LongestScan = 3
    Outages = {6}
    StartedAt = 9
    Nobody = Nobody
    MaxOutages = 1
    MaxFailures = 1
    LastQuarter = 145
CHECK_DEADLOCK FALSE
INVARIANTS PanelTypeOK QueuedIsReachable OneCopyPerMailbox
    FoundIsKept HeldEntryHasItsFile FlaggedIsContained MissedIsCaughtUp 
    OneScanAtATime SlotComesBack PlanIsKept ResellerNearlyKept AppliedIsWhatRan
PROPERTIES RevokedIsRefused IdleIsSignedOut SettingTakesHold
    RollbackTakesOnlyItsOwn VerdictIsKept TailFollowsItsHead
