SPECIFICATION SessionSpec
CONSTANTS
    Session={s1,s2}
    Call={q1}
    NoSession=NoSession
    stateCacheTTL=1
    settingTTL=2
    touchInterval=1
    IdleLimit={2}
    Latency=1
    Horizon=4
    MaxVersions=1
    MaxSaves=1
    MaxReadFaults=0
CHECK_DEADLOCK FALSE
PROPERTIES FreshSignInIsAccepted
