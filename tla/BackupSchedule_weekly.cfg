SPECIFICATION ScheduleSpec
CONSTANTS
    shop = shop
    blog = blog
    Domain = {shop}
    Frequency <- Weekly
    Hour <- AtThree
    Pass = {"ticker"}
    Durations = {1, 2}
    LongestScan = 0
    Outages = {0}
    StartedAt = 9
    Nobody = Nobody
    MaxOutages = 0
    MaxFailures = 0
    LastQuarter = 900
CHECK_DEADLOCK FALSE
PROPERTIES RunsInItsHour
