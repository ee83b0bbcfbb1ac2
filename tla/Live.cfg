SPECIFICATION LiveSpec
CONSTANTS
    Op = {o1, o2}
    Domain = {"parent", "addon"}
    User = {"c_site"}
    Database = {"c_site_main"}
    UserOf <- SharedUserOf
    DatabasesOf <- OneDatabaseOf
    NoOp = NoOp
    NoDomain = NoDomain
    m1 = m1
    m2 = m2
    w1 = w1
    r1 = r1
    NoMailbox = NoMailbox
    MaxRestarts = 1
PROPERTIES DomainIsReleased SlotIsReleased DomainUseSpec JobSettles
CHECK_DEADLOCK FALSE
