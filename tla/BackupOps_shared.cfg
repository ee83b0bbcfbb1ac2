SPECIFICATION Spec
CONSTANTS
    Op = {o1, o2}
    Domain = {"parent", "addon", "other"}
    User = {"c_site", "c_other"}
    Database = {"c_site_main", "c_site_wp"}
    UserOf <- SharedUserOf
    DatabasesOf <- SharedDatabasesOf
    NoOp = NoOp
    NoDomain = NoDomain
    MaxRestarts = 1
SYMMETRY RunSymmetry
INVARIANTS TypeOK ArchiveHoldsOwnDumps DomainExclusive StagingExclusive PrivateArchiveIsWhole
