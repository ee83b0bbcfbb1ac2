SPECIFICATION Spec
CONSTANTS
    Op = {o1, o2}
    Domain = {"parent", "addon"}
    User = {"c_site"}
    Database = {"c_site_main", "c_site_wp"}
    UserOf <- SharedUserOf
    DatabasesOf <- SharedDatabasesOf
    NoOp = NoOp
    NoDomain = NoDomain
    MaxRestarts = 1
SYMMETRY RunSymmetry
INVARIANTS NoMixedArchive
