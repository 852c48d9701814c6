SPECIFICATION FairSpec
CONSTANTS
    Clients = {c1, c2}
    Methods = {"create_vlan", "create_fdb_entry", "create_route", "newer"}
    Processed = {"create_vlan", "create_fdb_entry", "create_route"}
    Handled = {"create_vlan", "create_fdb_entry"}
    Nullable = {"create_fdb_entry"}
    MaxConns = 3
    MaxCalls = 2
CHECK_DEADLOCK FALSE
INVARIANTS
    TypeOK
    ReplyMatchesCall
PROPERTIES
    CallsAreAtomic
    CallsEnd
