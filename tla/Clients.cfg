\* Two connections, once each.
SPECIFICATION ClientsSpec
CONSTANTS
    Clients = {c1, c2}
    MaxCount = 4
    Capacity = 2
    MaxChanges = 1
    MaxConnections = 2
INVARIANTS LeasesMatchFlags 
PROPERTIES GoneIsNoticed
CHECK_DEADLOCK FALSE
