CONSTANTS
    conn = conn
    lat = lat
    veth = veth
    Readers <- MCReaders
    Spinning = {lat, veth}
    Workers = 3
    ChanCapacity = 1
    MaxRecords = 3
    MaxRequests = 2
SPECIFICATION Spec
INVARIANTS
    TypeOK
    WaitsOnlyWhenFull
PROPERTIES
    CallsAnswered
    ReadersResume
CHECK_DEADLOCK FALSE
