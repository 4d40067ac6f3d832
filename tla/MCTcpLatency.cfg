CONSTANTS
    Socks = {s1, s2}
    Cpus = {0, 1}
    MaxEntries = 1
    MaxConnects = 4
    MaxTime = 3
SYMMETRY Symmetry
SPECIFICATION LatencySpec
INVARIANTS
    LatencyTypeOK
    MeasuresOwnConnect
    MeasuredOnce
CHECK_DEADLOCK FALSE
