CONSTANTS
    malformed = malformed
    Addresses <- MCAddresses
    Malformed <- MCMalformed
    Charts <- MCCharts
    Links = {TRUE, FALSE}
    Clis = {c1, c2}
    MapCapacity = 1
    MaxCommands = 3
    MaxStarts = 2
    MaxInstalls = 2
SPECIFICATION Spec
INVARIANT BlockedIsDropped
CHECK_DEADLOCK FALSE
