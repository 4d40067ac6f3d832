CONSTANTS
    malformed = malformed
    Addresses <- MCAddresses
    Malformed <- MCMalformed
    Charts <- MCCharts
    Links = {TRUE}
    Clis = {c1, c2}
    MapCapacity = 1
    MaxCommands = 3
    MaxStarts = 2
    MaxInstalls = 2
SYMMETRY Symmetry
SPECIFICATION Spec
INVARIANTS
    TypeOK
    ListedIsBlocked
    ListBeforeIdentity
PROPERTIES
    CommandsListAddresses
CHECK_DEADLOCK FALSE
