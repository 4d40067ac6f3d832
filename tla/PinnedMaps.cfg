CONSTANTS
    MaxLoads = 3
    MaxStops = 2
SPECIFICATION Spec
INVARIANTS
    TypeOK
    PinnedIsWritten
    AgentReadsWritten
PROPERTIES
    AgentComesUp
CHECK_DEADLOCK FALSE
