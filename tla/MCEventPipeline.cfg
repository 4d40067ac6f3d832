CONSTANTS
    loader = loader
    agent = agent
    none = none
    q1 = q1
    q2 = q2
    NumCpus = 2
    Readers <- MCReaders
    NoReader = none
    RingCapacity = 1
    Loader = loader
    Agent = agent
    Calls <- MCCalls
    ChanCapacity = 2
    MaxEmitted = 3
    MaxStarts <- MCMaxStarts
SYMMETRY Symmetry
SPECIFICATION Spec
INVARIANTS
    TypeOK
    DeliveredInOrder
    EveryCpuIsRead
    NothingLostInAgent
    RepliesDisjoint
PROPERTIES
    DrainedAtReturn
    ImplementsDelivery
CHECK_DEADLOCK FALSE
