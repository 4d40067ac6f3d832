CONSTANTS
    Interfaces = {veth1, veth2, veth3, eth0}
    Ignored = {eth0}
    MAX_TRACKED = 2
SPECIFICATION Spec
INVARIANTS
    TypeOK
    ListedIsAttached
    UnknownCameBetween
    TrackedWasAttached
