CONSTANTS
    Pods = {p1, p2, p3}
    Annotated = {p1, p3}
    Guaranteed = {p3}
    Containers = {k1}
    Named = {p2, k1}
    Tgids = {1}
    Consumers = {c1}
    NoOne = nobody
SPECIFICATION Spec
INVARIANTS
    TypeOK
    NamedOnceCached
PROPERTIES
    RecordsGetRecorded
    PodsGetCached
CHECK_DEADLOCK FALSE
