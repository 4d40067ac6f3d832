CONSTANTS
    Pods = {pod1, pod2, pod3}
    Services = {svc1}
    OfService = {pod1, pod2}
    OfComponent = {pod2, pod3}
    Described = {pod1}
SPECIFICATION Spec
INVARIANTS
    TypeOK
    ShownWasThere
    NothingPassedOver
    MissingForAReason
PROPERTY CommandsEnd
