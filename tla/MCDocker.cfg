CONSTANTS
    Containers = {c1, c2}
    Poller = poll
    Requests = {api}
    SemCap = 1
    CPUs = 1
    MaxClock = 2
SPECIFICATION Spec
INVARIANTS
    BaselinesFit
    NeverExaggerates
    CollectEnds
SYMMETRY ContainerSymmetry
CHECK_DEADLOCK FALSE
