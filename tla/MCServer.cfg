CONSTANTS
    Clients = {c1, c2}
    Msgs <- MCMsgs
    NoMsg = none
    SendCap = 1
    BroadcastCap = 1
    MaxPolls = 3
SYMMETRY ClientSymmetry
CONSTRAINT AloneOrServing
SPECIFICATION ServerSpec
INVARIANTS
    StreamInOrder
    SameStream
PROPERTIES
    ImplementsFeed
CHECK_DEADLOCK FALSE
