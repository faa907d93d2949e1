CONSTANTS
    Clients = {c1}
    Msgs = {m1}
    NoMsg = none
    SendCap = 2
    BroadcastCap = 2
SPECIFICATION FairSpec
PROPERTIES
    GoneClientReleased
    PumpsEndAfterShutdown
