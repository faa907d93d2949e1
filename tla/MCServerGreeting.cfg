CONSTANTS
    Clients = {c1}
    Msgs <- MCMsgs
    NoMsg = none
    SendCap = 2
    BroadcastCap = 1
    MaxPolls = 2
SPECIFICATION ServerSpec
INVARIANTS
    GreetingShown
CHECK_DEADLOCK FALSE
