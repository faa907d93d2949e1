CONSTANTS
    Clients = {c1, c2}
    Msgs = {m1}
    NoMsg = none
    SendCap = 2
    BroadcastCap = 2
SYMMETRY ClientSymmetry
SPECIFICATION Spec
INVARIANTS
    TypeOK
    RegistryMatchesChannels
    CountExact
    DrainNeverBlocks
    SlowConsumerNeverBlocks
