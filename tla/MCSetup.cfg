CONSTANTS
    Subsystems = {disk, docker}
    Uninterruptible = {disk}
    Requests = {r1}
    Poller = poll
    HttpRequests = {r1, r2}
    Clients = {c1, c2}
SPECIFICATION SetupSpec
INVARIANTS
    TypeOK
    Drains
PROPERTIES
    ReturnedIsFinal
    TickerNeverStalls
    FilesArrive
    SignalEndsIt
    CardFound
CHECK_DEADLOCK FALSE
