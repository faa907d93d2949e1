CONSTANTS
    Subsystems = {disk, docker}
    Uninterruptible = {disk}
    Requests = {r1}
    Poller = poller
SPECIFICATION FairSpec
PROPERTIES
    SlowMountNeverStalls
CHECK_DEADLOCK FALSE
