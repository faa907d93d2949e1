CONSTANTS
    Devices = {"sda"}
    Rows <- MCRows
    DeviceOf <- MCDeviceOf
    Poller = poll
    Requests = {api}
    Width = 3
    Gap = 0
    MaxRate = 1
    MaxResets = 1
    MaxClock = 3
    Freqs = {1, 2, 4}
    MinInterval = 2
    MaxSwitches = 1
    MaxGpuClock = 3
    Cores = {0, 1}
    MaxCpuClock = 3
    Mounts <- MCMounts
    DiskNames <- MCDiskNames
    Root = "/"
    RootDevice = "root"
    DiskTargets <- MCDiskTargets
    MaxPartitions = 2
    Base <- MCBase
    BeginsWith <- MCBeginsWith
    Intervals <- MCIntervals
    Ports = {0, 9000}
    Paths = {"card1"}
    Bad = Bad
SPECIFICATION SourcesSpec
INVARIANTS
    RatesAreReal
    UsageIsReal
    RowsFit
    
    PollTimesFit
CHECK_DEADLOCK FALSE
