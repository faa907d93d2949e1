CONSTANTS
    Sockets = {s1, s2, s3}
    NoSocket = NoSocket
    MaxMounts = 3
    Retention = 1
    PruneEvery = 1
    TargetBuckets = 3
    Duration = 2
    Skew = 2
    MaxRecords = 6
SPECIFICATION HistorySpec
INVARIANTS
    OneStream
    StatusIsTrue
    HistoryBounded
    Partition
    PointsInTime
PROPERTIES
    StreamComesBack
    ChartSettles
CHECK_DEADLOCK FALSE
