CONSTANTS
    TargetBuckets = 3
    Duration = 2
    Skew = 2
    MaxRecords = 5
SPECIFICATION AggregateSpec
INVARIANTS
    InItsBucket
CHECK_DEADLOCK FALSE
