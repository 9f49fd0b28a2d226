CONSTANTS
    AggregationBuckets = 2
    MaxRows = 2
    MaxBatches = 3
SPECIFICATION Spec
INVARIANTS
    BucketsTile
PROPERTIES
    FollowersConverge
CHECK_DEADLOCK FALSE
