CONSTANTS
    s1 = s1
    s2 = s2
    s3 = s3
    Workers = {w1, w2}
    Snapshots = {s1, s2}
    VersionOf <- Increasing
    Genesis = s1
    HasFile = TRUE
    Unsigned = Unsigned
    Broken = Broken
    None = None
    MaxEvents = 2
    MaxStarts = 2
SPECIFICATION FairSpec
CHECK_DEADLOCK FALSE
INVARIANTS
    TypeOK
PROPERTIES
    WorkerNeverRollsBack
    WithdrawalSpreads
    RevokedSnapshotIsDropped
