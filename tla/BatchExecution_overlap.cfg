CONSTANTS
    c1 = c1
    c2 = c2
    b1 = b1
    b2 = b2
    r1 = r1
    Workers = {w1, w2}
    Capsules = {c1, c2}
    Exports = {c2}
    Resources = {r1}
    TargetOf <- OneResource
    Compositions = {b1, b2}
    ChildrenOf <- Overlapping
    NoComposition = NoComposition
    Shadow = FALSE
    MaxCrashes = 1
SPECIFICATION FairSpec
CHECK_DEADLOCK FALSE
INVARIANTS
    TypeOK
    BatchIsAtomic
    ChildReservedOnce
PROPERTIES
    BatchImplementsOneShot
    JournaledBatchIsVerified
