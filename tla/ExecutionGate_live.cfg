CONSTANTS
    c1 = c1
    c2 = c2
    c3 = c3
    r1 = r1
    r2 = r2
    Workers = {w1, w2}
    Capsules = {c1, c2}
    PolicyChanges = {c2}
    Exports = {}
    Conditional = {}
    Resources = {r1}
    TargetOf <- OneResource
    NoCapsule = NoCapsule
    ShadowVersions = {}
    MaxSeeds = 1
    MaxCrashes = 1
SPECIFICATION FairSpec
CHECK_DEADLOCK FALSE
PROPERTIES
    RequestsEnd
    JournaledIsVerified
