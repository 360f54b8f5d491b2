CONSTANTS
    c1 = c1
    c2 = c2
    c3 = c3
    r1 = r1
    r2 = r2
    Workers = {w1}
    Capsules = {c1, c2}
    PolicyChanges = {c1, c2}
    Exports = {}
    Conditional = {}
    Resources = {r1, r2}
    TargetOf <- TwoResources
    NoCapsule = NoCapsule
    ShadowVersions = {}
    MaxSeeds = 0
    MaxCrashes = 1
SPECIFICATION FairSpec
CHECK_DEADLOCK FALSE
PROPERTIES
    PolicyChangeIsVerified
