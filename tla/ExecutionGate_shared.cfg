CONSTANTS
    c1 = c1
    c2 = c2
    c3 = c3
    r1 = r1
    r2 = r2
    Workers = {w1, w2}
    Capsules = {c1, c2, c3}
    PolicyChanges = {c2, c3}
    Exports = {c1}
    Conditional = {c2}
    Resources = {r1}
    TargetOf <- OneResource
    NoCapsule = NoCapsule
    ShadowVersions = {3}
    MaxSeeds = 0
    MaxCrashes = 1
SYMMETRY WorkerSymmetry
SPECIFICATION Spec
CHECK_DEADLOCK FALSE
INVARIANTS
    TypeOK
    RecordsAgree
    SingleDispatch
    NoLostUpdate
    PolicyLineage
    VerifiedPolicyIsActive
PROPERTIES
    ImplementsOneShot
