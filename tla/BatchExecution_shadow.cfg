CONSTANTS
    c1 = c1
    c2 = c2
    b1 = b1
    b2 = b2
    r1 = r1
    Workers = {w1}
    Capsules = {c1, c2}
    Exports = {c2}
    Resources = {r1}
    TargetOf <- OneResource
    Compositions = {b1, b2}
    ChildrenOf <- Overlapping
    NoComposition = NoComposition
    Shadow = TRUE
    MaxCrashes = 0
SPECIFICATION Spec
CHECK_DEADLOCK FALSE
INVARIANTS
    ShadowNeverMutates
