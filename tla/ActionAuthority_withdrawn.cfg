CONSTANTS
    c1 = c1
    c2 = c2
    c3 = c3
    e1 = e1
    i1 = i1
    b1 = b1
    s1 = s1
    a1 = a1
    Capsules = {c1, c2, c3}
    ActorOf <- Actor
    Reducible = {c3}
    SuccessorOf <- Reduced
    Evidence = {e1}
    CapsuleOf <- Exact
    IssuerOf <- Sources
    FailureDomain <- Domains
    Signers = {s1}
    Batches = {b1}
    ChildrenOf <- Together
    Scopes <- Emergencies
    Independent = 0
    Threshold = 1
    None = None
    MaxSigned = 2
    MaxEvents = 2
SPECIFICATION Spec
CHECK_DEADLOCK FALSE
INVARIANTS
    TypeOK
PROPERTIES
    DispatchedAsSigned
    WithdrawalStopsAction
    AuthorityOnlyDecays
