SPECIFICATION Spec
CONSTANTS
    Workers = {w1, w2}
    Slots = {i1}
    Subject = Subject
    Signers = {s1, s2}
    DomainOf <- OwnDomain
    Threshold = 2
    Requests = {q1, q2}
    Reissues = {k1}
    Grants = {j1}
    Revocable = {Subject, j1}
    Configured = Configured
    ConfiguredUntil = 1
    None = None
    CredentialTtl = 1
    SessionTtl = 1
    Ttl = 1
    MaxTime = 1
SYMMETRY Symmetry
CHECK_DEADLOCK FALSE
INVARIANTS
    TypeOK
PROPERTIES
    ResetInvalidates
    AccessIsLive
    ResetIsLasting
