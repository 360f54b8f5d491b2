SPECIFICATION Spec
CONSTANTS
    Workers = {w1, w2}
    c1 = c1
    c2 = c2
    Custodians = {c1, c2}
    DomainOf <- TwoDomains
    Threshold = 2
    Requests = {r1, r2}
    Suites = {a, b}
    GenesisSuite = a
    Genesis = Genesis
    SignsAudit = TRUE
    Delay = 1
    Ttl = 1
    MaxTime = 1
    MaxStarts = 1
SYMMETRY Symmetry
CHECK_DEADLOCK FALSE
INVARIANTS
    TypeOK
    RestartIsCurrent
    AuditStaysVerifiable
    RetiredAuthoriseNothing
PROPERTIES
    SuitesNeverReturn
