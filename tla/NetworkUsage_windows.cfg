CONSTANTS
    c1 = c1
    c2 = c2
    c3 = c3
    erp = erp
    crm = crm
    r1 = r1
    r2 = r2
    r3 = r3
    Capabilities = {c1, c2, c3}
    ResourceOf <- Resource
    Requests = {r1, r2, r3}
    Costs <- Cost
    Ceilings = {2}
    Lifetimes = {5}
    Policies <- Limited
    Second = 2
    None = None
    MaxTime = 5
    Services = {c1, c2}
    GatePolicy = 1
    CacheSize = 1
    Longest = 4
    MaxIssued = 2
    MaxCalls = 3
SYMMETRY Alike
SPECIFICATION Spec
CHECK_DEADLOCK FALSE
INVARIANTS
    TypeOK
    BudgetsHold
    WindowsAreExact
PROPERTIES
    DecidesAsDefined
