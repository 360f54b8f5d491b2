CONSTANTS
    c1 = c1
    s1 = s1
    k1 = k1
    q1 = q1
    q2 = q2
    Gates = {g1}
    Capabilities = {c1}
    Subjects = {s1}
    Keys = {k1, q1, q2}
    SubjectOf <- OneSubject
    KeyOf <- OneKey
    Revocable = {s1}
    ConfigSigner <- OneSigner
    MaxEntries = 1
    Slo = 1
    MaxTime = 1
    MaxRevocations = 1
    MaxPerId = 1
    MaxVersion = 1
    MaxRotations = 1
    MaxRestarts = 0
SPECIFICATION FairSpec
CHECK_DEADLOCK FALSE
PROPERTIES
    RevokedLosesAccess
