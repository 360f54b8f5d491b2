CONSTANTS
    c1 = c1
    s1 = s1
    k1 = k1
    q1 = q1
    q2 = q2
    Gates = {g1}
    Capabilities = {c1}
    Subjects = {s1}
    Keys = {k1, q1, q2}
    SubjectOf <- OneSubject
    KeyOf <- OneKey
    Revocable = {k1, q1, q2}
    ConfigSigner <- TwoSigners
    MaxEntries = 2
    Slo = 1
    MaxTime = 2
    MaxRevocations = 3
    MaxPerId = 1
    MaxVersion = 2
    MaxRotations = 1
    MaxRestarts = 1
SPECIFICATION FairSpec
CHECK_DEADLOCK FALSE
INVARIANTS
    TypeOK
    FollowedIsRefused
    AckedIsRefused
PROPERTIES
    NothingForgotten
    KnownRevocationIsRefused
