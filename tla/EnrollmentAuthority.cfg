CONSTANTS
    Users = {u1, u2}
    Screens = {s1}
    Keys = {k1, k2}
    GrantRows = 2
    AttemptRows = 2
    Grants <- MCGrants
    Attempts <- MCAttempts
    RequestKeys = {q1}
    MaxCandidates = 1
    MaxGeneration = 3
    MaxEpoch = 1
    MaxAge = 1
    None = None
SPECIFICATION Spec
INVARIANTS
    PendingGrantHasCurrentIssuer
    ReplacementFollowsContainment
    CandidateLimit
SYMMETRY Symmetry
CHECK_DEADLOCK FALSE
