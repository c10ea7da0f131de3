CONSTANTS
    Users = {u1}
    Screens = {s1, s2}
    Keys = {k1, k2}
    GrantRows = 2
    AttemptRows = 2
    Grants <- MCGrants
    Attempts <- MCAttempts
    RequestKeys = {q1, q2}
    MaxCandidates = 2
    MaxGeneration = 3
    MaxEpoch = 0
    MaxAge = 3
    None = None
SPECIFICATION Spec
INVARIANTS
    LiveKeyIsActivatedCandidate
    OneWinnerPerGeneration
    WinnerNeverCancelled
    ReplayableGrantIsRetained
PROPERTY ImplementsCredentialLifeCycle
SYMMETRY Symmetry
CHECK_DEADLOCK FALSE
