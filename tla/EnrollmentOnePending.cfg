CONSTANTS
    Users = {u1}
    Screens = {s1}
    Keys = {k1}
    GrantRows = 2
    AttemptRows = 1
    Grants <- MCGrants
    Attempts <- MCAttempts
    RequestKeys = {q1}
    MaxCandidates = 1
    MaxGeneration = 2
    MaxEpoch = 0
    MaxAge = 1
    None = None
SPECIFICATION Spec
INVARIANT OnePendingTargetedGrant
CHECK_DEADLOCK FALSE
