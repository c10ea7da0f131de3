CONSTANTS
    k1 = k1
    k2 = k2
    k3 = k3
    a1 = a1
    a2 = a2
    Keys = {k1, k2, k3}
    Screens = {"s1", "s2"}
    ScreenOf <- MCScreenOf
    Versions <- MCVersions
    Emergencies = {"E"}
    Withdrawals = {"W"}
    Deadline <- MCDeadline
    Assets = {a1, a2}
    Items <- MCItems
    MaxNow = 1
    MaxGeneratedAt = 3
    MaxEpoch = 3
    MaxPending = 1
    None = None
SPECIFICATION MCSpec
INVARIANTS
    ShownForScreen
    SlotsAreComplete
    RunningIdentityIsStored
PROPERTIES
    WithdrawalIsFinal
CHECK_DEADLOCK FALSE
