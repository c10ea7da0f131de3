CONSTANTS
    Screens = {s1}
    Keys = {k1, k2}
    MaxGeneration = 3
    ChallengeRows = 3
    Challenges <- MCChallenges
    Handlers = {h1, h2}
    MaxLiveChallenges = 2
    MaxRelease = 2
    None = None
SPECIFICATION DeviceProofSpec
INVARIANTS
    TelemetryFromLiveKey
    OpenChallengeHasLiveKey
    ActedOnOnce
    LiveChallengeLimit
PROPERTY ManifestNeverGoesBack
SYMMETRY Symmetry
CHECK_DEADLOCK FALSE
