CONSTANTS
    Parts = {"PLAYBACK"}
    Cadences = {1, 3}
    RetryBase = 1
    RetryMax = 2
    RetryAfters = {4}
    MaxFailures = 2
    Versions = {"A", "B", "N"}
    Kinds <- MCKinds
    MaxPosition = 3
    MaxRemaining = 5
    Poll = 2
    Chunk = 3
    MaxJumps = 2
    NoTimer = NoTimer
    None = None
    Unset = Unset
    Day = 8
    Step = 2
    Reach = 12
    Instants <- MCInstants
    Zones <- MCZones
    Windows <- MCWindows
    DayFilters = {{}, {2}}
    EndTimes = {Unset, 21}
    Rivals <- MCRivals
SPECIFICATION MCSpec
PROPERTIES
    LeavesEveryItem
CHECK_DEADLOCK FALSE
