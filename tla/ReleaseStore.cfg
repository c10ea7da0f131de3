\* Two users, two candidates of one playlist with one medium, two screens.
\* A candidate lives for one unit and its responses are kept for one, so that
\* within three units candidates expire, are pruned, and records expire.
SPECIFICATION Spec
CONSTANTS
    None = None
    owner = owner
    admin = admin
    s1 = s1
    s2 = s2
    c1 = c1
    c2 = c2
    Users = {owner, admin}
    Screens = {s1, s2}
    Media = {m1}
    Playlists = {p1}
    Candidates = {c1, c2}
    Items <- MCItems
    MediaExpiresAt <- MCMediaExpiresAt
    InitialRole <- MCInitialRole
    OfferedRoles = {"PUBLISHER"}
    Retention = 1
    MaxLifetime = 1
    PruneBatch = 1
    CompactBatch = 1
    MaxOutstanding = 2
    MaxRetained = 2
    MaxTime = 2
    MaxAuthorityChanges = 1
SYMMETRY MCSymmetry
INVARIANTS
    ReplayIsFaithful
    OnlyApprovedIsDelivered
    DeliveredAsPromised
PROPERTY ImplementsWorkflow
CHECK_DEADLOCK FALSE
