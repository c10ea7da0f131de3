\* Two users of two organizations, two tokens, two mutations at a time and
\* two changes in all, over two instants.
SPECIFICATION Spec
CONSTANTS
    None = None
    alice = alice
    bob = bob
    k1 = k1
    k2 = k2
    Users = {alice, bob}
    Orgs = {1, 2}
    Tokens = {k1, k2}
    Transactions = {t1, t2}
    t1 = t1
    t2 = t2
    InitialRole <- MCInitialRole
    OfferedRoles = {"OWNER", "PUBLISHER"}
    SessionLife = 1
    RotationLife = 1
    RecoveryWindow = 1
    MaxTime = 1
    MaxChanges = 2
SYMMETRY MCSymmetry
INVARIANTS
    OwnerRemains
    NoSessionOutlivesAuthority
    ScopedAgreesWithRole
    SomeTransactionGoesOn
PROPERTY ImplementsDirectory
