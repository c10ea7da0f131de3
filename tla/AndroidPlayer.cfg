CONSTANTS
    Orders <- MCOrders
    MaxLifecycles = 3
    Nothing = Nothing
    Threads = {t1, t2}
    Files = {f1, f2, f3}
    Sharing = {f1, f2}
    LockOf <- MCLockOf
    Capacity = 2
    MaxCrashes = 1
    None = None
SPECIFICATION MCSpec
INVARIANTS
    WrittenCanBeRead
    AnsweredIsDurable
    FinalsAreSynced
    ReservationsBalance
PROPERTIES
    JournalOnlyAdvances
    WritersFinish
CHECK_DEADLOCK FALSE
