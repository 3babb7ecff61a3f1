CONSTANTS
    w1 = w1
    w2 = w2
    a = a
    b = b
    c = c
    t = t
    Workers <- MCWorkers
    NurserySyncs = {a, b, c}
    Registered = {a, b}
    TenureSyncs = {t}
    RootScanned = {t}
    BufferMax = 1
    ConcurrentScavenger = FALSE
SPECIFICATION Spec
INVARIANT TypeOK
INVARIANT SyncListsRebuilt
INVARIANT MainRebuildPublished
INVARIANT SurvivorStatsExact
