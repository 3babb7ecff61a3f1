CONSTANTS
    w1 = w1
    w2 = w2
    r1 = r1
    r2 = r2
    r3 = r3
    g = g
    f = f
    x = x
    Null = Null
    Workers <- MCWorkers
    Shards <- MCShards
    Refs <- MCRefs
    Unfinalized = {f}
    Plain = {x}
    Kind <- MCKind
    Young = {}
    Tenure = {}
    Queued = {r1, r2, r3}
    Edges <- MCEdges
    RootChoices = {r1, r2, x}
    ReferentChoices = {x, f}
    UnfinalizedInit <- MCUnfinalizedInit
    LegacyPhantom = FALSE
    SoftAsWeak = FALSE
    BufferMax = 2
    EvacuationMayFail = FALSE
    WeakSlots <- MCWeakSlots
    WeakRootInit <- MCWeakRootInit
SPECIFICATION Spec
INVARIANT TypeOK
INVARIANT ListsWellFormed
INVARIANT ReferentsResolved
INVARIANT WeakClearedIffUnreachable
INVARIANT EnqueuedExactlyOnce
INVARIANT FinalizerWokenOnce
INVARIANT UnfinalizedConserved
INVARIANT CopiedObjectsScanned
SYMMETRY WorkerSymmetry
