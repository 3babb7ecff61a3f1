CONSTANTS
    w1 = w1
    w2 = w2
    r1 = r1
    r2 = r2
    r3 = r3
    g = g
    f = f
    x = x
    Null = Null
    Workers <- MCWorkers
    Shards <- MCShards
    Refs <- MCRefs
    Unfinalized = {f}
    Plain = {x}
    Kind <- MCSoftKind
    Young = {r1}
    Tenure = {r2}
    Queued = {r1, r2, r3}
    Edges <- MCEdges
    RootChoices = {r1, r2, x}
    ReferentChoices = {x, f}
    UnfinalizedInit <- MCUnfinalizedInit
    LegacyPhantom = TRUE
    SoftAsWeak = FALSE
    BufferMax = 1
    EvacuationMayFail = TRUE
    WeakSlots <- MCWeakSlots
    WeakRootInit <- MCWeakRootInit
SPECIFICATION Spec
INVARIANT ReferentsResolved
INVARIANT CopiedObjectsScanned
INVARIANT UnfinalizedConserved
INVARIANT WeakRootsResolved
SYMMETRY WorkerSymmetry
