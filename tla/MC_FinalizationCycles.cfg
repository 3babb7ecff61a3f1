CONSTANTS
    w1 = w1  w2 = w2  a = a  b = b  t = t
    Null = Null
    Workers <- MCWorkers
    Objects <- MCObjects
    Tenured = {t}
    SystemLoaded = {a}
    MaxCycles = 3
SPECIFICATION Spec
INVARIANT FinalizableQueueIntact
