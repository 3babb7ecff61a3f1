CONSTANTS
    w1 = w1
    w2 = w2
    s = s
    d1 = d1
    d2 = d2
    t = t
    q = q
    Null = Null
    Workers <- MCWorkers
    Objects <- MCObjects
    Tenured = {t}
    FinalizableInit <- MCFinalizableInit
    EvacuationMayFail = TRUE
SPECIFICATION Spec
INVARIANT FinalizableConserved
INVARIANT AddressesCurrent
PROPERTY RelinkTerminates
