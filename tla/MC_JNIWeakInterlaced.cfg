CONSTANTS
    j1 = j1
    j2 = j2
    a = a
    b = b
    t = t
    Null = Null
    Slots <- MCSlots
    Objects <- MCObjects
    Tenured = {t}
    Configs <- MCInterlaced
    MaxCycles = 3
SPECIFICATION Spec
INVARIANT JNIWeakSlotsCurrent
