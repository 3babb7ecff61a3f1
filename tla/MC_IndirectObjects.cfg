CONSTANTS
    c1 = c1
    c2 = c2
    k1 = k1
    k2 = k2
    s1 = s1
    s2 = s2
    Null = Null
    Classes = {c1, c2}
    Objects = {k1, k2, s1, s2}
    ReplacedClass <- MCReplacedClass
    ClassObject <- MCClassObject
    Statics <- MCStatics
    Scannable = {c1, c2}
SPECIFICATION Spec
INVARIANT IndirectScanSound
\* Every scannable class is scanned once; then the model stops.
CHECK_DEADLOCK FALSE
