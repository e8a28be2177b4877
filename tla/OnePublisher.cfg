SPECIFICATION Spec
CONSTANTS
    n1 = n1
    n2 = n2
    i1 = i1
    i2 = i2
    r1 = r1
    r2 = r2
    Node = {n1}
    Service <- Server
    Own = {i1, i2}
    Foreign = foreign
    NoExt = null
    Lagging = {}
    Edge = {}
    InitMode <- AllCreate
    Request = {r1, r2}
    Ops <- OnePublisher
    NoNode = NoNode
    Drifting = {n1}
    Several = {n1}
    CanRestart = TRUE
INVARIANTS
    AdoptedUntouched
SYMMETRY Instances
CHECK_DEADLOCK FALSE
