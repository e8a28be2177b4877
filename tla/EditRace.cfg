SPECIFICATION Spec
CONSTANTS
    n1 = n1
    n2 = n2
    i1 = i1
    i2 = i2
    r1 = r1
    r2 = r2
    Node = {n1, n2}
    Service <- Frontend
    Own = {i1, i2}
    Foreign = foreign
    NoExt = null
    Lagging = {}
    Edge <- Chain
    InitMode <- AllCreate
    Request = {r1, r2}
    Ops <- PublishAndEdit
    NoNode = NoNode
    Drifting = {}
    Several = {}
    CanRestart = FALSE
INVARIANTS
    NoOrphan
PROPERTIES
    SucceededMeansPublished
SYMMETRY Instances
CHECK_DEADLOCK FALSE
