SPECIFICATION WatchedSpec
CONSTANTS
    n1 = n1
    n2 = n2
    i1 = i1
    i2 = i2
    r1 = r1
    r2 = r2
    Node = {n1, n2}
    Service <- Frontend
    Own = {i1}
    Foreign = foreign
    NoExt = null
    Lagging = {}
    Edge <- Chain
    InitMode <- AllCreate
    Request = {r1}
    Ops <- OneByOne
    NoNode = NoNode
    Drifting = {n1}
    Several = {}
    CanRestart = FALSE
PROPERTIES
    DeletionCompletes
    GoneIsNoticed
CHECK_DEADLOCK FALSE
