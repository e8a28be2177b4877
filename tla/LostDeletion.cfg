SPECIFICATION Spec
CONSTANTS
    n1 = n1
    n2 = n2
    i1 = i1
    i2 = i2
    r1 = r1
    r2 = r2
    Node = {n1}
    Service <- Distribution
    Own = {i1}
    Foreign = foreign
    NoExt = null
    Lagging = {}
    Edge = {}
    InitMode <- AllCreate
    Request = {r1, r2}
    Ops <- PublishAndRefresh
    NoNode = NoNode
    Drifting = {}
    Several = {}
    CanRestart = FALSE
PROPERTIES
    PendingDeletionKept
CHECK_DEADLOCK FALSE
