SPECIFICATION Spec
CONSTANTS
    n1 = n1
    n2 = n2
    i1 = i1
    i2 = i2
    r1 = r1
    r2 = r2
    Node = {n1, n2}
    Service <- Compute
    Own = {i1}
    Foreign = foreign
    NoExt = null
    Lagging = {n1}
    Edge <- Chain
    InitMode <- AllCreate
    Request = {r1, r2}
    Ops <- PublishAndDisturb
    NoNode = NoNode
    Drifting = {}
    Several = {}
    CanRestart = FALSE
PROPERTIES
    DependentsAfterReady
CHECK_DEADLOCK FALSE
