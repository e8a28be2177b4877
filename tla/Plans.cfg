SPECIFICATION Spec
CONSTANTS
    a = a
    b = b
    c = c
    d = d
    x = x
    Id = {a, b, c, d, x}
    Untyped = untyped
    Input <- Graphs
INVARIANTS
    Topological
    CycleVerdict
    RejectsExactlyInvalid
CHECK_DEADLOCK FALSE
