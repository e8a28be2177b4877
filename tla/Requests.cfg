SPECIFICATION RequestsSpec
CONSTANTS
    Person = {"ann"}
    Spelling = {"lower", "Mixed"}
    Password = {"p", "q"}
    Browser = {b1, b2}
    Node <- Nodes
    ServiceOf <- Types
    Edge = {1, 2}
    Definition <- Graphs
    NoNode = "none"
    Slot = {1, 2}
    CanvasNode = {"a", "b"}
    CanvasEdge = {"e1", "e2"}
    Ends <- Joined
    Live = {"b"}
    FirstNodes = {"a", "b"}
    Setting = {"empty", "chosen", "kept"}
    Refused = {"empty"}
    Normal <- OnlyKept
    FirstSetting <- WithoutImage
    Faulty = TRUE
    Reloads = TRUE
    MaxEdits = 2
    MaxQueue = 1
    MaxCopies = 2
INVARIANTS
    StoredGraphSound
PROPERTIES
    PasswordKept
    OverwritesGraph
CHECK_DEADLOCK FALSE
