SPECIFICATION FairEditor
CONSTANTS
    Canvas = {"empty", "bucket", "bucket and frontend"}
    Limit = 4
    Node = {"a", "b"}
    Edge = {"e1", "e2"}
    Ends <- DrawnTwice
    FirstNodes = {"a"}
    Setting = {"empty", "chosen", "kept"}
    Refused = {"empty"}
    Normal <- OnlyKept
    FirstSetting <- WithoutImage
    MaxEdits = 3
    MaxQueue = 2
    MaxCopies = 2
    Resource = {"bucket", "dist"}
    Order <- BucketFirst
    Frontend = {"dist"}
    MaxPolls = 2
    MaxActs = 4
    Prefix = {"", "assets/"}
    Root = ""
    LastPage = 2
    MaxListings = 5
    Query = {"q1", "q2", "q3"}
    RecursionLimit = 10
    Collections <- SomeCollections
    Lengths = {1, 4}
    MaxItems = 2
    Base = 6
    MaxCharacters = 15
INVARIANTS
    ShowsItsFolder
    NothingFitsAnyMore
PROPERTIES
    WalksALine
    SavedMeansStored
    EventuallyStored
    EventuallyShown
    EveryTurnComes
CHECK_DEADLOCK FALSE
