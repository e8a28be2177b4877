SPECIFICATION AccountSpec
CONSTANTS
    Connection = {c1, c2, c3}
    Request = {1, 2}
    Overlap = TRUE
    Part = {"groups", "instances"}
    Reader = {1, 2}
    Operation = {1}
    MaxVersion = 2
    Tab = {1, 2}
    MaxSent = 2
    MaxClears = 1
    MaxLoads = 1
INVARIANTS
    CredentialsKept
    OneActiveAlone
    ReportedIsListed
    RepliesFollowQuestions
CHECK_DEADLOCK FALSE
