SPECIFICATION FairAdapters
CONSTANTS
    Timeout = 9
    Interval = 3
    MaxRead = 3
    MaxLag = 2
    Node = {1, 2, 3, 4}
    Service <- RoleAndBucket
    Edge <- RoleAndBucketEdges
    Fields <- RoleAndBucketFields
    GroupNode = {1, 2, 3}
    GroupService <- TwoGroups
    GroupEdge <- TwoGroupsEdges
    GroupFields <- TwoGroupsFields
    MaxCreated = 5
    Services <- SomeServices
    MaxEdits = 2
    Kinds = {"S3_BUCKET", "SECURITY_GROUP", "IAM_ROLE"}
    Parts = 5
    PageSize = 2
    Key = {1, 2, 3}
    Folder = {1, 2}
    Sibling = {3}
    KeysAtOnce = 1
    MaxVersion = 5
    VersionedKey = {1, 2}
    VersionedFolder = {1}
    EntriesAtOnce = 2
    MaxVersions = 4
    Origin = {"https://canvas", "http://localhost", "https://preview"}
    Dist = {"d1", "d2"}
    RacedDist = {"d1"}
    Slot = "p1"
    Handler = {"p1", "p2"}
    Https = "https"
    NoDist = "none"
INVARIANTS
    ReadyIsUsed
    ReferencesResolve
    NothingPendingMeansLive
    StatusTellsAws
    PoliciesGoFirst
    RemovedIsGone
    SignedMayUpload
    NothingLeft
    MayReadBucket
PROPERTIES
    AppliedCurrent
    StagesOnly
    DeletionFinishes
CHECK_DEADLOCK FALSE
