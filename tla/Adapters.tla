------------------------------ MODULE Adapters ------------------------------
(***************************************************************************)
(* What a publish or a deletion does to resources through the adapters of  *)
(* the AWS services: the wait for a dependency, the requests with their    *)
(* references, the updates of deployed resources, the setup of buckets,    *)
(* groups and roles, the objects of a bucket, and distributions in front   *)
(* of one.  They share no state, so a behaviour is one of part, chosen at  *)
(* its start.                                                              *)
(***************************************************************************)
EXTENDS Readiness

CONSTANTS
    Node, Service, Edge, Fields,                        \* ResourceRequests: a sketch that refers to no group
    GroupNode, GroupService, GroupEdge, GroupFields,    \* and one that may
    MaxCreated,
    Services, MaxEdits,                                 \* ResourceUpdates
    Kinds, Parts, PageSize,                             \* ServiceSetup
    Key, Folder, Sibling, KeysAtOnce, MaxVersion,       \* BucketContents
    VersionedKey, VersionedFolder, EntriesAtOnce, MaxVersions, Origin,
    Dist, RacedDist, Slot, Handler, Https, NoDist       \* CloudFrontService

VARIABLES
    part,
    row, cloud, name, made, pub, outcome,                       \* ResourceRequests
    service, config, desired, live, step, sent, others, edits,          \* ResourceUpdates
    kind, exists, applied, record, at, todo, marker,            \* ServiceSetup
    bucket, entries, version, removal, teardown, cors, signing, \* BucketContents
    dist, oac, origin, policy, front, req                       \* CloudFrontService

\* Instances of the module with the lemmas about a publish.
Sketch == INSTANCE ResourceRequestsProofs
Grouped == INSTANCE ResourceRequestsProofs WITH
    Node <- GroupNode, Service <- GroupService, Edge <- GroupEdge, Fields <- GroupFields

Updates == INSTANCE ResourceUpdates

\* Alone, and while somebody else detaches policies.
Setup == INSTANCE ServiceSetup WITH Meddling <- FALSE, row <- record
Shared == INSTANCE ServiceSetup WITH Kinds <- {"IAM_ROLE"}, Meddling <- TRUE, row <- record

\* A bucket without and one with versions; forms for uploads, one after another.
Folders == INSTANCE BucketContents WITH
    Origin <- {}, Versioned <- FALSE, MayFail <- TRUE, OneSigner <- TRUE,
    PageSize <- KeysAtOnce, exists <- bucket
Versions == INSTANCE BucketContents WITH
    Key <- VersionedKey, Folder <- VersionedFolder, Sibling <- {}, Origin <- {}, Versioned <- TRUE,
    MayFail <- FALSE, OneSigner <- TRUE, PageSize <- EntriesAtOnce, MaxVersion <- MaxVersions, exists <- bucket
Uploads == INSTANCE BucketContents WITH
    Key <- {}, Folder <- {}, Sibling <- {}, Versioned <- FALSE, MayFail <- FALSE, OneSigner <- TRUE,
    PageSize <- KeysAtOnce, MaxVersion <- 0, exists <- bucket

\* Distributions in front of one bucket, which may be deleted, one request at a
\* time; several at a time; one, while the editor polls.
Calls == INSTANCE CloudFrontService WITH
    Handler <- {Slot}, None <- NoDist, BucketMayGo <- TRUE,
    row <- front, bucket <- origin
Races == INSTANCE CloudFrontService WITH
    Dist <- RacedDist, None <- NoDist, BucketMayGo <- FALSE,
    row <- front, bucket <- origin
Deletions == INSTANCE CloudFrontService WITH
    Dist <- RacedDist, Handler <- {Slot}, None <- NoDist, BucketMayGo <- FALSE,
    row <- front, bucket <- origin

\* Sketch has no resource that refers to a group: of groups, which may be known
\* under another name, only AppliesCurrent is stated.  No table is updated: what
\* AWS has of its capacities depends on its billing mode.
ASSUME AdapterAssumption ==
    /\ Sketch!RequestsAssumption /\ Grouped!RequestsAssumption
    /\ \A e \in Edge : Service[e[1]] # "SECURITY_GROUP"
    /\ Updates!UpdatesAssumption /\ "DYNAMODB_TABLE" \notin Services
    /\ Setup!SetupAssumption /\ Shared!SetupAssumption
    /\ Folders!BucketAssumption /\ Versions!BucketAssumption /\ Uploads!BucketAssumption
    /\ Calls!CloudFrontAssumption /\ Races!CloudFrontAssumption /\ Deletions!CloudFrontAssumption

requestVars == <<row, cloud, name, made, pub, outcome>>
updateVars == <<service, config, desired, live, step, sent, others, edits>>
setupVars == <<kind, exists, applied, record, at, todo, marker>>
bucketVars == <<bucket, entries, version, removal, teardown, cors, signing>>
frontVars == <<dist, oac, origin, policy, front, req>>
adapterVars == <<part, vars, requestVars, updateVars, setupVars, bucketVars, frontVars>>

\* The parts that do not take part have one start.
AdaptersInit ==
    /\ part \in {"wait", "sketch", "grouped", "updates", "setup", "shared",
                 "folders", "versions", "uploads", "calls", "races", "deletions"}
    /\ Init /\ (part # "wait" => resource = "missing")
    /\ IF part = "grouped" THEN Grouped!Init ELSE Sketch!Init
    /\ Updates!Init /\ (part # "updates" => service = "SNS_TOPIC" /\ config = <<>> /\ others)
    /\ Setup!Init /\ (part # "setup" => kind = "IAM_ROLE")
    /\ IF part = "uploads" THEN Uploads!Init ELSE Folders!Init
    /\ IF part = "calls" THEN Calls!Init ELSE IF part = "races" THEN Races!Init ELSE Deletions!Init

AdaptersNext ==
    /\ UNCHANGED part
    /\ \/ /\ part = "wait" /\ Next
          /\ UNCHANGED <<requestVars, updateVars, setupVars, bucketVars, frontVars>>
       \/ /\ \/ part = "sketch" /\ Sketch!Next
             \/ part = "grouped" /\ Grouped!Next
          /\ UNCHANGED <<vars, updateVars, setupVars, bucketVars, frontVars>>
       \/ /\ part = "updates" /\ Updates!Next
          /\ UNCHANGED <<vars, requestVars, setupVars, bucketVars, frontVars>>
       \/ /\ \/ part = "setup" /\ Setup!Next
             \/ part = "shared" /\ Shared!Next
          /\ UNCHANGED <<vars, requestVars, updateVars, bucketVars, frontVars>>
       \/ /\ \/ part = "folders" /\ Folders!Next
             \/ part = "versions" /\ Versions!Next
             \/ part = "uploads" /\ Uploads!Next
          /\ UNCHANGED <<vars, requestVars, updateVars, setupVars, frontVars>>
       \/ /\ \/ part = "calls" /\ Calls!Next
             \/ part = "races" /\ Races!Next
             \/ part = "deletions" /\ Deletions!Next
          /\ UNCHANGED <<vars, requestVars, updateVars, setupVars, bucketVars>>

AdaptersSpec == AdaptersInit /\ [][AdaptersNext]_adapterVars

\* Handlers run to their end, CloudFront propagates, the editor polls, and not
\* every call of a retried deletion fails.
FairAdapters ==
    /\ AdaptersSpec
    /\ SF_frontVars(part = "deletions" /\ Deletions!Step(Slot))
    /\ \A d \in RacedDist : SF_frontVars(part = "deletions" /\ Deletions!RefreshStart(Slot, d))
    /\ \A place \in {"disable", "remove", "read", "write", "collect", "record"} :
           SF_frontVars(part = "deletions" /\ Deletions!At(Slot, place) /\ Deletions!Step(Slot))
    /\ \A d \in RacedDist : WF_frontVars(part = "deletions" /\ Deletions!Deploy(d))

-----------------------------------------------------------------------------
\* Every reference along an edge can be resolved once its source is deployed,
\* however often it was refreshed, updated or replaced before.
ReferencesResolve == part = "sketch" => Sketch!ReferencesResolve

\* After a publish that succeeded, every running resource is configured with
\* what the resources it depends on are now, also when those were replaced.
AppliedCurrent ==
    [][/\ part = "sketch" => Sketch!AppliesCurrent
       /\ part = "grouped" => Grouped!AppliesCurrent]_requestVars

\* When the canvas says that there are no unpublished changes, AWS has the
\* settings that the config stands for: a refused update is still pending.  Not so
\* HTTPS that was turned off with no other statement in the policy, or a changed
\* list of groups with a reference in it.  (A second edit that gets past the guard
\* may take back what was refused half-way.)
NothingPendingMeansLive == edits <= 1 => Updates!NothingPendingMeansLive

\* RUNNING says that AWS has everything the config asked for, TERMINATED that
\* the resource is deleted or was missing, whichever call failed on the way.
StatusTellsAws == part = "setup" => Setup!StatusTellsAws

\* DeleteRole is called when the loop over the pages has left no policy, so a
\* role CloudCanvas made is not refused for policies CloudCanvas attached.
PoliciesGoFirst == Shared!PoliciesGoFirst

\* A deletion that is reported to have succeeded has left nothing that was there
\* when it began and was not written again.
RemovedIsGone ==
    /\ part = "folders" => Folders!RemovedIsGone
    /\ part = "versions" => Versions!RemovedIsGone

\* Every origin that was given a form may use it: its rule is there and stays.
SignedMayUpload == part = "uploads" => Uploads!SignedMayUpload

\* One request at a time, whichever call fails and whatever is tried again: of a
\* resource that is terminated nothing is left, no grant in the policy of the
\* bucket, and no access control unless the distribution was never made and the
\* deletion that was to undo its access control failed.
NothingLeft == part = "calls" => Calls!NothingLeft

\* One request at a time, a distribution that is running, and was not asked to
\* stop, may read its bucket.
MayReadBucket == part = "calls" => Calls!MayReadBucket

\* Creating, updating, deleting, failing and retrying, by several handlers at a
\* time, move a distribution only through the stages SketchLifecycle builds on.
Stages == INSTANCE DistributionStages WITH
    Node <- RacedDist, Service <- [d \in RacedDist |-> "CLOUDFRONT_DISTRIBUTION"],
    Own <- RacedDist, Foreign <- Https, NoExt <- NoDist, Lagging <- {},
    stage <- [d \in RacedDist |-> IF part = "races" THEN Races!StageOf(d) ELSE "absent"]
StagesOnly == Stages!Spec

\* While the editor polls, a deletion that was accepted ends.
DeletionFinishes == part = "deletions" => Deletions!DeletionFinishes
=============================================================================
