--------------------------- MODULE SketchLifecycle ---------------------------
(***************************************************************************)
(* The life of the AWS resources of one sketch, as driven by the handlers  *)
(* of server/src/controllers/infrastructureController.ts: publish, delete  *)
(* one resource, delete all, delete the sketch, refresh, and the canvas    *)
(* edits that are guarded by resource state.                               *)
(*                                                                         *)
(* Each request runs a handler to completion between awaits: it reads a    *)
(* snapshot of the database once and afterwards decides from the snapshot, *)
(* while other requests change rows and AWS.  One element of Request is a  *)
(* slot that serves one request after another, so the size of Request is   *)
(* the number of requests in flight together, and Request = {r} gives the  *)
(* behaviours without concurrency.                                         *)
(***************************************************************************)
EXTENDS AwsServices

CONSTANTS
    Edge,           \* <<source, target>> pairs drawn between nodes
    InitMode,       \* "create" or "existing", the mode of each node's config
    Request,        \* request slots
    Ops,            \* the handlers each slot may run
    NoNode,         \* no current node
    Drifting,       \* nodes whose instance may be deleted outside CloudCanvas
    Several,        \* nodes whose config may ask for more than one instance
    CanRestart      \* whether the server process may restart

Op == {"publish", "deleteResource", "deleteAll", "deleteSketch", "refresh",
       "createNode", "deleteNode", "updateNode", "replaceGraph"}
Mode == {"create", "existing"}

\* canConnectResources: the attachments an edge may stand for.  No service is
\* the source of one pair and the target of another, so graphs are acyclic.
CanConnect ==
    {<<"KEY_PAIR", "EC2_INSTANCE">>, <<"SECURITY_GROUP", "EC2_INSTANCE">>,
     <<"IAM_ROLE", "LAMBDA_FUNCTION">>, <<"S3_BUCKET", "CLOUDFRONT_DISTRIBUTION">>}

ASSUME LifecycleAssumption ==
    /\ Edge \subseteq Node \X Node
    /\ \A e \in Edge : <<Service[e[1]], Service[e[2]]>> \in CanConnect
    /\ InitMode \in [Node -> Mode]
    /\ \A n \in Node : InitMode[n] = "existing" => IsAdoptable(n)
    /\ Ops \in [Request -> SUBSET Op]
    /\ NoNode \notin Node
    /\ Drifting \subseteq Node
    /\ Several \subseteq Node
    /\ \A n \in Several : Service[n] = "EC2_INSTANCE"
    /\ CanRestart \in BOOLEAN

VARIABLES
    nodes,      \* nodes on the canvas
    mode,       \* mode of each node's stored config
    sketch,     \* Sketch.status, or "DELETED" once its row is gone
    row,        \* the AwsResource row of each node; detached when n \notin nodes
    cloud,      \* AWS: the instances of each node
    req,        \* the handler each request slot is in, with its locals
    receipt     \* status of the Deployment record the slot created last

dbVars == <<nodes, mode, sketch, row>>
vars == <<nodes, mode, sketch, row, cloud, req, receipt>>

Status == {"PROVISIONING", "DELETING", "RUNNING", "TERMINATED", "FAILED"}

Row == [status : Status \cup {"NONE"}, ext : Ext, managed : BOOLEAN,
        setup : {"null", "incomplete", "stored"}]
NoRow == [status |-> "NONE", ext |-> NoExt, managed |-> FALSE, setup |-> "null"]

Seen == {"unread", "MISSING"} \cup Status

ReqState ==
    [op : Op \cup {"none"},
     at : {"idle", "next", "wait", "updated", "create", "checkpoint", "setup", "store", "fail",
           "pick", "detach", "mark", "delete", "deleted", "missing", "pending", "refused",
           "reading", "edit"},
     cur : Node \cup {NoNode},              \* node being handled
     todo : SUBSET Node,                    \* nodes still to be handled
     wait : SUBSET Node,                    \* sources not yet seen running
     ext : Ext,                             \* identifier just returned by AWS
     used : [Node -> Ext],                  \* readyResources
     seen : [Node -> Seen],                 \* describe results in flight
     snapRow : [Node -> Row],               \* snapshot of the rows,
     snapNodes : SUBSET Node,               \* of the canvas
     snapMode : [Node -> Mode]]             \* and of the node configs

Idle ==
    [op |-> "none", at |-> "idle", cur |-> NoNode, todo |-> {}, wait |-> {}, ext |-> NoExt,
     used |-> [n \in Node |-> NoExt], seen |-> [n \in Node |-> "unread"],
     snapRow |-> [n \in Node |-> NoRow], snapNodes |-> {}, snapMode |-> InitMode]

ReceiptStatus == {"NONE", "PENDING", "SUCCEEDED", "FAILED"}

TypeOK ==
    /\ nodes \subseteq Node
    /\ mode \in [Node -> Mode]
    /\ sketch \in {"DRAFT", "ACTIVE", "DELETED"}
    /\ row \in [Node -> Row]
    /\ cloud \in [Node -> [Instance -> CloudState]]
    /\ req \in [Request -> ReqState]
    /\ receipt \in [Request -> ReceiptStatus]

Init ==
    /\ nodes = Node
    /\ mode = InitMode
    /\ sketch = "DRAFT"
    /\ row = [n \in Node |-> NoRow]
    /\ cloud = [n \in Node |-> [i \in Instance |-> IF i = Foreign THEN FirstForeign(n) ELSE "absent"]]
    /\ req = [p \in Request |-> Idle]
    /\ receipt = [p \in Request |-> "NONE"]

-----------------------------------------------------------------------------
Exists(n) == row[n].status # "NONE"
Sources(n, canvas) == {s \in canvas : <<s, n>> \in Edge}
Targets(n, canvas) == {t \in canvas : <<n, t>> \in Edge}

Becomes(p, r) == req' = [req EXCEPT ![p] = r]
Finish(p) == Becomes(p, Idle)
SetRow(n, r) == row' = [row EXCEPT ![n] = r]
\* The Deployment records of a deleted sketch are gone with it.
SetReceipt(p, s) == receipt' = [receipt EXCEPT ![p] = IF sketch = "DELETED" THEN "NONE" ELSE s]

\* A request starts in a free slot with a snapshot of what its query reads.
Begin(p, op) ==
    /\ op \in Ops[p]
    /\ req[p].op = "none"
    /\ sketch # "DELETED"
Snapshot(op, at, todo) ==
    [Idle EXCEPT !.op = op, !.at = at, !.todo = todo, !.snapRow = row, !.snapNodes = nodes]

At(p, op, at) == req[p].op = op /\ req[p].at = at
-----------------------------------------------------------------------------
(* deploySketch.                                                           *)

\* The preflight: no active operation, no unresolved failure, and an output
\* stored for every resource that is running.
Publishable(n) ==
    /\ row[n].status \notin {"PROVISIONING", "DELETING"}
    /\ row[n].status = "RUNNING" => row[n].setup # "null"
    /\ row[n].status = "FAILED" => row[n].ext = NoExt

\* Preflight passed: the Deployment record is PENDING and the loop starts.  A
\* request the preflight rejects changes nothing.
PublishStart(p) ==
    /\ Begin(p, "publish")
    /\ nodes # {}
    /\ \A n \in nodes : Publishable(n)
    /\ Becomes(p, [Snapshot("publish", "next", nodes) EXCEPT
                      !.snapMode = mode,
                      !.used = [n \in Node |-> IF n \in nodes /\ row[n].status = "RUNNING"
                                               THEN row[n].ext ELSE NoExt]])
    /\ SetReceipt(p, "PENDING")
    /\ UNCHANGED <<dbVars, cloud>>

\* The next node in some topological order of the snapshot.
PublishNext(p, n) ==
    /\ At(p, "publish", "next")
    /\ n \in req[p].todo
    /\ Sources(n, req[p].snapNodes) \cap req[p].todo = {}
    /\ Becomes(p, [req[p] EXCEPT !.at = "wait", !.cur = n, !.wait = Sources(n, req[p].snapNodes)])
    /\ UNCHANGED <<dbVars, cloud, receipt>>

\* waitForResourceReady sees the source running.
\* Mutant: a source that cannot be found yet counts as ready.
ReadyUnlessFailed(s, i) == Observed(s, cloud[s][i]) \notin {"FAILED", "TERMINATED", "DELETING"}
Ready(s, i) == Observed(s, cloud[s][i]) = "RUNNING"

PublishSourceReady(p, s) ==
    /\ At(p, "publish", "wait")
    /\ s \in req[p].wait
    /\ req[p].used[s] # NoExt
    /\ Ready(s, req[p].used[s])
    /\ Becomes(p, [req[p] EXCEPT !.wait = @ \ {s}])
    /\ UNCHANGED <<dbVars, cloud, receipt>>

\* The source was not deployed, fails, is being deleted, cannot be read, or is
\* not ready before the timeout: the publish ends, earlier resources stay.
PublishBlocked(p) ==
    /\ At(p, "publish", "wait")
    /\ req[p].wait # {}
    /\ SetReceipt(p, "FAILED")
    /\ Finish(p)
    /\ UNCHANGED <<dbVars, cloud>>

\* The loop body for p's current node starts once every source has been seen.
NodeReady(p) == At(p, "publish", "wait") /\ req[p].wait = {}
WasRunning(p) == req[p].snapRow[req[p].cur].status = "RUNNING"
NodeDone(p) == [req[p] EXCEPT !.at = "next", !.todo = @ \ {req[p].cur}, !.cur = NoNode, !.ext = NoExt]

\* Running with the same resolved config: skipped.
PublishSkip(p) ==
    /\ NodeReady(p) /\ WasRunning(p)
    /\ req[p].snapRow[req[p].cur].ext # NoExt
    /\ Becomes(p, NodeDone(p))
    /\ UNCHANGED <<dbVars, cloud, receipt>>

\* Running with another config: updated in place, if it is managed.
PublishUpdate(p) ==
    LET n == req[p].cur
        i == req[p].snapRow[n].ext IN
    /\ NodeReady(p) /\ WasRunning(p)
    /\ req[p].snapRow[n].managed
    /\ i # NoExt
    /\ cloud[n][i] \in Live
    /\ cloud' = [cloud EXCEPT ![n][i] = IF IsCloudFront(n) THEN "creating" ELSE @]
    /\ Becomes(p, [req[p] EXCEPT !.at = "updated"])
    /\ UNCHANGED <<dbVars, receipt>>

PublishStoreUpdate(p) ==
    LET n == req[p].cur IN
    /\ At(p, "publish", "updated")
    /\ Exists(n)
    /\ SetRow(n, [row[n] EXCEPT !.setup = "stored",
                                !.status = IF IsCloudFront(n) THEN "PROVISIONING" ELSE @])
    /\ Becomes(p, NodeDone(p))
    /\ UNCHANGED <<nodes, mode, sketch, cloud, receipt>>

\* An unmanaged resource, an immutable field, a failed update or a missing
\* identifier: the handler returns or throws and the receipt stays PENDING.
PublishConflict(p) ==
    /\ NodeReady(p) /\ WasRunning(p)
    /\ Finish(p)
    /\ UNCHANGED <<dbVars, cloud, receipt>>

\* Not running: the row is claimed for this publish before AWS is called.
PublishUpsert(p) ==
    LET n == req[p].cur IN
    /\ NodeReady(p) /\ ~WasRunning(p)
    /\ n \in nodes
    /\ SetRow(n, [status |-> "PROVISIONING", ext |-> NoExt, setup |-> "null",
                  managed |-> req[p].snapMode[n] = "create"])
    /\ Becomes(p, [req[p] EXCEPT !.at = "create"])
    /\ UNCHANGED <<nodes, mode, sketch, cloud, receipt>>

\* A reference cannot be resolved, or the node is gone and the upsert violates
\* its foreign key: no row is touched, the receipt fails.
\* Mutant: the loop goes on after a node that could not be prepared.
PublishSkipsRejected(p) ==
    /\ NodeReady(p) /\ ~WasRunning(p)
    /\ Becomes(p, NodeDone(p))
    /\ UNCHANGED <<dbVars, cloud, receipt>>
PublishRejectNode(p) ==
    /\ NodeReady(p) /\ ~WasRunning(p)
    /\ SetReceipt(p, "FAILED")
    /\ Finish(p)
    /\ UNCHANGED <<dbVars, cloud>>

\* The create call: adopting takes the identifier from the config, creating
\* brings an instance to life, of which later calls may still fail.  The call
\* may also fail itself, as when the name is taken (PublishAwsError).
PublishAdopt(p) ==
    LET n == req[p].cur IN
    /\ At(p, "publish", "create")
    /\ req[p].snapMode[n] = "existing"
    /\ Becomes(p, [req[p] EXCEPT !.at = "store", !.ext = Foreign])
    /\ UNCHANGED <<dbVars, cloud, receipt>>

AfterCreate(n) ==
    IF Service[n] \in Checkpointing THEN "checkpoint"
    ELSE IF Service[n] \in MultiStep THEN "setup" ELSE "store"

\* instanceCount: one call may start more, and only the first is reported.
MayAlsoStart(n, i) ==
    IF n \in Several THEN SUBSET {j \in Own \ {i} : cloud[n][j] \in Creatable(n)} ELSE {{}}

PublishCreate(p, i) ==
    LET n == req[p].cur IN
    /\ At(p, "publish", "create")
    /\ req[p].snapMode[n] = "create"
    /\ cloud[n][i] \in Creatable(n)
    /\ \E more \in MayAlsoStart(n, i) :
          cloud' = [cloud EXCEPT ![n] = [j \in Instance |-> IF j \in {i} \cup more THEN FirstState(n) ELSE @[j]]]
    /\ Becomes(p, [req[p] EXCEPT !.at = AfterCreate(n), !.ext = i])
    /\ UNCHANGED <<dbVars, receipt>>

\* onCreated: the identifier is saved before the rest of the setup.
PublishCheckpoint(p) ==
    LET n == req[p].cur IN
    /\ At(p, "publish", "checkpoint")
    /\ Exists(n)
    /\ SetRow(n, [row[n] EXCEPT !.ext = req[p].ext, !.setup = "incomplete"])
    /\ Becomes(p, [req[p] EXCEPT !.at = "setup"])
    /\ UNCHANGED <<nodes, mode, sketch, cloud, receipt>>

PublishSetup(p) ==
    /\ At(p, "publish", "setup")
    /\ Becomes(p, [req[p] EXCEPT !.at = "store"])
    /\ UNCHANGED <<dbVars, cloud, receipt>>

PublishAwsError(p) ==
    /\ \/ At(p, "publish", "create") /\ req[p].snapMode[req[p].cur] = "create"
       \/ At(p, "publish", "setup")
    /\ Becomes(p, [req[p] EXCEPT !.at = "fail", !.ext = NoExt])
    /\ UNCHANGED <<dbVars, cloud, receipt>>

\* Success: identifier, output and status are saved, and the node counts as a
\* ready source for the nodes after it.
PublishStore(p) ==
    LET n == req[p].cur IN
    /\ At(p, "publish", "store")
    /\ Exists(n)
    /\ SetRow(n, [row[n] EXCEPT !.ext = req[p].ext, !.setup = "stored",
                                !.status = IF IsCloudFront(n) THEN "PROVISIONING" ELSE "RUNNING"])
    /\ Becomes(p, [NodeDone(p) EXCEPT !.used[n] = req[p].ext])
    /\ UNCHANGED <<nodes, mode, sketch, cloud, receipt>>

\* Mutant: the error handler updates the receipt and forgets the resource.
PublishFailsReceiptOnly(p) ==
    /\ At(p, "publish", "fail")
    /\ SetReceipt(p, "FAILED")
    /\ Finish(p)
    /\ UNCHANGED <<dbVars, cloud>>
PublishFail(p) ==
    LET n == req[p].cur IN
    /\ At(p, "publish", "fail")
    /\ Exists(n)
    /\ SetRow(n, [row[n] EXCEPT !.status = "FAILED"])
    /\ SetReceipt(p, "FAILED")
    /\ Finish(p)
    /\ UNCHANGED <<nodes, mode, sketch, cloud>>

PublishDone(p) ==
    /\ At(p, "publish", "next")
    /\ req[p].todo = {}
    /\ sketch # "DELETED"
    /\ sketch' = "ACTIVE"
    /\ SetReceipt(p, "SUCCEEDED")
    /\ Finish(p)
    /\ UNCHANGED <<nodes, mode, row, cloud>>

-----------------------------------------------------------------------------
(* deleteResourceRecord, alone (deleteAwsResource), over the sketch         *)
(* (deleteAllSketchResources) or before the sketch (deleteSketch).          *)

DeleteOp == {"deleteResource", "deleteAll", "deleteSketch"}
Deleting(p, at) == req[p].op \in DeleteOp /\ req[p].at = at
ResourceDone(p) == [req[p] EXCEPT !.at = "pick", !.todo = @ \ {req[p].cur}, !.cur = NoNode]

DeleteResourceStart(p, n) ==
    /\ Begin(p, "deleteResource")
    /\ Exists(n)
    /\ Becomes(p, Snapshot("deleteResource", "pick", {n}))
    /\ UNCHANGED <<dbVars, cloud, receipt>>

DeleteSketchStart(p, op) ==
    /\ op \in {"deleteAll", "deleteSketch"}
    /\ Begin(p, op)
    /\ Becomes(p, Snapshot(op, "pick", {n \in Node : Exists(n)}))
    /\ UNCHANGED <<dbVars, cloud, receipt>>

\* Reverse topological order of the snapshot, detached resources last.
\* Mutant: the rank of a resource ignores the edges.
DeleteTurnInAnyOrder(p, n) == n \notin req[p].snapNodes => req[p].todo \cap req[p].snapNodes = {}
DeleteTurn(p, n) ==
    LET q == req[p] IN
    /\ Targets(n, q.snapNodes) \cap q.todo = {}
    /\ n \notin q.snapNodes => q.todo \cap q.snapNodes = {}

\* Only a managed resource with an identifier concerns AWS.
\* Mutant: what is not running is taken for something AWS does not know.
InAwsWhileRunning(r) == r.ext # NoExt /\ r.managed /\ r.status \in {"RUNNING", "DELETING"}
\* Mutant: an adopted resource is deleted like a managed one.
InAwsEvenAdopted(r) == r.ext # NoExt
InAws(r) == r.ext # NoExt /\ r.managed

\* What the snapshot says of the resource decides how it is handled.
DeletePick(p, n) ==
    LET r == req[p].snapRow[n] IN
    /\ \E op \in DeleteOp : At(p, op, "pick")
    /\ n \in req[p].todo
    /\ DeleteTurn(p, n)
    /\ Becomes(p, IF r.status = "TERMINATED" THEN [req[p] EXCEPT !.todo = @ \ {n}]
                  ELSE [req[p] EXCEPT !.cur = n,
                                      !.at = IF InAws(r) THEN "mark" ELSE "detach"])
    /\ UNCHANGED <<dbVars, cloud, receipt>>

\* Unmanaged or without an identifier: terminated in the database only.
DeleteDetach(p) ==
    /\ Deleting(p, "detach")
    /\ Exists(req[p].cur)
    /\ SetRow(req[p].cur, [row[req[p].cur] EXCEPT !.status = "TERMINATED"])
    /\ Becomes(p, ResourceDone(p))
    /\ UNCHANGED <<nodes, mode, sketch, cloud, receipt>>

DeleteMark(p) ==
    /\ Deleting(p, "mark")
    /\ Exists(req[p].cur)
    /\ SetRow(req[p].cur, [row[req[p].cur] EXCEPT !.status = "DELETING"])
    /\ SetReceipt(p, "PENDING")
    /\ Becomes(p, [req[p] EXCEPT !.at = "delete"])
    /\ UNCHANGED <<nodes, mode, sketch, cloud>>

\* AWS deletes the instance, starts disabling it, or finds it missing.
DeleteCall(p) ==
    LET n == req[p].cur
        i == req[p].snapRow[n].ext IN
    /\ Deleting(p, "delete")
    /\ cloud' = [cloud EXCEPT ![n][i] = AfterDelete(n, @)]
    /\ Becomes(p, [req[p] EXCEPT !.at = IF DeletePending(n, cloud[n][i]) THEN "pending"
                                        ELSE IF DeleteFinds(n, cloud[n][i]) THEN "deleted" ELSE "missing"])
    /\ UNCHANGED <<dbVars, receipt>>

DeleteError(p) ==
    /\ Deleting(p, "delete")
    /\ Becomes(p, [req[p] EXCEPT !.at = "refused"])
    /\ UNCHANGED <<dbVars, cloud, receipt>>

DeleteRecord(p) ==
    LET n == req[p].cur IN
    /\ Deleting(p, "deleted") \/ Deleting(p, "missing")
    /\ Exists(n)
    /\ SetRow(n, [row[n] EXCEPT !.status = "TERMINATED",
                                !.setup = IF req[p].at = "deleted" THEN "stored" ELSE @])
    /\ SetReceipt(p, "SUCCEEDED")
    /\ Becomes(p, ResourceDone(p))
    /\ UNCHANGED <<nodes, mode, sketch, cloud>>

\* A pending or failed deletion stops the request.
DeletePause(p) ==
    /\ Deleting(p, "pending")
    /\ SetReceipt(p, "SUCCEEDED")
    /\ Finish(p)
    /\ UNCHANGED <<dbVars, cloud>>

DeleteFail(p) ==
    /\ Deleting(p, "refused")
    /\ Exists(req[p].cur)
    /\ SetRow(req[p].cur, [row[req[p].cur] EXCEPT !.status = "FAILED"])
    /\ SetReceipt(p, "FAILED")
    /\ Finish(p)
    /\ UNCHANGED <<nodes, mode, sketch, cloud>>

DeleteResourceDone(p) ==
    /\ At(p, "deleteResource", "pick")
    /\ req[p].todo = {}
    /\ Finish(p)
    /\ UNCHANGED <<dbVars, cloud, receipt>>

DeleteAllDone(p) ==
    /\ At(p, "deleteAll", "pick")
    /\ req[p].todo = {}
    /\ sketch # "DELETED"
    /\ sketch' = "DRAFT"
    /\ Finish(p)
    /\ UNCHANGED <<nodes, mode, row, cloud, receipt>>

\* The sketch row goes, and its nodes, resources and receipts cascade.
DeleteSketchDone(p) ==
    /\ At(p, "deleteSketch", "pick")
    /\ req[p].todo = {}
    /\ sketch # "DELETED"
    /\ sketch' = "DELETED"
    /\ nodes' = {}
    /\ row' = [n \in Node |-> NoRow]
    /\ receipt' = [q \in Request |-> "NONE"]
    /\ Finish(p)
    /\ UNCHANGED <<mode, cloud>>

-----------------------------------------------------------------------------
(* refreshSketchResources and refreshResourceRecord.                        *)

RefreshStart(p) ==
    /\ Begin(p, "refresh")
    /\ \E n \in Node : row[n].status \notin {"NONE", "TERMINATED"}
    /\ Becomes(p, Snapshot("refresh", "reading",
                           {n \in Node : row[n].status \notin {"NONE", "TERMINATED"}}))
    /\ UNCHANGED <<dbVars, cloud, receipt>>

\* Skipped by the snapshot: a failure whose cause must stay visible, a deletion
\* in progress, or nothing to ask AWS about.
\* Mutants: setupComplete is not looked at; pending CloudFront deletions are
\* skipped like the others.
RefreshSkipsOnlyDistributions(n, r) ==
    \/ r.status = "FAILED" /\ IsCloudFront(n)
    \/ r.status = "DELETING" /\ ~IsCloudFront(n)
    \/ r.ext = NoExt
RefreshSkipsDeletions(n, r) ==
    \/ r.status = "FAILED" /\ (IsCloudFront(n) \/ r.setup = "incomplete")
    \/ r.status = "DELETING"
    \/ r.ext = NoExt
RefreshSkips(n, r) ==
    \/ r.status = "FAILED" /\ (IsCloudFront(n) \/ r.setup = "incomplete")
    \/ r.status = "DELETING" /\ ~IsCloudFront(n)
    \/ r.ext = NoExt

Unread(p, n) == At(p, "refresh", "reading") /\ n \in req[p].todo /\ req[p].seen[n] = "unread"
Dropped(p, n) == [req[p] EXCEPT !.todo = @ \ {n}, !.seen[n] = "unread"]

RefreshSkip(p, n) ==
    /\ Unread(p, n)
    /\ RefreshSkips(n, req[p].snapRow[n])
    /\ Becomes(p, Dropped(p, n))
    /\ UNCHANGED <<dbVars, cloud, receipt>>

\* The resources of a batch are with AWS together; the model lets all of them
\* be, as in a sketch of at most AWS_RESOURCE_STATUS_REFRESH_CONCURRENCY ones.
MayRead(p, n) == Unread(p, n) /\ ~RefreshSkips(n, req[p].snapRow[n])

RetriesDelete(r) == r.status = "DELETING"

RefreshRead(p, n) ==
    LET r == req[p].snapRow[n] IN
    /\ MayRead(p, n)
    /\ ~RetriesDelete(r)
    /\ Becomes(p, [req[p] EXCEPT !.seen[n] = Observed(n, cloud[n][r.ext])])
    /\ UNCHANGED <<dbVars, cloud, receipt>>

\* A pending CloudFront deletion is tried again; still pending, it is left.
RefreshDelete(p, n) ==
    LET r == req[p].snapRow[n] IN
    /\ MayRead(p, n)
    /\ RetriesDelete(r)
    /\ cloud' = [cloud EXCEPT ![n][r.ext] = AfterDelete(n, @)]
    /\ Becomes(p, IF DeletePending(n, cloud[n][r.ext]) THEN Dropped(p, n)
                  ELSE [req[p] EXCEPT !.seen[n] = "MISSING"])
    /\ UNCHANGED <<dbVars, receipt>>

\* An AWS error is recorded in lastError, which the model leaves out.
RefreshError(p, n) ==
    /\ MayRead(p, n)
    /\ Becomes(p, Dropped(p, n))
    /\ UNCHANGED <<dbVars, cloud, receipt>>

\* What a describe result makes of the row.
\* Mutant: a missing resource has no case of its own.
RefreshedAsSeen(r, seen) == [r EXCEPT !.status = seen, !.setup = "stored"]
Refreshed(r, seen) ==
    IF seen = "MISSING" THEN [r EXCEPT !.status = "TERMINATED"]
    ELSE [r EXCEPT !.status = seen, !.setup = "stored"]

RefreshWrite(p, n) ==
    LET seen == req[p].seen[n] IN
    /\ At(p, "refresh", "reading")
    /\ seen # "unread"
    /\ Exists(n)
    /\ SetRow(n, Refreshed(row[n], seen))
    /\ Becomes(p, Dropped(p, n))
    /\ UNCHANGED <<nodes, mode, sketch, cloud, receipt>>

RefreshDone(p) ==
    /\ At(p, "refresh", "reading")
    /\ req[p].todo = {}
    /\ Finish(p)
    /\ UNCHANGED <<dbVars, cloud, receipt>>

-----------------------------------------------------------------------------
(* The canvas edits of nodes.  The ones guarded by resource state read the  *)
(* row, answer 409 or go on, and write the node in a later statement.       *)

EditStart(p, op, n) ==
    /\ Begin(p, op)
    /\ Becomes(p, [Idle EXCEPT !.op = op, !.at = "edit", !.cur = n])
    /\ UNCHANGED <<dbVars, cloud, receipt>>

\* createSketchNode, also with the identifier of a deleted node, when the editor
\* undoes the deletion (of a node that never had a row).
CreateNode(p, n) ==
    /\ Begin(p, "createNode")
    /\ n \notin nodes /\ ~Exists(n)
    /\ nodes' = nodes \cup {n}
    /\ UNCHANGED <<mode, sketch, row, cloud, req, receipt>>

\* deleteSketchNode: nothing running, in progress or unresolved.
NotInProgress(n) == row[n].status \notin {"RUNNING", "PROVISIONING", "DELETING"}
Unused(n) == NotInProgress(n) /\ (row[n].status = "FAILED" => row[n].ext = NoExt)

DeleteNodeStart(p, n) ==
    /\ n \in nodes
    /\ Unused(n)
    /\ EditStart(p, "deleteNode", n)

\* The row of a deleted node stays, detached; the edges of the node cascade.
\* Mutant: the relation cascades instead of SetNull.
DeleteNodeAndRow(p) ==
    /\ At(p, "deleteNode", "edit")
    /\ nodes' = nodes \ {req[p].cur}
    /\ SetRow(req[p].cur, NoRow)
    /\ Finish(p)
    /\ UNCHANGED <<mode, sketch, cloud, receipt>>
DeleteNode(p) ==
    /\ At(p, "deleteNode", "edit")
    /\ nodes' = nodes \ {req[p].cur}
    /\ Finish(p)
    /\ UNCHANGED <<mode, sketch, row, cloud, receipt>>

\* updateSketchNode with another config.
UpdateNodeStart(p, n) ==
    /\ n \in nodes
    /\ \/ row[n].status \in {"NONE", "TERMINATED"}
       \/ row[n].status = "FAILED" /\ row[n].ext = NoExt
    /\ EditStart(p, "updateNode", n)

UpdateNode(p, m) ==
    LET n == req[p].cur IN
    /\ At(p, "updateNode", "edit")
    /\ m = "existing" => IsAdoptable(n)
    /\ mode' = IF n \in nodes THEN [mode EXCEPT ![n] = m] ELSE mode
    /\ Finish(p)
    /\ UNCHANGED <<nodes, sketch, row, cloud, receipt>>

\* replaceSketchGraph: every resource is terminated; the transaction then
\* exchanges all nodes for new ones with new identifiers: elements of Node that
\* neither a row nor a handler remembers.
ReplaceGraphStart(p) ==
    /\ \A n \in Node : row[n].status \in {"NONE", "TERMINATED"}
    /\ EditStart(p, "replaceGraph", NoNode)

ReplaceGraph(p, fresh) ==
    /\ At(p, "replaceGraph", "edit")
    /\ sketch # "DELETED"
    /\ fresh \subseteq {n \in Node \ nodes : ~Exists(n)}
    /\ \A q \in Request : fresh \cap (req[q].snapNodes \cup {req[q].cur}) = {}
    /\ nodes' = fresh
    /\ Finish(p)
    /\ UNCHANGED <<mode, sketch, row, cloud, receipt>>

-----------------------------------------------------------------------------
\* The record a handler is about to write went with the sketch: the database
\* call throws and the request ends with an error.
Orphaned(p) ==
    /\ sketch = "DELETED"
    /\ \/ req[p].at \in {"checkpoint", "store", "fail", "updated", "detach", "mark", "deleted",
                         "missing", "refused"}
       \/ req[p].at \in {"next", "pick"} /\ req[p].todo = {}
       \/ req[p].op = "replaceGraph"
       \/ \E n \in Node : req[p].seen[n] # "unread"
    /\ Finish(p)
    /\ UNCHANGED <<dbVars, cloud, receipt>>

\* The server process restarts: requests die where they are.
Restart ==
    /\ CanRestart
    /\ req # [p \in Request |-> Idle]
    /\ req' = [p \in Request |-> Idle]
    /\ UNCHANGED <<dbVars, cloud, receipt>>

\* AWS makes progress on its own.
Settle(n, i) ==
    /\ Settled(cloud[n][i]) # cloud[n][i]
    /\ cloud' = [cloud EXCEPT ![n][i] = Settled(@)]
    /\ UNCHANGED <<dbVars, req, receipt>>

\* Someone deletes an instance outside CloudCanvas.
Drift(n, i) ==
    /\ n \in Drifting
    /\ cloud[n][i] \in Live
    /\ cloud' = [cloud EXCEPT ![n][i] = IF Service[n] \in SlowStop THEN "stopping" ELSE "gone"]
    /\ UNCHANGED <<dbVars, req, receipt>>

Publish(p) ==
    \/ PublishStart(p)
    \/ \E n \in Node : PublishNext(p, n) \/ PublishSourceReady(p, n)
    \/ PublishBlocked(p) \/ PublishSkip(p) \/ PublishUpdate(p) \/ PublishStoreUpdate(p)
    \/ PublishConflict(p) \/ PublishUpsert(p) \/ PublishRejectNode(p) \/ PublishAdopt(p)
    \/ \E i \in Own : PublishCreate(p, i)
    \/ PublishCheckpoint(p) \/ PublishSetup(p) \/ PublishAwsError(p)
    \/ PublishStore(p) \/ PublishFail(p) \/ PublishDone(p)

Delete(p) ==
    \/ \E n \in Node : DeleteResourceStart(p, n) \/ DeletePick(p, n)
    \/ \E op \in DeleteOp : DeleteSketchStart(p, op)
    \/ DeleteDetach(p) \/ DeleteMark(p) \/ DeleteCall(p) \/ DeleteError(p)
    \/ DeleteRecord(p) \/ DeletePause(p) \/ DeleteFail(p)
    \/ DeleteResourceDone(p) \/ DeleteAllDone(p) \/ DeleteSketchDone(p)

RefreshStep(p) ==
    \/ \E n \in Node : RefreshSkip(p, n) \/ RefreshRead(p, n) \/ RefreshDelete(p, n) \/ RefreshWrite(p, n)
    \/ RefreshDone(p)

Refresh(p) == RefreshStart(p) \/ RefreshStep(p) \/ \E n \in Node : RefreshError(p, n)

Edit(p) ==
    \/ \E n \in Node : CreateNode(p, n) \/ DeleteNodeStart(p, n) \/ UpdateNodeStart(p, n)
    \/ DeleteNode(p)
    \/ \E m \in Mode : UpdateNode(p, m)
    \/ ReplaceGraphStart(p)
    \/ \E fresh \in SUBSET Node : ReplaceGraph(p, fresh)

Aws == \E n \in Node : \/ \E i \in Instance : Settle(n, i)
                       \/ \E i \in Own : Drift(n, i)

Next ==
    \/ \E p \in Request : Publish(p) \/ Delete(p) \/ Refresh(p) \/ Edit(p) \/ Orphaned(p)
    \/ Restart
    \/ Aws

Spec == Init /\ [][Next]_vars

\* The event loop finishes what a request has begun, AWS settles, the open
\* editor keeps polling, and AWS does not answer every poll with an error.
Work(p) == req[p].op # "none" /\ (Publish(p) \/ Delete(p) \/ Refresh(p) \/ Edit(p) \/ Orphaned(p))

Fairness ==
    /\ \A n \in Node, i \in Instance : WF_vars(Settle(n, i))
    /\ \A p \in Request : WF_vars(Work(p)) /\ SF_vars(RefreshStart(p))
    /\ \A p \in Request, n \in Node : SF_vars(RefreshDelete(p, n))

FairSpec == Spec /\ Fairness

\* For what only a describe call can notice: it is not refused every time either.
WatchedSpec == FairSpec /\ \A p \in Request, n \in Node : SF_vars(RefreshRead(p, n))

-----------------------------------------------------------------------------
(* Properties.                                                              *)

\* Nodes whose create handler cannot leave an instance without reporting its
\* identifier: one instance is made, by a single call or with a checkpoint after
\* the first one.
Recoverable(n) == n \notin Several /\ (Service[n] \in MultiStep => Service[n] \in Checkpointing)

Held(n, i) == \E p \in Request : req[p].cur = n /\ req[p].ext = i

\* Whatever a publish created in AWS for a recoverable node and is still there can
\* be found again: it is recorded in a row that is not terminated, or the publish
\* is about to record it.  In particular nothing survives the deletion of the sketch.
NoOrphan ==
    \A n \in Node : Recoverable(n) =>
        \A i \in Own : cloud[n][i] \in Live =>
            \/ row[n].ext = i /\ row[n].status \notin {"NONE", "TERMINATED"}
            \/ Held(n, i)

\* A record is terminated once what it names in AWS is deleted or missing.
TerminatedMeansGone ==
    \A n \in Node : row[n].status = "TERMINATED" /\ row[n].managed /\ row[n].ext # NoExt =>
        cloud[n][row[n].ext] \notin Live

\* An instance the user adopted is never deleted by CloudCanvas.
AdoptedUntouched == \A n \in Node : cloud[n][Foreign] = FirstForeign(n)

\* deleteSketchNode and replaceSketchGraph never take away the node of a live
\* or unresolved resource.
LiveKeepsNode ==
    \A n \in Node \ nodes :
        \/ row[n].status \in {"NONE", "TERMINATED"}
        \/ row[n].status = "FAILED" /\ row[n].ext = NoExt

\* With no request in flight no row is left in a state that neither a refresh
\* nor a publish can take it out of.
NothingHalfDone ==
    (\A p \in Request : req[p] = Idle) =>
        \A n \in Node : /\ row[n].status = "PROVISIONING" => row[n].ext # NoExt
                        /\ row[n].status = "DELETING" => IsCloudFront(n)

\* A publish creates a node in AWS only when every resource the node depends
\* on has become visible and ready there, under the identifier the publish
\* resolved the node's references with.
DependentsAfterReady ==
    [][\A p \in Request, i \in Own :
          At(p, "publish", "create") /\ cloud[req[p].cur][i] \notin Live /\ cloud'[req[p].cur][i] \in Live =>
              \A s \in Sources(req[p].cur, req[p].snapNodes) :
                  req[p].used[s] # NoExt /\ cloud[s][req[p].used[s]] # "creating"]_vars

\* Deleting a whole sketch takes a resource away only after every resource
\* that depends on it is gone; not so where the dependent is several instances,
\* of which only the first is terminated.
DependentsGoFirst ==
    [][\A e \in Edge, i \in Instance :
          /\ e[2] \notin Several
          /\ cloud[e[1]][i] \in Live /\ cloud'[e[1]][i] \notin Live
          /\ \E p \in Request : req[p].op \in {"deleteAll", "deleteSketch"}
          => \A j \in Own : cloud[e[2]][j] \notin Live]_vars

\* A publish whose receipt says SUCCEEDED left every node of its plan with a
\* recorded instance that exists in AWS.
SucceededMeansPublished ==
    [][\A p \in Request :
          req[p].op = "publish" /\ receipt[p] = "PENDING" /\ receipt'[p] = "SUCCEEDED" =>
              \A n \in req[p].snapNodes :
                  /\ row[n].status \in (IF IsCloudFront(n) THEN {"RUNNING", "PROVISIONING"} ELSE {"RUNNING"})
                  /\ row[n].ext # NoExt
                  /\ cloud[n][row[n].ext] \in Live]_vars

\* A failed CloudFront setup, and a recorded incomplete setup, stay FAILED
\* until someone asks for their deletion.
FailureStaysVisible ==
    [][\A n \in Node :
          /\ row[n].status = "FAILED" /\ row[n].ext # NoExt
          /\ IsCloudFront(n) \/ row[n].setup = "incomplete"
          => row'[n].status \in {"FAILED", "DELETING"}]_vars

\* A CloudFront deletion that was accepted stays a deletion until it is done
\* or has failed.
PendingDeletionKept ==
    [][\A n \in Node :
          IsCloudFront(n) /\ row[n].status = "DELETING"
          => row'[n].status \in {"DELETING", "TERMINATED", "FAILED"}]_vars

\* What the user has to know of stays recorded until the user acts on it: no poll
\* hides a failed setup, and none forgets a deletion that later polls must finish.
StaysRecorded == FailureStaysVisible /\ PendingDeletionKept

\* Each resource whose create handler makes one instance and reports it keeps its contract:
\* never two instances of it, none that its record does not tell of, none removed
\* that nobody asked to delete, and no deletion in progress forgotten.
Contract(n) == INSTANCE ResourceContract WITH
    Made <- Own, Outside <- Drifting # {},
    status <- row[n].status, live <- {i \in Own : cloud[n][i] \in Live},
    adopted <- row[n].ext = Foreign

KeepsContract ==
    /\ \A n \in Node : Recoverable(n) => Contract(n)!Init
    /\ [][\A n \in Node : Recoverable(n) => [Contract(n)!Next]_(Contract(n)!vars)]_vars

\* While the editor polls, an accepted CloudFront deletion ends: the record is
\* terminated, or failed so that the user can ask again.
DeletionCompletes ==
    \A n \in Node :
        IsCloudFront(n) /\ row[n].status = "DELETING" ~> row[n].status \in {"TERMINATED", "FAILED", "NONE"}

\* While the editor polls, the record of an instance that is gone, whoever
\* deleted it, says so in the end, or that a deletion failed.
GoneIsNoticed ==
    \A n \in Node :
        /\ row[n].status \in {"RUNNING", "PROVISIONING", "DELETING"} /\ row[n].ext # NoExt
        /\ cloud[n][row[n].ext] = "gone"
        ~> row[n].status \in {"TERMINATED", "FAILED", "NONE"}
=============================================================================
