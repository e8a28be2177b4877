# CloudCanvas in TLA+

This directory models CloudCanvas: a canvas on which a user draws AWS resources
and an API server that publishes them, keeps their recorded state in step with
AWS, and takes them down again. Paths below are relative to the repository.

- [The system](#the-system)
- [What is hard about it](#what-is-hard-about-it)
- [Modules](#modules)
- [How the model corresponds to the code](#how-the-model-corresponds-to-the-code)
- [Runs](#runs)
- [Where the code and its documents disagree](#where-the-code-and-its-documents-disagree)
- [Proofs](#proofs)
- [What is left out](#what-is-left-out)
- [Plan](#plan)

To repeat a check: `tlc -config <Run>.cfg <Module>`, with the module that the
[runs](#runs) name. To repeat the proofs: `tlapm <Module>Proofs.tla`.

## The system

| component | code | state | operations | talks to |
|---|---|---|---|---|
| Sketch resource lifecycle | `server/src/controllers/infrastructureController.ts` | Postgres rows: Sketch, SketchNode, SketchEdge, AwsResource, Deployment | publish, delete one or all resources, delete the sketch, refresh, create/update/delete nodes, replace the graph | AWS resource manager, graph planning; called by the editor |
| AWS resource manager and adapters | `server/src/services/aws/` | none of its own; AWS is the state | create, describe, update, delete per service, catalog listing | AWS |
| Graph planning | `server/src/services/aws/graph.ts`, `contracts/src/index.ts`, `server/src/services/graphParser.ts` | none | topological order, cycle check, reference resolution, which pairs connect | lifecycle, editor |
| AWS connections | `infrastructureController.ts:767-854` | AwsConnection rows, one active | create, activate, delete | lifecycle |
| Catalog cache | `services/aws/index.ts:65-88`, `services/cacheService.ts` | in-memory entries, 120 s | get, invalidate | AWS, conversation |
| Canvas editor | `client/src/components/graph/GraphEditor.tsx`, `client/src/lib/canvasState.ts` and hooks | canvas, last persisted canvas, queue of saves, undo history, poll results | edit, autosave, save, undo/redo, poll, publish, delete | lifecycle |
| Conversation | `server/src/controllers/conversationController.ts`, `services/aiService.ts` | SketchConversation and ChatMessage rows | send, clear, load | catalog, agent service |
| Agent service | `service/` (Python) | per-request agent state | route, tool loop, build | language models, catalog tool |
| Authentication | `authController.ts`, `middlewares/authenticate.ts` | User rows | sign up, sign in, Google | all |
| Bucket objects | `bucketObjectsController.ts` | none | list, sign upload, delete | S3 |

The editor drives everything: it sends publishes, deletions and saves on the
user's behalf and polls the refresh endpoint every 30 s. The server has no
background work and no locks; a request is a handler that runs from one `await`
to the next, so between any two awaits another request may have changed the
rows or AWS.

What makes each component correct:

- **Lifecycle**: what exists in AWS can be found in the rows; adopted instances
  are never deleted; failures and pending deletions stay recorded; teardown and
  publish respect dependencies; a receipt claims only what was done; nothing is
  left in a state nobody can take it out of.
- **Resource manager**: a create that fails half-way is recoverable; the staged
  CloudFront deletion ends; readiness is never reported early.
- **Graph planning**: the order is topological and complete, a cycle is
  rejected, a reference resolves to what its source is now.
- **Connections**: one active connection if there is any; credentials that a
  resource needs are kept.
- **Catalog cache**: what a publish has reported is in the next catalog.
- **Editor**: what the user sees is eventually what the server has, and "saved"
  means stored; undo returns the canvas that was.
- **Conversation**: replies belong to the question that was asked.
- **Agent service**: every question gets its turn; the model is told as much of
  the account as fits.
- **Authentication**: one account for each person, and no password lost.
- **Bucket objects**: what is reported as deleted is gone; a signed form works;
  the panel shows the folder it names.

## What is hard about it

1. *Stale snapshots.* Every handler reads rows once and decides from that
   reading after AWS calls that take seconds to minutes. Refresh does so on a
   timer, against everything else.
2. *Check, then act.* The canvas edits check the resource rows in one statement
   and write in another; so does the publish preflight.
3. *Partial failure.* Publish and teardown handle many resources, each with
   several AWS calls, and stop at the first failure with no rollback.
4. *Eventual consistency.* AWS may not find what it has just created, and takes
   minutes to start or stop some services; deleting a CloudFront distribution
   takes two calls with minutes in between, which only polling supplies.
5. *Restarts.* Nothing resumes a handler.
6. *Adoption.* A node may stand for an instance the user already has, and its
   ownership is one column written apart from the identifier.
7. *Read, change, write back.* Bucket policies, CORS rules, accounts and the
   active connection are read, changed in memory and written as a whole.
8. *Answers out of order.* The editor, the composer and the panel have several
   requests in flight, each with the state it was sent from.
9. *Comparison of texts.* Whether a resource is up to date is decided by two JSON
   texts that went through different code and a database column.

PROJECT.json lists these hazards one by one, at their lines, with the properties
that cover them and a note where nothing does.

## Modules

| module | content |
|---|---|
| `AwsServices` | What the server relies on from AWS: the states of an instance, what describe reports, what delete does, which services checkpoint, start slowly, are known by name. External behaviour, read off from how `services/aws` uses it. |
| `SketchLifecycle` | The handlers of the lifecycle over rows, receipts and AWS, one action per step between awaits. |
| `ResourceContract` | What a user may rely on for one resource: what its record says, and which instance of it there is. `SketchLifecycle` implements it for each resource while its handlers take turns. |
| `SketchGraph` | The stored graph of a sketch before it is deployed: creation, import, replacement, nodes and edges. |
| `Attachments`, `GraphPlan` | Which pairs may be attached, and `createGraphPlan`: checks of the edges, Kahn's algorithm, the verdict. |
| `ResourceRequests` | From a node's config to the request: references resolved against stored and described outputs, the order of keys, the comparison that decides between skip, update and conflict. |
| `ResourceUpdates` | `updateResource`: which settings each call carries and which it cannot take back, their defaults, a call refused half-way, and what the canvas shows as unpublished, lists with references included. |
| `ServiceSetup` | Creation and deletion of the services that take several calls: buckets, security groups, IAM roles with their pages of policies. |
| `CloudFrontService`, `DistributionStages` | Every call of `cloudfront.ts` with access control, bucket policy and checkpoint; and the stages that `AwsServices` gives a distribution, which it implements. |
| `Readiness` | The wait for a dependency, with a clock. |
| `BucketContents`, `BucketPanel` | Objects, versions and CORS rules of a bucket with their deletion and signing; the panel that lists them. |
| `AwsConnections` | The AWS connections of a user and which is active. |
| `CatalogCache` | The cached catalog with its partial listings and its invalidation. |
| `CanvasAutosave` | Debounce, queue of saves, batches, configs the server refuses or stores in another form, lost requests, reloads. |
| `CanvasHistory`, `CanvasTimeline` | Undo and redo as two stacks; and as a line of canvases, which they implement. |
| `ResourcePolling` | What the editor shows of the rows: polls, publishes, deletions, reloads. |
| `Conversation` | Messages stored and messages shown in several tabs. |
| `AgentRun`, `CatalogContext` | One run of the agent's graph at a time; the cut of the catalog to a budget. |
| `SignIn` | Accounts by password and by Google. |
| `...Proofs` | The theorems about the module of that name; `OneHandlerProofs` those about `SketchLifecycle` that need its handlers to take turns; `ResourceRequestsProofs` has only lemmas, which `Adapters` instantiates with the module. |
| `MCSketchLifecycle`, `MCGraphPlan` | Instances of one module for TLC. |
| `Account`, `Requests`, `Adapters`, `Editor` | Connections, catalog and conversation side by side; sign-in, the stored graph and the saves of an editor; the wait and everything that makes, changes and deletes resources in AWS; the editor without lost requests and the AI service behind it: for TLC and for proofs. |
| `MCRequests`, `MCAdapters`, `MCEditor` | The values of `Requests`, `Adapters` and `Editor` for TLC. |

`Account`, `Requests`, `Adapters` and `Editor` put components side by side that
share no state with each other: a row of `ResourcePolling` and a conversation
never meet. Interleaving them would only multiply their states, so such a module
has a variable `part`, chosen at the start, and a behaviour is one of that part.
Where components do meet they are in one module: handlers, rows and AWS in
`SketchLifecycle`, the editor, its queue and the server's handlers in
`CanvasAutosave`, composer and server in `Conversation`, the publish and the calls
of an adapter in `CloudFrontService` and `ServiceSetup`. Two refinements tie
levels together: `CloudFrontService` moves a distribution only through the stages
(`StagesOnly`, in `Adapters`) that `SketchLifecycle` takes from `AwsServices`, and
`CanvasHistory` that two bounded stacks are a line.

Beside some definitions stands a variant marked `Mutant`: a plausible bug, used
to confirm that a property can fail. Each module has a `TypeOK` that says what
values its variables take; the theorems named `...TypeCorrect` prove five of them, and
the inductive invariants state what else the proofs need of types.

## How the model corresponds to the code

### SketchLifecycle

**State.** `row` is the AwsResource row of each node (status, `externalId`,
`managed`, and of `actualState` whether it is null, marks an incomplete setup or
is usable); a node that was deleted leaves its row detached, as `SetNull` does.
`nodes`, `mode` and `sketch` are the canvas, the `mode` of the node configs and
the sketch's status. `receipt` is the status of the Deployment record a request
created last. `cloud` is AWS. `req` has the local variables of the handlers in
flight: the snapshot of the query (`snapRow`, `snapNodes`, `snapMode`), the node
at hand and those to come, the sources still waited for, the identifier just
returned, the ready resources and the describe results not yet written.

**Requests.** An element of `Request` is a slot that serves one request after
another, `Ops` the handlers it may serve. One slot is the system without
concurrency. Two slots are one handler against another, including two of the
same kind, such as two overlapping polls.

**Steps.** A step ends where the code awaits something that other requests can
see or change. `PublishStart` is `deploySketch` up to the creation of its
Deployment; `PublishNext`, `PublishSourceReady`, `PublishBlocked` the wait for
the sources; `PublishSkip`, `PublishUpdate`, `PublishStoreUpdate`,
`PublishConflict` the branch for a running resource; `PublishUpsert`,
`PublishCreate` (or `PublishAdopt`), `PublishCheckpoint`, `PublishSetup`,
`PublishStore` the creation of one; `PublishRejectNode`, `PublishAwsError` and
`PublishFail` its error paths; `PublishDone` the end. `DeletePick` to
`DeleteFail` are `deleteResourceRecord`, which three handlers share; the
`...Start` and `...Done` actions are what each adds. `RefreshStart` to
`RefreshDone` are the refresh, whose resources are all in flight together.
`...Start` and the action that follows are the check and the act of the guarded
edits.

**Simplifications.** None of them adds or removes a step between two awaits
that the properties compare; what each hides is said with it:

- One AWS connection and region; the checks that compare connections never fail.
- Two adjacent writes of one handler are one step where one of them is to the
  Deployment record, which no handler reads; a restart between the two is hidden.
- The database does not fail, except that a row may be gone with its sketch
  (`Orphaned`).
- `PublishNext` takes any topological order; `GraphPlan` has the one of the code.
  Edges are fixed and, as `canConnectResources` allows no chains, acyclic; a
  node's service is fixed. A replaced graph consists of nodes nobody remembers.
- Whether a running resource has the desired config is a free choice
  (`PublishSkip` or `PublishUpdate`; `ResourceRequests` decides it), so are all
  AWS errors and timeouts.
- An instance is an identifier. Services known by name may use it again after a
  deletion (`Creatable`); the others get a new one. A node in `Several` may get more
  than one from one call (`instanceCount` of EC2, `resources/ec2.ts:68`), of which the
  first is recorded (`services/aws/index.ts:163`).
- CloudFront is created enabled; AWS's own failure states are left out, so no
  describe result makes a row `FAILED`.
- A node is not created again under its old identifier while a detached row of it
  exists (the editor's undo can do so); such a node would get a second row.

### The other modules

- `SketchGraph`: `type`, `ref` and `edges` are the rows of nodes (with the node a
  config refers to, if any) and edges; `req` the handlers between check and
  write (`ReplaceCheck`, `ReplaceDelete`, `ReplaceCommit`; `UpdateRead`,
  `UpdateWrite`; `ConnectCheck`, `ConnectInsert`). The others are one statement
  or transaction. A transaction sees, at the default isolation, what others have
  committed, and deletes the rows it saw. A graph that is sent is a record of
  types, edges and references by position.
- `GraphPlan`: one action per turn of each loop, on any input, untyped nodes too.
- `ResourceRequests`: an identifier is a number that a creation draws; a config
  is the sequence of its keys, a name, and the resolved references. The stored
  config has gone through a jsonb column, which orders keys by length and text.
- `ResourceUpdates`: a setting has a standard, a low or a high value, or is
  absent; a list of groups may hold a reference ("ref"), which stands for the group
  made in the sketch ("low"). `desired` is the stored config, `live` what AWS has,
  `step` the call to be made, `others` whether the policy of a bucket has statements
  beside its own.
- `ServiceSetup`: `applied` are the settings, rules or policies made so far, by
  number; `marker` the place in the pages of policies.
- `CloudFrontService`: `req` has the place in a call and what was read for it; a
  distribution has a version, which stands for the ETag. Requests may fail
  wherever the code awaits AWS.
- `Readiness`: `now` counts units of time; a reading takes up to `MaxRead`, a timer
  fires up to `MaxLag` late.
- `BucketContents`: an entry is a key with a version, and perhaps a delete marker;
  a deletion keeps its page and what is left to list.
- `BucketPanel`: a listing is the folder and page it was sent for; `requestId` the
  counter that drops overtaken answers, `awaited` the flag of the buttons.
- `AwsConnections`: `stored`, `active` and `used` (needed by resources or
  deployments); `req` what a handler has counted or read.
- `CatalogCache`: the account is a version number for each part; a reader's
  catalog is filled part by part; `known` is what has been reported to users.
- `CanvasAutosave`: `canvas`, `baseline` (`persistedCanvas`), `queue`, `save` (the
  batches of the difference), `flight` (the requests on their way and how many copies
  of each, handled in any order) and `server`. A position has two values; a config is
  what the form of the node holds (`Setting`) and what is attached to it. Which
  settings `updateSketchNode` refuses (`Refused`) and what it stores of the others
  (`Normal`) are constants. `Editor` adds the history variable `stray`, the nodes and
  edges that failed saves had sent.
- `CanvasHistory`: `past`, `future` and `shown`. `LineOf` puts them end to end.
- `ResourcePolling`: `row` and `aws` for each resource, `polls` in flight with
  their snapshots once the server has answered, one action of the user (`act`) at
  a time.
- `Conversation`: messages are named by the question they belong to; each tab has
  what it shows, its load in flight and whether it is clearing.
- `AgentRun`: `queue` and `running` are the event loop, which a synchronous graph
  blocks; `steps` counts towards the recursion limit.
- `CatalogContext`: the length of an item is all that is kept of it; the collections
  are the keys of a dictionary, no two of them alike.
- `SignIn`: an address is a person and a spelling; a request keeps what its find
  returned until it writes.

**Bounds.** The constants named `Max...`, `Limit`, `Parts` and `PageSize`, and the
sets of identifiers (`Own`, `Node`, `Edge`, ...), which bound how often something
can be created in one behaviour. The tables below give their values.

## Runs

Every run sets `CHECK_DEADLOCK FALSE`: once a sketch is deleted, a plan made or
a bound reached, nothing remains to be done.

| run (module) | instance | what it shows |
|---|---|---|
| `FrontendOneByOne` (`MCSketchLifecycle`) | bucket and distribution, two identifiers each, one slot with every handler | `TypeOK`; `KeepsContract`, the implementation of `ResourceContract`; `NothingHalfDone`, `DependentsGoFirst`, `StaysRecorded`, whatever AWS refuses |
| `EditRace` (same) | bucket and distribution, two identifiers, one slot publishing and deleting, one editing | `NoOrphan`, `SucceededMeansPublished` |
| `OnePublisher` (same) | an EC2 node that may start two instances at once, two identifiers, one slot publishing and editing, one deleting, refreshing and editing; outside deletions, restarts | `AdoptedUntouched` |
| `PublishOrder` (same) | security group that AWS may not find at once, and EC2 instance; two publishers, a teardown and a refresh | `DependentsAfterReady` |
| `DeletionCompletes` (same) | bucket and distribution, one slot, somebody may delete the bucket in AWS, fairness | `DeletionCompletes`, `GoneIsNoticed` |
| `AdoptedDeleted`, `LostDeletion` (same) | two slots | violations, see [below](#where-the-code-and-its-documents-disagree) |
| `Plans` (`MCGraphPlan`) | all graphs of three nodes of three types, or with a node twice, with up to two edges, loops and unknown ends among them; all graphs of four untyped nodes with up to four edges | `Topological`, `CycleVerdict`, `RejectsExactlyInvalid` |
| `Editor` (`MCEditor`) | three canvases and four records; two nodes, one of them with a config that is refused until an image is chosen, and two identifiers for their edge with three edits, up to two copies of a request; two resources, two polls, four actions; two folders of two pages; three questions; three collections of up to two items | `WalksALine`, `SavedMeansStored`, `EventuallyStored`, `EventuallyShown`, `ShowsItsFolder`, `EveryTurnComes`, `NothingFitsAnyMore` |
| `Requests` (`MCRequests`) | one person, two spellings, two browsers; four nodes, two edges, four graphs to send; an editor of two nodes, one deployed, one with a config that is refused, whose requests and answers get lost | `PasswordKept`, `OverwritesGraph`, `StoredGraphSound` |
| `Account` (`Account`) | three connections and two requests, with and without overlap; two readers and one publish; two tabs, two questions, one clearing, users who give up | `CredentialsKept`, `OneActiveAlone`, `ReportedIsListed`, `RepliesFollowQuestions` |
| `Adapters` (`MCAdapters`) | a wait of nine units; a role with its function beside a bucket with its distribution, and a server with two groups; six services with two edits, a bucket with and without other statements in its policy; five settings, rules or policies in pages of two; a folder, a versioned bucket and three origins; one or two distributions and one or two handlers | `ReadyIsUsed`; `ReferencesResolve`, `AppliedCurrent`; `NothingPendingMeansLive`; `StatusTellsAws`, `PoliciesGoFirst`; `RemovedIsGone`, `SignedMayUpload`; `NothingLeft`, `MayReadBucket`, `StagesOnly`, `DeletionFinishes` |

Two nodes joined by an edge are enough for every dependency the code knows: an
edge connects two services and no path has two edges, and resources without an
edge between them meet only in the loop that handles them one after another.
Two identifiers let a second publish meet what a first one left. Two requests at a
time are enough for the races found; three have not been tried. Three pages need
five policies of two; four nodes make chains, diamonds and cycles; a third edit
takes back what the first two did while they are being saved. A second copy of a
request (`MaxCopies`) is the repetition of one that a failed save left on its way. Two
identifiers of one EC2 node let one call start two instances.

What the properties leave out, because it does not hold; the
[table below](#where-the-code-and-its-documents-disagree) shows most of it failing:

- `NoOrphan` and `KeepsContract` concern nodes whose create cannot lose an identifier
  (`Recoverable`). That excludes security groups and IAM roles, and EC2 nodes that ask
  for several instances (`Several`), of which all but the first are lost from the
  start. `DependentsGoFirst` does not wait for such nodes either.
- `NothingHalfDone` is checked without restarts and without deletions outside
  CloudCanvas.
- `SavedMeansStored` says nothing of the nodes and edges a failed save had sent
  (`stray`), and is checked without lost requests and reloads. A save fails without
  any of them, when a config is refused.
- `EventuallyStored` has the premise that no refused config is ever sent: a canvas
  with one may be kept from the server for good.
- `NothingPendingMeansLive` has two exceptions, HTTPS that was turned off where the
  bucket's policy had no other statement (`DenyStays`) and a list of groups with a
  reference in it (`ListHidden`). It is stated without tables and for at most one edit
  that gets past the guard.
- `NothingLeft` lets a distribution that CloudFront refused keep its access control,
  when deleting that failed as well.
- `ReferencesResolve` is stated of sketches in which nothing refers to a security
  group, whose reference is lost by a refresh.
- `OverwritesGraph`, `OneActiveAlone`, `SignedMayUpload`, `NothingLeft` and
  `MayReadBucket` are stated for one request at a time, `ReportedIsListed` for
  listings that no change overtakes, `EventuallyShown` for polls answered in order.

Symmetry is used for identifiers only, in runs of safety properties.

**Fairness.**

- `DeletionCompletes`: AWS settles, and a handler that can go on does so: the
  event loop sees to that. The editor polls on an interval timer
  (`GraphEditor.tsx:142-147`), so a refresh that can start again and again does
  start; that is strong fairness because with one slot the other handlers compete
  for it. A poll that reaches the delete call, or for what somebody else deleted
  the describe call, again and again is not refused every time. Nothing is
  assumed of the user.
- `Editor`: the debounce timer fires, `persistCanvas` goes on when its requests
  are answered, the server answers; the polling interval fires again and again,
  also while other answers are awaited (strong); AWS gets done with what it has
  begun; the agent service goes on with its run, which models or tools end by an
  answer or a timeout.
- `Adapters`: as for `DeletionCompletes`, one call at a time: none of the calls of
  a deletion is refused every time it is retried, and CloudFront propagates.


## Where the code and its documents disagree

Two disagreements are kept as runs that TLC must find violated:

- `AdoptedDeleted`. `docs/deployment-lifecycle.md:91` says of an adopted resource
  "Mark TERMINATED locally, leave adopted AWS resource intact". The upsert of the
  row writes `managed`, a later update writes `externalId`, and neither looks
  whether the row is still its own. Two publishes that both passed the preflight,
  one before and one after the node's mode changed, leave a managed row with the
  adopted identifier, and the next deletion terminates the user's instance.
- `LostDeletion`. `docs/deployment-lifecycle.md:95-96` says "Leave DELETING" and
  "Workspace refresh retries CloudFront delete", `docs/cloudfront.md:26-27`
  "Resource polling waits for propagation, then deletes it and its OAC". A poll
  that read the row before the deletion was requested writes the described status
  over DELETING; later polls see nothing to retry, and the distribution stays
  disabled and undeleted.

The others below were met while modelling. Each is reproduced by giving the
constants or the property named in the last column to the instance of the run
that has the module. IC is `server/src/controllers/infrastructureController.ts`,
GE is `client/src/components/graph/GraphEditor.tsx`.

| document | what the code does | to see it |
|---|---|---|
| `deployment-lifecycle.md:116`: failed and incomplete setups stay out of the refresh "so errors remain available" | a poll that read PROVISIONING overwrites the FAILED written meanwhile with RUNNING and drops the error (IC:164) | `SketchLifecycle`, one bucket, publish and refresh slots, `FailureStaysVisible` |
| `system-architecture.md:107`: "controllers first block deletion of live or unresolved resources" | the row is checked in one statement and the node deleted in another (IC:699, 708); a publish in between leaves a live resource without a node | one bucket, slots `PublishAndEdit`, `LiveKeepsNode` |
| `deployment-lifecycle.md:108`: "Already terminated records are skipped" | a refresh writes TERMINATED onto a row that a publish has given a new instance (IC:176), which every deletion then skips | one EC2 node, two identifiers, publish and refresh slots, `TerminatedMeansGone` |
| `system-architecture.md:109`: cleanup "before deleting database records" | `deleteSketch` cleans up the resources it read at its start (IC:612), a resource published after that loses its row | one bucket, slots `publish` and `deleteSketch`, `NoOrphan` |
| `README.md:37`: "Tracks deployed state" by polling | an instance somebody terminates is described as shutting down; the row becomes DELETING, which is polled for CloudFront only (IC:145) | one EC2 node, `WatchedSpec`, `Drifting = {n1}`, `GoneIsNoticed` |
| `deployment-lifecycle.md:37`: "partial identifiers when available" | a group or role whose second call is refused has no checkpoint and is named by no row (`resources/securityGroup.ts:30`) | `NoOrphan` with a `Recoverable` that looks at `Several` only |
| `deployment-lifecycle.md:94`: "Deleted or already missing" ends in "Mark TERMINATED" | one `RunInstances` starts `instanceCount` instances (`resources/ec2.ts:68`), the row gets the first (`services/aws/index.ts:163`), and the deletion terminates it alone (line 341): the others run on, named by nothing | one EC2 node, `Several = {n1}`, two identifiers, one slot, `NoOrphan` with a `Recoverable` that does not look at `Several` |
| `deployment-lifecycle.md:94`: "Deleted or already missing" ends in "Mark TERMINATED" | a policy detached by somebody else makes the detach call answer NoSuchEntity, which is taken for a missing role | `ServiceSetup`, `Meddling = TRUE`, `StatusTellsAws` |
| `deployment-lifecycle.md:78`: references are resolved "against stored or freshly retrieved outputs" | a refreshed group is stored with `groupId` instead of `securityGroupId`, and the next publish cannot resolve it | `ResourceRequests`, security group and EC2 instance, `ReferencesResolve` |
| `deployment-lifecycle.md:25-26`: "Resolved config changed?" No, "Record skipped outcome" | the texts that are compared differ in the order of keys after the jsonb column (IC:964): an untouched adopted resource gets a 409 | an adopted group, `ConflictMeansChanged` |
| same | the update of an untouched table sets absent capacities to 1 where creation set 5 (`resources/dynamodb.ts:52`) | `ResourceUpdates`, `Services = {"DYNAMODB_TABLE"}`, `MaxEdits = 0`, `RepublishKeeps` |
| `ResourceInspector.tsx:187`: "No unpublished configuration changes." | a refused update leaves the row as it was (IC:976) though its first calls were accepted; an edit that takes the change back leaves nothing pending, and the next publish skips what AWS still has | `ResourceUpdates`, `Services = {"SNS_TOPIC"}`, `MaxEdits = 2`, `NothingPendingMeansLive` |
| same | turning HTTPS off takes the Deny out of the policy and, when no statement is left, sends nothing (`resources/s3.ts:86`): the bucket goes on refusing HTTP, and row and canvas say it does not | `Services = {"S3_BUCKET"}`, `MaxEdits = 1`, `NothingPendingMeansLive` without `DenyStays` |
| same | a list with a reference matches any other list (`deploymentChanges.ts:33`), so a changed `securityGroupIds` is not shown | `Services = {"EC2_INSTANCE"}`, `MaxEdits = 1`, `NothingPendingMeansLive` without `ListHidden` |
| `cloudfront.md:9`: "Existing bucket policy statements are preserved" | the policy is read, changed and written back as a whole (`resources/cloudfront.ts:37`): of two requests one loses its statement | `CloudFrontService`, two distributions and handlers, `StatementsKept` |
| `cloudfront.md:30`: "Failed setup/cleanup remains visible for explicit retry or deletion" | when CloudFront refuses a distribution and then the deletion of its access control (`resources/cloudfront.ts:102`), the access control is named by nothing | one distribution and handler, `NothingLeft` without `=> dist[d].state = "absent"` |
| `contracts/src/index.ts:86,89`: one origin, no duplicate edges | `createSketchEdge` checks the edges it has read and inserts later (IC:743): a graph that every plan rejects | `SketchGraph`, `Overlap = TRUE`, `Plannable` |
| `docs/README.md:54`: edges are "supported resource dependencies" | `updateSketchNode` changes a type without looking at the node's edges (IC:681) | `Retype = TRUE`, `PairsCompatible` |
| `user-flow.md:88`: "overwrites the graph rather than merging it" | a node inserted by another request while the graph is replaced survives (IC:549) | `Overlap = TRUE`, `OverwritesGraph` |
| `user-flow.md:21`: "select active connection" | counting and creating, or reading and deleting, are separate (IC:776, 844): two active connections, or none | `AwsConnections`, `Overlap = TRUE`, `OneActive` |
| `user-flow.md:86`: "Autosave preserves canvas edits" | `updateSketchNode` refuses a config that is not complete (IC:668-679), such as that of a new server without an image (`resourceNode.tsx:79`), which the editor does not look at. The baseline stays though the batches before were handled; what they created is sent again and refused, and a canvas that was put right is not stored either | `Editor`, `EventuallyStored` without its premise |
| same | taking back what a refused save had partly stored leaves no difference to the old baseline, and saving "nothing" is answered as saved (GE:264) | `Editor`, `SavedMeansStored` with `{}` for `stray` |
| same | a reload answered from before a running save replaces canvas and baseline (GE:244-247) | `Editor` with `Reloads <- TRUE`, `SavedMeansStored` |
| `ai-request-flow.md:41-42`: reply stored, then shown | the load of the conversation replaces what was said since (`AiComposer.tsx:42`) | `Conversation`, one tab, `Patient = FALSE`, two loads, `ShownIsStored` |
| `README.md:24`: "polls their state" | answers are merged as they come, an older one last (GE:145) | `ResourcePolling`, `InOrder = FALSE`, `EventuallyShown` |
| `user-flow.md:75`: "inspect partial resources" | the catch of a failed publish does not reload, and refresh leaves failed setups out (`PublishSketchButton.tsx:33`, IC:142) | `FailPublish` not empty, `EventuallyShown` |
| `cloudfront.md:38`: "existing CORS rules are preserved" | rules are read and written back: of two origins one loses its rule (`resources/objects.ts:37`) | `BucketContents`, `OneSigner = FALSE`, `SignedMayUpload` |
| `BucketObjectsPanel.tsx:86`: "Permanently delete this file" | in a bucket with versioning the deletion adds a marker and keeps the versions (`resources/objects.ts:57`) | `BucketContents` with versions: look at `entries` after `RemoveFile` |
| `cloudfront.md:17-19`: browse the objects of a bucket | an upload reloads the folder it was started in, under the name of the folder shown by then (`BucketObjectsPanel.tsx:62`) | `BucketPanel`, `StayPut = FALSE`, `ShowsItsFolder` |

## Proofs

The proofs hold for every value of the constants that satisfies the assumptions
named in the modules; TLC evaluates the assumptions in the runs.

| module | theorems | inductive invariant |
|---|---|---|
| `SketchLifecycleProofs` | `TypeCorrect`, `AdoptedSafe`, `DependentsWait` | `TypeOK`; `AdoptionInv`; `WaitInv` |
| `OneHandlerProofs` | `TerminatedIsGone`, `RecordsStay`, `NothingOrphaned`, `NothingLeftHalfDone`, `SuccessMeansPublished`, `LiveNodesStay`, `DependentsFirst`; refinement: `ContractKept`, `PromisesKept` | `HandlerInv`, with `HalfDoneInv`, `PublishedInv`, `EditInv`, `OrderInv` |
| `GraphPlanProofs` | `PlanTypeCorrect`, `OrderIsTopological`, `OrderIsComplete`, `CyclesFound`, `RulesEnforced` | `PlanInv`, with `RulesInv` |
| `AccountProofs` | `ConnectionsTypeCorrect`, `ConnectionsInUseKept`, `OneConnectionActive`, `AccountOneActive`; `CatalogUpToDate`; `RepliesHaveQuestions` | `TypeOK`; `CredentialsKept`; `OneInv`; `CacheInv`; `TabsInv` |
| `EditorProofs` | history: `HistoryTypeCorrect`, `HistoryWalksALine`, `EditorWalksALine`; saves: `SavedAlwaysStored`; panel: `PanelShowsItsFolder`; context: `CatalogLeavesNothingOut` | `TypeOK`; `AutosaveInv`; `PanelInv`; `ContextInv` |
| `AdaptersProofs` | wait: `WaitTypeCorrect`, `ReadyIsAlwaysUsed`, `WaitIsBounded`; requests: `ReferencesAlwaysResolve`, `AppliedAlwaysCurrent`; updates: `NothingPendingAlwaysLive`; setup: `StatusAlwaysTells`, `PoliciesAlwaysGoFirst`; buckets: `RemovedStaysGone`, `SignedAlwaysMay`; distributions: `NothingIsLeft`, `RunningMayRead`, `StagesAlways` | `IInv`; `RequestsInv` (in `ResourceRequestsProofs`); `UpdatesInv`; `SetupInv`, `PagesInv`; `FolderInv`, `VersionInv`, `UploadsInv`; `CallsInv`, `RacesInv` |
| `RequestsProofs` | `EverybodyHasOneAccount`, `PasswordsAreKept`; `StoredGraphStaysSound`; `ReplacementOverwrites` | `IInv`; `SavesInv`; `GraphInv` |

**SketchLifecycle.** Assumed are `ServiceAssumption` (services and instances are
what `AwsServices` takes them for) and `LifecycleAssumption` (edges join nodes,
slots serve known handlers). `AdoptedUntouched` says that no adopted instance is
ever touched. It is not inductive: a deletion whose snapshot calls the adopted
instance managed touches it next. `AdoptionInv` adds `RowsSafe`, that no managed
row names an adopted instance, and `SlotSafe`, the same for every handler's
snapshot, and that a publish about to record the adopted instance has claimed the
row as unmanaged. The last part survives other handlers only because none but a
publish writes `managed`; hence the assumption `SinglePublisher`, that one slot
publishes at a time, which users are trusted with and which `AdoptedDeleted`
shows to be needed. `WaitInv` says that what a publish has ticked off as ready is
no longer being created; under `SinglePublisher` nobody else creates it anew, so
`DependentsAfterReady` holds of every step.

**SketchLifecycle, one handler at a time.** Every other safety property of the
lifecycle is false as soon as handlers overlap on a resource; the runs
`LostDeletion` and `AdoptedDeleted` and the table above show how. What the code does
guarantee is proved under `OneHandler`: publishes, deletions and refreshes take
turns, which the server does not enforce, while canvas edits run at any time. The
other hypotheses are there because a property fails without them:

| theorem | states | hypotheses beside `OneHandler` |
|---|---|---|
| `TerminatedIsGone` | `TerminatedMeansGone` | `Found`: otherwise a refresh takes what describe does not find yet for missing |
| `RecordsStay` | `StaysRecorded` | none |
| `NothingOrphaned` | `NoOrphan` | `Found`; no restart, which loses an identifier that is not yet stored; of `Recoverable` nodes |
| `NothingLeftHalfDone` | `NothingHalfDone` | no restart, which leaves rows as they are; `NoSlowDrift`: otherwise a refresh stores the DELETING of a deletion nobody here has asked for |
| `SuccessMeansPublished` | `SucceededMeansPublished` | nobody deletes outside CloudCanvas (`Drifting = {}`) |
| `LiveNodesStay` | `LiveKeepsNode` | `OneGuarded`: deleting a node and replacing the graph take turns with the handlers, too |
| `DependentsFirst` | `DependentsGoFirst` | `OneGuarded`, `Found`, no restart, `Drifting = {}`; of dependents that are not in `Several` |
| `ContractKept`, `PromisesKept` | `KeepsContract`; `Promised` of every resource | `Found`, no restart, and of `Recoverable` nodes, as for `NoOrphan` |

`HandlerInv` says what the one working handler knows: the rows it has not reached
are those of its snapshot, the one it works on is in the state it gave it, and
what it saw missing is gone. Two lemmas then list all a step can do: `RowSteps`
(who makes which row of which) and `CallSteps` (who changes an instance how), so
that a property needs a case for each kind of write instead of one for each of
forty actions. A create of a node in `Several` changes more instances than the one it
returns, and only that node's (`CreateStarts`, `StartedWith`); what the theorems say
of such a node is about its row. `HalfDoneInv` adds that a row in a passing state has
a handler that takes it out, and that what is stopping is noted; `PublishedInv` that
what a publish has dealt with exists; `EditInv` that what an edit has read still holds when it
writes; `OrderInv` that a deletion of the sketch leaves out only what can be
forgotten, and takes up a resource when none that depends on it is still to do.

`ContractKept` puts them together as a refinement, for the nodes whose create handler
reports all it has made (`Recoverable`: no security groups, no roles, no EC2 nodes that
ask for several instances).
The mapping forgets the handlers: of a resource remain the status of its row, the
instances made that live, and whether the row names an adopted one. By `NoOrphan` what
lives is in the row or with the one working handler, so there is one at most
(`LivingOne`), and a handler that holds nothing finds it in the row
(`LivingRecorded`). Then every line of `RowSteps` and `CallSteps` is an action of
`ResourceContract` or a stutter: a publish begins and creates only when nothing is
left, a record is closed only on what does not exist, RUNNING is written only of what
there is (`PublishedInv`), an adopted instance is never deleted, and a refresh turns
no deletion back (`HalfDoneInv` rules out that it starts one). `Outside`, that
somebody deletes outside CloudCanvas, allows what then cannot be excluded: an instance
vanishes, RUNNING outlives it until the next poll, and DELETING is a report.
`PromisesKept` follows from the contract alone.

**GraphPlan.** `PlanInv` ties Kahn's algorithm to the graph read so far: the
in-degree of a node is the number of its `Open` edges, those whose source is not
yet taken; the queue holds just the nodes without any; what is ordered has its
sources before it; and no closed set of nodes, such as a cycle, meets the order
(`CycleInv`). When the loop ends with nodes left over, these are closed, so the
verdict is right (`VerdictRight`), for untyped nodes and parallel edges too.
`RulesInv` says that the edges read so far obey the rules, each alone and with
those before it, so that what is refused breaks one (`RefusedEdgeBreaks`) and what
comes through breaks none.

**Account.** *Connections*: what is in use stays, however requests overlap, because
the foreign keys decide at the deletion. That exactly one connection is active needs
requests that do not overlap: `OneInv` says that what the one request in flight has
read (`ReadHolds`) is still so. `AccountOneActive` states it for the behaviours of
`Account` in which they do not, through `AloneStep`: a step of that instance is a
step of `AwsConnections` that begins no request beside another. *Catalog*: what a
listing has read so far is no older than what publishes and deletions have reported,
or have changed and not yet reported (`Fits`). That is kept because no change of
theirs overlaps a listing (`Overlap <- FALSE` in the instance); a listing that is
overtaken stores what it read too early, and nothing drops it. *Conversation*: while
the AI service is asked, the question is stored, or its conversation is not the one
the sketch has now (`TabsInv`); identifiers of conversations do not come back, so a
late reply finds its question or is not stored. Nothing is assumed of the tabs.

**Editor.** *History*, a refinement: put end to end, the stack of the past, the canvas
shown and the reversed stack of the future are a line (`LineSequence`), on which
each action of the stacks is a walk or an edit of `CanvasTimeline`, or a stutter
(`LineStep`). *Saves*: what is queued, shown or saved is a graph
(`IsGraph`: edges join nodes that are there, no two the same ones), and while a save
from the baseline b to the snapshot d is on its way the stored graph is `Between` the
two: of each batch, what is not left has been done, and what is left has not. With the
last batch nothing is left, and the graph is d's (`BetweenEnds`), configs as sent or
as the server keeps them. A save may fail, because a config is refused, or because an
earlier failure left behind what it wants to make. What it had sent joins `stray`, and
so do its requests that are still on their way (`FlightInv`); all the above is
said but for `stray`, so that such a late request disturbs none of it
(`StrayIsHandled`), and a failed save leaves the server matching the old baseline but
for what is now stray. `Editor` has no lost requests and no reloads; with a reload,
server and baseline differ where nothing was sent, and only `StoredGraphSound` holds.
*Panel*: numbers of requests grow, so a listing whose
answer counts is the one sent last; it was sent for the folder the panel is in and
brings the page after those shown (`PanelInv`). *Context*: a collection that dropped
out is complete or its next item did not fit, and what others take afterwards only
makes the text longer (`ContextInv`, `WithNextMonotonic`). The text is a sum over the
collections of sums over their items, and what such sums have in common is proved
from their equation: `SumsUp` says that a function solves it for every subset of a
finite set, and by a smallest counterexample (`LeastSet`, from the well-foundedness of
the subset ordering) there is exactly one solution, it is a natural number, any element may be
taken off first, and greater summands make a greater sum. `EncodedIsText` ties this
to the fold the model computes with.

**Adapters.** `AdapterAssumption` repeats what the instantiated modules assume, and
says which sketches and services the statements are about. *Wait*: a reading in
progress began at most `MaxRead` ago and not after the deadline and the lag of a timer
(`Clock`), so a resource that ran before the deadline is found by the reading under
way or by a later one. *Requests*: references resolve because every type that may be
referred to is described under the name the reference asks for; groups are not, and
are left out. While a publish runs, the outputs it has collected are those of the
instances there are; whoever had its turn is configured with them, and its sources
have had theirs (`PublishInv`). *Updates*: setting by setting, AWS has what the row or
what the node stands for, and of an update in progress the calls made have arrived
(`UpdatesInv`), but for HTTPS turned off with no other statement in the policy; so a
setting that differs from the config is one that is shown as pending, or one that
`DenyStays` or `ListHidden` names. With a second edit there would be a third config to
have come from, and the statement is false. *Setup*: what is applied and what is still to do make up what is
wanted (`SetupInv`). The pages of a role's policies are named by the last policy read:
what is attached lies on the page at hand or beyond it, whoever detaches what
meanwhile (`PagesInv`). *Buckets*: what a deletion found and has not yet deleted is on
its page or still to be listed; finite sets of keys have a first one, so an empty page
means an empty folder. With versions, a marker hides what was there, as none of its
older versions comes back (`MarkersHide`). *Distributions, one request at a time*:
`CallsInv` says what row, access control, grant and distribution are at each place of
each handler (`Creating`, `Changing`, `Deleting`) and while no request is about them
(`Waiting`); then what a terminated one leaves and what a running one may read are
both read off. A refused creation may leave its access control (`Waiting`), and the
deletion of such a row calls nothing. *Several at a time*: an ETag that is still current was read from the
distribution as it is now (`Sees`), so configuring, disabling and deleting with it
are steps of `DistributionStages`, and a creation has nobody beside it, since only
one handler gets a row out of `NONE`. Each lemma about a part is one step of the
instance; the theorems put them into the behaviours of `Adapters`.

**Requests.** *Sign-in*: rows and requests carry addresses in their one spelling, so
the unique index sees a double account, and a request that has found a row still
knows its password (`Found`), because passwords are never changed. *Saves*: `SavesInv`
says of everything on its way (snapshots queued or loaded, batches still to send,
requests in flight) that it names a node or an edge as its kind requires, and that the stored graph
is sound. It says nothing of order or of what the editor has seen: every request the
server accepts keeps the graph sound by itself (`AfterSound`), so loss, repetition and
reloads cannot break it. *Graph*: without overlap, what an import or a replacement saw
when it began is all the sketch has (`GraphInv`), so what it deletes leaves nothing
behind, and the edges and references it stores lead to the nodes it has just made
(`PersistReplaces`).

Every safety property of the passing runs is stated by one of these theorems. Only
model-checked is what the prover does not reach, all liveness (`DeletionCompletes`,
`GoneIsNoticed`, `EventuallyStored`, `EventuallyShown`, `EveryTurnComes`,
`DeletionFinishes`), which rests on fairness and `ENABLED`.

## What is left out

- Validation of configs field by field, and the formats of names and policies. Whether
  a config is refused, and that another may be stored than was sent, is in
  `CanvasAutosave`.
- `createSketch`'s and the import's layout of overlapping nodes, and the parsing of
  the graphs that a model returns.
- Renaming a sketch, applying a blueprint in the editor and its explicit Save,
  selection and drag state; rendering.
- What language models answer; the filters of the catalog tool.
- The session callbacks of NextAuth, tokens and cookies, the encryption of
  credentials; logs.
- How each service's describe result is read, field by field, beyond its state and
  the outputs that references use.
- The generated Prisma client, some 19 000 of 27 900 lines: types and
  delegation. What the code relies on from the database (unique indexes, cascades,
  restrictions) is modelled where it is used. The definitions of this project
  stand for about a third of the rest.

## Plan

1. The editor's blueprint and explicit Save against a running autosave.
2. Liveness of the teardown of buckets with many pages, and of the recovery of a
   catalog listing that failed.
3. Three slots in `SketchLifecycle`, and distributions that share a bucket.
