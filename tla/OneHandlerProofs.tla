-------------------------- MODULE OneHandlerProofs --------------------------
(***************************************************************************)
(* What SketchLifecycle guarantees while one handler at a time works on    *)
(* the resources of the sketch, proved with TLAPS for every sketch, every  *)
(* AWS account and any number of canvas edits beside it.                   *)
(*                                                                         *)
(* A handler decides from the snapshot it took.  The argument is that the  *)
(* snapshot of the one working handler stays true of every resource the    *)
(* handler has not reached: HandlerInv relates the locals of that handler  *)
(* to the rows and to AWS, RowStep and CallStep list what a step can make  *)
(* of a row or an instance, and the properties follow from these.  Those   *)
(* that need more have an invariant of their own on top of HandlerInv:     *)
(* HalfDoneInv (who takes a row out of a passing state), PublishedInv      *)
(* (what a publish has dealt with exists), EditInv (what an edit read      *)
(* still holds when it writes) and OrderInv (a deletion takes dependents   *)
(* first).  The last part puts them together: for each resource, every     *)
(* step is one of ResourceContract.                                        *)
(***************************************************************************)
EXTENDS SketchLifecycleProofs

\* The operations that decide what happens to resources.
ResourceOp == {"publish", "refresh"} \cup DeleteOp

\* One slot serves every publish, deletion and refresh; canvas edits run in any
\* slot.  Nothing in the server enforces it: LostDeletion, AdoptedDeleted and
\* OnePublisher are runs without it.
OneHandler ==
    \A p, q \in Request : Ops[p] \cap ResourceOp # {} /\ Ops[q] \cap ResourceOp # {} => p = q

\* A describe call finds the instances of n from their creation on, so that
\* "not found" means that there is nothing.
Found(n) == n \in Lagging => Service[n] \in SlowStart

\* What is true of every stored row.
RowOk(n, r) ==
    /\ r.ext # NoExt => (r.managed <=> r.ext # Foreign)
    /\ r.status # "NONE" /\ ~r.managed => IsAdoptable(n)
    /\ r.setup = "incomplete" => Service[n] \in Checkpointing
    /\ r.status = "RUNNING" => r.ext # NoExt

\* The locals r of a publish while the rows are rows.  From its upsert to its
\* store or failure, a publish has claimed the row of its current node.
Claimed == {"create", "checkpoint", "setup", "store", "fail"}
PublishLocal(r, rows) ==
    /\ r.at \in {"next", "wait", "updated"} \cup Claimed
    /\ r.todo \subseteq r.snapNodes
    /\ r.at # "next" => r.cur \in r.todo
    /\ r.at = "next" => r.cur = NoNode
    /\ \A n \in r.todo :
          /\ r.snapRow[n].status \notin {"PROVISIONING", "DELETING"}
          /\ r.snapRow[n].status = "FAILED" => r.snapRow[n].ext = NoExt
          /\ n # r.cur \/ r.at \notin Claimed => rows[n] = r.snapRow[n]
    /\ \A n \in Node : r.snapMode[n] = "existing" => IsAdoptable(n)
    /\ r.at \notin {"checkpoint", "setup", "store"} => r.ext = NoExt
    /\ r.at = "updated" => r.snapRow[r.cur].status = "RUNNING" /\ r.snapRow[r.cur].ext # NoExt
    /\ r.at \in Claimed =>
          /\ rows[r.cur].status = "PROVISIONING"
          /\ rows[r.cur].managed <=> r.snapMode[r.cur] = "create"
    /\ r.at \in {"create", "checkpoint"} => rows[r.cur].ext = NoExt
    /\ r.at = "checkpoint" => Service[r.cur] \in Checkpointing
    /\ r.at \in {"checkpoint", "setup"} => r.ext \in Own /\ r.snapMode[r.cur] = "create"
    /\ r.at = "setup" => Service[r.cur] \in MultiStep
    /\ r.at = "setup" => rows[r.cur].ext = IF Service[r.cur] \in Checkpointing THEN r.ext ELSE NoExt
    /\ r.at = "store" =>
          /\ r.ext \in Instance /\ rows[r.cur].ext \in {NoExt, r.ext}
          /\ r.ext = Foreign <=> r.snapMode[r.cur] = "existing"

\* The locals of a deletion while AWS is aws.  Once marked, the row of the
\* current resource is DELETING and managed; what the deletion is done with is
\* terminated.
Marked == {"delete", "deleted", "missing", "pending", "refused"}
DeleteLocal(r, rows, aws) ==
    /\ r.at \in {"pick", "detach", "mark"} \cup Marked
    /\ r.ext = NoExt
    /\ r.at # "pick" => r.cur \in r.todo /\ r.snapRow[r.cur].status # "TERMINATED"
    /\ r.at = "pick" => r.cur = NoNode
    /\ \A n \in r.todo :
          /\ r.snapRow[n].status # "NONE"
          /\ n # r.cur \/ r.at \notin Marked => rows[n] = r.snapRow[n]
    /\ r.at = "detach" => ~InAws(r.snapRow[r.cur])
    /\ r.at \in {"mark"} \cup Marked => InAws(r.snapRow[r.cur])
    /\ r.at \in Marked =>
          /\ rows[r.cur].status = "DELETING"
          /\ rows[r.cur].ext = r.snapRow[r.cur].ext /\ rows[r.cur].managed
    /\ r.at \in {"deleted", "missing"} => aws[r.cur][r.snapRow[r.cur].ext] \notin Live
    /\ r.at = "pending" => IsCloudFront(r.cur)
    /\ r.op # "deleteResource" => \A n \in Node \ r.todo : rows[n].status \in {"NONE", "TERMINATED"}

\* The locals of a refresh: every row it has still to write is as it read it,
\* and what it saw missing is gone.
RefreshLocal(r, rows, aws) ==
    /\ r.at = "reading" /\ r.cur = NoNode /\ r.ext = NoExt
    /\ \A n \in r.todo : r.snapRow[n].status \notin {"NONE", "TERMINATED"} /\ rows[n] = r.snapRow[n]
    /\ \A n \in Node : r.seen[n] # "unread" =>
          /\ n \in r.todo /\ ~RefreshSkips(n, r.snapRow[n])
          /\ r.seen[n] \in {"MISSING", "RUNNING", "PROVISIONING", "DELETING"}
          /\ r.seen[n] = "MISSING" /\ Found(n) => aws[n][r.snapRow[n].ext] \notin Live
          /\ r.snapRow[n].status = "DELETING" => r.seen[n] = "MISSING"

\* What the request r of slot p has read and may rely on.
Local(p, r, rows, aws) ==
    /\ r.op # "none" => r.op \in Ops[p]
    /\ r.op \notin ResourceOp => r.ext = NoExt
    /\ r.op = "publish" => PublishLocal(r, rows)
    /\ r.op \in DeleteOp => DeleteLocal(r, rows, aws)
    /\ r.op = "refresh" => RefreshLocal(r, rows, aws)

\* The parts of HandlerInv: rows, stored modes, locals of the requests, what AWS
\* may still be creating, and no handler left once the sketch is deleted.
RowsOk == \A n \in Node : RowOk(n, row[n])
ModesOk == \A n \in Node : mode[n] = "existing" => IsAdoptable(n)
LocalsOk == \A p \in Request : Local(p, req[p], row, cloud)
CloudOk == \A n \in Node, i \in Instance : cloud[n][i] = "creating" => Service[n] \in SlowStart \/ n \in Lagging
SketchOk == sketch = "DELETED" => \A p \in Request : req[p].op \notin ResourceOp

\* The inductive invariant of a single resource handler.
HandlerInv == TypeOK /\ RowsOk /\ ModesOk /\ LocalsOk /\ CloudOk /\ SketchOk

-----------------------------------------------------------------------------
(* What a step does to the rows and to AWS.                                 *)

\* The steps of a handler that write rows, and those that change AWS.
WritesRow(p) ==
    \/ PublishStoreUpdate(p) \/ PublishUpsert(p) \/ PublishCheckpoint(p) \/ PublishStore(p) \/ PublishFail(p)
    \/ DeleteDetach(p) \/ DeleteMark(p) \/ DeleteRecord(p) \/ DeleteFail(p) \/ DeleteSketchDone(p)
    \/ \E n \in Node : RefreshWrite(p, n)
CallsAws(p) ==
    \/ PublishUpdate(p) \/ \E i \in Own : PublishCreate(p, i)
    \/ DeleteCall(p)
    \/ \E n \in Node : RefreshDelete(p, n)

\* No step changes both, and no other handler step changes either.
LEMMA PublishEffects ==
    ASSUME NEW p \in Request, Publish(p)
    PROVE  \/ WritesRow(p) /\ UNCHANGED cloud
           \/ CallsAws(p) /\ UNCHANGED row
           \/ UNCHANGED <<row, cloud>>
<1> USE DEF dbVars
<1>1. CASE PublishStart(p) \/ \E n \in Node : PublishNext(p, n) \/ PublishSourceReady(p, n)
  BY <1>1 DEF PublishStart, PublishNext, PublishSourceReady
<1>2. CASE PublishBlocked(p) \/ PublishSkip(p) \/ PublishConflict(p) \/ PublishRejectNode(p) \/ PublishDone(p)
  BY <1>2 DEF PublishBlocked, PublishSkip, PublishConflict, PublishRejectNode, PublishDone
<1>3. CASE PublishAdopt(p) \/ PublishSetup(p) \/ PublishAwsError(p)
  BY <1>3 DEF PublishAdopt, PublishSetup, PublishAwsError
<1>4. CASE PublishUpdate(p) \/ \E i \in Own : PublishCreate(p, i)
  <2>1. CallsAws(p)
    BY <1>4 DEF CallsAws
  <2>2. UNCHANGED row
    BY <1>4 DEF PublishUpdate, PublishCreate
  <2> QED
    BY <2>1, <2>2
<1>5. CASE PublishStoreUpdate(p) \/ PublishUpsert(p) \/ PublishCheckpoint(p) \/ PublishStore(p) \/ PublishFail(p)
  <2>1. WritesRow(p)
    BY <1>5 DEF WritesRow
  <2>2. UNCHANGED cloud
    BY <1>5 DEF PublishStoreUpdate, PublishUpsert, PublishCheckpoint, PublishStore, PublishFail
  <2> QED
    BY <2>1, <2>2
<1> QED
  BY <1>1, <1>2, <1>3, <1>4, <1>5 DEF Publish

\* Likewise for the steps of a deletion.
LEMMA DeleteEffects ==
    ASSUME NEW p \in Request, Delete(p)
    PROVE  \/ WritesRow(p) /\ UNCHANGED cloud
           \/ CallsAws(p) /\ UNCHANGED row
           \/ UNCHANGED <<row, cloud>>
<1> USE DEF dbVars
<1>1. CASE \/ \E n \in Node : DeleteResourceStart(p, n) \/ DeletePick(p, n)
           \/ \E op \in DeleteOp : DeleteSketchStart(p, op)
  BY <1>1 DEF DeleteResourceStart, DeletePick, DeleteSketchStart
<1>2. CASE DeleteError(p) \/ DeletePause(p) \/ DeleteResourceDone(p) \/ DeleteAllDone(p)
  BY <1>2 DEF DeleteError, DeletePause, DeleteResourceDone, DeleteAllDone
<1>3. CASE DeleteCall(p)
  <2>1. CallsAws(p)
    BY <1>3 DEF CallsAws
  <2>2. UNCHANGED row
    BY <1>3 DEF DeleteCall
  <2> QED
    BY <2>1, <2>2
<1>4. CASE DeleteDetach(p) \/ DeleteMark(p) \/ DeleteRecord(p) \/ DeleteFail(p) \/ DeleteSketchDone(p)
  <2>1. WritesRow(p)
    BY <1>4 DEF WritesRow
  <2>2. UNCHANGED cloud
    BY <1>4 DEF DeleteDetach, DeleteMark, DeleteRecord, DeleteFail, DeleteSketchDone
  <2> QED
    BY <2>1, <2>2
<1> QED
  BY <1>1, <1>2, <1>3, <1>4, Zenon DEF Delete

\* Likewise for the steps of a refresh, which reads in one and writes in others.
LEMMA RefreshEffects ==
    ASSUME NEW p \in Request, Refresh(p)
    PROVE  \/ WritesRow(p) /\ UNCHANGED cloud
           \/ CallsAws(p) /\ UNCHANGED row
           \/ UNCHANGED <<row, cloud>>
<1> USE DEF dbVars
<1>1. CASE RefreshStart(p) \/ RefreshDone(p) \/ \E n \in Node : RefreshSkip(p, n) \/ RefreshRead(p, n) \/ RefreshError(p, n)
  BY <1>1 DEF RefreshStart, RefreshDone, RefreshSkip, RefreshRead, RefreshError
<1>2. CASE \E n \in Node : RefreshDelete(p, n)
  <2>1. CallsAws(p)
    BY <1>2 DEF CallsAws
  <2>2. UNCHANGED row
    BY <1>2 DEF RefreshDelete
  <2> QED
    BY <2>1, <2>2
<1>3. CASE \E n \in Node : RefreshWrite(p, n)
  <2>1. WritesRow(p)
    BY <1>3 DEF WritesRow
  <2>2. UNCHANGED cloud
    BY <1>3 DEF RefreshWrite
  <2> QED
    BY <2>1, <2>2
<1> QED
  BY <1>1, <1>2, <1>3 DEF Refresh, RefreshStep

\* Canvas edits touch neither rows nor AWS.
LEMMA EditEffects ==
    ASSUME NEW p \in Request, Edit(p) \/ Orphaned(p)
    PROVE  UNCHANGED <<row, cloud>>
BY DEF dbVars, Edit, Orphaned, CreateNode, DeleteNodeStart, UpdateNodeStart, EditStart, DeleteNode, UpdateNode,
       ReplaceGraphStart, ReplaceGraph

\* All handlers and edits together.
LEMMA Effects ==
    ASSUME [Next]_vars
    PROVE  \/ \E p \in Request : \/ WritesRow(p) /\ UNCHANGED cloud
                                 \/ CallsAws(p) /\ UNCHANGED row
           \/ Aws /\ UNCHANGED <<dbVars, req, receipt>>
           \/ UNCHANGED <<row, cloud>>
<1>1. ASSUME Aws PROVE UNCHANGED <<dbVars, req, receipt>>
  BY <1>1 DEF Aws, Settle, Drift
<1>2. ASSUME Restart PROVE UNCHANGED <<row, cloud>>
  BY <1>2 DEF Restart, dbVars
<1>3. ASSUME UNCHANGED vars PROVE UNCHANGED <<row, cloud>>
  BY <1>3 DEF vars
<1> QED
  BY <1>1, <1>2, <1>3, PublishEffects, DeleteEffects, RefreshEffects, EditEffects DEF Next

-----------------------------------------------------------------------------
(* Steps that keep HandlerInv.                                              *)

\* A slot without a request relies on nothing.
LEMMA IdleLocal == ASSUME NEW p, NEW rows, NEW aws PROVE Local(p, Idle, rows, aws)
BY DEF Local, Idle, ResourceOp, DeleteOp

\* A slot that runs no resource handler promises nothing about rows and AWS.
LEMMA OthersLocal ==
    ASSUME OneHandler, HandlerInv, NEW p \in Request, Ops[p] \cap ResourceOp # {},
           NEW q \in Request, q # p
    PROVE  req[q].op \notin ResourceOp /\ \A rows, aws : Local(q, req[q], rows, aws)
<1>1. Local(q, req[q], row, cloud)
  BY DEF HandlerInv, LocalsOk
<1>2. req[q].op \notin ResourceOp
  BY <1>1 DEF Local, OneHandler, ResourceOp, DeleteOp
<1> QED
  BY <1>1, <1>2 DEF Local, ResourceOp

\* A step of the one working handler.
LEMMA HandlerMove ==
    ASSUME OneHandler, HandlerInv, NEW p \in Request, NEW r, Becomes(p, r),
           Ops[p] \cap ResourceOp # {}, Local(p, r, row', cloud')
    PROVE  LocalsOk'
<1> SUFFICES ASSUME NEW q \in Request PROVE Local(q, req'[q], row', cloud')
  BY DEF LocalsOk
<1>1. req'[q] = IF q = p THEN r ELSE req[q]
  BY DEF HandlerInv, TypeOK, Becomes
<1> QED
  BY <1>1, OthersLocal

\* A step of a canvas edit, or the end of any request.
LEMMA EditMove ==
    ASSUME HandlerInv, NEW p \in Request, NEW r, Becomes(p, r), r.op \notin ResourceOp,
           r.op # "none" => r.op \in Ops[p], r.ext = NoExt,
           UNCHANGED <<row, cloud, sketch>>
    PROVE  RowsOk' /\ LocalsOk' /\ SketchOk'
<1>1. \A q \in Request : req'[q] = IF q = p THEN r ELSE req[q]
  BY DEF HandlerInv, TypeOK, Becomes
<1>2. Local(p, r, row, cloud)
  BY DEF Local, ResourceOp
<1>3. LocalsOk'
  BY <1>1, <1>2 DEF HandlerInv, LocalsOk
<1>4. SketchOk'
  BY <1>1 DEF HandlerInv, SketchOk
<1>5. RowsOk'
  BY DEF HandlerInv, RowsOk
<1> QED
  BY <1>3, <1>4, <1>5

\* A step of AWS, after which nothing that was gone lives.
NothingRevived == \A n \in Node, i \in Instance : cloud[n][i] \notin Live => cloud'[n][i] \notin Live
\* Such a step keeps HandlerInv: what a request knows to be gone stays gone.
LEMMA AwsMove ==
    ASSUME HandlerInv, NothingRevived, UNCHANGED <<row, req>>
    PROVE  LocalsOk'
<1> SUFFICES ASSUME NEW p \in Request PROVE Local(p, req[p], row, cloud')
  BY DEF LocalsOk
<1> DEFINE r == req[p]
<1>1. Local(p, r, row, cloud) /\ r \in ReqState
  BY DEF HandlerInv, LocalsOk, TypeOK
<1>2. CASE r.op \in DeleteOp
  <2>1. DeleteLocal(r, row, cloud)
    BY <1>1, <1>2 DEF Local
  <2>2. r.at \in {"deleted", "missing"} => r.cur \in Node /\ r.snapRow[r.cur].ext \in Instance
    BY <1>1, <2>1 DEF DeleteLocal, InAws, ReqState, Row, Ext, Marked
  <2>3. DeleteLocal(r, row, cloud')
    BY <2>1, <2>2 DEF DeleteLocal, NothingRevived
  <2> QED
    BY <1>1, <1>2, <2>3 DEF Local, DeleteOp
<1>3. CASE r.op = "refresh"
  <2>1. RefreshLocal(r, row, cloud)
    BY <1>1, <1>3 DEF Local
  <2>2. \A n \in Node : r.seen[n] # "unread" => r.snapRow[n].ext \in Instance
    BY <1>1, <2>1 DEF RefreshLocal, RefreshSkips, ReqState, Row, Ext
  <2>3. RefreshLocal(r, row, cloud')
    BY <2>1, <2>2 DEF RefreshLocal, NothingRevived
  <2> QED
    BY <1>1, <1>3, <2>3 DEF Local, DeleteOp
<1>4. CASE r.op \notin DeleteOp \cup {"refresh"}
  BY <1>1, <1>4 DEF Local
<1> QED
  BY <1>2, <1>3, <1>4

\* A step that writes one row.
LEMMA RowMove ==
    ASSUME HandlerInv, NEW n, NEW t, SetRow(n, t), n \in Node => RowOk(n, t)
    PROVE  RowsOk' /\ (\A m \in Node \ {n} : row'[m] = row[m]) /\ (n \in Node => row'[n] = t)
BY DEF HandlerInv, TypeOK, RowsOk, SetRow

\* A publish leaves its current node.
LEMMA NodeDoneLocal ==
    ASSUME NEW p \in Request, req[p] \in ReqState, req[p].op = "publish", Local(p, req[p], row, cloud),
           NEW rows, \A n \in Node \ {req[p].cur} : rows[n] = row[n], NEW aws
    PROVE  /\ Local(p, NodeDone(p), rows, aws)
           /\ \A u : Local(p, [NodeDone(p) EXCEPT !.used = u], rows, aws)
<1>1. PublishLocal(req[p], row)
  BY DEF Local
<1>2. PublishLocal(NodeDone(p), rows)
  BY <1>1 DEF PublishLocal, NodeDone, ReqState, Claimed
<1>3. ASSUME NEW u PROVE PublishLocal([NodeDone(p) EXCEPT !.used = u], rows)
  BY <1>2 DEF PublishLocal, NodeDone, ReqState, Claimed
<1> QED
  BY <1>2, <1>3 DEF Local, NodeDone, ReqState, ResourceOp, DeleteOp

\* A deletion leaves its current resource, whose row it has terminated.
LEMMA ResourceDoneLocal ==
    ASSUME NEW p \in Request, req[p] \in ReqState, req[p].op \in DeleteOp, Local(p, req[p], row, cloud),
           NEW rows, \A n \in Node \ {req[p].cur} : rows[n] = row[n],
           req[p].cur \in Node => rows[req[p].cur].status = "TERMINATED", NEW aws
    PROVE  Local(p, ResourceDone(p), rows, aws)
<1>1. DeleteLocal(req[p], row, cloud)
  BY DEF Local
<1>2. DeleteLocal(ResourceDone(p), rows, aws)
  BY <1>1 DEF DeleteLocal, ResourceDone, ReqState, Marked
<1> QED
  BY <1>2 DEF Local, ResourceDone, ReqState, ResourceOp, DeleteOp

\* What HandlerInv says of a slot that publishes, deletes or refreshes.
LEMMA PublishFacts ==
    ASSUME HandlerInv, NEW p \in Request, req[p].op = "publish"
    PROVE  /\ req[p] \in ReqState /\ PublishLocal(req[p], row)
           /\ req[p].op \in Ops[p] /\ Ops[p] \cap ResourceOp # {} /\ sketch # "DELETED"
           /\ req[p].todo \subseteq Node
           /\ req[p].at # "next" => req[p].cur \in Node
<1>1. req[p] \in ReqState /\ Local(p, req[p], row, cloud)
  BY DEF HandlerInv, TypeOK, LocalsOk
<1>2. sketch # "DELETED"
  BY DEF HandlerInv, SketchOk, ResourceOp
<1> QED
  BY <1>1, <1>2 DEF Local, PublishLocal, ResourceOp, ReqState

\* Likewise of a slot that deletes.
LEMMA DeleteFacts ==
    ASSUME HandlerInv, NEW p \in Request, req[p].op \in DeleteOp
    PROVE  /\ req[p] \in ReqState /\ DeleteLocal(req[p], row, cloud)
           /\ req[p].op \in Ops[p] /\ Ops[p] \cap ResourceOp # {} /\ sketch # "DELETED"
           /\ req[p].todo \subseteq Node
           /\ req[p].at # "pick" =>
                 req[p].cur \in Node /\ RowOk(req[p].cur, row[req[p].cur]) /\ row[req[p].cur] \in Row
<1>1. req[p] \in ReqState /\ Local(p, req[p], row, cloud) /\ row \in [Node -> Row]
  BY DEF HandlerInv, TypeOK, LocalsOk
<1>2. sketch # "DELETED"
  BY DEF HandlerInv, SketchOk, ResourceOp
<1> QED
  BY <1>1, <1>2 DEF Local, DeleteLocal, ResourceOp, ReqState, DeleteOp, HandlerInv, RowsOk

\* Likewise of a slot that refreshes.
LEMMA RefreshFacts ==
    ASSUME HandlerInv, NEW p \in Request, req[p].op = "refresh"
    PROVE  /\ req[p] \in ReqState /\ RefreshLocal(req[p], row, cloud)
           /\ req[p].op \in Ops[p] /\ Ops[p] \cap ResourceOp # {} /\ sketch # "DELETED"
<1>1. req[p] \in ReqState /\ Local(p, req[p], row, cloud)
  BY DEF HandlerInv, TypeOK, LocalsOk
<1>2. sketch # "DELETED"
  BY DEF HandlerInv, SketchOk, ResourceOp
<1> QED
  BY <1>1, <1>2 DEF Local, ResourceOp

\* A new sketch satisfies HandlerInv.
LEMMA HandlerInit == Init => HandlerInv
<1> SUFFICES ASSUME Init PROVE HandlerInv
  OBVIOUS
<1>1. RowsOk
  BY DEF Init, RowsOk, RowOk, NoRow
<1>2. ModesOk
  BY LifecycleAssumption DEF Init, ModesOk
<1>3. LocalsOk
  BY IdleLocal DEF Init, LocalsOk
<1>4. SketchOk
  BY DEF Init, SketchOk
<1>5. CloudOk
  BY DEF Init, CloudOk, FirstForeign
<1> QED
  BY InitType, <1>1, <1>2, <1>3, <1>4, <1>5 DEF HandlerInv

\* AWS revives nothing on its own.
LEMMA AwsStep ==
    ASSUME TypeOK, Aws
    PROVE  NothingRevived
<1>1. ASSUME NEW n \in Node, NEW i \in Instance, Settle(n, i) PROVE NothingRevived
  BY <1>1 DEF Settle, Settled, NothingRevived, TypeOK, Live
<1>2. ASSUME NEW n \in Node, NEW i \in Own, Drift(n, i) PROVE NothingRevived
  BY <1>2 DEF Drift, NothingRevived, TypeOK, Live, Instance
<1> QED
  BY <1>1, <1>2 DEF Aws

\* Only what takes time to start, or lags, is ever being created.
LEMMA CloudStep ==
    ASSUME HandlerInv, [Next]_vars
    PROVE  CloudOk'
<1>0. cloud \in [Node -> [Instance -> CloudState]] /\ CloudOk
  BY DEF HandlerInv, TypeOK
<1>1. ASSUME NEW p \in Request, CallsAws(p) PROVE CloudOk'
  <2>1. CASE PublishUpdate(p)
    BY <2>1, <1>0 DEF PublishUpdate, CloudOk, IsCloudFront, SlowStart
  <2>2. ASSUME NEW i \in Own, PublishCreate(p, i) PROVE CloudOk'
    <3>1. \A m \in Node, j \in Instance : cloud'[m][j] \in {cloud[m][j], FirstState(m)}
      BY <2>2, <1>0, CreateStarts
    <3> QED
      BY <3>1, <1>0 DEF CloudOk, FirstState
  <2>3. CASE DeleteCall(p)
    BY <2>3, <1>0 DEF DeleteCall, CloudOk, AfterDelete
  <2>4. ASSUME NEW n \in Node, RefreshDelete(p, n) PROVE CloudOk'
    BY <2>4, <1>0 DEF RefreshDelete, CloudOk, AfterDelete
  <2> QED
    BY <1>1, <2>1, <2>2, <2>3, <2>4 DEF CallsAws
<1>2. ASSUME Aws PROVE CloudOk'
  <2>1. ASSUME NEW n \in Node, NEW i \in Instance, Settle(n, i) PROVE CloudOk'
    BY <2>1, <1>0 DEF Settle, Settled, CloudOk
  <2>2. ASSUME NEW n \in Node, NEW i \in Own, Drift(n, i) PROVE CloudOk'
    BY <2>2, <1>0 DEF Drift, CloudOk
  <2> QED
    BY <1>2, <2>1, <2>2 DEF Aws
<1>3. ASSUME UNCHANGED cloud PROVE CloudOk'
  BY <1>0, <1>3 DEF CloudOk
<1> QED
  BY <1>1, <1>2, <1>3, Effects

\* Every step keeps HandlerInv, handler by handler and step by step.
LEMMA HandlerNext ==
    ASSUME OneHandler, HandlerInv, [Next]_vars
    PROVE  HandlerInv'
<1> DEFINE Goal == RowsOk' /\ ModesOk' /\ LocalsOk' /\ SketchOk'
<1> USE DEF dbVars
<1>0. TypeOK /\ TypeOK'
  BY NextType DEF HandlerInv
<1>a. ASSUME UNCHANGED row PROVE RowsOk'
  BY <1>a DEF HandlerInv, RowsOk
<1>b. ASSUME UNCHANGED mode PROVE ModesOk'
  BY <1>b DEF HandlerInv, ModesOk
<1>c. ASSUME NEW p \in Request, Finish(p), UNCHANGED <<row, cloud, sketch>>
      PROVE  RowsOk' /\ LocalsOk' /\ SketchOk'
  BY <1>c, EditMove DEF Finish, Idle, ResourceOp, DeleteOp
<1>d. ASSUME UNCHANGED sketch \/ sketch' # "DELETED", sketch # "DELETED" PROVE SketchOk'
  BY <1>d DEF SketchOk
<1>1. ASSUME NEW p \in Request, Publish(p) PROVE Goal
  <2> DEFINE r == req[p]
             n == req[p].cur
  <2>0. r \in ReqState /\ row \in [Node -> Row] /\ Local(p, r, row, cloud)
    BY <1>0 DEF TypeOK, HandlerInv, LocalsOk
  <2>a. ASSUME r.op = "publish"
        PROVE  /\ PublishLocal(r, row) /\ r.op \in Ops[p] /\ sketch # "DELETED"
               /\ Ops[p] \cap ResourceOp # {}
               /\ r.todo \subseteq Node
               /\ r.at # "next" => n \in Node
               /\ Local(p, NodeDone(p), row, cloud)
    BY <2>0, <2>a, PublishFacts, NodeDoneLocal
  <2>b. ASSUME NEW t, t.op = "publish", r.op = "publish", NEW rows, PublishLocal(t, rows)
        PROVE  Local(p, t, rows, cloud')
    BY <2>b, <2>a DEF Local, DeleteOp, ResourceOp
  <2>1. CASE PublishStart(p)
    <3> DEFINE used == [m \in Node |-> IF m \in nodes /\ row[m].status = "RUNNING" THEN row[m].ext ELSE NoExt]
               t == [Snapshot("publish", "next", nodes) EXCEPT !.snapMode = mode, !.used = used]
    <3>1. PublishLocal(t, row)
      BY <2>1, <1>0 DEF PublishStart, PublishLocal, Snapshot, Idle, Publishable, HandlerInv, ModesOk, Claimed, TypeOK
    <3>2. "publish" \in Ops[p] /\ sketch # "DELETED"
      BY <2>1 DEF PublishStart, Begin
    <3>3. t.op = "publish"
      BY DEF Snapshot, Idle
    <3>4. Local(p, t, row, cloud)
      BY <3>1, <3>2, <3>3 DEF Local, DeleteOp, ResourceOp
    <3>5. Becomes(p, t) /\ UNCHANGED <<row, mode, cloud, sketch>>
      BY <2>1 DEF PublishStart
    <3>6. Ops[p] \cap ResourceOp # {}
      BY <3>2 DEF ResourceOp
    <3> QED
      BY <3>2, <3>4, <3>5, <3>6, <1>a, <1>b, <1>d, HandlerMove
  <2>2. ASSUME NEW m \in Node, PublishNext(p, m) PROVE Goal
    <3> DEFINE t == [r EXCEPT !.at = "wait", !.cur = m, !.wait = Sources(m, r.snapNodes)]
    <3>1. r.op = "publish" /\ r.at = "next" /\ m \in r.todo
      BY <2>2 DEF PublishNext, At
    <3>2. PublishLocal(t, row)
      BY <3>1, <2>a, <2>0 DEF PublishLocal, ReqState, Claimed
    <3>3. t.op = "publish"
      BY <3>1, <2>0 DEF ReqState
    <3> QED
      BY <2>2, <3>1, <3>2, <3>3, <2>a, <2>b, <1>a, <1>b, <1>d, HandlerMove DEF PublishNext
  <2>3. ASSUME NEW s \in Node, PublishSourceReady(p, s) PROVE Goal
    <3> DEFINE t == [r EXCEPT !.wait = @ \ {s}]
    <3>1. r.op = "publish"
      BY <2>3 DEF PublishSourceReady, At
    <3>2. PublishLocal(t, row)
      BY <3>1, <2>a, <2>0 DEF PublishLocal, ReqState, Claimed
    <3>3. t.op = "publish"
      BY <3>1, <2>0 DEF ReqState
    <3> QED
      BY <2>3, <3>1, <3>2, <3>3, <2>a, <2>b, <1>a, <1>b, <1>d, HandlerMove DEF PublishSourceReady
  <2>4. CASE PublishBlocked(p) \/ PublishConflict(p) \/ PublishRejectNode(p)
    BY <2>4, <1>b, <1>c DEF PublishBlocked, PublishConflict, PublishRejectNode
  <2>5. CASE PublishSkip(p)
    <3>1. r.op = "publish"
      BY <2>5 DEF PublishSkip, NodeReady, At
    <3> QED
      BY <2>5, <3>1, <2>a, <1>a, <1>b, <1>d, HandlerMove DEF PublishSkip
  <2>6. CASE PublishUpdate(p)
    <3> DEFINE t == [r EXCEPT !.at = "updated"]
    <3>1. r.op = "publish" /\ r.at = "wait" /\ r.snapRow[n].status = "RUNNING" /\ r.snapRow[n].ext # NoExt
      BY <2>6 DEF PublishUpdate, NodeReady, At, WasRunning
    <3>2. PublishLocal(t, row)
      BY <3>1, <2>a, <2>0 DEF PublishLocal, ReqState, Claimed
    <3>3. t.op = "publish"
      BY <3>1, <2>0 DEF ReqState
    <3>4. Local(p, t, row, cloud')
      BY <3>1, <3>2, <3>3, <2>b
    <3> QED
      BY <2>6, <3>1, <3>4, <2>a, <1>a, <1>b, <1>d, HandlerMove DEF PublishUpdate
  <2>7. CASE PublishStoreUpdate(p)
    <3> DEFINE t == [row[n] EXCEPT !.setup = "stored", !.status = IF IsCloudFront(n) THEN "PROVISIONING" ELSE @]
    <3>1. r.op = "publish" /\ r.at = "updated"
      BY <2>7 DEF PublishStoreUpdate, At
    <3>2. RowOk(n, t)
      <4>1. n \in Node /\ RowOk(n, row[n]) /\ row[n] \in Row
        BY <3>1, <2>a, <2>0 DEF HandlerInv, RowsOk
      <4>2. row[n].status = "RUNNING"
        BY <3>1, <2>a DEF PublishLocal, Claimed
      <4> QED
        BY <4>1, <4>2 DEF RowOk, Row
    <3>3. SetRow(n, t) /\ Becomes(p, NodeDone(p)) /\ UNCHANGED <<sketch, mode, cloud>>
      BY <2>7 DEF PublishStoreUpdate
    <3>4. RowsOk' /\ \A m \in Node \ {n} : row'[m] = row[m]
      BY <3>2, <3>3, RowMove
    <3>5. Local(p, NodeDone(p), row', cloud')
      BY <3>1, <3>4, <2>0, NodeDoneLocal
    <3> QED
      BY <3>1, <3>3, <3>4, <3>5, <2>a, <1>b, <1>d, HandlerMove
  <2>8. CASE PublishUpsert(p)
    <3> DEFINE t == [status |-> "PROVISIONING", ext |-> NoExt, setup |-> "null",
                     managed |-> r.snapMode[n] = "create"]
               u == [r EXCEPT !.at = "create"]
    <3>1. r.op = "publish" /\ r.at = "wait"
      BY <2>8 DEF PublishUpsert, NodeReady, At
    <3>2. n \in Node /\ r.snapMode[n] \in Mode /\ (r.snapMode[n] = "existing" => IsAdoptable(n))
      BY <3>1, <2>a, <2>0 DEF PublishLocal, ReqState
    <3>3. RowOk(n, t)
      BY <3>2 DEF RowOk, Mode
    <3>4. SetRow(n, t) /\ Becomes(p, u) /\ UNCHANGED <<sketch, mode, cloud>>
      BY <2>8 DEF PublishUpsert
    <3>5. RowsOk' /\ (\A m \in Node \ {n} : row'[m] = row[m]) /\ row'[n] = t
      BY <3>2, <3>3, <3>4, RowMove
    <3>7. /\ u.op = "publish" /\ u.at = "create" /\ u.cur = n /\ u.ext = r.ext /\ u.todo = r.todo
          /\ u.snapRow = r.snapRow /\ u.snapNodes = r.snapNodes /\ u.snapMode = r.snapMode
      BY <3>1, <2>0 DEF ReqState
    <3>8. t.status = "PROVISIONING" /\ t.ext = NoExt /\ (t.managed <=> r.snapMode[n] = "create")
      OBVIOUS
    <3>6. PublishLocal(u, row')
      <4> HIDE DEF u, t
      <4> QED
        BY <3>1, <3>2, <3>5, <3>7, <3>8, <2>a DEF PublishLocal, Claimed
    <3> QED
      BY <3>1, <3>4, <3>5, <3>6, <3>7, <2>a, <2>b, <1>b, <1>d, HandlerMove
  <2>9. CASE PublishAdopt(p)
    <3> DEFINE t == [r EXCEPT !.at = "store", !.ext = Foreign]
    <3>1. r.op = "publish" /\ r.at = "create" /\ r.snapMode[n] = "existing"
      BY <2>9 DEF PublishAdopt, At
    <3>2. PublishLocal(t, row)
      BY <3>1, <2>a, <2>0 DEF PublishLocal, ReqState, Claimed, Instance
    <3>3. t.op = "publish"
      BY <3>1, <2>0 DEF ReqState
    <3> QED
      BY <2>9, <3>1, <3>2, <3>3, <2>a, <2>b, <1>a, <1>b, <1>d, HandlerMove DEF PublishAdopt
  <2>10. ASSUME NEW i \in Own, PublishCreate(p, i) PROVE Goal
    <3> DEFINE t == [r EXCEPT !.at = AfterCreate(n), !.ext = i]
    <3>1. r.op = "publish" /\ r.at = "create" /\ r.snapMode[n] = "create"
      BY <2>10 DEF PublishCreate, At
    <3>2. i # Foreign /\ i \in Instance
      BY ServiceAssumption DEF Instance
    <3>3. PublishLocal(t, row)
      BY <3>1, <3>2, <2>a, <2>0 DEF PublishLocal, ReqState, Claimed, AfterCreate
    <3>4. t.op = "publish"
      BY <3>1, <2>0 DEF ReqState
    <3>5. Becomes(p, t) /\ UNCHANGED <<row, mode, sketch>>
      BY <2>10 DEF PublishCreate
    <3>6. Local(p, t, row, cloud')
      BY <3>1, <3>3, <3>4, <2>b
    <3> QED
      BY <3>1, <3>5, <3>6, <2>a, <1>a, <1>b, <1>d, HandlerMove
  <2>11. CASE PublishCheckpoint(p)
    <3> DEFINE t == [row[n] EXCEPT !.ext = r.ext, !.setup = "incomplete"]
               u == [r EXCEPT !.at = "setup"]
    <3>1. r.op = "publish" /\ r.at = "checkpoint"
      BY <2>11 DEF PublishCheckpoint, At
    <3>2. n \in Node /\ RowOk(n, row[n]) /\ row[n] \in Row
      BY <3>1, <2>a, <2>0 DEF HandlerInv, RowsOk
    <3>3. /\ r.ext \in Own /\ r.snapMode[n] = "create" /\ Service[n] \in Checkpointing
          /\ row[n].managed /\ row[n].status = "PROVISIONING"
      BY <3>1, <2>a DEF PublishLocal, Claimed
    <3>4. RowOk(n, t)
      BY <3>2, <3>3, ServiceAssumption DEF RowOk, Row
    <3>5. SetRow(n, t) /\ Becomes(p, u) /\ UNCHANGED <<sketch, mode, cloud>>
      BY <2>11 DEF PublishCheckpoint
    <3>6. RowsOk' /\ (\A m \in Node \ {n} : row'[m] = row[m]) /\ row'[n] = t
      BY <3>2, <3>4, <3>5, RowMove
    <3>7. t.status = "PROVISIONING" /\ t.ext = r.ext /\ t.managed
      BY <3>2, <3>3 DEF Row
    <3>9. /\ u.op = "publish" /\ u.at = "setup" /\ u.cur = n /\ u.ext = r.ext /\ u.todo = r.todo
          /\ u.snapRow = r.snapRow /\ u.snapNodes = r.snapNodes /\ u.snapMode = r.snapMode
      BY <3>1, <2>0 DEF ReqState
    <3>8. PublishLocal(u, row')
      <4> HIDE DEF u, t
      <4> QED
        BY <3>1, <3>2, <3>3, <3>6, <3>7, <3>9, <2>a DEF PublishLocal, Claimed, MultiStep
    <3> QED
      BY <3>1, <3>5, <3>6, <3>8, <3>9, <2>a, <2>b, <1>b, <1>d, HandlerMove
  <2>12. CASE PublishSetup(p)
    <3> DEFINE t == [r EXCEPT !.at = "store"]
    <3>1. r.op = "publish" /\ r.at = "setup"
      BY <2>12 DEF PublishSetup, At
    <3>2. r.ext \in Instance /\ r.ext # Foreign
      BY <3>1, <2>a, ServiceAssumption DEF PublishLocal, Instance
    <3>3. PublishLocal(t, row)
      BY <3>1, <3>2, <2>a, <2>0 DEF PublishLocal, ReqState, Claimed
    <3>4. t.op = "publish"
      BY <3>1, <2>0 DEF ReqState
    <3> QED
      BY <2>12, <3>1, <3>3, <3>4, <2>a, <2>b, <1>a, <1>b, <1>d, HandlerMove DEF PublishSetup
  <2>13. CASE PublishAwsError(p)
    <3> DEFINE t == [r EXCEPT !.at = "fail", !.ext = NoExt]
    <3>1. r.op = "publish" /\ r.at \in {"create", "setup"}
      BY <2>13 DEF PublishAwsError, At
    <3>2. PublishLocal(t, row)
      BY <3>1, <2>a, <2>0 DEF PublishLocal, ReqState, Claimed
    <3>3. t.op = "publish"
      BY <3>1, <2>0 DEF ReqState
    <3> QED
      BY <2>13, <3>1, <3>2, <3>3, <2>a, <2>b, <1>a, <1>b, <1>d, HandlerMove DEF PublishAwsError
  <2>14. CASE PublishStore(p)
    <3> DEFINE t == [row[n] EXCEPT !.ext = r.ext, !.setup = "stored",
                                   !.status = IF IsCloudFront(n) THEN "PROVISIONING" ELSE "RUNNING"]
               u == [NodeDone(p) EXCEPT !.used[n] = r.ext]
    <3>1. r.op = "publish" /\ r.at = "store"
      BY <2>14 DEF PublishStore, At
    <3>2. n \in Node /\ RowOk(n, row[n]) /\ row[n] \in Row /\ r.snapMode[n] \in Mode
      BY <3>1, <2>a, <2>0 DEF HandlerInv, RowsOk, ReqState
    <3>3. /\ r.ext \in Instance /\ row[n].status = "PROVISIONING"
          /\ r.ext = Foreign <=> ~row[n].managed
      BY <3>1, <3>2, <2>a DEF PublishLocal, Claimed, Mode
    <3>4. RowOk(n, t)
      BY <3>2, <3>3, ServiceAssumption DEF RowOk, Row, Instance
    <3>5. SetRow(n, t) /\ Becomes(p, u) /\ UNCHANGED <<sketch, mode, cloud>>
      BY <2>14 DEF PublishStore
    <3>6. RowsOk' /\ \A m \in Node \ {n} : row'[m] = row[m]
      BY <3>4, <3>5, RowMove
    <3>7. Local(p, u, row', cloud')
      <4>1. ASSUME NEW v PROVE Local(p, [NodeDone(p) EXCEPT !.used = v], row', cloud')
        BY <3>1, <3>6, <2>0, NodeDoneLocal
      <4> QED
        BY <4>1 DEF NodeDone
    <3> QED
      BY <3>1, <3>5, <3>6, <3>7, <2>a, <1>b, <1>d, HandlerMove
  <2>15. CASE PublishFail(p)
    <3> DEFINE t == [row[n] EXCEPT !.status = "FAILED"]
    <3>1. r.op = "publish" /\ r.at = "fail"
      BY <2>15 DEF PublishFail, At
    <3>2. n \in Node /\ RowOk(n, row[n]) /\ row[n] \in Row /\ row[n].status = "PROVISIONING"
      BY <3>1, <2>a, <2>0 DEF HandlerInv, RowsOk, PublishLocal, Claimed
    <3>3. RowOk(n, t)
      BY <3>2 DEF RowOk, Row
    <3>4. SetRow(n, t) /\ Becomes(p, Idle) /\ UNCHANGED <<sketch, mode, cloud>>
      BY <2>15 DEF PublishFail, Finish
    <3> QED
      BY <3>1, <3>3, <3>4, <2>a, RowMove, IdleLocal, <1>b, <1>d, HandlerMove
  <2>16. CASE PublishDone(p)
    <3>1. r.op = "publish" /\ sketch # "DELETED" /\ sketch' = "ACTIVE" /\ Becomes(p, Idle)
          /\ UNCHANGED <<row, mode, cloud>>
      BY <2>16 DEF PublishDone, Finish, At
    <3> QED
      BY <3>1, <2>a, IdleLocal, <1>a, <1>b, <1>d, HandlerMove
  <2> QED
    BY <1>1, <2>1, <2>2, <2>3, <2>4, <2>5, <2>6, <2>7, <2>8, <2>9, <2>10, <2>11, <2>12, <2>13,
       <2>14, <2>15, <2>16 DEF Publish
<1>2. ASSUME NEW p \in Request, Delete(p) PROVE Goal
  <2> DEFINE r == req[p]
             n == req[p].cur
  <2>0. r \in ReqState /\ row \in [Node -> Row] /\ Local(p, r, row, cloud)
    BY <1>0 DEF TypeOK, HandlerInv, LocalsOk
  <2>a. ASSUME r.op \in DeleteOp
        PROVE  /\ DeleteLocal(r, row, cloud) /\ r.op \in Ops[p] /\ sketch # "DELETED"
               /\ Ops[p] \cap ResourceOp # {}
               /\ r.todo \subseteq Node
               /\ r.at # "pick" => n \in Node /\ RowOk(n, row[n]) /\ row[n] \in Row
    BY <2>a, DeleteFacts
  <2>b. ASSUME NEW t, t.op \in DeleteOp, t.op \in Ops[p], NEW rows, NEW aws, DeleteLocal(t, rows, aws)
        PROVE  Local(p, t, rows, aws)
    BY <2>b DEF Local, DeleteOp, ResourceOp
  <2>c. ASSUME NEW op \in DeleteOp, NEW todo \in SUBSET Node, \A m \in todo : Exists(m),
               op # "deleteResource" => todo = {m \in Node : Exists(m)},
               Begin(p, op), Becomes(p, Snapshot(op, "pick", todo)), UNCHANGED <<dbVars, cloud>>
        PROVE  Goal
    <3> DEFINE t == Snapshot(op, "pick", todo)
    <3>1. t.op = op /\ t.at = "pick" /\ t.todo = todo /\ t.snapRow = row /\ t.cur = NoNode /\ t.ext = NoExt
      BY DEF Snapshot, Idle
    <3>2. DeleteLocal(t, row, cloud)
      <4> HIDE DEF t
      <4> QED
        BY <2>c, <3>1 DEF DeleteLocal, Marked, Exists
    <3>3. op \in Ops[p] /\ sketch # "DELETED"
      BY <2>c DEF Begin
    <3>4. Ops[p] \cap ResourceOp # {}
      BY <3>3 DEF ResourceOp
    <3> QED
      BY <2>c, <3>1, <3>2, <3>3, <3>4, <2>b, <1>a, <1>b, <1>d, HandlerMove
  <2>1. ASSUME NEW m \in Node, DeleteResourceStart(p, m) PROVE Goal
    BY <2>1, <2>c DEF DeleteResourceStart, DeleteOp
  <2>2. ASSUME NEW op \in DeleteOp, DeleteSketchStart(p, op) PROVE Goal
    BY <2>2, <2>c DEF DeleteSketchStart
  <2>3. ASSUME NEW m \in Node, DeletePick(p, m) PROVE Goal
    <3> DEFINE t == [r EXCEPT !.todo = @ \ {m}]
               u == [r EXCEPT !.cur = m, !.at = IF InAws(r.snapRow[m]) THEN "mark" ELSE "detach"]
    <3>1. r.op \in DeleteOp /\ r.at = "pick" /\ m \in r.todo
      BY <2>3 DEF DeletePick, At
    <3>2. t.op = r.op /\ u.op = r.op
      BY <2>0 DEF ReqState
    <3>3. r.snapRow[m].status = "TERMINATED" => DeleteLocal(t, row, cloud)
      BY <3>1, <2>a, <2>0 DEF DeleteLocal, ReqState, Marked
    <3>4. r.snapRow[m].status # "TERMINATED" => DeleteLocal(u, row, cloud)
      BY <3>1, <2>a, <2>0 DEF DeleteLocal, ReqState, Marked
    <3>5. Becomes(p, IF r.snapRow[m].status = "TERMINATED" THEN t ELSE u) /\ UNCHANGED <<dbVars, cloud>>
      BY <2>3 DEF DeletePick
    <3> QED
      BY <3>1, <3>2, <3>3, <3>4, <3>5, <2>a, <2>b, <1>a, <1>b, <1>d, HandlerMove
  <2>4. CASE DeleteDetach(p)
    <3> DEFINE t == [row[n] EXCEPT !.status = "TERMINATED"]
    <3>1. r.op \in DeleteOp /\ r.at = "detach"
      BY <2>4 DEF DeleteDetach, Deleting
    <3>2. n \in Node /\ RowOk(n, t) /\ t.status = "TERMINATED"
      BY <3>1, <2>a, <2>4 DEF RowOk, Row, DeleteDetach, Exists
    <3>3. SetRow(n, t) /\ Becomes(p, ResourceDone(p)) /\ UNCHANGED <<sketch, mode, cloud>>
      BY <2>4 DEF DeleteDetach
    <3>4. RowsOk' /\ (\A m \in Node \ {n} : row'[m] = row[m]) /\ row'[n] = t
      BY <3>2, <3>3, RowMove
    <3>5. Local(p, ResourceDone(p), row', cloud')
      BY <3>1, <3>2, <3>4, <2>0, ResourceDoneLocal
    <3> QED
      BY <3>1, <3>3, <3>4, <3>5, <2>a, <1>b, <1>d, HandlerMove
  <2>5. CASE DeleteMark(p)
    <3> DEFINE t == [row[n] EXCEPT !.status = "DELETING"]
               u == [r EXCEPT !.at = "delete"]
    <3>1. r.op \in DeleteOp /\ r.at = "mark"
      BY <2>5 DEF DeleteMark, Deleting
    <3>2. n \in Node /\ RowOk(n, t) /\ t.status = "DELETING" /\ t.ext = row[n].ext /\ t.managed = row[n].managed
      BY <3>1, <2>a, <2>5 DEF RowOk, Row, DeleteMark, Exists
    <3>3. SetRow(n, t) /\ Becomes(p, u) /\ UNCHANGED <<sketch, mode, cloud>>
      BY <2>5 DEF DeleteMark
    <3>4. RowsOk' /\ (\A m \in Node \ {n} : row'[m] = row[m]) /\ row'[n] = t
      BY <3>2, <3>3, RowMove
    <3>6. /\ u.op = r.op /\ u.at = "delete" /\ u.cur = n /\ u.ext = r.ext /\ u.todo = r.todo
          /\ u.snapRow = r.snapRow
      BY <2>0 DEF ReqState
    <3>5. DeleteLocal(u, row', cloud')
      <4> HIDE DEF u, t
      <4> QED
        BY <3>1, <3>2, <3>4, <3>6, <2>a DEF DeleteLocal, Marked, InAws
    <3> QED
      BY <3>1, <3>3, <3>4, <3>5, <3>6, <2>a, <2>b, <1>b, <1>d, HandlerMove
  <2>6. CASE DeleteCall(p)
    <3> DEFINE i == r.snapRow[n].ext
               u == [r EXCEPT !.at = IF DeletePending(n, cloud[n][i]) THEN "pending"
                                     ELSE IF DeleteFinds(n, cloud[n][i]) THEN "deleted" ELSE "missing"]
    <3>1. r.op \in DeleteOp /\ r.at = "delete"
      BY <2>6 DEF DeleteCall, Deleting
    <3>2. n \in Node /\ i \in Instance
      BY <3>1, <2>a, <2>0 DEF DeleteLocal, InAws, ReqState, Row, Ext, Marked
    <3>3. cloud' = [cloud EXCEPT ![n][i] = AfterDelete(n, @)] /\ Becomes(p, u) /\ UNCHANGED <<row, mode, sketch>>
      BY <2>6 DEF DeleteCall
    <3>4. cloud'[n][i] = AfterDelete(n, cloud[n][i]) /\ cloud[n][i] \in CloudState
      <4>1. cloud \in [Node -> [Instance -> CloudState]]
        BY <1>0 DEF TypeOK
      <4> HIDE DEF i, n
      <4> QED
        BY <3>2, <3>3, <4>1
    <3>5. ~DeletePending(n, cloud[n][i]) => cloud'[n][i] \notin Live
      BY <3>4 DEF DeletePending, AfterDelete, Live, CloudState
    <3>6. DeletePending(n, cloud[n][i]) => IsCloudFront(n)
      BY DEF DeletePending
    <3>7. DeleteLocal(u, row, cloud')
      BY <3>1, <3>5, <3>6, <2>a, <2>0 DEF DeleteLocal, ReqState, Marked
    <3>8. u.op = r.op
      BY <2>0 DEF ReqState
    <3> QED
      BY <3>1, <3>3, <3>7, <3>8, <2>a, <2>b, <1>a, <1>b, <1>d, HandlerMove
  <2>7. CASE DeleteError(p)
    <3> DEFINE u == [r EXCEPT !.at = "refused"]
    <3>1. r.op \in DeleteOp /\ r.at = "delete"
      BY <2>7 DEF DeleteError, Deleting
    <3>2. DeleteLocal(u, row, cloud)
      BY <3>1, <2>a, <2>0 DEF DeleteLocal, ReqState, Marked
    <3>3. u.op = r.op
      BY <2>0 DEF ReqState
    <3>4. Becomes(p, u) /\ UNCHANGED <<dbVars, cloud>>
      BY <2>7 DEF DeleteError
    <3> QED
      BY <3>1, <3>2, <3>3, <3>4, <2>a, <2>b, <1>a, <1>b, <1>d, HandlerMove
  <2>8. CASE DeleteRecord(p)
    <3> DEFINE t == [row[n] EXCEPT !.status = "TERMINATED", !.setup = IF r.at = "deleted" THEN "stored" ELSE @]
    <3>1. r.op \in DeleteOp /\ r.at \in {"deleted", "missing"}
      BY <2>8 DEF DeleteRecord, Deleting
    <3>2. n \in Node /\ RowOk(n, t) /\ t.status = "TERMINATED"
      BY <3>1, <2>a, <2>8 DEF RowOk, Row, DeleteRecord, Exists
    <3>3. SetRow(n, t) /\ Becomes(p, ResourceDone(p)) /\ UNCHANGED <<sketch, mode, cloud>>
      BY <2>8 DEF DeleteRecord
    <3>4. RowsOk' /\ (\A m \in Node \ {n} : row'[m] = row[m]) /\ row'[n] = t
      BY <3>2, <3>3, RowMove
    <3>5. Local(p, ResourceDone(p), row', cloud')
      BY <3>1, <3>2, <3>4, <2>0, ResourceDoneLocal
    <3> QED
      BY <3>1, <3>3, <3>4, <3>5, <2>a, <1>b, <1>d, HandlerMove
  <2>9. CASE DeletePause(p) \/ DeleteResourceDone(p)
    BY <2>9, <1>b, <1>c DEF DeletePause, DeleteResourceDone
  <2>10. CASE DeleteFail(p)
    <3> DEFINE t == [row[n] EXCEPT !.status = "FAILED"]
    <3>1. r.op \in DeleteOp /\ r.at = "refused"
      BY <2>10 DEF DeleteFail, Deleting
    <3>2. RowOk(n, t)
      BY <3>1, <2>a, <2>10 DEF RowOk, Row, DeleteFail, Exists
    <3>3. SetRow(n, t) /\ Becomes(p, Idle) /\ UNCHANGED <<sketch, mode, cloud>>
      BY <2>10 DEF DeleteFail, Finish
    <3> QED
      BY <3>1, <3>2, <3>3, <2>a, RowMove, IdleLocal, <1>b, <1>d, HandlerMove
  <2>11. CASE DeleteAllDone(p)
    <3>1. r.op \in DeleteOp /\ sketch # "DELETED" /\ sketch' = "DRAFT" /\ Becomes(p, Idle)
          /\ UNCHANGED <<row, mode, cloud>>
      BY <2>11 DEF DeleteAllDone, Finish, At, DeleteOp
    <3> QED
      BY <3>1, <2>a, IdleLocal, <1>a, <1>b, <1>d, HandlerMove
  <2>12. CASE DeleteSketchDone(p)
    <3>1. r.op \in DeleteOp /\ Becomes(p, Idle) /\ row' = [m \in Node |-> NoRow] /\ mode' = mode
      BY <2>12 DEF DeleteSketchDone, Finish, At, DeleteOp
    <3>2. RowsOk'
      BY <3>1 DEF RowsOk, RowOk, NoRow
    <3>3. ASSUME NEW q \in Request PROVE req'[q].op \notin ResourceOp
      <4>1. req'[q] = IF q = p THEN Idle ELSE req[q]
        BY <3>1, <1>0 DEF Becomes, TypeOK
      <4>2. Idle.op \notin ResourceOp
        BY DEF Idle, ResourceOp, DeleteOp
      <4> QED
        BY <4>1, <4>2, <3>1, <2>a, OthersLocal
    <3>4. SketchOk'
      BY <3>3 DEF SketchOk
    <3> QED
      BY <3>1, <3>2, <3>4, <2>a, IdleLocal, <1>b, HandlerMove
  <2> QED
    BY <1>2, <2>1, <2>2, <2>3, <2>4, <2>5, <2>6, <2>7, <2>8, <2>9, <2>10, <2>11, <2>12 DEF Delete
<1>3. ASSUME NEW p \in Request, Refresh(p) PROVE Goal
  <2> DEFINE r == req[p]
  <2>0. r \in ReqState /\ row \in [Node -> Row] /\ Local(p, r, row, cloud)
    BY <1>0 DEF TypeOK, HandlerInv, LocalsOk
  <2>a. ASSUME r.op = "refresh"
        PROVE  /\ RefreshLocal(r, row, cloud) /\ r.op \in Ops[p] /\ sketch # "DELETED"
               /\ Ops[p] \cap ResourceOp # {}
    BY <2>a, RefreshFacts
  <2>b. ASSUME NEW t, t.op = "refresh", t.op \in Ops[p], NEW rows, NEW aws, RefreshLocal(t, rows, aws)
        PROVE  Local(p, t, rows, aws)
    BY <2>b DEF Local, DeleteOp, ResourceOp
  <2>c. ASSUME NEW n \in Node, r.op = "refresh", NEW rows, \A m \in Node \ {n} : rows[m] = row[m],
               NEW aws, \A m \in Node \ {n} : aws[m] = cloud[m]
        PROVE  Local(p, Dropped(p, n), rows, aws)
    <3>1. Dropped(p, n).op = "refresh"
      BY <2>0, <2>c DEF Dropped, ReqState
    <3>2. RefreshLocal(Dropped(p, n), rows, aws)
      BY <2>0, <2>a, <2>c DEF RefreshLocal, Dropped, ReqState
    <3> QED
      BY <3>1, <3>2, <2>a, <2>b, <2>c
  <2>1. CASE RefreshStart(p)
    <3> DEFINE t == Snapshot("refresh", "reading", {m \in Node : row[m].status \notin {"NONE", "TERMINATED"}})
    <3>1. t.op = "refresh" /\ RefreshLocal(t, row, cloud)
      BY DEF RefreshLocal, Snapshot, Idle
    <3>2. "refresh" \in Ops[p] /\ sketch # "DELETED"
      BY <2>1 DEF RefreshStart, Begin
    <3>3. Ops[p] \cap ResourceOp # {}
      BY <3>2 DEF ResourceOp
    <3> QED
      BY <2>1, <3>1, <3>2, <3>3, <2>b, <1>a, <1>b, <1>d, HandlerMove DEF RefreshStart
  <2>2. ASSUME NEW n \in Node, RefreshSkip(p, n) \/ RefreshError(p, n) PROVE Goal
    <3>1. r.op = "refresh" /\ Becomes(p, Dropped(p, n)) /\ UNCHANGED <<dbVars, cloud>>
      BY <2>2 DEF RefreshSkip, RefreshError, MayRead, Unread, At
    <3> QED
      BY <3>1, <2>a, <2>c, <1>a, <1>b, <1>d, HandlerMove
  <2>3. ASSUME NEW n \in Node, RefreshRead(p, n) PROVE Goal
    <3> DEFINE i == r.snapRow[n].ext
               t == [r EXCEPT !.seen[n] = Observed(n, cloud[n][i])]
    <3>1. /\ r.op = "refresh" /\ n \in r.todo /\ ~RefreshSkips(n, r.snapRow[n]) /\ r.snapRow[n].status # "DELETING"
          /\ Becomes(p, t) /\ UNCHANGED <<dbVars, cloud>>
      BY <2>3 DEF RefreshRead, MayRead, Unread, At, RetriesDelete
    <3>2. i \in Instance
      BY <3>1, <2>0 DEF RefreshSkips, ReqState, Row, Ext
    <3>3. cloud[n][i] \in CloudState
      BY <3>2, <1>0 DEF TypeOK
    <3>4. Observed(n, cloud[n][i]) \in {"MISSING", "RUNNING", "PROVISIONING", "DELETING"}
      BY DEF Observed
    <3>5. Observed(n, cloud[n][i]) = "MISSING" /\ Found(n) => cloud[n][i] \notin Live
      <4>1. cloud[n][i] = "creating" => Service[n] \in SlowStart \/ n \in Lagging
        BY <3>2 DEF HandlerInv, CloudOk
      <4> QED
        BY <3>3, <4>1 DEF Observed, Found, Live
    <3>6. /\ t.op = r.op /\ t.at = r.at /\ t.cur = r.cur /\ t.ext = r.ext /\ t.todo = r.todo /\ t.snapRow = r.snapRow
          /\ t.seen[n] = Observed(n, cloud[n][i])
          /\ \A m \in Node \ {n} : t.seen[m] = r.seen[m]
      BY <2>0 DEF ReqState
    <3>7. RefreshLocal(t, row, cloud)
      <4> HIDE DEF t
      <4> QED
        BY <3>1, <3>4, <3>5, <3>6, <2>a DEF RefreshLocal
    <3> QED
      BY <3>1, <3>6, <3>7, <2>a, <2>b, <1>a, <1>b, <1>d, HandlerMove
  <2>4. ASSUME NEW n \in Node, RefreshDelete(p, n) PROVE Goal
    <3> DEFINE i == r.snapRow[n].ext
               t == [r EXCEPT !.seen[n] = "MISSING"]
    <3>1. /\ r.op = "refresh" /\ n \in r.todo /\ ~RefreshSkips(n, r.snapRow[n]) /\ r.snapRow[n].status = "DELETING"
          /\ UNCHANGED dbVars /\ cloud' = [cloud EXCEPT ![n][i] = AfterDelete(n, @)]
      BY <2>4 DEF RefreshDelete, MayRead, Unread, At, RetriesDelete
    <3>2. i \in Instance /\ IsCloudFront(n)
      BY <3>1, <2>0 DEF RefreshSkips, ReqState, Row, Ext
    <3>3. /\ cloud[n][i] \in CloudState /\ cloud'[n][i] = AfterDelete(n, cloud[n][i])
          /\ \A m \in Node \ {n} : cloud'[m] = cloud[m]
      BY <3>1, <3>2, <1>0 DEF TypeOK
    <3>4. Local(p, Dropped(p, n), row, cloud')
      BY <3>1, <3>3, <2>c
    <3>5. ASSUME ~DeletePending(n, cloud[n][i]) PROVE Local(p, t, row, cloud')
      <4>1. cloud'[n][i] \notin Live
        BY <3>2, <3>3, <3>5 DEF DeletePending, AfterDelete, Live, CloudState
      <4>2. RefreshLocal(t, row, cloud')
        BY <3>1, <3>3, <4>1, <2>0, <2>a DEF RefreshLocal, ReqState
      <4>3. t.op = "refresh"
        BY <3>1, <2>0 DEF ReqState
      <4> QED
        BY <3>1, <4>2, <4>3, <2>a, <2>b
    <3>6. Becomes(p, IF DeletePending(n, cloud[n][i]) THEN Dropped(p, n) ELSE t)
      BY <2>4 DEF RefreshDelete
    <3> QED
      BY <3>1, <3>4, <3>5, <3>6, <2>a, <1>a, <1>b, <1>d, HandlerMove
  <2>5. ASSUME NEW n \in Node, RefreshWrite(p, n) PROVE Goal
    <3> DEFINE t == Refreshed(row[n], r.seen[n])
    <3>1. /\ r.op = "refresh" /\ r.seen[n] # "unread"
          /\ SetRow(n, t) /\ Becomes(p, Dropped(p, n)) /\ UNCHANGED <<mode, sketch, cloud>>
      BY <2>5 DEF RefreshWrite, At
    <3>2. /\ n \in r.todo /\ row[n] = r.snapRow[n] /\ row[n].status # "NONE"
          /\ row[n].ext # NoExt /\ RowOk(n, row[n]) /\ row[n] \in Row
          /\ r.seen[n] \in {"MISSING", "RUNNING", "PROVISIONING", "DELETING"}
      BY <3>1, <2>0, <2>a DEF RefreshLocal, RefreshSkips, HandlerInv, RowsOk
    <3>3. RowOk(n, t)
      BY <3>2 DEF RowOk, Row, Refreshed
    <3>4. RowsOk' /\ \A m \in Node \ {n} : row'[m] = row[m]
      BY <3>1, <3>3, RowMove
    <3>5. Local(p, Dropped(p, n), row', cloud')
      BY <3>1, <3>4, <2>c
    <3> QED
      BY <3>1, <3>4, <3>5, <2>a, <1>b, <1>d, HandlerMove
  <2>6. CASE RefreshDone(p)
    BY <2>6, <1>b, <1>c DEF RefreshDone
  <2> QED
    BY <1>3, <2>1, <2>2, <2>3, <2>4, <2>5, <2>6 DEF Refresh, RefreshStep
<1>4. ASSUME NEW p \in Request, Edit(p) PROVE Goal
  <2>a. ASSUME NEW op \in {"deleteNode", "updateNode", "replaceGraph"}, NEW n, EditStart(p, op, n) PROVE Goal
    <3> DEFINE t == [Idle EXCEPT !.op = op, !.at = "edit", !.cur = n]
    <3>1. t.op = op /\ t.ext = NoExt
      BY DEF Idle
    <3>2. op \in Ops[p] /\ Becomes(p, t) /\ UNCHANGED <<dbVars, cloud>>
      BY <2>a DEF EditStart, Begin
    <3>3. op \notin ResourceOp
      BY DEF ResourceOp, DeleteOp
    <3> QED
      BY <3>1, <3>2, <3>3, <1>b, EditMove
  <2>1. ASSUME NEW n \in Node, CreateNode(p, n) PROVE Goal
    BY <2>1, <1>a, <1>b DEF CreateNode, HandlerInv, LocalsOk, SketchOk
  <2>2. ASSUME NEW n \in Node, DeleteNodeStart(p, n) \/ UpdateNodeStart(p, n) PROVE Goal
    BY <2>2, <2>a DEF DeleteNodeStart, UpdateNodeStart
  <2>3. CASE ReplaceGraphStart(p)
    BY <2>3, <2>a DEF ReplaceGraphStart
  <2>4. CASE DeleteNode(p)
    BY <2>4, <1>b, <1>c DEF DeleteNode
  <2>5. ASSUME NEW m \in Mode, UpdateNode(p, m) PROVE Goal
    <3>1. Finish(p) /\ UNCHANGED <<row, cloud, sketch>>
      BY <2>5 DEF UpdateNode
    <3>2. ModesOk'
      BY <2>5, <1>0 DEF UpdateNode, HandlerInv, ModesOk, TypeOK
    <3> QED
      BY <3>1, <3>2, <1>c
  <2>6. ASSUME NEW fresh \in SUBSET Node, ReplaceGraph(p, fresh) PROVE Goal
    BY <2>6, <1>b, <1>c DEF ReplaceGraph
  <2> QED
    BY <1>4, <2>1, <2>2, <2>3, <2>4, <2>5, <2>6 DEF Edit
<1>5. ASSUME NEW p \in Request, Orphaned(p) PROVE Goal
  BY <1>5, <1>b, <1>c DEF Orphaned
<1>6. ASSUME Restart PROVE Goal
  <2>1. LocalsOk'
    BY <1>6, IdleLocal DEF Restart, LocalsOk
  <2>2. SketchOk'
    BY <1>6 DEF Restart, SketchOk, Idle, ResourceOp, DeleteOp
  <2> QED
    BY <1>6, <2>1, <2>2, <1>a, <1>b DEF Restart
<1>7. ASSUME Aws PROVE Goal
  <2>1. NothingRevived /\ UNCHANGED <<row, req, mode, sketch>>
    BY <1>0, <1>7, AwsStep DEF Aws, Settle, Drift
  <2> QED
    BY <2>1, AwsMove, <1>a, <1>b DEF HandlerInv, SketchOk
<1>8. ASSUME UNCHANGED vars PROVE Goal
  BY <1>8, <1>a, <1>b DEF vars, HandlerInv, LocalsOk, SketchOk
<1>9. Goal
  <2> HIDE DEF Goal
  <2> QED
    BY <1>1, <1>2, <1>3, <1>4, <1>5, <1>6, <1>7, <1>8 DEF Next
<1> QED
  BY <1>0, <1>9, CloudStep DEF HandlerInv

-----------------------------------------------------------------------------
(* What the working handler does, with the snapshot it decided from replaced *)
(* by the rows and instances it finds.                                       *)

\* The step by which p makes the row t of the row o of n.
RowStep(p, n, o, t) ==
    \/ /\ PublishStoreUpdate(p) /\ o.status = "RUNNING"
       /\ t.status = (IF IsCloudFront(n) THEN "PROVISIONING" ELSE "RUNNING")
       /\ t.ext = o.ext /\ t.managed = o.managed
    \/ /\ PublishUpsert(p) /\ o.status \in {"NONE", "TERMINATED", "FAILED"}
       /\ o.status = "FAILED" => o.ext = NoExt
       /\ t.status = "PROVISIONING" /\ t.ext = NoExt
    \/ /\ PublishCheckpoint(p) /\ o.status = "PROVISIONING" /\ o.ext = NoExt
       /\ t.status = "PROVISIONING" /\ t.ext = req[p].ext /\ t.ext \in Own /\ t.managed = o.managed
    \/ /\ PublishStore(p) /\ o.status = "PROVISIONING" /\ o.ext \in {NoExt, req[p].ext}
       /\ t.status = (IF IsCloudFront(n) THEN "PROVISIONING" ELSE "RUNNING")
       /\ t.ext = req[p].ext /\ t.ext \in Instance /\ t.managed = o.managed
    \/ /\ PublishFail(p) /\ o.status = "PROVISIONING"
       /\ t.status = "FAILED" /\ t.ext = o.ext /\ t.managed = o.managed
    \/ /\ DeleteDetach(p) /\ ~InAws(o)
       /\ t.status = "TERMINATED" /\ t.ext = o.ext /\ t.managed = o.managed
    \/ /\ DeleteMark(p) /\ InAws(o) /\ o.status \notin {"NONE", "TERMINATED"}
       /\ t.status = "DELETING" /\ t.ext = o.ext /\ t.managed = o.managed
    \/ /\ DeleteRecord(p) /\ o.status = "DELETING" /\ InAws(o) /\ cloud[n][o.ext] \notin Live
       /\ t.status = "TERMINATED" /\ t.ext = o.ext /\ t.managed = o.managed
    \/ /\ DeleteFail(p) /\ o.status = "DELETING"
       /\ t.status = "FAILED" /\ t.ext = o.ext /\ t.managed = o.managed
    \/ /\ RefreshWrite(p, n) /\ ~RefreshSkips(n, o) /\ o.status \notin {"NONE", "TERMINATED"}
       /\ t.ext = o.ext /\ t.managed = o.managed
       /\ \/ req[p].seen[n] = "MISSING" /\ t.status = "TERMINATED"
             /\ (Found(n) => cloud[n][o.ext] \notin Live)
          \/ req[p].seen[n] = t.status /\ t.status \in {"RUNNING", "PROVISIONING", "DELETING"}
             /\ o.status # "DELETING"

\* Every change of a row is one of the steps of that table.
LEMMA RowSteps ==
    ASSUME HandlerInv, NEW p \in Request, WritesRow(p)
    PROVE  \/ /\ DeleteSketchDone(p)
              /\ \A n \in Node : row[n].status \in {"NONE", "TERMINATED"} /\ row'[n] = NoRow
           \/ \E n \in Node : /\ n = req[p].cur \/ RefreshWrite(p, n)
                              /\ \A m \in Node \ {n} : row'[m] = row[m]
                              /\ RowStep(p, n, row[n], row'[n])
<1> DEFINE r == req[p]
           c == r.cur
           o == row[c]
           t == row'[c]
           Goal == \E n \in Node : /\ n = c \/ RefreshWrite(p, n)
                                   /\ \A m \in Node \ {n} : row'[m] = row[m]
                                   /\ RowStep(p, n, row[n], row'[n])
<1>0. row \in [Node -> Row]
  BY DEF HandlerInv, TypeOK
<1>a. ASSUME NEW s, SetRow(c, s), c \in Node PROVE t = s /\ (\A m \in Node \ {c} : row'[m] = row[m])
  BY <1>0, <1>a DEF SetRow
<1>b. ASSUME c \in Node, \A m \in Node \ {c} : row'[m] = row[m], RowStep(p, c, o, t) PROVE Goal
  BY <1>b
<1>p. ASSUME r.op = "publish", r.at # "next"
      PROVE  c \in Node /\ PublishLocal(r, row) /\ r \in ReqState /\ o \in Row
  BY <1>0, <1>p, PublishFacts
<1>d. ASSUME r.op \in DeleteOp, r.at # "pick"
      PROVE  c \in Node /\ DeleteLocal(r, row, cloud) /\ r \in ReqState /\ o \in Row
  BY <1>d, DeleteFacts
<1>1. ASSUME PublishStoreUpdate(p) PROVE Goal
  <2>1. r.op = "publish" /\ r.at = "updated"
    BY <1>1 DEF PublishStoreUpdate, At
  <2>2. o.status = "RUNNING" /\ c \in Node /\ o \in Row
    BY <2>1, <1>p DEF PublishLocal, Claimed
  <2>3. /\ t = [o EXCEPT !.setup = "stored", !.status = IF IsCloudFront(c) THEN "PROVISIONING" ELSE @]
        /\ \A m \in Node \ {c} : row'[m] = row[m]
    BY <1>1, <2>2, <1>a DEF PublishStoreUpdate
  <2>4. RowStep(p, c, o, t)
    BY <1>1, <2>2, <2>3 DEF RowStep, Row
  <2> QED
    BY <2>2, <2>3, <2>4, <1>b
<1>2. ASSUME PublishUpsert(p) PROVE Goal
  <2>1. r.op = "publish" /\ r.at = "wait" /\ r.snapRow[c].status # "RUNNING"
    BY <1>2 DEF PublishUpsert, NodeReady, At, WasRunning
  <2>2. c \in Node /\ o \in Row /\ o = r.snapRow[c] /\ o.status \notin {"RUNNING", "PROVISIONING", "DELETING"}
        /\ (o.status = "FAILED" => o.ext = NoExt)
    BY <2>1, <1>p DEF PublishLocal, Claimed
  <2>3. /\ t = [status |-> "PROVISIONING", ext |-> NoExt, setup |-> "null", managed |-> r.snapMode[c] = "create"]
        /\ \A m \in Node \ {c} : row'[m] = row[m]
    BY <1>2, <2>2, <1>a DEF PublishUpsert
  <2>4. RowStep(p, c, o, t)
    BY <1>2, <2>2, <2>3 DEF RowStep, Row, Status
  <2> QED
    BY <2>2, <2>3, <2>4, <1>b
<1>3. ASSUME PublishCheckpoint(p) PROVE Goal
  <2>1. r.op = "publish" /\ r.at = "checkpoint"
    BY <1>3 DEF PublishCheckpoint, At
  <2>2. c \in Node /\ o \in Row /\ o.status = "PROVISIONING" /\ o.ext = NoExt /\ r.ext \in Own
    BY <2>1, <1>p DEF PublishLocal, Claimed
  <2>3. t = [o EXCEPT !.ext = r.ext, !.setup = "incomplete"] /\ \A m \in Node \ {c} : row'[m] = row[m]
    BY <1>3, <2>2, <1>a DEF PublishCheckpoint
  <2>4. RowStep(p, c, o, t)
    BY <1>3, <2>2, <2>3 DEF RowStep, Row
  <2> QED
    BY <2>2, <2>3, <2>4, <1>b
<1>4. ASSUME PublishStore(p) PROVE Goal
  <2>1. r.op = "publish" /\ r.at = "store"
    BY <1>4 DEF PublishStore, At
  <2>2. c \in Node /\ o \in Row /\ o.status = "PROVISIONING" /\ o.ext \in {NoExt, r.ext} /\ r.ext \in Instance
    BY <2>1, <1>p DEF PublishLocal, Claimed
  <2>3. /\ t = [o EXCEPT !.ext = r.ext, !.setup = "stored",
                         !.status = IF IsCloudFront(c) THEN "PROVISIONING" ELSE "RUNNING"]
        /\ \A m \in Node \ {c} : row'[m] = row[m]
    BY <1>4, <2>2, <1>a DEF PublishStore
  <2>4. RowStep(p, c, o, t)
    BY <1>4, <2>2, <2>3 DEF RowStep, Row
  <2> QED
    BY <2>2, <2>3, <2>4, <1>b
<1>5. ASSUME PublishFail(p) PROVE Goal
  <2>1. r.op = "publish" /\ r.at = "fail"
    BY <1>5 DEF PublishFail, At
  <2>2. c \in Node /\ o \in Row /\ o.status = "PROVISIONING"
    BY <2>1, <1>p DEF PublishLocal, Claimed
  <2>3. t = [o EXCEPT !.status = "FAILED"] /\ \A m \in Node \ {c} : row'[m] = row[m]
    BY <1>5, <2>2, <1>a DEF PublishFail
  <2>4. RowStep(p, c, o, t)
    BY <1>5, <2>2, <2>3 DEF RowStep, Row
  <2> QED
    BY <2>2, <2>3, <2>4, <1>b
<1>6. ASSUME DeleteDetach(p) PROVE Goal
  <2>1. r.op \in DeleteOp /\ r.at = "detach"
    BY <1>6 DEF DeleteDetach, Deleting
  <2>2. c \in Node /\ o \in Row /\ ~InAws(o)
    BY <2>1, <1>d DEF DeleteLocal, Marked
  <2>3. t = [o EXCEPT !.status = "TERMINATED"] /\ \A m \in Node \ {c} : row'[m] = row[m]
    BY <1>6, <2>2, <1>a DEF DeleteDetach
  <2>4. RowStep(p, c, o, t)
    BY <1>6, <2>2, <2>3 DEF RowStep, Row
  <2> QED
    BY <2>2, <2>3, <2>4, <1>b
<1>7. ASSUME DeleteMark(p) PROVE Goal
  <2>1. r.op \in DeleteOp /\ r.at = "mark"
    BY <1>7 DEF DeleteMark, Deleting
  <2>2. c \in Node /\ o \in Row /\ InAws(o) /\ o.status \notin {"NONE", "TERMINATED"}
    BY <2>1, <1>d DEF DeleteLocal, Marked
  <2>3. t = [o EXCEPT !.status = "DELETING"] /\ \A m \in Node \ {c} : row'[m] = row[m]
    BY <1>7, <2>2, <1>a DEF DeleteMark
  <2>4. RowStep(p, c, o, t)
    BY <1>7, <2>2, <2>3 DEF RowStep, Row
  <2> QED
    BY <2>2, <2>3, <2>4, <1>b
<1>8. ASSUME DeleteRecord(p) PROVE Goal
  <2>1. r.op \in DeleteOp /\ r.at \in {"deleted", "missing"}
    BY <1>8 DEF DeleteRecord, Deleting
  <2>2. c \in Node /\ o \in Row /\ o.status = "DELETING" /\ InAws(o) /\ cloud[c][o.ext] \notin Live
    BY <2>1, <1>d DEF DeleteLocal, Marked, InAws
  <2>3. /\ t = [o EXCEPT !.status = "TERMINATED", !.setup = IF r.at = "deleted" THEN "stored" ELSE @]
        /\ \A m \in Node \ {c} : row'[m] = row[m]
    BY <1>8, <2>2, <1>a DEF DeleteRecord
  <2>4. RowStep(p, c, o, t)
    BY <1>8, <2>2, <2>3 DEF RowStep, Row
  <2> QED
    BY <2>2, <2>3, <2>4, <1>b
<1>9. ASSUME DeleteFail(p) PROVE Goal
  <2>1. r.op \in DeleteOp /\ r.at = "refused"
    BY <1>9 DEF DeleteFail, Deleting
  <2>2. c \in Node /\ o \in Row /\ o.status = "DELETING"
    BY <2>1, <1>d DEF DeleteLocal, Marked
  <2>3. t = [o EXCEPT !.status = "FAILED"] /\ \A m \in Node \ {c} : row'[m] = row[m]
    BY <1>9, <2>2, <1>a DEF DeleteFail
  <2>4. RowStep(p, c, o, t)
    BY <1>9, <2>2, <2>3 DEF RowStep, Row
  <2> QED
    BY <2>2, <2>3, <2>4, <1>b
<1>10. ASSUME DeleteSketchDone(p)
       PROVE  \A n \in Node : row[n].status \in {"NONE", "TERMINATED"} /\ row'[n] = NoRow
  <2>1. r.op = "deleteSketch" /\ r.at = "pick" /\ r.todo = {} /\ row' = [n \in Node |-> NoRow]
    BY <1>10 DEF DeleteSketchDone, At
  <2>2. \A n \in Node : row[n].status \in {"NONE", "TERMINATED"}
    BY <2>1, DeleteFacts DEF DeleteLocal, DeleteOp
  <2> QED
    BY <1>10, <2>1, <2>2
<1>11. ASSUME NEW n \in Node, RefreshWrite(p, n) PROVE Goal
  <2>1. r.op = "refresh" /\ r.seen[n] # "unread" /\ SetRow(n, Refreshed(row[n], r.seen[n]))
    BY <1>11 DEF RefreshWrite, At
  <2>2. /\ row[n] = r.snapRow[n] /\ row[n].status \notin {"NONE", "TERMINATED"} /\ ~RefreshSkips(n, row[n])
        /\ r.seen[n] \in {"MISSING", "RUNNING", "PROVISIONING", "DELETING"}
        /\ r.seen[n] = "MISSING" /\ Found(n) => cloud[n][row[n].ext] \notin Live
        /\ row[n].status = "DELETING" => r.seen[n] = "MISSING"
    BY <2>1, RefreshFacts DEF RefreshLocal
  <2>3. row'[n] = Refreshed(row[n], r.seen[n]) /\ \A m \in Node \ {n} : row'[m] = row[m]
    BY <1>0, <2>1 DEF SetRow
  <2>4. /\ row'[n].ext = row[n].ext /\ row'[n].managed = row[n].managed
        /\ row'[n].status = IF r.seen[n] = "MISSING" THEN "TERMINATED" ELSE r.seen[n]
    BY <1>0, <2>3 DEF Refreshed, Row
  <2>5. RowStep(p, n, row[n], row'[n])
    BY <1>11, <2>2, <2>4 DEF RowStep
  <2> QED
    BY <1>11, <2>3, <2>5
<1> QED
  <2> HIDE DEF Goal
  <2>1. \/ DeleteSketchDone(p) /\ \A n \in Node : row[n].status \in {"NONE", "TERMINATED"} /\ row'[n] = NoRow
        \/ Goal
    BY <1>1, <1>2, <1>3, <1>4, <1>5, <1>6, <1>7, <1>8, <1>9, <1>10, <1>11 DEF WritesRow
  <2> QED
    BY <2>1 DEF Goal

\* The step by which p changes instance i of n.
CallStep(p, n, i) ==
    \/ /\ PublishUpdate(p) /\ row[n].status = "RUNNING" /\ i = row[n].ext
       /\ cloud[n][i] \in Live /\ cloud'[n][i] \in Live
    \/ /\ i \in Own /\ PublishCreate(p, i) /\ row[n].status = "PROVISIONING" /\ row[n].ext = NoExt
       /\ cloud[n][i] \notin Live /\ cloud'[n][i] \in Live
    \/ /\ DeleteCall(p) \/ RefreshDelete(p, n)
       /\ RefreshDelete(p, n) => IsCloudFront(n)
       /\ row[n].status = "DELETING" /\ i = row[n].ext
       /\ cloud'[n][i] = AfterDelete(n, cloud[n][i])

\* Instance j of n comes to life in the call that starts instance i.
StartedWith(n, i, j) ==
    /\ n \in Several /\ j \in Own
    /\ cloud[n][i] \notin Live /\ cloud'[n][i] \in Live
    /\ cloud[n][j] \notin Live /\ cloud'[n][j] \in {"creating", "ready"}

\* Every change of an instance by a handler is one of the calls of that table, but
\* for the instances that are started with another.
LEMMA CallSteps ==
    ASSUME HandlerInv, NEW p \in Request, CallsAws(p)
    PROVE  \E n \in Node, i \in Instance :
              /\ n = req[p].cur \/ RefreshDelete(p, n)
              /\ \A m \in Node, j \in Instance :
                    m # n \/ j # i => cloud'[m][j] = cloud[m][j] \/ (m = n /\ StartedWith(n, i, j))
              /\ CallStep(p, n, i)
<1> DEFINE r == req[p]
           c == r.cur
           Only(n, i) == \A m \in Node, j \in Instance :
              m # n \/ j # i => cloud'[m][j] = cloud[m][j] \/ (m = n /\ StartedWith(n, i, j))
<1>0. cloud \in [Node -> [Instance -> CloudState]] /\ row \in [Node -> Row]
  BY DEF HandlerInv, TypeOK
<1>b. \A n \in Node : row[n].ext # NoExt => row[n].ext \in Instance
  BY <1>0 DEF Row, Ext
<1>1. ASSUME PublishUpdate(p)
      PROVE  c \in Node /\ row[c].ext \in Instance /\ Only(c, row[c].ext) /\ CallStep(p, c, row[c].ext)
  <2> DEFINE i == r.snapRow[c].ext
  <2>1. /\ r.op = "publish" /\ r.at = "wait" /\ r.snapRow[c].status = "RUNNING" /\ i # NoExt
        /\ cloud[c][i] \in Live
        /\ cloud' = [cloud EXCEPT ![c][i] = IF IsCloudFront(c) THEN "creating" ELSE @]
    BY <1>1 DEF PublishUpdate, NodeReady, At, WasRunning
  <2>2. c \in Node /\ row[c] = r.snapRow[c]
    BY <2>1, PublishFacts DEF PublishLocal, Claimed
  <2>3. i \in Instance
    BY <1>b, <2>1, <2>2
  <2>4. Only(c, i) /\ cloud'[c][i] \in {"creating", cloud[c][i]}
    <3> HIDE DEF i, c
    <3> QED
      BY <1>0, <2>1, <2>2, <2>3
  <2>5. CallStep(p, c, i)
    BY <1>1, <2>1, <2>2, <2>4 DEF CallStep, Live
  <2> QED
    BY <2>2, <2>3, <2>4, <2>5
<1>2. ASSUME NEW i \in Own, PublishCreate(p, i)
      PROVE  c \in Node /\ i \in Instance /\ Only(c, i) /\ CallStep(p, c, i)
  <2>1. r.op = "publish" /\ r.at = "create" /\ cloud[c][i] \in Creatable(c)
    BY <1>2 DEF PublishCreate, At
  <2>2. c \in Node /\ row[c].status = "PROVISIONING" /\ row[c].ext = NoExt
    BY <2>1, PublishFacts DEF PublishLocal, Claimed
  <2>3. i \in Instance
    BY DEF Instance
  <2>4. /\ cloud'[c][i] = FirstState(c)
        /\ \A m \in Node, j \in Instance :
              \/ cloud'[m][j] = cloud[m][j]
              \/ /\ m = c /\ j \in Own /\ (j = i \/ m \in Several)
                 /\ cloud[m][j] \in Creatable(m) /\ cloud'[m][j] = FirstState(m)
    BY <1>0, <1>2, <2>2, CreateStarts
  <2>5. cloud[c][i] \notin Live /\ cloud'[c][i] \in Live
    BY <2>1, <2>4 DEF Creatable, FirstState, Live
  <2>6. Only(c, i)
    <3> HIDE DEF c
    <3> QED
      BY <2>4, <2>5 DEF StartedWith, Creatable, FirstState, Live
  <2> QED
    BY <1>2, <2>2, <2>3, <2>5, <2>6 DEF CallStep
<1>3. ASSUME DeleteCall(p)
      PROVE  c \in Node /\ row[c].ext \in Instance /\ Only(c, row[c].ext) /\ CallStep(p, c, row[c].ext)
  <2> DEFINE i == r.snapRow[c].ext
  <2>1. r.op \in DeleteOp /\ r.at = "delete" /\ cloud' = [cloud EXCEPT ![c][i] = AfterDelete(c, @)]
    BY <1>3 DEF DeleteCall, Deleting
  <2>2. c \in Node /\ row[c].ext = i /\ row[c].status = "DELETING" /\ i # NoExt
    BY <2>1, DeleteFacts DEF DeleteLocal, Marked, InAws
  <2>3. i \in Instance
    BY <1>b, <2>2
  <2>4. Only(c, i) /\ cloud'[c][i] = AfterDelete(c, cloud[c][i])
    <3> HIDE DEF i, c
    <3> QED
      BY <1>0, <2>1, <2>2, <2>3
  <2>5. CallStep(p, c, i)
    BY <1>3, <2>1, <2>2, <2>4 DEF CallStep, RefreshDelete, MayRead, Unread, At, DeleteOp
  <2> QED
    BY <2>2, <2>3, <2>4, <2>5
<1>4. ASSUME NEW n \in Node, RefreshDelete(p, n)
      PROVE  row[n].ext \in Instance /\ Only(n, row[n].ext) /\ CallStep(p, n, row[n].ext)
  <2> DEFINE i == r.snapRow[n].ext
  <2>1. /\ r.op = "refresh" /\ n \in r.todo /\ ~RefreshSkips(n, r.snapRow[n]) /\ r.snapRow[n].status = "DELETING"
        /\ cloud' = [cloud EXCEPT ![n][i] = AfterDelete(n, @)]
    BY <1>4 DEF RefreshDelete, MayRead, Unread, At, RetriesDelete
  <2>2. row[n] = r.snapRow[n] /\ IsCloudFront(n) /\ i # NoExt
    BY <2>1, RefreshFacts DEF RefreshLocal, RefreshSkips
  <2>3. i \in Instance
    BY <1>b, <2>2
  <2>4. Only(n, i) /\ cloud'[n][i] = AfterDelete(n, cloud[n][i])
    <3> HIDE DEF i
    <3> QED
      BY <1>0, <2>1, <2>3
  <2>5. CallStep(p, n, i)
    BY <1>4, <2>1, <2>2, <2>4 DEF CallStep
  <2> QED
    BY <2>2, <2>3, <2>4, <2>5
<1> QED
  <2> HIDE DEF Only
  <2>1. \E n \in Node, i \in Instance : (n = c \/ RefreshDelete(p, n)) /\ Only(n, i) /\ CallStep(p, n, i)
    BY <1>1, <1>2, <1>3, <1>4 DEF CallsAws
  <2> QED
    BY <2>1 DEF Only

-----------------------------------------------------------------------------
(* Terminated records.                                                      *)

\* What a handler or AWS does revives no instance, but for the create call.
LEMMA Revives ==
    ASSUME HandlerInv, [Next]_vars
    PROVE  \/ NothingRevived
           \/ \E p \in Request, n \in Node, i \in Own :
                 /\ PublishCreate(p, i) /\ n = req[p].cur
                 /\ row[n].status = "PROVISIONING" /\ row[n].ext = NoExt /\ UNCHANGED row
                 /\ \A m \in Node, j \in Instance :
                       m # n \/ (j # i /\ n \notin Several) => cloud'[m][j] = cloud[m][j]
<1>1. ASSUME NEW p \in Request, CallsAws(p), UNCHANGED row PROVE
           \/ NothingRevived
           \/ \E n \in Node, i \in Own :
                 /\ PublishCreate(p, i) /\ n = req[p].cur
                 /\ row[n].status = "PROVISIONING" /\ row[n].ext = NoExt /\ UNCHANGED row
                 /\ \A m \in Node, j \in Instance :
                       m # n \/ (j # i /\ n \notin Several) => cloud'[m][j] = cloud[m][j]
  <2>1. PICK n \in Node, i \in Instance :
              /\ n = req[p].cur \/ RefreshDelete(p, n)
              /\ \A m \in Node, j \in Instance :
                    m # n \/ j # i => cloud'[m][j] = cloud[m][j] \/ (m = n /\ StartedWith(n, i, j))
              /\ CallStep(p, n, i)
    BY <1>1, CallSteps
  <2>a. \A m \in Node, j \in Instance : m # n \/ (j # i /\ n \notin Several) => cloud'[m][j] = cloud[m][j]
    BY <2>1 DEF StartedWith
  <2>2. CASE cloud[n][i] \notin Live => cloud'[n][i] \notin Live
    BY <2>1, <2>2 DEF NothingRevived, StartedWith
  <2>3. CASE cloud[n][i] \notin Live /\ cloud'[n][i] \in Live
    <3>1. i \in Own /\ PublishCreate(p, i) /\ row[n].status = "PROVISIONING" /\ row[n].ext = NoExt
      BY <2>1, <2>3 DEF CallStep, AfterDelete, Live
    <3>2. n = req[p].cur
      BY <2>1, <3>1 DEF PublishCreate, RefreshDelete, MayRead, Unread, At
    <3> QED
      BY <1>1, <2>a, <3>1, <3>2
  <2> QED
    BY <2>2, <2>3
<1>2. ASSUME UNCHANGED cloud PROVE NothingRevived
  BY <1>2 DEF NothingRevived
<1>3. ASSUME Aws PROVE NothingRevived
  BY <1>3, AwsStep DEF HandlerInv
<1> QED
  BY <1>1, <1>2, <1>3, Effects

\* What a terminated row had is not in AWS after any step either.
LEMMA TerminatedNext ==
    ASSUME OneHandler, \A n \in Node : Found(n), HandlerInv, TerminatedMeansGone, [Next]_vars
    PROVE  TerminatedMeansGone'
<1> SUFFICES ASSUME NEW n \in Node,
                    row'[n].status = "TERMINATED", row'[n].managed, row'[n].ext # NoExt
             PROVE  cloud'[n][row'[n].ext] \notin Live
  BY DEF TerminatedMeansGone
<1>0. \A m \in Node : row[m].ext # NoExt => row[m].ext \in Instance
  BY DEF HandlerInv, TypeOK, Row, Ext
<1>1. ASSUME row'[n] = row[n], NothingRevived PROVE cloud'[n][row'[n].ext] \notin Live
  BY <1>0, <1>1 DEF NothingRevived, TerminatedMeansGone
<1>2. ASSUME NEW p \in Request, WritesRow(p), UNCHANGED cloud PROVE cloud'[n][row'[n].ext] \notin Live
  <2>1. ASSUME NEW m \in Node, \A k \in Node \ {m} : row'[k] = row[k], RowStep(p, m, row[m], row'[m])
        PROVE  cloud'[n][row'[n].ext] \notin Live
    <3>1. CASE m = n
      BY <1>2, <2>1, <3>1 DEF RowStep, InAws
    <3>2. CASE m # n
      BY <1>1, <1>2, <2>1, <3>2 DEF NothingRevived
    <3> QED
      BY <3>1, <3>2
  <2> QED
    BY <1>2, <2>1, RowSteps DEF NoRow
<1>3. ASSUME UNCHANGED row, NothingRevived PROVE cloud'[n][row'[n].ext] \notin Live
  BY <1>1, <1>3
<1>4. ASSUME NEW p \in Request, NEW i \in Own, UNCHANGED row, NEW c \in Node,
             row[c].status = "PROVISIONING",
             \A m \in Node, j \in Instance :
                m # c \/ (j # i /\ c \notin Several) => cloud'[m][j] = cloud[m][j]
      PROVE  cloud'[n][row'[n].ext] \notin Live
  BY <1>0, <1>4 DEF TerminatedMeansGone
<1> QED
  BY <1>2, <1>3, <1>4, Effects, Revives DEF dbVars

\* While one handler works on the resources at a time, a record says TERMINATED
\* only of a managed instance that no longer exists: deletions, refreshes,
\* failures, restarts of the server and deletions outside CloudCanvas included.
\* Found is needed: a refresh takes a fresh instance it cannot see for missing.
THEOREM TerminatedIsGone ==
    ASSUME OneHandler, \A n \in Node : Found(n)
    PROVE  Spec => []TerminatedMeansGone
<1>1. Init => TerminatedMeansGone
  BY DEF Init, TerminatedMeansGone, NoRow
<1>2. HandlerInv /\ [Next]_vars => HandlerInv'
  BY HandlerNext
<1>3. HandlerInv /\ TerminatedMeansGone /\ [Next]_vars => TerminatedMeansGone'
  BY TerminatedNext
<1> QED
  BY HandlerInit, <1>1, <1>2, <1>3, PTL DEF Spec

-----------------------------------------------------------------------------
(* Records the user has to see.                                             *)

\* One step keeps a visible failure visible and a pending deletion recorded.
LEMMA StaysStep ==
    ASSUME HandlerInv, [Next]_vars, NEW n \in Node
    PROVE  /\ /\ row[n].status = "FAILED" /\ row[n].ext # NoExt
              /\ IsCloudFront(n) \/ row[n].setup = "incomplete"
              => row'[n].status \in {"FAILED", "DELETING"}
           /\ IsCloudFront(n) /\ row[n].status = "DELETING"
              => row'[n].status \in {"DELETING", "TERMINATED", "FAILED"}
<1>0. RowOk(n, row[n])
  BY DEF HandlerInv, RowsOk
<1>1. CASE row'[n] = row[n]
  BY <1>1
<1>2. ASSUME NEW p \in Request, RowStep(p, n, row[n], row'[n])
      PROVE  /\ /\ row[n].status = "FAILED" /\ row[n].ext # NoExt
                /\ IsCloudFront(n) \/ row[n].setup = "incomplete"
                => row'[n].status \in {"FAILED", "DELETING"}
             /\ IsCloudFront(n) /\ row[n].status = "DELETING"
                => row'[n].status \in {"DELETING", "TERMINATED", "FAILED"}
  <2>1. row[n].status = "FAILED" /\ row[n].ext # NoExt /\ (IsCloudFront(n) \/ row[n].setup = "incomplete")
        => InAws(row[n]) /\ RefreshSkips(n, row[n])
    BY <1>0 DEF RowOk, InAws, RefreshSkips, IsAdoptable, IsCloudFront, Adoptable, Checkpointing
  <2> QED
    BY <1>2, <2>1 DEF RowStep
<1>3. ASSUME NEW p \in Request, WritesRow(p)
      PROVE  \/ row[n].status \in {"NONE", "TERMINATED"}
             \/ row'[n] = row[n]
             \/ RowStep(p, n, row[n], row'[n])
  BY <1>3, RowSteps
<1>4. CASE row[n].status \in {"NONE", "TERMINATED"}
  BY <1>4
<1> QED
  BY <1>1, <1>2, <1>3, <1>4, Effects DEF dbVars

\* While one handler works on the resources at a time, no refresh and no
\* publish hides a failed setup that left something in AWS, and none forgets a
\* CloudFront deletion that a later poll has to finish; restarts of the server,
\* instances that cannot be found yet and outside deletions do not matter.
THEOREM RecordsStay == ASSUME OneHandler PROVE Spec => StaysRecorded
<1>1. HandlerInv /\ [Next]_vars => HandlerInv'
  BY HandlerNext
<1> DEFINE Failure ==
      \A n \in Node :
          /\ row[n].status = "FAILED" /\ row[n].ext # NoExt
          /\ IsCloudFront(n) \/ row[n].setup = "incomplete"
          => row'[n].status \in {"FAILED", "DELETING"}
           Deletion ==
      \A n \in Node :
          IsCloudFront(n) /\ row[n].status = "DELETING"
          => row'[n].status \in {"DELETING", "TERMINATED", "FAILED"}
<1>2. HandlerInv /\ [Next]_vars => [Failure]_vars /\ [Deletion]_vars
  BY StaysStep
<1>3. Spec => [][Failure]_vars /\ [][Deletion]_vars
  BY HandlerInit, <1>1, <1>2, PTL DEF Spec
<1> QED
  BY <1>3 DEF StaysRecorded, FailureStaysVisible, PendingDeletionKept

-----------------------------------------------------------------------------
(* Which steps move a handler.                                              *)

\* Without CanRestart the server never restarts.
LEMMA NoRestart == ~CanRestart => ~Restart
BY DEF Restart

\* Without a restart only its own request moves a slot.
LEMMA PublishMoves ==
    ASSUME TypeOK, NEW p \in Request, Publish(p) PROVE \A q \in Request \ {p} : req'[q] = req[q]
<1>0. req \in [Request -> ReqState]
  BY DEF TypeOK
<1>a. \A r : Becomes(p, r) => \A q \in Request \ {p} : req'[q] = req[q]
  BY <1>0 DEF Becomes
<1>1. CASE PublishStart(p) \/ \E n \in Node : PublishNext(p, n) \/ PublishSourceReady(p, n)
  BY <1>1, <1>a DEF PublishStart, PublishNext, PublishSourceReady
<1>2. CASE PublishBlocked(p) \/ PublishSkip(p) \/ PublishConflict(p) \/ PublishRejectNode(p) \/ PublishDone(p)
  BY <1>2, <1>a DEF PublishBlocked, PublishSkip, PublishConflict, PublishRejectNode, PublishDone, Finish
<1>3. CASE PublishAdopt(p) \/ PublishSetup(p) \/ PublishAwsError(p)
  BY <1>3, <1>a DEF PublishAdopt, PublishSetup, PublishAwsError
<1>4. CASE PublishUpdate(p) \/ \E i \in Own : PublishCreate(p, i)
  BY <1>4, <1>a DEF PublishUpdate, PublishCreate
<1>5. CASE PublishStoreUpdate(p) \/ PublishUpsert(p) \/ PublishCheckpoint(p) \/ PublishStore(p) \/ PublishFail(p)
  BY <1>5, <1>a DEF PublishStoreUpdate, PublishUpsert, PublishCheckpoint, PublishStore, PublishFail, Finish
<1> QED
  BY <1>1, <1>2, <1>3, <1>4, <1>5 DEF Publish

\* Likewise of a step of a deletion.
LEMMA DeleteMoves ==
    ASSUME TypeOK, NEW p \in Request, Delete(p) PROVE \A q \in Request \ {p} : req'[q] = req[q]
<1>0. req \in [Request -> ReqState]
  BY DEF TypeOK
<1>a. \A r : Becomes(p, r) => \A q \in Request \ {p} : req'[q] = req[q]
  BY <1>0 DEF Becomes
<1>1. CASE \E n \in Node : DeleteResourceStart(p, n) \/ DeletePick(p, n)
  BY <1>1, <1>a DEF DeleteResourceStart, DeletePick
<1>2. CASE \E op \in DeleteOp : DeleteSketchStart(p, op)
  BY <1>2, <1>a DEF DeleteSketchStart
<1>3. CASE DeleteError(p) \/ DeletePause(p) \/ DeleteResourceDone(p) \/ DeleteAllDone(p) \/ DeleteSketchDone(p)
  BY <1>3, <1>a DEF DeleteError, DeletePause, DeleteResourceDone, DeleteAllDone, DeleteSketchDone, Finish
<1>4. CASE DeleteDetach(p) \/ DeleteMark(p) \/ DeleteCall(p) \/ DeleteRecord(p) \/ DeleteFail(p)
  BY <1>4, <1>a DEF DeleteDetach, DeleteMark, DeleteCall, DeleteRecord, DeleteFail, Finish
<1> QED
  BY <1>1, <1>2, <1>3, <1>4 DEF Delete

\* Likewise of a step of a refresh or an edit, and of its end with the sketch.
LEMMA OtherMoves ==
    ASSUME TypeOK, NEW p \in Request, Refresh(p) \/ Edit(p) \/ Orphaned(p)
    PROVE  \A q \in Request \ {p} : req'[q] = req[q]
<1>0. req \in [Request -> ReqState]
  BY DEF TypeOK
<1>a. \A r : Becomes(p, r) => \A q \in Request \ {p} : req'[q] = req[q]
  BY <1>0 DEF Becomes
<1>1. CASE Refresh(p)
  BY <1>1, <1>a DEF Refresh, RefreshStart, RefreshStep, RefreshSkip, RefreshRead, RefreshDelete, RefreshWrite,
                    RefreshDone, RefreshError, Finish
<1>2. CASE Edit(p) \/ Orphaned(p)
  BY <1>2, <1>a DEF Edit, CreateNode, DeleteNodeStart, UpdateNodeStart, EditStart, DeleteNode, UpdateNode,
                    ReplaceGraphStart, ReplaceGraph, Orphaned, Finish
<1> QED
  BY <1>1, <1>2

\* So a slot moves only by a step of its request, unless the server restarts.
LEMMA SlotMoves ==
    ASSUME TypeOK, [Next]_vars, ~Restart, NEW p \in Request, req'[p] # req[p]
    PROVE  Publish(p) \/ Delete(p) \/ Refresh(p) \/ Edit(p) \/ Orphaned(p)
<1>1. ASSUME Aws \/ UNCHANGED vars PROVE req' = req
  BY <1>1 DEF Aws, Settle, Drift, vars
<1> QED
  BY <1>1, PublishMoves, DeleteMoves, OtherMoves DEF Next

\* A publish that has claimed a row goes on to its create call, its checkpoint,
\* its store or its failure.
LEMMA ClaimMoves ==
    ASSUME HandlerInv, [Next]_vars, ~Restart, NEW p \in Request,
           req[p].op = "publish", req[p].at \in Claimed, req'[p] # req[p]
    PROVE  \/ PublishAdopt(p) \/ \E i \in Own : PublishCreate(p, i)
           \/ PublishCheckpoint(p) \/ PublishSetup(p) \/ PublishAwsError(p)
           \/ PublishStore(p) \/ PublishFail(p)
<1>0. req[p].at \notin {"next", "wait", "updated", "reading", "edit"} /\ req[p].op \notin DeleteOp
  BY DEF Claimed, DeleteOp
<1>1. ~Orphaned(p)
  BY PublishFacts DEF Orphaned
<1>2. ~Refresh(p)
  BY DEF Refresh, RefreshStart, RefreshStep, RefreshSkip, RefreshRead, RefreshDelete, RefreshWrite,
         RefreshDone, RefreshError, MayRead, Unread, At, Begin
<1>3. ~Delete(p)
  <2>1. ~\E n \in Node : DeleteResourceStart(p, n) \/ DeletePick(p, n)
    BY <1>0 DEF DeleteResourceStart, DeletePick, Begin, At
  <2>2. ~\E op \in DeleteOp : DeleteSketchStart(p, op)
    BY DEF DeleteSketchStart, Begin
  <2>3. ~(DeleteError(p) \/ DeletePause(p) \/ DeleteResourceDone(p) \/ DeleteAllDone(p) \/ DeleteSketchDone(p))
    BY <1>0 DEF DeleteError, DeletePause, DeleteResourceDone, DeleteAllDone, DeleteSketchDone, Deleting, At, DeleteOp
  <2>4. ~(DeleteDetach(p) \/ DeleteMark(p) \/ DeleteCall(p) \/ DeleteRecord(p) \/ DeleteFail(p))
    BY <1>0 DEF DeleteDetach, DeleteMark, DeleteCall, DeleteRecord, DeleteFail, Deleting
  <2> QED
    BY <2>1, <2>2, <2>3, <2>4 DEF Delete
<1>4. CASE Edit(p)
  BY <1>4 DEF Edit, CreateNode, DeleteNodeStart, UpdateNodeStart, EditStart, Begin, DeleteNode, UpdateNode,
              ReplaceGraphStart, ReplaceGraph, At
<1>5. CASE Publish(p)
  <2>1. ~(PublishStart(p) \/ \E n \in Node : PublishNext(p, n) \/ PublishSourceReady(p, n))
    BY <1>0 DEF PublishStart, Begin, PublishNext, PublishSourceReady, At
  <2>2. ~(PublishBlocked(p) \/ PublishSkip(p) \/ PublishUpdate(p) \/ PublishConflict(p) \/ PublishUpsert(p)
          \/ PublishRejectNode(p))
    BY <1>0 DEF PublishBlocked, PublishSkip, PublishUpdate, PublishConflict, PublishUpsert, PublishRejectNode,
                NodeReady, At
  <2>3. ~(PublishStoreUpdate(p) \/ PublishDone(p))
    BY <1>0 DEF PublishStoreUpdate, PublishDone, At
  <2> QED
    BY <1>5, <2>1, <2>2, <2>3 DEF Publish
<1> QED
  BY <1>1, <1>2, <1>3, <1>4, <1>5, SlotMoves DEF HandlerInv

-----------------------------------------------------------------------------
(* Nothing is orphaned.                                                     *)

\* Only a publish between its create call and its store holds an identifier.
LEMMA HeldBy ==
    ASSUME HandlerInv, NEW p \in Request, req[p].ext # NoExt
    PROVE  /\ req[p].op = "publish" /\ req[p].at \in {"checkpoint", "setup", "store"}
           /\ PublishLocal(req[p], row) /\ req[p].cur \in Node /\ Ops[p] \cap ResourceOp # {}
<1>1. Local(p, req[p], row, cloud)
  BY DEF HandlerInv, LocalsOk
<1>2. req[p].op = "publish"
  BY <1>1 DEF Local, ResourceOp, DeleteLocal, RefreshLocal
<1> QED
  BY <1>2, PublishFacts DEF PublishLocal

\* What is recorded or held.
Known(n, i) == \/ row[n].ext = i /\ row[n].status \notin {"NONE", "TERMINATED"}
               \/ Held(n, i)

\* What is recorded or held stays so while it lives.
LEMMA KnownKept ==
    ASSUME OneHandler, HandlerInv, \A n \in Node : Found(n), ~CanRestart, [Next]_vars,
           NEW n \in Node, Recoverable(n), NEW i \in Own, cloud[n][i] \in Live,
           \A j \in Own : cloud[n][j] \in Live => Known(n, j)
    PROVE  Known(n, i)' \/ cloud'[n][i] \notin Live
<1>0. /\ row \in [Node -> Row] /\ req \in [Request -> ReqState] /\ RowOk(n, row[n])
      /\ i # NoExt /\ i # Foreign /\ NoExt \notin Own
  BY ServiceAssumption DEF HandlerInv, TypeOK, RowsOk
<1>1. CASE Held(n, i)
  <2>1. PICK p \in Request : req[p].cur = n /\ req[p].ext = i
    BY <1>1 DEF Held
  <2>2. /\ req[p].op = "publish" /\ req[p].at \in {"checkpoint", "setup", "store"}
        /\ PublishLocal(req[p], row) /\ req[p].at \in Claimed /\ row[n].status = "PROVISIONING"
    BY <2>1, <1>0, HeldBy DEF Claimed, PublishLocal
  <2>3. ASSUME PublishCheckpoint(p) \/ PublishSetup(p) PROVE Held(n, i)'
    <3>1. \E at : req'[p] = [req[p] EXCEPT !.at = at]
      BY <2>3, <1>0 DEF PublishCheckpoint, PublishSetup, Becomes
    <3>2. req'[p].cur = n /\ req'[p].ext = i
      BY <3>1, <2>1, <1>0 DEF ReqState
    <3> QED
      BY <3>2 DEF Held
  <2>4. ASSUME PublishAwsError(p) PROVE Known(n, i)'
    <3>1. req[p].at = "setup" /\ UNCHANGED row
      BY <2>2, <2>4 DEF PublishAwsError, At, dbVars
    <3>2. row[n].ext = i
      BY <3>1, <2>1, <2>2 DEF PublishLocal, Recoverable
    <3> QED
      BY <3>1, <3>2, <2>2 DEF Known
  <2>5. ASSUME PublishStore(p) PROVE Known(n, i)'
    <3>1. row' = [row EXCEPT ![n] = [row[n] EXCEPT !.ext = i, !.setup = "stored",
                                         !.status = IF IsCloudFront(n) THEN "PROVISIONING" ELSE "RUNNING"]]
      BY <2>5, <2>1 DEF PublishStore, SetRow
    <3>2. row'[n].ext = i /\ row'[n].status \in {"PROVISIONING", "RUNNING"}
      BY <3>1, <1>0 DEF Row
    <3> QED
      BY <3>2 DEF Known
  <2>6. ~PublishAdopt(p) /\ ~PublishFail(p) /\ \A j \in Own : ~PublishCreate(p, j)
    BY <2>2 DEF PublishAdopt, PublishFail, PublishCreate, At
  <2>7. CASE req'[p] = req[p]
    BY <2>1, <2>7 DEF Known, Held
  <2>8. CASE req'[p] # req[p]
    BY <2>2, <2>3, <2>4, <2>5, <2>6, <2>8, NoRestart, ClaimMoves DEF Known
  <2> QED
    BY <2>7, <2>8
<1>2. CASE ~Held(n, i) /\ row[n].ext = i /\ row[n].status \notin {"NONE", "TERMINATED"}
  <2>1. CASE row'[n] = row[n]
    BY <1>2, <2>1 DEF Known
  <2>2. ASSUME NEW p \in Request, WritesRow(p), UNCHANGED cloud PROVE row'[n] = row[n] \/ Known(n, i)'
    <3>1. InAws(row[n])
      BY <1>0, <1>2 DEF RowOk, InAws
    <3>2. ASSUME RowStep(p, n, row[n], row'[n]), n = req[p].cur \/ RefreshWrite(p, n) PROVE Known(n, i)'
      <4>1. CASE PublishStore(p)
        <5>1. req[p].op = "publish" /\ req[p].at = "store" /\ req[p].cur = n
          BY <3>2, <4>1 DEF PublishStore, RefreshWrite, At
        <5>2. row[n].ext \in {NoExt, req[p].ext}
          BY <5>1, PublishFacts DEF PublishLocal
        <5> QED
          BY <1>0, <1>2, <5>1, <5>2 DEF Held
      <4>2. CASE ~PublishStore(p)
        <5>1. row[n].ext = i /\ i # NoExt /\ row[n].status # "NONE" /\ row[n].status # "TERMINATED"
          BY <1>0, <1>2
        <5> QED
          BY <3>1, <3>2, <4>2, <5>1 DEF RowStep, Known
      <4> QED
        BY <4>1, <4>2
    <3> QED
      BY <2>2, <3>2, <1>2, RowSteps
  <2> QED
    BY <2>1, <2>2, Effects DEF dbVars
<1> QED
  BY <1>1, <1>2 DEF Known

\* So no step leaves a live instance that is neither recorded nor held.
LEMMA NoOrphanNext ==
    ASSUME OneHandler, HandlerInv, \A n \in Node : Found(n), ~CanRestart, NoOrphan, [Next]_vars
    PROVE  NoOrphan'
<1> SUFFICES ASSUME NEW n \in Node, Recoverable(n), NEW i \in Own, cloud'[n][i] \in Live PROVE Known(n, i)'
  BY DEF NoOrphan, Known, Recoverable
<1>0. i \in Instance /\ req \in [Request -> ReqState] /\ n \notin Several
  BY DEF Instance, HandlerInv, TypeOK, Recoverable
<1>1. CASE cloud[n][i] \in Live
  BY <1>1, KnownKept DEF NoOrphan, Known
<1>2. CASE cloud[n][i] \notin Live
  <2>1. PICK p \in Request, m \in Node, j \in Own :
            /\ PublishCreate(p, j) /\ m = req[p].cur
            /\ \A k \in Node, l \in Instance :
                  k # m \/ (l # j /\ m \notin Several) => cloud'[k][l] = cloud[k][l]
    BY <1>0, <1>2, Revives DEF NothingRevived
  <2>2. m = n /\ j = i
    BY <1>0, <1>2, <2>1
  <2>3. \E at : req'[p] = [req[p] EXCEPT !.at = at, !.ext = i]
    BY <1>0, <2>1, <2>2 DEF PublishCreate, Becomes
  <2>4. req'[p].cur = n /\ req'[p].ext = i
    <3>1. req[p].cur = n /\ req[p] \in ReqState
      BY <1>0, <2>1, <2>2
    <3> QED
      BY <2>3, <3>1 DEF ReqState
  <2> QED
    BY <2>4 DEF Known, Held
<1> QED
  BY <1>1, <1>2

\* While one handler works on the resources at a time and the server does not
\* die in the middle of it, everything a publish brought to life in AWS for a node
\* of which it makes one instance and reports it stays recorded in a row that a
\* deletion will find, or is about to be recorded: no failed setup, deletion,
\* refresh, edit or outside deletion loses it, and the sketch is deleted only when
\* nothing of these nodes is left.  A node that asks for several instances is not
\* covered: all but the first are recorded nowhere.
THEOREM NothingOrphaned ==
    ASSUME OneHandler, \A n \in Node : Found(n), ~CanRestart
    PROVE  Spec => []NoOrphan
<1>1. Init => NoOrphan
  BY ServiceAssumption DEF Init, NoOrphan, Live, Instance
<1>2. HandlerInv /\ [Next]_vars => HandlerInv'
  BY HandlerNext
<1>3. HandlerInv /\ NoOrphan /\ [Next]_vars => NoOrphan'
  BY NoOrphanNext
<1> QED
  BY HandlerInit, <1>1, <1>2, <1>3, PTL DEF Spec

-----------------------------------------------------------------------------
(* Nothing stays half done.                                                 *)

\* Nothing that stops slowly is deleted from outside: a describe call would
\* report it "being deleted", and a refresh would store that of a resource
\* whose deletion nobody has asked for.
NoSlowDrift == \A n \in Drifting : Service[n] \notin SlowStop

\* Every row in a passing state has a handler that takes it out of it.
Claims(p, n) == req[p].op = "publish" /\ req[p].at \in Claimed /\ req[p].cur = n
Deletes(p, n) == req[p].op \in DeleteOp /\ req[p].at \in Marked \ {"pending"} /\ req[p].cur = n
HalfDoneInv ==
    /\ \A n \in Node : row[n].status = "PROVISIONING" /\ row[n].ext = NoExt => \E p \in Request : Claims(p, n)
    /\ \A n \in Node : row[n].status = "DELETING" /\ ~IsCloudFront(n) => \E p \in Request : Deletes(p, n)
    /\ \A n \in Node : row[n].ext # NoExt /\ cloud[n][row[n].ext] = "stopping" =>
          \/ row[n].status = "TERMINATED"
          \/ \E p \in Request : Deletes(p, n) /\ req[p].at = "deleted"
    /\ \A p \in Request, n \in Node : req[p].op = "refresh" /\ ~IsCloudFront(n) => req[p].seen[n] # "DELETING"
    /\ \A p \in Request : req[p].op = "publish" /\ req[p].ext # NoExt =>
          cloud[req[p].cur][req[p].ext] # "stopping"

\* A deletion that has marked a row goes on to the call, its record or its failure.
LEMMA MarkMoves ==
    ASSUME HandlerInv, [Next]_vars, ~CanRestart, NEW p \in Request,
           req[p].op \in DeleteOp, req[p].at \in Marked, req'[p] # req[p]
    PROVE  DeleteCall(p) \/ DeleteError(p) \/ DeleteRecord(p) \/ DeletePause(p) \/ DeleteFail(p)
<1>0. req[p].at \notin {"pick", "detach", "mark", "reading", "edit"}
      /\ req[p].op \notin {"none", "publish", "refresh", "deleteNode", "updateNode", "replaceGraph"}
  BY DEF Marked, DeleteOp
<1>1. ~Orphaned(p)
  BY DeleteFacts DEF Orphaned
<1>2. ~Refresh(p)
  BY <1>0 DEF Refresh, RefreshStart, RefreshStep, RefreshSkip, RefreshRead, RefreshDelete, RefreshWrite,
         RefreshDone, RefreshError, MayRead, Unread, At, Begin
<1>3. ~Publish(p)
  <2>1. ~(PublishStart(p) \/ \E n \in Node : PublishNext(p, n) \/ PublishSourceReady(p, n))
    BY <1>0 DEF PublishStart, Begin, PublishNext, PublishSourceReady, At
  <2>2. ~(PublishBlocked(p) \/ PublishSkip(p) \/ PublishUpdate(p) \/ PublishConflict(p) \/ PublishUpsert(p)
          \/ PublishRejectNode(p))
    BY <1>0 DEF PublishBlocked, PublishSkip, PublishUpdate, PublishConflict, PublishUpsert, PublishRejectNode,
                NodeReady, At
  <2>3. ~(PublishStoreUpdate(p) \/ PublishDone(p) \/ PublishAdopt(p) \/ \E i \in Own : PublishCreate(p, i))
    BY <1>0 DEF PublishStoreUpdate, PublishDone, PublishAdopt, PublishCreate, At
  <2>4. ~(PublishCheckpoint(p) \/ PublishSetup(p) \/ PublishAwsError(p) \/ PublishStore(p) \/ PublishFail(p))
    BY <1>0 DEF PublishCheckpoint, PublishSetup, PublishAwsError, PublishStore, PublishFail, At
  <2> QED
    BY <2>1, <2>2, <2>3, <2>4 DEF Publish
<1>4. CASE Edit(p)
  BY <1>0, <1>4 DEF Edit, CreateNode, DeleteNodeStart, UpdateNodeStart, EditStart, Begin, DeleteNode, UpdateNode,
              ReplaceGraphStart, ReplaceGraph, At
<1>5. CASE Delete(p)
  <2>1. ~\E n \in Node : DeleteResourceStart(p, n) \/ DeletePick(p, n)
    BY <1>0 DEF DeleteResourceStart, DeletePick, Begin, At
  <2>2. ~\E op \in DeleteOp : DeleteSketchStart(p, op)
    BY <1>0 DEF DeleteSketchStart, Begin
  <2>3. ~(DeleteResourceDone(p) \/ DeleteAllDone(p) \/ DeleteSketchDone(p) \/ DeleteDetach(p) \/ DeleteMark(p))
    BY <1>0 DEF DeleteResourceDone, DeleteAllDone, DeleteSketchDone, DeleteDetach, DeleteMark, Deleting, At
  <2> QED
    BY <1>5, <2>1, <2>2, <2>3 DEF Delete
<1> QED
  BY <1>1, <1>2, <1>3, <1>4, <1>5, NoRestart, SlotMoves DEF HandlerInv


\* Nobody else is at work while a publish, a deletion or a refresh is.
LEMMA OnlyWorker ==
    ASSUME OneHandler, HandlerInv, NEW p \in Request, NEW q \in Request,
           req[p].op \in ResourceOp, req[q].op \in ResourceOp
    PROVE  p = q
<1>1. Local(p, req[p], row, cloud) /\ Local(q, req[q], row, cloud)
  BY DEF HandlerInv, LocalsOk
<1> QED
  BY <1>1 DEF Local, OneHandler, ResourceOp, DeleteOp

\* A publish that has claimed a row keeps its claim until it stores or fails.
LEMMA ClaimKept ==
    ASSUME HandlerInv, [Next]_vars, ~CanRestart, NEW p \in Request, NEW n \in Node, Claims(p, n)
    PROVE  \/ Claims(p, n)'
           \/ PublishStore(p) /\ row'[n].ext # NoExt
           \/ PublishFail(p) /\ row'[n].status = "FAILED"
<1>0. /\ row \in [Node -> Row] /\ req \in [Request -> ReqState] /\ req[p] \in ReqState
      /\ req[p].op = "publish" /\ req[p].at \in Claimed /\ req[p].cur = n
  BY DEF HandlerInv, TypeOK, Claims
<1>a. ASSUME NEW a \in Claimed, \/ req'[p] = [req[p] EXCEPT !.at = a]
                                \/ \E i : req'[p] = [req[p] EXCEPT !.at = a, !.ext = i]
      PROVE  Claims(p, n)'
  BY <1>0, <1>a DEF ReqState, Claims
<1>1. ASSUME PublishAdopt(p) \/ PublishCheckpoint(p) \/ PublishSetup(p) \/ PublishAwsError(p)
      PROVE  Claims(p, n)'
  <2>1. \E a \in Claimed : \/ req'[p] = [req[p] EXCEPT !.at = a]
                           \/ \E i : req'[p] = [req[p] EXCEPT !.at = a, !.ext = i]
    BY <1>0, <1>1 DEF PublishAdopt, PublishCheckpoint, PublishSetup, PublishAwsError, Becomes, Claimed
  <2> QED
    BY <2>1, <1>a
<1>2. ASSUME NEW i \in Own, PublishCreate(p, i) PROVE Claims(p, n)'
  <2>1. AfterCreate(n) \in Claimed
    BY DEF AfterCreate, Claimed
  <2>2. \E a \in Claimed : req'[p] = [req[p] EXCEPT !.at = a, !.ext = i]
    BY <1>0, <1>2, <2>1 DEF PublishCreate, Becomes
  <2> QED
    BY <2>2, <1>a
<1>3. ASSUME PublishStore(p) PROVE row'[n].ext # NoExt
  <2>1. req[p].at = "store"
    BY <1>3 DEF PublishStore, At
  <2>2. req[p].ext \in Instance
    BY <1>0, <2>1, PublishFacts DEF PublishLocal
  <2>3. req[p].ext # NoExt
    BY <2>2, ServiceAssumption DEF Instance
  <2>4. row'[n].ext = req[p].ext
    BY <1>0, <1>3 DEF PublishStore, SetRow, Row
  <2> QED
    BY <2>3, <2>4
<1>4. ASSUME PublishFail(p) PROVE row'[n].status = "FAILED"
  BY <1>0, <1>4 DEF PublishFail, SetRow, Row
<1>5. CASE req'[p] = req[p]
  BY <1>5 DEF Claims
<1>6. CASE req'[p] # req[p]
  BY <1>0, <1>1, <1>2, <1>3, <1>4, <1>6, NoRestart, ClaimMoves
<1> QED
  BY <1>5, <1>6

\* A deletion that has marked a row takes it out of that state.
LEMMA DeletionKept ==
    ASSUME HandlerInv, [Next]_vars, ~CanRestart, NEW p \in Request, NEW n \in Node, Deletes(p, n)
    PROVE  \/ Deletes(p, n)' /\ (req[p].at = "deleted" => req'[p].at = "deleted")
           \/ IsCloudFront(n) /\ req[p].at = "delete"
           \/ DeleteRecord(p) /\ row'[n].status = "TERMINATED"
           \/ DeleteFail(p) /\ row'[n].status = "FAILED"
<1>0. /\ row \in [Node -> Row] /\ req \in [Request -> ReqState] /\ req[p] \in ReqState
      /\ req[p].op \in DeleteOp /\ req[p].at \in Marked \ {"pending"} /\ req[p].cur = n
  BY DEF HandlerInv, TypeOK, Deletes
<1>1. ASSUME DeleteCall(p)
      PROVE  \/ Deletes(p, n)' /\ req[p].at # "deleted"
             \/ IsCloudFront(n) /\ req[p].at = "delete"
  <2>1. req[p].at = "delete"
    BY <1>1 DEF DeleteCall, Deleting
  <2>2. CASE ~IsCloudFront(n)
    <3>1. \E a \in {"deleted", "missing"} : req'[p] = [req[p] EXCEPT !.at = a]
      BY <1>0, <1>1, <2>2 DEF DeleteCall, Becomes, DeletePending
    <3> QED
      BY <1>0, <2>1, <3>1 DEF ReqState, Deletes, Marked
  <2> QED
    BY <2>1, <2>2
<1>2. ASSUME DeleteError(p) PROVE Deletes(p, n)' /\ req[p].at # "deleted"
  <2>1. req'[p] = [req[p] EXCEPT !.at = "refused"] /\ req[p].at = "delete"
    BY <1>0, <1>2 DEF DeleteError, Becomes, Deleting
  <2> QED
    BY <1>0, <2>1 DEF ReqState, Deletes, Marked
<1>3. ASSUME DeleteRecord(p) PROVE row'[n].status = "TERMINATED"
  BY <1>0, <1>3 DEF DeleteRecord, SetRow, Row
<1>4. ~DeletePause(p)
  BY <1>0 DEF DeletePause, Deleting
<1>5. ASSUME DeleteFail(p) PROVE row'[n].status = "FAILED"
  BY <1>0, <1>5 DEF DeleteFail, SetRow, Row
<1>6. CASE req'[p] = req[p]
  BY <1>6 DEF Deletes
<1>7. CASE req'[p] # req[p]
  BY <1>0, <1>1, <1>2, <1>3, <1>4, <1>5, <1>7, MarkMoves
<1> QED
  BY <1>6, <1>7

\* The step by which the row of n changes, unless the sketch goes with it.
LEMMA ChangedRow ==
    ASSUME HandlerInv, [Next]_vars, NEW n \in Node, row'[n] # row[n]
    PROVE  \/ row'[n] = NoRow /\ \E p \in Request : DeleteSketchDone(p)
           \/ \E p \in Request : /\ n = req[p].cur \/ RefreshWrite(p, n)
                                 /\ RowStep(p, n, row[n], row'[n])
BY Effects, RowSteps DEF dbVars

\* Rows in a passing state keep their handlers, or get one.
LEMMA PassingRows ==
    ASSUME OneHandler, HandlerInv, HalfDoneInv, ~CanRestart, [Next]_vars, NEW n \in Node
    PROVE  /\ (row[n].status = "PROVISIONING" /\ row[n].ext = NoExt => \E p \in Request : Claims(p, n))'
           /\ (row[n].status = "DELETING" /\ ~IsCloudFront(n) => \E p \in Request : Deletes(p, n))'
<1>0. /\ row \in [Node -> Row] /\ req \in [Request -> ReqState] /\ RowOk(n, row[n])
      /\ NoExt \notin Own /\ NoExt \notin Instance
  BY ServiceAssumption DEF HandlerInv, TypeOK, RowsOk, Instance
<1>1. ASSUME row'[n] = row[n], row[n].status = "PROVISIONING", row[n].ext = NoExt
      PROVE  \E p \in Request : Claims(p, n)'
  <2>1. PICK p \in Request : Claims(p, n)
    BY <1>1 DEF HalfDoneInv
  <2> QED
    BY <1>1, <2>1, ClaimKept
<1>2. ASSUME row'[n] = row[n], row[n].status = "DELETING", ~IsCloudFront(n)
      PROVE  \E p \in Request : Deletes(p, n)'
  <2>1. PICK p \in Request : Deletes(p, n)
    BY <1>2 DEF HalfDoneInv
  <2> QED
    BY <1>2, <2>1, DeletionKept
<1>3. ASSUME NEW p \in Request, n = req[p].cur \/ RefreshWrite(p, n), RowStep(p, n, row[n], row'[n]),
             row'[n].status = "PROVISIONING", row'[n].ext = NoExt
      PROVE  Claims(p, n)'
  <2>1. PublishUpsert(p)
    BY <1>0, <1>3 DEF RowStep, RowOk, RefreshSkips
  <2>2. req'[p] = [req[p] EXCEPT !.at = "create"] /\ req[p].op = "publish" /\ req[p].at = "wait"
    BY <1>0, <2>1 DEF PublishUpsert, Becomes, NodeReady, At
  <2>3. req[p].cur = n
    BY <1>3, <2>2 DEF RefreshWrite, At
  <2> QED
    BY <1>0, <2>2, <2>3 DEF ReqState, Claims, Claimed
<1>4. ASSUME NEW p \in Request, n = req[p].cur \/ RefreshWrite(p, n), RowStep(p, n, row[n], row'[n]),
             row'[n].status = "DELETING", ~IsCloudFront(n)
      PROVE  Deletes(p, n)'
  <2>1. ~(RefreshWrite(p, n) /\ req[p].seen[n] = row'[n].status)
    BY <1>4 DEF RefreshWrite, At, HalfDoneInv
  <2>2. DeleteMark(p)
    BY <1>4, <2>1 DEF RowStep
  <2>3. req'[p] = [req[p] EXCEPT !.at = "delete"] /\ req[p].op \in DeleteOp
    BY <1>0, <2>2 DEF DeleteMark, Becomes, Deleting
  <2>4. req[p].cur = n
    BY <1>4, <2>3 DEF RefreshWrite, At, DeleteOp
  <2> QED
    BY <1>0, <2>3, <2>4 DEF ReqState, Deletes, Marked
<1>5. CASE row'[n] = row[n]
  BY <1>1, <1>2, <1>5
<1>6. CASE row'[n] # row[n]
  <2>1. CASE row'[n] = NoRow
    BY <2>1 DEF NoRow
  <2>2. CASE \E p \in Request : /\ n = req[p].cur \/ RefreshWrite(p, n)
                                /\ RowStep(p, n, row[n], row'[n])
    BY <2>2, <1>3, <1>4
  <2> QED
    BY <1>6, <2>1, <2>2, ChangedRow
<1> QED
  BY <1>5, <1>6

\* What a publish, a deletion or an edit makes of its slot.
LEMMA PublishServes ==
    ASSUME HandlerInv, NEW p \in Request, Publish(p)
    PROVE  /\ req'[p].op \in {"publish", "none"}
           /\ req'[p].ext # NoExt => \/ PublishAdopt(p) \/ \E i \in Own : PublishCreate(p, i)
                                   \/ /\ req[p].op = "publish"
                                      /\ req[p].at \in {"checkpoint", "setup"}
<1> DEFINE r == req[p]
           Goal == /\ req'[p].op \in {"publish", "none"}
                   /\ req'[p].ext # NoExt =>
                        \/ PublishAdopt(p) \/ \E i \in Own : PublishCreate(p, i)
                        \/ /\ r.op = "publish"
                           /\ r.at \in {"checkpoint", "setup"}
<1>0. req \in [Request -> ReqState] /\ r \in ReqState
  BY DEF HandlerInv, TypeOK
<1>a. \A t : Becomes(p, t) => req'[p] = t
  BY <1>0 DEF Becomes
<1>b. r.op = "publish" => PublishLocal(r, row)
  BY PublishFacts
<1>1. ASSUME PublishStart(p) PROVE Goal
  <2>1. \E m, u : req'[p] = [Snapshot("publish", "next", nodes) EXCEPT !.snapMode = m, !.used = u]
    BY <1>1, <1>a DEF PublishStart
  <2>2. req'[p].op = "publish" /\ req'[p].ext = NoExt
    BY <2>1 DEF Snapshot, Idle
  <2> QED
    BY <2>2
<1>2. ASSUME \E n \in Node : PublishNext(p, n) \/ PublishSourceReady(p, n) PROVE Goal
  <2>1. r.op = "publish" /\ r.at \in {"next", "wait"}
    BY <1>2 DEF PublishNext, PublishSourceReady, At
  <2>2. \E t, c, w : \/ req'[p] = [r EXCEPT !.at = t, !.cur = c, !.wait = w]
                     \/ req'[p] = [r EXCEPT !.wait = w]
    BY <1>2, <1>a DEF PublishNext, PublishSourceReady
  <2>3. req'[p].op = "publish" /\ req'[p].ext = r.ext
    BY <1>0, <2>1, <2>2 DEF ReqState
  <2> QED
    BY <1>b, <2>1, <2>3 DEF PublishLocal
<1>3. ASSUME PublishBlocked(p) \/ PublishConflict(p) \/ PublishRejectNode(p) \/ PublishFail(p) \/ PublishDone(p)
      PROVE  Goal
  <2>1. req'[p] = Idle
    BY <1>3, <1>a DEF PublishBlocked, PublishConflict, PublishRejectNode, PublishFail, PublishDone, Finish
  <2> QED
    BY <2>1 DEF Idle
<1>4. ASSUME PublishSkip(p) \/ PublishStoreUpdate(p) PROVE Goal
  <2>1. req'[p] = NodeDone(p) /\ r.op = "publish"
    BY <1>4, <1>a DEF PublishSkip, PublishStoreUpdate, NodeReady, At
  <2> QED
    BY <1>0, <2>1 DEF NodeDone, ReqState
<1>5. ASSUME PublishStore(p) PROVE Goal
  <2>1. r.op = "publish" /\ \E u : req'[p] = [NodeDone(p) EXCEPT !.used = u]
    <3>1. req'[p] = [NodeDone(p) EXCEPT !.used[r.cur] = r.ext]
      BY <1>5, <1>a DEF PublishStore
    <3> QED
      BY <1>5, <3>1 DEF PublishStore, At
  <2> QED
    BY <1>0, <2>1 DEF NodeDone, ReqState
<1>6. ASSUME PublishUpdate(p) \/ PublishUpsert(p) \/ PublishCheckpoint(p) \/ PublishSetup(p) PROVE Goal
  <2>1. r.op = "publish" /\ r.at \in {"wait", "checkpoint", "setup"} /\ \E a : req'[p] = [r EXCEPT !.at = a]
    BY <1>6, <1>a DEF PublishUpdate, PublishUpsert, PublishCheckpoint, PublishSetup, NodeReady, At
  <2>2. req'[p].op = "publish" /\ req'[p].ext = r.ext
    BY <1>0, <2>1 DEF ReqState
  <2> QED
    BY <1>b, <2>1, <2>2 DEF PublishLocal
<1>7. ASSUME PublishAdopt(p) \/ PublishAwsError(p) \/ \E i \in Own : PublishCreate(p, i) PROVE Goal
  <2>1. r.op = "publish" /\ \E a, e : /\ req'[p] = [r EXCEPT !.at = a, !.ext = e]
                                      /\ PublishAwsError(p) => e = NoExt
    <3>1. CASE PublishAdopt(p) /\ ~PublishAwsError(p)
      BY <1>a, <3>1 DEF PublishAdopt, At
    <3>2. CASE PublishAwsError(p)
      BY <1>a, <3>2 DEF PublishAwsError, At
    <3>3. ASSUME NEW i \in Own, PublishCreate(p, i), ~PublishAwsError(p)
          PROVE  r.op = "publish" /\ \E a, e : req'[p] = [r EXCEPT !.at = a, !.ext = e]
      BY <1>a, <3>3 DEF PublishCreate, At
    <3> QED
      BY <1>7, <3>1, <3>2, <3>3
  <2>2. req'[p].op = "publish" /\ (PublishAwsError(p) => req'[p].ext = NoExt)
    BY <1>0, <2>1 DEF ReqState
  <2> QED
    BY <1>7, <2>2
<1> QED
  <2> HIDE DEF Goal
  <2>1. Goal
    BY <1>1, <1>2, <1>3, <1>4, <1>5, <1>6, <1>7 DEF Publish
  <2> QED
    BY <2>1 DEF Goal

\* Likewise for a deletion: it takes the resources of its snapshot in their turn.
LEMMA DeleteServes ==
    ASSUME HandlerInv, NEW p \in Request, Delete(p)
    PROVE  \/ req'[p].op = "none"
           \/ /\ req'[p].op \in DeleteOp /\ req'[p].at = "pick" /\ req'[p].snapNodes = nodes
              /\ UNCHANGED dbVars
           \/ /\ req[p].op \in DeleteOp /\ req'[p].op = req[p].op /\ req'[p].snapNodes = req[p].snapNodes
              /\ \/ req'[p].at = "pick"
                 \/ req'[p].todo = req[p].todo /\ Targets(req'[p].cur, req[p].snapNodes) \cap req[p].todo = {}
                 \/ req'[p].todo = req[p].todo /\ req'[p].cur = req[p].cur /\ req[p].at \in {"mark"} \cup Marked
<1> DEFINE r == req[p]
           t == req'[p]
           Done == t.op = "none"
           Starts == /\ t.op \in DeleteOp /\ t.at = "pick" /\ t.snapNodes = nodes
                     /\ UNCHANGED dbVars
           Goes == /\ r.op \in DeleteOp /\ t.op = r.op /\ t.snapNodes = r.snapNodes
                   /\ \/ t.at = "pick"
                      \/ t.todo = r.todo /\ Targets(t.cur, r.snapNodes) \cap r.todo = {}
                      \/ t.todo = r.todo /\ t.cur = r.cur /\ r.at \in {"mark"} \cup Marked
<1>0. req \in [Request -> ReqState] /\ r \in ReqState
  BY DEF HandlerInv, TypeOK
<1>a. \A u : Becomes(p, u) => t = u
  BY <1>0 DEF Becomes
<1>1. ASSUME NEW n \in Node, DeleteResourceStart(p, n) PROVE Starts
  BY <1>1, <1>a DEF DeleteResourceStart, Snapshot, Idle, DeleteOp
<1>2. ASSUME NEW op \in DeleteOp, DeleteSketchStart(p, op) PROVE Starts
  BY <1>2, <1>a DEF DeleteSketchStart, Snapshot, Idle, DeleteOp
<1>3. ASSUME NEW n \in Node, DeletePick(p, n) PROVE Goes
  <2>1. r.op \in DeleteOp /\ r.at = "pick" /\ Targets(n, r.snapNodes) \cap r.todo = {}
    BY <1>3 DEF DeletePick, At, DeleteTurn
  <2>2. \E s, a : t = [r EXCEPT !.todo = s] \/ t = [r EXCEPT !.cur = n, !.at = a]
    BY <1>3, <1>a DEF DeletePick
  <2>3. PICK s, a : t = [r EXCEPT !.todo = s] \/ t = [r EXCEPT !.cur = n, !.at = a]
    BY <2>2
  <2>4. CASE t = [r EXCEPT !.todo = s]
    BY <1>0, <2>1, <2>4 DEF ReqState
  <2>5. CASE t = [r EXCEPT !.cur = n, !.at = a]
    <3>1. t.op = r.op /\ t.snapNodes = r.snapNodes /\ t.todo = r.todo /\ t.cur = n
      BY <1>0, <2>5 DEF ReqState
    <3> QED
      BY <2>1, <3>1
  <2> QED
    BY <2>3, <2>4, <2>5
<1>4. ASSUME DeleteDetach(p) \/ DeleteRecord(p) PROVE Goes
  <2>1. r.op \in DeleteOp /\ t = ResourceDone(p)
    BY <1>4, <1>a DEF DeleteDetach, DeleteRecord, Deleting
  <2> QED
    BY <1>0, <2>1 DEF ResourceDone, ReqState
<1>5. ASSUME DeleteMark(p) \/ DeleteCall(p) \/ DeleteError(p) PROVE Goes
  <2>1. r.op \in DeleteOp /\ r.at \in {"mark", "delete"} /\ \E a : t = [r EXCEPT !.at = a]
    BY <1>5, <1>a DEF DeleteMark, DeleteCall, DeleteError, Deleting
  <2> QED
    BY <1>0, <2>1 DEF ReqState, Marked
<1>6. ASSUME DeletePause(p) \/ DeleteFail(p) \/ DeleteResourceDone(p) \/ DeleteAllDone(p) \/ DeleteSketchDone(p)
      PROVE  Done
  <2>1. t = Idle
    BY <1>6, <1>a DEF DeletePause, DeleteFail, DeleteResourceDone, DeleteAllDone, DeleteSketchDone, Finish
  <2> QED
    BY <2>1 DEF Idle
<1> QED
  <2> HIDE DEF Done, Starts, Goes
  <2>1. Done \/ Starts \/ Goes
    BY <1>1, <1>2, <1>3, <1>4, <1>5, <1>6 DEF Delete
  <2> QED
    BY <2>1 DEF Done, Starts, Goes

\* Likewise for an edit and for what went with the sketch.
LEMMA EditServes ==
    ASSUME HandlerInv, NEW p \in Request, Edit(p) \/ Orphaned(p)
    PROVE  req'[p].op \in {"deleteNode", "updateNode", "replaceGraph", "none"} \/ req'[p] = req[p]
<1>0. req \in [Request -> ReqState]
  BY DEF HandlerInv, TypeOK
<1>a. \A t : Becomes(p, t) => req'[p] = t
  BY <1>0 DEF Becomes
<1>1. ASSUME \/ Orphaned(p) \/ DeleteNode(p) \/ (\E m \in Mode : UpdateNode(p, m))
             \/ (\E fresh \in SUBSET Node : ReplaceGraph(p, fresh))
      PROVE  req'[p].op = "none"
  <2>1. req'[p] = Idle
    BY <1>1, <1>a DEF Orphaned, DeleteNode, UpdateNode, ReplaceGraph, Finish
  <2> QED
    BY <2>1 DEF Idle
<1>2. ASSUME \/ \E n \in Node : DeleteNodeStart(p, n) \/ UpdateNodeStart(p, n)
             \/ ReplaceGraphStart(p)
      PROVE  req'[p].op \in {"deleteNode", "updateNode", "replaceGraph"}
  BY <1>2, <1>a DEF DeleteNodeStart, UpdateNodeStart, ReplaceGraphStart, EditStart, Idle
<1>3. ASSUME \E n \in Node : CreateNode(p, n) PROVE req'[p] = req[p]
  BY <1>3 DEF CreateNode
<1> QED
  BY <1>1, <1>2, <1>3 DEF Edit

\* So neither a deletion nor an edit brings its slot into a publish or refresh.
LEMMA OthersServe ==
    ASSUME HandlerInv, NEW p \in Request, Delete(p) \/ Edit(p) \/ Orphaned(p)
    PROVE  req'[p].op \notin {"publish", "refresh"} \/ req'[p] = req[p]
<1>1. CASE Delete(p)
  <2>1. req'[p].op \in DeleteOp \cup {"none"}
    BY <1>1, DeleteServes
  <2> QED
    BY <2>1 DEF DeleteOp
<1>2. CASE Edit(p) \/ Orphaned(p)
  BY <1>2, EditServes
<1> QED
  BY <1>1, <1>2

\* An instance begins to stop only by the call of a deletion that notes it.
LEMMA BeginsToStop ==
    ASSUME HandlerInv, NoSlowDrift, [Next]_vars, NEW n \in Node, NEW i \in Instance,
           cloud[n][i] # "stopping", cloud'[n][i] = "stopping"
    PROVE  \E p \in Request : DeleteCall(p) /\ req[p].cur = n /\ row[n].ext = i /\ row' = row /\ Deletes(p, n)'
                              /\ req'[p].at = "deleted"
<1>0. /\ cloud \in [Node -> [Instance -> CloudState]] /\ req \in [Request -> ReqState]
  BY DEF HandlerInv, TypeOK
<1>1. ASSUME Aws PROVE FALSE
  <2>1. ASSUME NEW m \in Node, NEW j \in Instance, Settle(m, j) PROVE FALSE
    BY <2>1, <1>0 DEF Settle, Settled
  <2>2. ASSUME NEW m \in Node, NEW j \in Own, Drift(m, j) PROVE FALSE
    BY <2>2, <1>0 DEF Drift, NoSlowDrift
  <2> QED
    BY <1>1, <2>1, <2>2 DEF Aws
<1>2. PICK p \in Request : CallsAws(p) /\ UNCHANGED row
  BY <1>0, <1>1, Effects
<1>3. CallStep(p, n, i) /\ (n = req[p].cur \/ RefreshDelete(p, n))
  BY <1>2, CallSteps DEF StartedWith
<1>4. ~IsCloudFront(n) /\ cloud'[n][i] = AfterDelete(n, cloud[n][i]) /\ DeleteCall(p) /\ i = row[n].ext
      /\ cloud[n][i] \in Live
  <2>1. \/ /\ DeleteCall(p) \/ RefreshDelete(p, n)
           /\ RefreshDelete(p, n) => IsCloudFront(n)
           /\ i = row[n].ext
           /\ cloud'[n][i] = AfterDelete(n, cloud[n][i])
    BY <1>3 DEF CallStep, Live
  <2>2. ~IsCloudFront(n) /\ cloud[n][i] \in Live
    BY <2>1 DEF AfterDelete
  <2> QED
    BY <2>1, <2>2
<1>5. req[p].cur = n /\ req[p].op \in DeleteOp /\ req[p].at = "delete"
  BY <1>3, <1>4 DEF DeleteCall, Deleting, RefreshDelete, MayRead, Unread, At, DeleteOp
<1>6. req[p].snapRow[n].ext = i
  BY <1>4, <1>5, DeleteFacts DEF DeleteLocal, Marked
<1>7. req'[p] = [req[p] EXCEPT !.at = "deleted"]
  <2>1. ~DeletePending(n, cloud[n][i]) /\ DeleteFinds(n, cloud[n][i])
    BY <1>4 DEF DeletePending, DeleteFinds
  <2> QED
    BY <1>0, <1>4, <1>5, <1>6, <2>1 DEF DeleteCall, Becomes
<1>8. Deletes(p, n)' /\ req'[p].at = "deleted"
  BY <1>0, <1>5, <1>7 DEF ReqState, Deletes, Marked
<1> QED
  BY <1>2, <1>4, <1>5, <1>8

\* What a refresh makes of its slot: it sees of a resource what describe shows of
\* the instance in its row.
LEMMA RefreshServes ==
    ASSUME HandlerInv, NEW p \in Request, Refresh(p)
    PROVE  /\ req'[p].op \in {"refresh", "none"}
           /\ \A n \in Node : \/ req'[p].seen[n] \in {"unread", "MISSING", req[p].seen[n]}
                              \/ /\ req[p].op = "refresh" /\ UNCHANGED <<row, cloud>>
                                 /\ row[n].ext \in Instance /\ row[n].status \notin {"DELETING", "TERMINATED"}
                                 /\ req'[p].seen[n] = Observed(n, cloud[n][row[n].ext])
<1> DEFINE r == req[p]
           Sees(n) == \/ req'[p].seen[n] \in {"unread", "MISSING", r.seen[n]}
                      \/ /\ r.op = "refresh" /\ UNCHANGED <<row, cloud>>
                         /\ row[n].ext \in Instance /\ row[n].status \notin {"DELETING", "TERMINATED"}
                         /\ req'[p].seen[n] = Observed(n, cloud[n][row[n].ext])
           Goal == req'[p].op \in {"refresh", "none"} /\ \A n \in Node : Sees(n)
<1>0. req \in [Request -> ReqState] /\ r \in ReqState /\ row \in [Node -> Row]
  BY DEF HandlerInv, TypeOK
<1>a. \A t : Becomes(p, t) => req'[p] = t
  BY <1>0 DEF Becomes
<1>1. ASSUME RefreshStart(p) PROVE Goal
  <2>1. \E todo : req'[p] = Snapshot("refresh", "reading", todo)
    BY <1>1, <1>a DEF RefreshStart
  <2>2. req'[p].op = "refresh" /\ \A n \in Node : req'[p].seen[n] = "unread"
    BY <2>1 DEF Snapshot, Idle
  <2> QED
    BY <2>2
<1>2. ASSUME NEW m \in Node, r.op = "refresh", req'[p] = Dropped(p, m) PROVE Goal
  <2>1. req'[p].op = "refresh" /\ \A n \in Node : req'[p].seen[n] \in {"unread", r.seen[n]}
    BY <1>0, <1>2 DEF Dropped, ReqState
  <2> QED
    BY <2>1
<1>3. ASSUME NEW m \in Node, r.op = "refresh", NEW s, req'[p] = [r EXCEPT !.seen[m] = s]
      PROVE  req'[p].op = "refresh" /\ \A n \in Node : req'[p].seen[n] = IF n = m THEN s ELSE r.seen[n]
  BY <1>0, <1>3 DEF ReqState
<1>4. ASSUME NEW m \in Node, RefreshSkip(p, m) \/ RefreshWrite(p, m) \/ RefreshError(p, m) PROVE Goal
  BY <1>2, <1>4, <1>a DEF RefreshSkip, RefreshWrite, RefreshError, MayRead, Unread, At
<1>5. ASSUME NEW m \in Node, RefreshRead(p, m) PROVE Goal
  <2>1. /\ r.op = "refresh" /\ m \in r.todo /\ ~RefreshSkips(m, r.snapRow[m]) /\ r.snapRow[m].status # "DELETING"
        /\ UNCHANGED <<row, cloud>>
        /\ req'[p] = [r EXCEPT !.seen[m] = Observed(m, cloud[m][r.snapRow[m].ext])]
    BY <1>5, <1>a DEF RefreshRead, MayRead, Unread, At, RetriesDelete, dbVars
  <2>2. row[m] = r.snapRow[m] /\ r.snapRow[m].status # "TERMINATED"
    BY <2>1, RefreshFacts DEF RefreshLocal
  <2>3. row[m].ext \in Instance
    BY <1>0, <2>1, <2>2 DEF RefreshSkips, Row, Ext
  <2>4. /\ req'[p].op = "refresh"
        /\ \A n \in Node : req'[p].seen[n] = IF n = m THEN Observed(m, cloud[m][row[m].ext]) ELSE r.seen[n]
    BY <1>3, <2>1, <2>2
  <2> QED
    BY <2>1, <2>2, <2>3, <2>4
<1>6. ASSUME NEW m \in Node, RefreshDelete(p, m) PROVE Goal
  <2>1. r.op = "refresh" /\ (req'[p] = Dropped(p, m) \/ req'[p] = [r EXCEPT !.seen[m] = "MISSING"])
    BY <1>6, <1>a DEF RefreshDelete, MayRead, Unread, At
  <2> QED
    BY <1>2, <1>3, <2>1
<1>7. ASSUME RefreshDone(p) PROVE Goal
  <2>1. req'[p] = Idle
    BY <1>7, <1>a DEF RefreshDone, Finish
  <2> QED
    BY <2>1 DEF Idle
<1> QED
  <2> HIDE DEF Goal
  <2>1. Goal
    BY <1>1, <1>4, <1>5, <1>6, <1>7 DEF Refresh, RefreshStep
  <2> QED
    BY <2>1 DEF Goal

\* What is stopping in AWS is terminated, or its deletion is about to say so.
LEMMA StoppingNoted ==
    ASSUME OneHandler, HandlerInv, HalfDoneInv, ~CanRestart, NoSlowDrift, [Next]_vars, NEW n \in Node,
           row'[n].ext # NoExt, cloud'[n][row'[n].ext] = "stopping"
    PROVE  \/ row'[n].status = "TERMINATED"
           \/ \E p \in Request : Deletes(p, n)' /\ req'[p].at = "deleted"
<1>0. /\ row \in [Node -> Row] /\ row' \in [Node -> Row] /\ req \in [Request -> ReqState]
      /\ NoExt \notin Own /\ NoExt \notin Instance /\ RowOk(n, row[n])
  <2>1. row' \in [Node -> Row]
    BY NextType DEF HandlerInv, TypeOK
  <2> QED
    BY <2>1, ServiceAssumption DEF HandlerInv, TypeOK, RowsOk, Instance
<1> DEFINE i == row'[n].ext
<1>1. i \in Instance
  BY <1>0 DEF Row, Ext
<1>2. CASE cloud[n][i] # "stopping"
  BY <1>1, <1>2, BeginsToStop
<1>3. ASSUME cloud[n][i] = "stopping", row[n].ext = i, row[n].status # "TERMINATED"
      PROVE  \E p \in Request : Deletes(p, n) /\ req[p].at = "deleted"
  BY <1>0, <1>1, <1>3 DEF HalfDoneInv
<1>4. CASE cloud[n][i] = "stopping" /\ row'[n] = row[n]
  <2>1. CASE row[n].status = "TERMINATED"
    BY <1>4, <2>1
  <2>2. CASE row[n].status # "TERMINATED"
    <3>1. PICK p \in Request : Deletes(p, n) /\ req[p].at = "deleted"
      BY <1>3, <1>4, <2>2
    <3>2. row[n].status = "DELETING"
      BY <3>1, DeleteFacts DEF Deletes, DeleteLocal
    <3> QED
      BY <1>4, <3>1, <3>2, DeletionKept
  <2> QED
    BY <2>1, <2>2
<1>5. CASE cloud[n][i] = "stopping" /\ row'[n] # row[n]
  <2>1. CASE row'[n] = NoRow
    BY <2>1 DEF NoRow
  <2>2. ASSUME NEW p \in Request, n = req[p].cur \/ RefreshWrite(p, n), RowStep(p, n, row[n], row'[n])
        PROVE  row'[n].status = "TERMINATED"
    <3>1. req[p].op \in ResourceOp
      BY <2>2 DEF RowStep, ResourceOp, DeleteOp, PublishStoreUpdate, PublishUpsert, PublishCheckpoint, PublishStore,
                  PublishFail, DeleteDetach, DeleteMark, DeleteRecord, DeleteFail, RefreshWrite, NodeReady, At, Deleting
    <3>2. ASSUME row[n].ext = i, row[n].status # "TERMINATED"
          PROVE  req[p].op \in DeleteOp /\ req[p].at = "deleted"
      <4>1. PICK q \in Request : Deletes(q, n) /\ req[q].at = "deleted"
        BY <1>3, <1>5, <3>2
      <4>2. p = q
        BY <3>1, <4>1, OnlyWorker DEF Deletes, ResourceOp
      <4> QED
        BY <4>1, <4>2 DEF Deletes
    <3>3. ~PublishUpsert(p) /\ ~(req[p].op = "publish" /\ i = req[p].ext)
      <4>1. ASSUME PublishUpsert(p), n = req[p].cur PROVE FALSE
        <5>1. row'[n].ext = NoExt
          BY <1>0, <4>1 DEF PublishUpsert, SetRow
        <5> QED
          BY <5>1, <1>0, <1>1
      <4>2. ~(req[p].op = "publish" /\ i = req[p].ext /\ n = req[p].cur)
        BY <1>0, <1>1, <1>5 DEF HalfDoneInv
      <4>3. req[p].op = "publish" => n = req[p].cur
        BY <2>2 DEF RefreshWrite, At
      <4>4. PublishUpsert(p) => req[p].op = "publish"
        BY DEF PublishUpsert, NodeReady, At
      <4> QED
        BY <4>1, <4>2, <4>3, <4>4
    <3>4. /\ PublishStoreUpdate(p) \/ PublishUpsert(p) \/ PublishCheckpoint(p) \/ PublishStore(p) \/ PublishFail(p)
             => req[p].op = "publish"
          /\ DeleteMark(p) \/ DeleteDetach(p) \/ DeleteFail(p) => req[p].at # "deleted"
          /\ RefreshWrite(p, n) => req[p].op = "refresh"
      BY DEF PublishStoreUpdate, PublishUpsert, PublishCheckpoint, PublishStore, PublishFail, DeleteMark, DeleteDetach,
             DeleteFail, RefreshWrite, NodeReady, At, Deleting
    <3>5. row'[n].status = "TERMINATED" \/ (row[n].ext = i /\ row[n].status # "TERMINATED")
      BY <2>2, <3>3, <3>4 DEF RowStep
    <3>6. row'[n].status = "TERMINATED" \/ ~(req[p].op \in DeleteOp /\ req[p].at = "deleted")
      BY <2>2, <3>4 DEF RowStep, DeleteOp
    <3> QED
      BY <3>2, <3>5, <3>6
  <2> QED
    BY <1>5, <2>1, <2>2, ChangedRow DEF NoRow
<1> QED
  BY <1>2, <1>4, <1>5

\* A refresh sees no deletion in progress, for nobody else is at work.
LEMMA NoneSeenDeleting ==
    ASSUME OneHandler, HandlerInv, HalfDoneInv, ~CanRestart, [Next]_vars, NEW p \in Request, NEW n \in Node,
           req'[p].op = "refresh", ~IsCloudFront(n)
    PROVE  req'[p].seen[n] # "DELETING"
<1>1. CASE req'[p] = req[p]
  BY <1>1 DEF HalfDoneInv
<1>2. CASE Publish(p)
  BY <1>2, PublishServes
<1>3. CASE Refresh(p)
  <2>1. CASE req[p].op = "refresh" /\ row[n].ext \in Instance /\ row[n].status \notin {"DELETING", "TERMINATED"}
             /\ req'[p].seen[n] = Observed(n, cloud[n][row[n].ext])
    <3>1. \A q \in Request : ~Deletes(q, n)
      BY <2>1, OnlyWorker DEF Deletes, ResourceOp, DeleteOp
    <3>2. row[n].ext # NoExt
      BY <2>1, ServiceAssumption DEF Instance
    <3>3. cloud[n][row[n].ext] # "stopping"
      BY <2>1, <3>1, <3>2 DEF HalfDoneInv
    <3> QED
      BY <2>1, <3>3 DEF Observed
  <2>2. CASE req'[p].seen[n] \in {"unread", "MISSING"}
    BY <2>2
  <2>3. CASE req'[p].seen[n] = req[p].seen[n]
    <3>1. req[p].op = "refresh" \/ req[p].seen[n] # "DELETING" \/ req'[p].seen[n] = "unread"
      <4>1. ASSUME RefreshStart(p) PROVE req'[p].seen[n] = "unread"
        BY <4>1 DEF RefreshStart, Becomes, Snapshot, Idle, HandlerInv, TypeOK
      <4>2. ASSUME ~RefreshStart(p) PROVE req[p].op = "refresh"
        BY <1>3, <4>2 DEF Refresh, RefreshStep, RefreshSkip, RefreshRead, RefreshDelete, RefreshWrite, RefreshDone,
                          RefreshError, MayRead, Unread, At
      <4> QED
        BY <4>1, <4>2
    <3> QED
      BY <2>3, <3>1 DEF HalfDoneInv
  <2> QED
    BY <1>3, <2>1, <2>2, <2>3, RefreshServes
<1>4. CASE Delete(p) \/ Edit(p) \/ Orphaned(p)
  BY <1>1, <1>4, OthersServe
<1> QED
  BY <1>1, <1>2, <1>3, <1>4, NoRestart, SlotMoves DEF HandlerInv

\* What a publish holds, it held before, or it has just adopted or created it.
LEMMA HeldFrom ==
    ASSUME HandlerInv, [Next]_vars, NEW p \in Request, req'[p].op = "publish", req'[p].ext # NoExt
    PROVE  /\ req[p].op = "publish" /\ req[p].cur \in Node /\ req'[p].cur = req[p].cur
           /\ \/ req'[p].ext = req[p].ext
              \/ req'[p].ext = Foreign /\ IsAdoptable(req[p].cur) /\ cloud' = cloud
              \/ req'[p].ext \in Own /\ cloud'[req[p].cur][req'[p].ext] = FirstState(req[p].cur)
<1> DEFINE n == req[p].cur
           Goal == /\ req[p].op = "publish" /\ n \in Node /\ req'[p].cur = n
                   /\ \/ req'[p].ext = req[p].ext
                      \/ req'[p].ext = Foreign /\ IsAdoptable(n) /\ cloud' = cloud
                      \/ req'[p].ext \in Own /\ cloud'[n][req'[p].ext] = FirstState(n)
<1>0. req \in [Request -> ReqState] /\ req[p] \in ReqState /\ cloud \in [Node -> [Instance -> CloudState]]
  BY DEF HandlerInv, TypeOK
<1>1. ~Restart
  BY DEF Restart, Idle
<1>2. CASE req'[p] = req[p]
  BY <1>2, PublishFacts DEF PublishLocal
<1>3. CASE req'[p] # req[p]
  <2>1. Publish(p)
    BY <1>1, <1>3, SlotMoves, OthersServe, RefreshServes DEF HandlerInv
  <2>2. CASE PublishAdopt(p)
    <3>1. /\ req[p].op = "publish" /\ req[p].at = "create" /\ req[p].snapMode[n] = "existing"
          /\ req'[p] = [req[p] EXCEPT !.at = "store", !.ext = Foreign] /\ cloud' = cloud
      BY <1>0, <2>2 DEF PublishAdopt, At, Becomes
    <3>2. req'[p].cur = n /\ req'[p].ext = Foreign
      BY <1>0, <3>1 DEF ReqState
    <3>3. n \in Node /\ IsAdoptable(n)
      BY <3>1, PublishFacts DEF PublishLocal
    <3> QED
      BY <3>1, <3>2, <3>3
  <2>3. ASSUME NEW i \in Own, PublishCreate(p, i) PROVE Goal
    <3>1. req[p].op = "publish" /\ req[p].at = "create"
      BY <2>3 DEF PublishCreate, At
    <3>2. \E a : req'[p] = [req[p] EXCEPT !.at = a, !.ext = i]
      BY <1>0, <2>3 DEF PublishCreate, Becomes
    <3>3. req'[p].cur = n /\ req'[p].ext = i
      BY <1>0, <3>2 DEF ReqState
    <3>4. n \in Node /\ i \in Instance
      BY <3>1, PublishFacts DEF Instance
    <3>5. cloud'[n][i] = FirstState(n)
      BY <1>0, <2>3, <3>4, CreateStarts
    <3> QED
      BY <3>1, <3>3, <3>4, <3>5
  <2>4. CASE /\ req[p].op = "publish" /\ req[p].at \in {"checkpoint", "setup"}
             /\ ~PublishAdopt(p) /\ \A i \in Own : ~PublishCreate(p, i)
    <3>1. PublishCheckpoint(p) \/ PublishSetup(p) \/ PublishAwsError(p) \/ PublishStore(p) \/ PublishFail(p)
      <4>1. req[p].at \in Claimed
        BY <2>4 DEF Claimed
      <4> QED
        BY <1>1, <1>3, <2>4, <4>1, ClaimMoves
    <3>2. ~PublishStore(p) /\ ~PublishFail(p)
      BY <2>4 DEF PublishStore, PublishFail, At
    <3>3. ~PublishAwsError(p)
      <4>1. ASSUME PublishAwsError(p) PROVE req'[p].ext = NoExt
        <5>1. req'[p] = [req[p] EXCEPT !.at = "fail", !.ext = NoExt]
          BY <1>0, <4>1 DEF PublishAwsError, Becomes
        <5> QED
          BY <1>0, <5>1 DEF ReqState
      <4> QED
        BY <4>1
    <3>4. \E a : req'[p] = [req[p] EXCEPT !.at = a]
      BY <1>0, <3>1, <3>2, <3>3 DEF PublishCheckpoint, PublishSetup, Becomes
    <3>5. req'[p].cur = n /\ req'[p].ext = req[p].ext
      BY <1>0, <3>4 DEF ReqState
    <3>6. n \in Node
      BY <2>4, PublishFacts
    <3> QED
      BY <2>4, <3>5, <3>6
  <2> QED
    BY <2>1, <2>2, <2>3, <2>4, PublishServes
<1> QED
  BY <1>2, <1>3

\* What a publish holds is not about to stop.
LEMMA HeldRuns ==
    ASSUME OneHandler, HandlerInv, HalfDoneInv, AdoptedUntouched, NoSlowDrift, [Next]_vars,
           NEW p \in Request, req'[p].op = "publish", req'[p].ext # NoExt
    PROVE  cloud'[req'[p].cur][req'[p].ext] # "stopping"
<1> DEFINE n == req[p].cur
           i == req'[p].ext
<1>0. req[p].op = "publish" /\ n \in Node /\ req'[p].cur = n
  BY HeldFrom
<1>1. CASE i = req[p].ext
  <2>1. i \in Instance
    BY <1>1 DEF HandlerInv, TypeOK, ReqState, Ext
  <2>2. cloud[n][i] # "stopping"
    BY <1>0, <1>1 DEF HalfDoneInv
  <2>3. ASSUME NEW q \in Request, DeleteCall(q) PROVE FALSE
    <3>1. req[q].op \in DeleteOp
      BY <2>3 DEF DeleteCall, Deleting
    <3>2. q = p
      BY <1>0, <3>1, OnlyWorker DEF ResourceOp
    <3> QED
      BY <1>0, <3>1, <3>2 DEF DeleteOp
  <2> QED
    BY <1>0, <2>1, <2>2, <2>3, BeginsToStop
<1>2. CASE i = Foreign /\ IsAdoptable(n) /\ cloud' = cloud
  BY <1>0, <1>2 DEF AdoptedUntouched, FirstForeign
<1>3. CASE cloud'[n][i] = FirstState(n)
  BY <1>0, <1>3 DEF FirstState
<1> QED
  BY <1>1, <1>2, <1>3, HeldFrom

\* Every step keeps HalfDoneInv.
LEMMA HalfDoneNext ==
    ASSUME OneHandler, HandlerInv, HalfDoneInv, AdoptedUntouched, ~CanRestart, NoSlowDrift, [Next]_vars
    PROVE  HalfDoneInv'
<1>1. ASSUME NEW n \in Node
      PROVE  /\ (row[n].status = "PROVISIONING" /\ row[n].ext = NoExt => \E p \in Request : Claims(p, n))'
             /\ (row[n].status = "DELETING" /\ ~IsCloudFront(n) => \E p \in Request : Deletes(p, n))'
  BY PassingRows
<1>2. ASSUME NEW n \in Node, row'[n].ext # NoExt, cloud'[n][row'[n].ext] = "stopping"
      PROVE  \/ row'[n].status = "TERMINATED"
             \/ \E p \in Request : Deletes(p, n)' /\ req'[p].at = "deleted"
  BY <1>2, StoppingNoted
<1>3. ASSUME NEW p \in Request, NEW n \in Node, req'[p].op = "refresh", ~IsCloudFront(n)
      PROVE  req'[p].seen[n] # "DELETING"
  BY <1>3, NoneSeenDeleting
<1>4. ASSUME NEW p \in Request, req'[p].op = "publish", req'[p].ext # NoExt
      PROVE  cloud'[req'[p].cur][req'[p].ext] # "stopping"
  BY <1>4, HeldRuns
<1>5. (\A n \in Node : row[n].ext # NoExt /\ cloud[n][row[n].ext] = "stopping" =>
          \/ row[n].status = "TERMINATED"
          \/ \E p \in Request : Deletes(p, n) /\ req[p].at = "deleted")'
  BY <1>2
<1>6. (\A p \in Request, n \in Node : req[p].op = "refresh" /\ ~IsCloudFront(n) => req[p].seen[n] # "DELETING")'
  BY <1>3 DEF IsCloudFront
<1>7. (\A p \in Request : req[p].op = "publish" /\ req[p].ext # NoExt =>
          cloud[req[p].cur][req[p].ext] # "stopping")'
  BY <1>4
<1>8. (\A n \in Node : row[n].status = "PROVISIONING" /\ row[n].ext = NoExt => \E p \in Request : Claims(p, n))'
  BY <1>1
<1>9. (\A n \in Node : row[n].status = "DELETING" /\ ~IsCloudFront(n) => \E p \in Request : Deletes(p, n))'
  BY <1>1
<1> QED
  BY <1>5, <1>6, <1>7, <1>8, <1>9 DEF HalfDoneInv

\* In a new sketch nothing is half done.
LEMMA HalfDoneInit == Init => HalfDoneInv
<1> SUFFICES ASSUME Init PROVE HalfDoneInv
  OBVIOUS
<1>1. \A n \in Node : row[n].status = "NONE" /\ row[n].ext = NoExt
  BY DEF Init, NoRow
<1>2. \A p \in Request : req[p].op = "none"
  BY DEF Init, Idle
<1> QED
  BY <1>1, <1>2 DEF HalfDoneInv

\* Publishes do not overlap when nothing does.
LEMMA OneHandlerPublishes == OneHandler => SinglePublisher
BY DEF OneHandler, SinglePublisher, ResourceOp

\* While one handler works on the resources at a time and the server does not
\* die in the middle of it, no request leaves a resource in a passing state: a
\* row that is PROVISIONING without an identifier, which no refresh asks AWS
\* about, or DELETING without being a distribution, which no refresh continues.
THEOREM NothingLeftHalfDone ==
    ASSUME OneHandler, ~CanRestart, NoSlowDrift
    PROVE  Spec => []NothingHalfDone
<1>1. HandlerInv /\ [Next]_vars => HandlerInv'
  BY HandlerNext
<1>2. AdoptionInv /\ [Next]_vars => AdoptionInv'
  BY OneHandlerPublishes, AdoptionNext
<1>3. HandlerInv /\ AdoptionInv /\ HalfDoneInv /\ [Next]_vars => HalfDoneInv'
  BY HalfDoneNext DEF AdoptionInv
<1>4. HalfDoneInv => NothingHalfDone
  <2> SUFFICES ASSUME HalfDoneInv, \A p \in Request : req[p] = Idle PROVE NothingHalfDone
    BY DEF NothingHalfDone
  <2>1. ASSUME NEW p \in Request PROVE req[p].op = "none"
    BY DEF Idle
  <2>2. ASSUME NEW p \in Request, NEW n \in Node PROVE ~Claims(p, n) /\ ~Deletes(p, n)
    BY <2>1 DEF Claims, Deletes, DeleteOp
  <2> QED
    BY <2>2 DEF HalfDoneInv, NothingHalfDone
<1> QED
  BY HandlerInit, AdoptionInit, HalfDoneInit, <1>1, <1>2, <1>3, <1>4, PTL DEF Spec

-----------------------------------------------------------------------------
(* What a successful publish has published.                                 *)

\* Recorded as published, with an instance that exists.
InPlace(n) ==
    /\ row[n].status \in (IF IsCloudFront(n) THEN {"RUNNING", "PROVISIONING"} ELSE {"RUNNING"})
    /\ row[n].ext # NoExt
    /\ cloud[n][row[n].ext] \in Live

\* What is recorded as running, has been dealt with by a publish, is held by one
\* or was seen running by a refresh exists.
PublishedInv ==
    /\ \A n \in Node : row[n].status = "RUNNING" => cloud[n][row[n].ext] \in Live
    /\ \A p \in Request : req[p].op = "publish" =>
          /\ \A n \in req[p].snapNodes \ req[p].todo : InPlace(n)
          /\ req[p].ext # NoExt => cloud[req[p].cur][req[p].ext] \in Live
    /\ \A p \in Request, n \in Node :
          req[p].op = "refresh" /\ req[p].seen[n] = "RUNNING" => cloud[n][row[n].ext] \in Live

\* Without deletions from outside, only deleting the resource takes it away.
LEMMA TakenAway ==
    ASSUME HandlerInv, Drifting = {}, [Next]_vars, NEW n \in Node, NEW i \in Instance,
           cloud[n][i] \in Live, cloud'[n][i] \notin Live
    PROVE  \E p \in Request : req[p].op \in DeleteOp \cup {"refresh"} /\ row[n].status = "DELETING" /\ i = row[n].ext
<1>0. cloud \in [Node -> [Instance -> CloudState]]
  BY DEF HandlerInv, TypeOK
<1>1. ASSUME Aws PROVE FALSE
  <2>1. ASSUME NEW m \in Node, NEW j \in Instance, Settle(m, j) PROVE FALSE
    BY <2>1, <1>0 DEF Settle, Settled, Live
  <2>2. ASSUME NEW m \in Node, NEW j \in Own, Drift(m, j) PROVE FALSE
    BY <2>2 DEF Drift
  <2> QED
    BY <1>1, <2>1, <2>2 DEF Aws
<1>2. PICK p \in Request : CallsAws(p) /\ UNCHANGED row
  BY <1>0, <1>1, Effects
<1>3. CallStep(p, n, i)
  BY <1>2, CallSteps DEF StartedWith, Live
<1>4. (DeleteCall(p) \/ RefreshDelete(p, n)) /\ row[n].status = "DELETING" /\ i = row[n].ext
  BY <1>3 DEF CallStep
<1>5. req[p].op \in DeleteOp \cup {"refresh"}
  BY <1>4 DEF DeleteCall, Deleting, RefreshDelete, MayRead, Unread, At
<1> QED
  BY <1>4, <1>5

\* Who writes a row.
LEMMA RowWriters ==
    ASSUME NEW p \in Request, NEW n, NEW o, NEW t, RowStep(p, n, o, t)
    PROVE  /\ \/ /\ PublishStoreUpdate(p) \/ PublishUpsert(p) \/ PublishCheckpoint(p) \/ PublishStore(p) \/ PublishFail(p)
                 /\ req[p].op = "publish" /\ req[p].at # "next" /\ ~RefreshWrite(p, n)
              \/ /\ DeleteDetach(p) \/ DeleteMark(p) \/ DeleteRecord(p) \/ DeleteFail(p)
                 /\ req[p].op \in DeleteOp
              \/ /\ RefreshWrite(p, n)
                 /\ req[p].op = "refresh"
           /\ req[p].op \in ResourceOp
<1>1. CASE PublishStoreUpdate(p) \/ PublishUpsert(p) \/ PublishCheckpoint(p) \/ PublishStore(p) \/ PublishFail(p)
  <2>1. req[p].op = "publish" /\ req[p].at # "next"
    BY <1>1 DEF PublishStoreUpdate, PublishUpsert, PublishCheckpoint, PublishStore, PublishFail, NodeReady, At
  <2> QED
    BY <1>1, <2>1 DEF ResourceOp, RefreshWrite, At
<1>2. CASE DeleteDetach(p) \/ DeleteMark(p) \/ DeleteRecord(p) \/ DeleteFail(p)
  <2>1. req[p].op \in DeleteOp
    BY <1>2 DEF DeleteDetach, DeleteMark, DeleteRecord, DeleteFail, Deleting
  <2> QED
    BY <1>2, <2>1 DEF ResourceOp
<1>3. CASE RefreshWrite(p, n)
  BY <1>3 DEF RefreshWrite, At, ResourceOp
<1> QED
  BY <1>1, <1>2, <1>3 DEF RowStep

\* While a slot publishes or refreshes, only its own steps write rows.
LEMMA OwnRows ==
    ASSUME OneHandler, HandlerInv, [Next]_vars, NEW p \in Request, req[p].op \in {"publish", "refresh"},
           NEW n \in Node, row'[n] # row[n]
    PROVE  /\ RowStep(p, n, row[n], row'[n])
           /\ req[p].op = "publish" => n = req[p].cur /\ req[p].at # "next"
           /\ req[p].op = "refresh" => RefreshWrite(p, n)
<1>1. ASSUME NEW q \in Request, DeleteSketchDone(q) PROVE FALSE
  <2>1. req[q].op = "deleteSketch"
    BY <1>1 DEF DeleteSketchDone, At
  <2>2. q = p
    BY <2>1, OnlyWorker DEF ResourceOp, DeleteOp
  <2> QED
    BY <2>1, <2>2
<1>2. PICK q \in Request : /\ n = req[q].cur \/ RefreshWrite(q, n)
                           /\ RowStep(q, n, row[n], row'[n])
  BY <1>1, ChangedRow
<1>3. q = p
  BY <1>2, RowWriters, OnlyWorker DEF ResourceOp
<1> QED
  BY <1>2, <1>3, RowWriters DEF DeleteOp

\* What a publish has dealt with: nothing yet when it starts, then one node after
\* the other that it skips, updates or stores.
LEMMA PublishDeals ==
    ASSUME HandlerInv, [Next]_vars, NEW p \in Request, req'[p].op = "publish"
    PROVE  \/ req'[p].snapNodes \ req'[p].todo = {}
           \/ /\ req[p].op = "publish" /\ req'[p].snapNodes = req[p].snapNodes
              /\ \/ req'[p].todo = req[p].todo
                 \/ /\ req'[p].todo = req[p].todo \ {req[p].cur}
                    /\ PublishSkip(p) \/ PublishStoreUpdate(p) \/ PublishStore(p)
<1> DEFINE r == req[p]
           Goal == \/ req'[p].snapNodes \ req'[p].todo = {}
                   \/ /\ req[p].op = "publish" /\ req'[p].snapNodes = req[p].snapNodes
                      /\ \/ req'[p].todo = req[p].todo
                         \/ /\ req'[p].todo = req[p].todo \ {req[p].cur}
                            /\ PublishSkip(p) \/ PublishStoreUpdate(p) \/ PublishStore(p)
<1>0. req \in [Request -> ReqState] /\ r \in ReqState
  BY DEF HandlerInv, TypeOK
<1>a. \A t : Becomes(p, t) => req'[p] = t
  BY <1>0 DEF Becomes
<1>1. ASSUME PublishStart(p) PROVE Goal
  <2>1. \E m, u : req'[p] = [Snapshot("publish", "next", nodes) EXCEPT !.snapMode = m, !.used = u]
    BY <1>1, <1>a DEF PublishStart
  <2>2. req'[p].snapNodes = nodes /\ req'[p].todo = nodes
    BY <2>1 DEF Snapshot, Idle
  <2> QED
    BY <2>2
<1>2. ASSUME NEW n \in Node, PublishNext(p, n) \/ PublishSourceReady(p, n) PROVE Goal
  <2>1. r.op = "publish"
    BY <1>2 DEF PublishNext, PublishSourceReady, At
  <2>2. CASE PublishNext(p, n)
    <3>1. \E w : req'[p] = [r EXCEPT !.at = "wait", !.cur = n, !.wait = w]
      BY <1>a, <2>2 DEF PublishNext
    <3> QED
      BY <1>0, <2>1, <3>1 DEF ReqState
  <2>3. CASE PublishSourceReady(p, n)
    <3>1. \E w : req'[p] = [r EXCEPT !.wait = w]
      BY <1>a, <2>3 DEF PublishSourceReady
    <3> QED
      BY <1>0, <2>1, <3>1 DEF ReqState
  <2> QED
    BY <1>2, <2>2, <2>3
<1>3. ASSUME PublishBlocked(p) \/ PublishConflict(p) \/ PublishRejectNode(p) \/ PublishFail(p) \/ PublishDone(p)
      PROVE  FALSE
  <2>1. req'[p] = Idle
    BY <1>3, <1>a DEF PublishBlocked, PublishConflict, PublishRejectNode, PublishFail, PublishDone, Finish
  <2> QED
    BY <2>1 DEF Idle
<1>4. ASSUME PublishSkip(p) \/ PublishStoreUpdate(p) \/ PublishStore(p) PROVE Goal
  <2>1. r.op = "publish"
    BY <1>4 DEF PublishSkip, PublishStoreUpdate, PublishStore, NodeReady, At
  <2>2. req'[p] = NodeDone(p) \/ \E u : req'[p] = [NodeDone(p) EXCEPT !.used = u]
    <3>1. req'[p] = NodeDone(p) \/ req'[p] = [NodeDone(p) EXCEPT !.used[r.cur] = r.ext]
      BY <1>4, <1>a DEF PublishSkip, PublishStoreUpdate, PublishStore
    <3> QED
      BY <3>1
  <2>3. req'[p].snapNodes = r.snapNodes /\ req'[p].todo = r.todo \ {r.cur}
    BY <1>0, <2>2 DEF NodeDone, ReqState
  <2> QED
    BY <1>4, <2>1, <2>3
<1>5. ASSUME PublishUpdate(p) \/ PublishUpsert(p) \/ PublishCheckpoint(p) \/ PublishSetup(p) PROVE Goal
  <2>1. r.op = "publish" /\ \E a : req'[p] = [r EXCEPT !.at = a]
    BY <1>5, <1>a DEF PublishUpdate, PublishUpsert, PublishCheckpoint, PublishSetup, NodeReady, At
  <2> QED
    BY <1>0, <2>1 DEF ReqState
<1>6. ASSUME PublishAdopt(p) \/ PublishAwsError(p) \/ \E i \in Own : PublishCreate(p, i) PROVE Goal
  <2>1. r.op = "publish" /\ \E a, e : req'[p] = [r EXCEPT !.at = a, !.ext = e]
    <3>1. CASE PublishAdopt(p)
      BY <1>a, <3>1 DEF PublishAdopt, At
    <3>2. CASE PublishAwsError(p)
      BY <1>a, <3>2 DEF PublishAwsError, At
    <3>3. ASSUME NEW i \in Own, PublishCreate(p, i)
          PROVE  r.op = "publish" /\ \E a, e : req'[p] = [r EXCEPT !.at = a, !.ext = e]
      BY <1>a, <3>3 DEF PublishCreate, At
    <3> QED
      BY <1>6, <3>1, <3>2, <3>3
  <2> QED
    BY <1>0, <2>1 DEF ReqState
<1>7. CASE req'[p] = req[p]
  BY <1>7
<1>8. CASE req'[p] # req[p]
  <2>1. ~Restart
    BY DEF Restart, Idle
  <2>2. Publish(p)
    BY <1>8, <2>1, SlotMoves, OthersServe, RefreshServes DEF HandlerInv
  <2> HIDE DEF Goal
  <2>3. Goal
    BY <2>2, <1>1, <1>2, <1>3, <1>4, <1>5, <1>6 DEF Publish
  <2> QED
    BY <2>3 DEF Goal
<1> QED
  BY <1>7, <1>8

\* A recorded running instance exists: a publish stored what it holds, or a
\* refresh what it saw.
LEMMA RunningLives ==
    ASSUME OneHandler, HandlerInv, PublishedInv, Drifting = {}, [Next]_vars, NEW n \in Node,
           row'[n].status = "RUNNING"
    PROVE  cloud'[n][row'[n].ext] \in Live
<1>0. /\ row \in [Node -> Row] /\ RowOk(n, row[n]) /\ NoExt \notin Instance
  BY ServiceAssumption DEF HandlerInv, TypeOK, RowsOk, Instance
<1>1. CASE row'[n] = row[n]
  <2>1. cloud[n][row[n].ext] \in Live /\ row[n].ext \in Instance
    BY <1>0, <1>1 DEF PublishedInv, RowOk, Row, Ext
  <2> QED
    BY <1>1, <2>1, TakenAway
<1>2. CASE row'[n] # row[n]
  <2>1. PICK p \in Request : /\ n = req[p].cur \/ RefreshWrite(p, n)
                             /\ RowStep(p, n, row[n], row'[n])
    BY <1>2, ChangedRow DEF NoRow
  <2>2. \/ PublishStoreUpdate(p) /\ row[n].status = "RUNNING" /\ row'[n].ext = row[n].ext
        \/ PublishStore(p) /\ row'[n].ext = req[p].ext /\ req[p].ext \in Instance
        \/ RefreshWrite(p, n) /\ req[p].seen[n] = "RUNNING" /\ row'[n].ext = row[n].ext
    BY <2>1 DEF RowStep
  <2>3. UNCHANGED cloud
    BY <2>2 DEF PublishStoreUpdate, PublishStore, RefreshWrite
  <2>4. CASE PublishStoreUpdate(p) /\ row[n].status = "RUNNING" /\ row'[n].ext = row[n].ext
    BY <2>3, <2>4 DEF PublishedInv
  <2>5. CASE PublishStore(p) /\ row'[n].ext = req[p].ext /\ req[p].ext \in Instance
    <3>1. req[p].op = "publish" /\ req[p].cur = n
      BY <2>1, <2>5 DEF PublishStore, At, RefreshWrite
    <3> QED
      BY <1>0, <2>3, <2>5, <3>1 DEF PublishedInv
  <2>6. CASE RefreshWrite(p, n) /\ req[p].seen[n] = "RUNNING" /\ row'[n].ext = row[n].ext
    BY <2>3, <2>6 DEF PublishedInv, RefreshWrite, At
  <2> QED
    BY <2>2, <2>4, <2>5, <2>6
<1> QED
  BY <1>1, <1>2

\* What a publish has dealt with stays in place while it runs.
LEMMA DealtInPlace ==
    ASSUME OneHandler, HandlerInv, PublishedInv, Drifting = {}, [Next]_vars, NEW p \in Request,
           req'[p].op = "publish", NEW n \in req'[p].snapNodes \ req'[p].todo
    PROVE  InPlace(n)'
<1>0. /\ row \in [Node -> Row] /\ req[p] \in ReqState /\ NoExt \notin Instance
      /\ \A m \in Node : row[m].ext # NoExt => row[m].ext \in Instance
  BY ServiceAssumption DEF HandlerInv, TypeOK, Instance, Row, Ext
<1>1. req[p].op = "publish" /\ n \in req[p].snapNodes /\ n \in Node
  BY <1>0, PublishDeals DEF ReqState
<1>2. PublishLocal(req[p], row) /\ req[p].todo \subseteq Node
  BY <1>1, PublishFacts
<1>3. ASSUME NEW i \in Instance, cloud[n][i] \in Live PROVE cloud'[n][i] \in Live
  <2>1. \A q \in Request : req[q].op \in DeleteOp \cup {"refresh"} => q = p
    BY <1>1, OnlyWorker DEF ResourceOp
  <2> QED
    BY <1>1, <1>3, <2>1, TakenAway DEF DeleteOp
<1>4. CASE n \notin req[p].todo
  <2>1. InPlace(n)
    BY <1>1, <1>4 DEF PublishedInv
  <2>2. row'[n] = row[n]
    BY <1>1, <1>2, <1>4, OwnRows DEF PublishLocal
  <2> QED
    BY <1>0, <1>1, <1>3, <2>1, <2>2 DEF InPlace, IsCloudFront
<1>5. CASE n \in req[p].todo
  <2>1. n = req[p].cur /\ (PublishSkip(p) \/ PublishStoreUpdate(p) \/ PublishStore(p))
    BY <1>5, PublishDeals
  <2>2. CASE PublishSkip(p)
    <3>1. /\ req[p].at = "wait" /\ req[p].snapRow[n].status = "RUNNING" /\ req[p].snapRow[n].ext # NoExt
          /\ row' = row
      BY <2>1, <2>2 DEF PublishSkip, NodeReady, At, WasRunning, dbVars
    <3>2. row[n] = req[p].snapRow[n]
      BY <1>2, <1>5, <3>1 DEF PublishLocal, Claimed
    <3>3. cloud[n][row[n].ext] \in Live
      BY <1>1, <3>1, <3>2 DEF PublishedInv
    <3> QED
      BY <1>0, <1>1, <1>3, <3>1, <3>2, <3>3 DEF InPlace, IsCloudFront
  <2>3. CASE PublishStoreUpdate(p)
    <3>1. /\ req[p].at = "updated" /\ cloud' = cloud
          /\ row' = [row EXCEPT ![n] = [row[n] EXCEPT !.setup = "stored",
                                            !.status = IF IsCloudFront(n) THEN "PROVISIONING" ELSE @]]
      BY <2>1, <2>3 DEF PublishStoreUpdate, SetRow, At
    <3>2. row[n].status = "RUNNING" /\ row[n].ext # NoExt
      BY <1>2, <2>1, <3>1 DEF PublishLocal, Claimed
    <3>3. row'[n].status = (IF IsCloudFront(n) THEN "PROVISIONING" ELSE "RUNNING") /\ row'[n].ext = row[n].ext
      BY <1>0, <1>1, <3>1, <3>2 DEF Row
    <3>4. cloud[n][row[n].ext] \in Live
      BY <1>1, <3>2 DEF PublishedInv
    <3> QED
      BY <3>1, <3>2, <3>3, <3>4 DEF InPlace, IsCloudFront
  <2>4. CASE PublishStore(p)
    <3>1. /\ req[p].at = "store" /\ cloud' = cloud
          /\ row' = [row EXCEPT ![n] = [row[n] EXCEPT !.ext = req[p].ext, !.setup = "stored",
                                            !.status = IF IsCloudFront(n) THEN "PROVISIONING" ELSE "RUNNING"]]
      BY <2>1, <2>4 DEF PublishStore, SetRow, At
    <3>2. req[p].ext \in Instance
      BY <1>2, <3>1 DEF PublishLocal
    <3>3. row'[n].status = (IF IsCloudFront(n) THEN "PROVISIONING" ELSE "RUNNING") /\ row'[n].ext = req[p].ext
      BY <1>0, <1>1, <3>1 DEF Row
    <3>4. cloud[n][req[p].ext] \in Live
      BY <1>0, <1>1, <2>1, <3>2 DEF PublishedInv
    <3> QED
      BY <1>0, <3>1, <3>2, <3>3, <3>4 DEF InPlace, IsCloudFront
  <2> QED
    BY <2>1, <2>2, <2>3, <2>4
<1> QED
  BY <1>4, <1>5

\* What a publish holds exists.
LEMMA HeldLives ==
    ASSUME OneHandler, HandlerInv, PublishedInv, AdoptedUntouched, Drifting = {}, [Next]_vars,
           NEW p \in Request, req'[p].op = "publish", req'[p].ext # NoExt
    PROVE  cloud'[req'[p].cur][req'[p].ext] \in Live
<1> DEFINE n == req[p].cur
           i == req'[p].ext
<1>0. req[p].op = "publish" /\ n \in Node /\ req'[p].cur = n
  BY HeldFrom
<1>1. CASE i = req[p].ext
  <2>1. i \in Instance /\ cloud[n][i] \in Live
    BY <1>0, <1>1 DEF HandlerInv, TypeOK, ReqState, Ext, PublishedInv
  <2>2. \A q \in Request : req[q].op \in DeleteOp \cup {"refresh"} => q = p
    BY <1>0, OnlyWorker DEF ResourceOp
  <2> QED
    BY <1>0, <2>1, <2>2, TakenAway DEF DeleteOp
<1>2. CASE i = Foreign /\ IsAdoptable(n) /\ cloud' = cloud
  BY <1>0, <1>2 DEF AdoptedUntouched, FirstForeign, Live
<1>3. CASE cloud'[n][i] = FirstState(n)
  BY <1>0, <1>3 DEF FirstState, Live
<1> QED
  BY <1>1, <1>2, <1>3, HeldFrom

\* What a refresh saw running exists until it has written it.
LEMMA SeenLives ==
    ASSUME OneHandler, HandlerInv, PublishedInv, Drifting = {}, [Next]_vars, NEW p \in Request, NEW n \in Node,
           req'[p].op = "refresh", req'[p].seen[n] = "RUNNING"
    PROVE  cloud'[n][row'[n].ext] \in Live
<1>0. req \in [Request -> ReqState] /\ req[p] \in ReqState /\ row \in [Node -> Row]
  BY DEF HandlerInv, TypeOK
<1>1. CASE req[p].op = "refresh" /\ req'[p].seen[n] = req[p].seen[n]
  <2>1. /\ n \in req[p].todo /\ ~RefreshSkips(n, req[p].snapRow[n])
        /\ row[n] = req[p].snapRow[n] /\ req[p].snapRow[n].status # "DELETING"
    BY <1>1, RefreshFacts DEF RefreshLocal
  <2>2. ASSUME RefreshWrite(p, n) PROVE FALSE
    <3>1. req'[p] = Dropped(p, n)
      BY <1>0, <2>2 DEF RefreshWrite, Becomes
    <3> QED
      BY <1>0, <3>1 DEF Dropped, ReqState
  <2>3. row'[n] = row[n]
    BY <1>1, <2>2, OwnRows
  <2>4. cloud[n][row[n].ext] \in Live /\ row[n].ext \in Instance
    BY <1>0, <1>1, <2>1 DEF PublishedInv, RefreshSkips, Row, Ext
  <2> QED
    BY <2>1, <2>3, <2>4, TakenAway
<1>2. CASE /\ UNCHANGED <<row, cloud>>
           /\ req'[p].seen[n] = Observed(n, cloud[n][row[n].ext])
  BY <1>2 DEF Observed, Live
<1>3. CASE req'[p] # req[p] /\ req[p].op # "refresh" /\ req'[p].seen[n] = req[p].seen[n]
  <2>1. ~Restart
    BY DEF Restart, Idle
  <2>2. Refresh(p)
    BY <1>3, <2>1, SlotMoves, PublishServes, OthersServe DEF HandlerInv
  <2>3. RefreshStart(p)
    BY <1>3, <2>2 DEF Refresh, RefreshStep, RefreshSkip, RefreshRead, RefreshDelete, RefreshWrite, RefreshDone,
                      RefreshError, MayRead, Unread, At
  <2>4. \E todo : req'[p] = Snapshot("refresh", "reading", todo)
    BY <1>0, <2>3 DEF RefreshStart, Becomes
  <2> QED
    BY <2>4 DEF Snapshot, Idle
<1>4. CASE req'[p] # req[p]
  <2>1. ~Restart
    BY DEF Restart, Idle
  <2>2. Refresh(p)
    BY <1>4, <2>1, SlotMoves, PublishServes, OthersServe DEF HandlerInv
  <2> QED
    BY <1>1, <1>2, <1>3, <1>4, <2>2, RefreshServes
<1> QED
  BY <1>1, <1>4

\* Every step keeps PublishedInv.
LEMMA PublishedNext ==
    ASSUME OneHandler, HandlerInv, PublishedInv, AdoptedUntouched, Drifting = {}, [Next]_vars
    PROVE  PublishedInv'
<1>1. (\A n \in Node : row[n].status = "RUNNING" => cloud[n][row[n].ext] \in Live)'
  BY RunningLives DEF Live
<1>2. ASSUME NEW p \in Request, req'[p].op = "publish"
      PROVE  /\ (\A n \in req[p].snapNodes \ req[p].todo : InPlace(n))'
             /\ req'[p].ext # NoExt => cloud'[req'[p].cur][req'[p].ext] \in Live
  BY <1>2, DealtInPlace, HeldLives
<1>3. (\A p \in Request, n \in Node :
          req[p].op = "refresh" /\ req[p].seen[n] = "RUNNING" => cloud[n][row[n].ext] \in Live)'
  BY SeenLives DEF Live
<1> QED
  BY <1>1, <1>2, <1>3 DEF PublishedInv, Live

\* In a new sketch nothing is published.
LEMMA PublishedInit == Init => PublishedInv
<1> SUFFICES ASSUME Init PROVE PublishedInv
  OBVIOUS
<1>1. \A n \in Node : row[n].status = "NONE"
  BY DEF Init, NoRow
<1>2. \A p \in Request : req[p].op = "none"
  BY DEF Init, Idle
<1> QED
  BY <1>1, <1>2 DEF PublishedInv

\* A publish says SUCCEEDED only when it has dealt with its whole plan.
LEMMA Succeeds ==
    ASSUME HandlerInv, [Next]_vars, NEW p \in Request,
           req[p].op = "publish", receipt[p] = "PENDING", receipt'[p] = "SUCCEEDED"
    PROVE  req[p].todo = {}
<1>0. receipt \in [Request -> ReceiptStatus]
  BY DEF HandlerInv, TypeOK
<1>a. ASSUME NEW q \in Request, NEW s, SetReceipt(q, s), q # p \/ s # "SUCCEEDED" PROVE FALSE
  BY <1>0, <1>a DEF SetReceipt
<1>1. ASSUME NEW q \in Request, Publish(q) PROVE req[p].todo = {}
  <2>1. CASE PublishStart(q) \/ PublishBlocked(q) \/ PublishRejectNode(q) \/ PublishFail(q)
    BY <2>1, <1>a DEF PublishStart, PublishBlocked, PublishRejectNode, PublishFail
  <2>2. CASE PublishDone(q)
    BY <2>2, <1>a DEF PublishDone
  <2>3. CASE \/ PublishSkip(q) \/ PublishUpdate(q) \/ PublishStoreUpdate(q) \/ PublishConflict(q) \/ PublishUpsert(q)
             \/ PublishAdopt(q) \/ PublishCheckpoint(q) \/ PublishSetup(q) \/ PublishAwsError(q) \/ PublishStore(q)
             \/ \E i \in Own : PublishCreate(q, i)
             \/ \E n \in Node : PublishNext(q, n) \/ PublishSourceReady(q, n)
    BY <2>3 DEF PublishSkip, PublishUpdate, PublishStoreUpdate, PublishConflict, PublishUpsert, PublishAdopt,
                PublishCheckpoint, PublishSetup, PublishAwsError, PublishStore, PublishCreate, PublishNext,
                PublishSourceReady
  <2> QED
    BY <1>1, <2>1, <2>2, <2>3 DEF Publish
<1>2. ASSUME NEW q \in Request, Delete(q) PROVE FALSE
  <2>1. CASE DeleteMark(q) \/ DeleteRecord(q) \/ DeletePause(q) \/ DeleteFail(q)
    <3>1. q # p
      BY <2>1 DEF DeleteMark, DeleteRecord, DeletePause, DeleteFail, Deleting, DeleteOp
    <3>2. \E s : SetReceipt(q, s)
      BY <2>1 DEF DeleteMark, DeleteRecord, DeletePause, DeleteFail
    <3> QED
      BY <3>1, <3>2, <1>a
  <2>2. CASE DeleteSketchDone(q)
    BY <2>2 DEF DeleteSketchDone
  <2>3. CASE \/ DeleteDetach(q) \/ DeleteCall(q) \/ DeleteError(q) \/ DeleteResourceDone(q) \/ DeleteAllDone(q)
             \/ \E n \in Node : DeleteResourceStart(q, n) \/ DeletePick(q, n)
             \/ \E op \in DeleteOp : DeleteSketchStart(q, op)
    BY <2>3 DEF DeleteDetach, DeleteCall, DeleteError, DeleteResourceDone, DeleteAllDone, DeleteResourceStart,
                DeletePick, DeleteSketchStart
  <2> QED
    BY <1>2, <2>1, <2>2, <2>3 DEF Delete
<1>3. ASSUME NEW q \in Request, Refresh(q) PROVE FALSE
  BY <1>3 DEF Refresh, RefreshStart, RefreshStep, RefreshSkip, RefreshRead, RefreshDelete, RefreshWrite, RefreshDone,
              RefreshError
<1>4. ASSUME NEW q \in Request, Edit(q) \/ Orphaned(q) PROVE FALSE
  BY <1>4 DEF Edit, CreateNode, DeleteNodeStart, UpdateNodeStart, EditStart, DeleteNode, UpdateNode,
              ReplaceGraphStart, ReplaceGraph, Orphaned
<1>5. ASSUME Restart \/ Aws \/ UNCHANGED vars PROVE FALSE
  BY <1>5 DEF Restart, Aws, Settle, Drift, vars
<1> QED
  BY <1>1, <1>2, <1>3, <1>4, <1>5 DEF Next

\* The step that says SUCCEEDED finds every node of its plan in place.
LEMMA SucceededNext ==
    ASSUME HandlerInv, PublishedInv, [Next]_vars, NEW p \in Request,
           req[p].op = "publish", receipt[p] = "PENDING", receipt'[p] = "SUCCEEDED", NEW n \in req[p].snapNodes
    PROVE  InPlace(n)
BY Succeeds DEF PublishedInv

\* While one handler works on the resources at a time and nobody deletes them
\* outside CloudCanvas, a publish whose receipt says SUCCEEDED has left every
\* node of its plan with a recorded instance that exists in AWS, whether it
\* created, adopted, updated or skipped it, and whatever the restarts, earlier
\* failures and canvas edits in between.
THEOREM SuccessMeansPublished ==
    ASSUME OneHandler, Drifting = {}
    PROVE  Spec => SucceededMeansPublished
<1>1. HandlerInv /\ [Next]_vars => HandlerInv'
  BY HandlerNext
<1>2. AdoptionInv /\ [Next]_vars => AdoptionInv'
  BY OneHandlerPublishes, AdoptionNext
<1>3. HandlerInv /\ AdoptionInv /\ PublishedInv /\ [Next]_vars => PublishedInv'
  BY PublishedNext DEF AdoptionInv
<1> DEFINE A == \A p \in Request :
          req[p].op = "publish" /\ receipt[p] = "PENDING" /\ receipt'[p] = "SUCCEEDED" =>
              \A n \in req[p].snapNodes :
                  /\ row[n].status \in (IF IsCloudFront(n) THEN {"RUNNING", "PROVISIONING"} ELSE {"RUNNING"})
                  /\ row[n].ext # NoExt
                  /\ cloud[n][row[n].ext] \in Live
<1>4. HandlerInv /\ PublishedInv /\ [Next]_vars => [A]_vars
  BY SucceededNext DEF InPlace
<1>5. Spec => [][A]_vars
  <2> HIDE DEF A
  <2> QED
    BY HandlerInit, AdoptionInit, PublishedInit, <1>1, <1>2, <1>3, <1>4, PTL DEF Spec
<1> QED
  BY <1>5 DEF SucceededMeansPublished

-----------------------------------------------------------------------------
(* What the guards of canvas edits and the order of a deletion achieve.     *)

\* The edits that take nodes away do not overlap with resource handlers either.
\* Nothing in the server enforces it: EditRace is a run without it.
GuardedOp == ResourceOp \cup {"deleteNode", "replaceGraph"}
OneGuarded ==
    \A p, q \in Request : Ops[p] \cap GuardedOp # {} /\ Ops[q] \cap GuardedOp # {} => p = q

\* A resource that a node can lose without being forgotten.
Forgettable(r) == r.status \in {"NONE", "TERMINATED"} \/ (r.status = "FAILED" /\ r.ext = NoExt)

\* What an edit read still holds when it writes.
EditInv ==
    /\ LiveKeepsNode
    /\ \A p \in Request : At(p, "deleteNode", "edit") => req[p].cur \in Node /\ Forgettable(row[req[p].cur])
    /\ \A p \in Request : req[p].op = "replaceGraph" => \A n \in Node : row[n].status \in {"NONE", "TERMINATED"}

\* Guarding the edits too only asks for more.
LEMMA GuardedHandler == OneGuarded => OneHandler
BY DEF OneGuarded, OneHandler, GuardedOp, ResourceOp

\* Rows change only in the slot that may also take nodes away.
LEMMA GuardedRows ==
    ASSUME OneGuarded, HandlerInv, [Next]_vars, NEW p \in Request, req[p].op \in {"deleteNode", "replaceGraph"}
    PROVE  \A n \in Node : row'[n] = row[n]
<1>1. Ops[p] \cap GuardedOp # {}
  BY DEF HandlerInv, LocalsOk, Local, GuardedOp
<1>2. ASSUME NEW q \in Request, req[q].op \in ResourceOp PROVE FALSE
  <2>1. Ops[q] \cap GuardedOp # {}
    BY <1>2 DEF HandlerInv, LocalsOk, Local, GuardedOp, ResourceOp, DeleteOp
  <2>2. p = q
    BY <1>1, <2>1 DEF OneGuarded
  <2> QED
    BY <1>2, <2>2 DEF ResourceOp, DeleteOp
<1>3. ASSUME NEW q \in Request, DeleteSketchDone(q) PROVE FALSE
  BY <1>2, <1>3 DEF DeleteSketchDone, At, ResourceOp, DeleteOp
<1> QED
  BY <1>2, <1>3, ChangedRow, RowWriters

\* No step of a handler makes a resource matter again whose node is gone.
LEMMA SettledKept ==
    ASSUME HandlerInv, [Next]_vars, NEW n \in Node, Forgettable(row[n]), ~Forgettable(row'[n])
    PROVE  n \in nodes /\ nodes' = nodes /\ \E p \in Request : PublishUpsert(p)
<1>1. row'[n] # row[n] /\ row'[n] # NoRow
  BY DEF NoRow, Forgettable
<1>2. PICK p \in Request : /\ n = req[p].cur \/ RefreshWrite(p, n)
                           /\ RowStep(p, n, row[n], row'[n])
  BY <1>1, ChangedRow
<1>3. PublishUpsert(p)
  BY <1>2 DEF RowStep, Forgettable, InAws, RefreshSkips
<1>4. ~RefreshWrite(p, n)
  BY <1>3 DEF PublishUpsert, NodeReady, RefreshWrite, At
<1> QED
  BY <1>2, <1>3, <1>4 DEF PublishUpsert

\* The steps that take nodes away.
LEMMA NodesTaken ==
    ASSUME [Next]_vars
    PROVE  \/ nodes \subseteq nodes'
           \/ \E p \in Request : \/ DeleteNode(p)
                                 \/ \E fresh \in SUBSET Node : ReplaceGraph(p, fresh)
                                 \/ DeleteSketchDone(p)
<1> USE DEF dbVars
<1>1. ASSUME NEW p \in Request, Publish(p) PROVE nodes' = nodes
  BY <1>1 DEF Publish, PublishStart, PublishNext, PublishSourceReady, PublishBlocked, PublishSkip, PublishUpdate,
              PublishStoreUpdate, PublishConflict, PublishUpsert, PublishRejectNode, PublishAdopt, PublishCreate,
              PublishCheckpoint, PublishSetup, PublishAwsError, PublishStore, PublishFail, PublishDone
<1>2. ASSUME NEW p \in Request, Delete(p), ~DeleteSketchDone(p) PROVE nodes' = nodes
  BY <1>2 DEF Delete, DeleteResourceStart, DeletePick, DeleteSketchStart, DeleteDetach, DeleteMark, DeleteCall,
              DeleteError, DeleteRecord, DeletePause, DeleteFail, DeleteResourceDone, DeleteAllDone
<1>3. ASSUME NEW p \in Request, Refresh(p) PROVE nodes' = nodes
  BY <1>3 DEF Refresh, RefreshStart, RefreshStep, RefreshSkip, RefreshRead, RefreshDelete, RefreshWrite, RefreshDone,
              RefreshError
<1>4. ASSUME NEW p \in Request, Edit(p), ~DeleteNode(p), ~\E fresh \in SUBSET Node : ReplaceGraph(p, fresh)
      PROVE  nodes \subseteq nodes'
  BY <1>4 DEF Edit, CreateNode, DeleteNodeStart, UpdateNodeStart, EditStart, UpdateNode, ReplaceGraphStart
<1>5. ASSUME NEW p \in Request, Orphaned(p) PROVE nodes' = nodes
  BY <1>5 DEF Orphaned
<1>6. ASSUME Restart \/ Aws \/ UNCHANGED vars PROVE nodes' = nodes
  BY <1>6 DEF Restart, Aws, Settle, Drift, vars
<1> QED
  BY <1>1, <1>2, <1>3, <1>4, <1>5, <1>6 DEF Next

\* Only its first half brings an edit into its slot.
LEMMA EditStarts ==
    ASSUME HandlerInv, [Next]_vars, ~Restart, NEW p \in Request, req'[p] # req[p],
           req'[p].op \in {"deleteNode", "replaceGraph"}
    PROVE  \/ req'[p].op = "deleteNode" /\ \E n \in Node : DeleteNodeStart(p, n)
           \/ req'[p].op = "replaceGraph" /\ ReplaceGraphStart(p)
<1>0. req \in [Request -> ReqState]
  BY DEF HandlerInv, TypeOK
<1>a. \A t : Becomes(p, t) => req'[p] = t
  BY <1>0 DEF Becomes
<1>1. ~Publish(p)
  BY PublishServes
<1>2. ~Refresh(p)
  BY RefreshServes
<1>3. ~Delete(p)
  <2>1. Delete(p) => req'[p].op \in DeleteOp \cup {"none"}
    BY DeleteServes
  <2> QED
    BY <2>1 DEF DeleteOp
<1>4. ASSUME \/ Orphaned(p) \/ DeleteNode(p) \/ (\E m \in Mode : UpdateNode(p, m))
             \/ (\E fresh \in SUBSET Node : ReplaceGraph(p, fresh))
      PROVE  FALSE
  <2>1. req'[p] = Idle
    BY <1>4, <1>a DEF Orphaned, DeleteNode, UpdateNode, ReplaceGraph, Finish
  <2> QED
    BY <2>1 DEF Idle
<1>5. ASSUME NEW n \in Node, UpdateNodeStart(p, n) \/ CreateNode(p, n) PROVE FALSE
  BY <1>5, <1>a DEF UpdateNodeStart, EditStart, Idle, CreateNode
<1>6. ASSUME NEW n \in Node, DeleteNodeStart(p, n) PROVE req'[p].op = "deleteNode"
  BY <1>6, <1>a DEF DeleteNodeStart, EditStart, Idle
<1>7. ASSUME ReplaceGraphStart(p) PROVE req'[p].op = "replaceGraph"
  BY <1>7, <1>a DEF ReplaceGraphStart, EditStart, Idle
<1>8. Edit(p) \/ Orphaned(p)
  BY <1>1, <1>2, <1>3, SlotMoves DEF HandlerInv
<1> QED
  BY <1>4, <1>5, <1>6, <1>7, <1>8 DEF Edit

\* The edits read what still holds when they write, for no handler runs meanwhile.
LEMMA EditNext ==
    ASSUME OneGuarded, HandlerInv, EditInv, [Next]_vars
    PROVE  EditInv'
<1>0. req \in [Request -> ReqState] /\ row \in [Node -> Row]
  BY DEF HandlerInv, TypeOK
<1>a. \A n \in Node : n \notin nodes => Forgettable(row[n])
  BY DEF EditInv, LiveKeepsNode, Forgettable
<1>1. ASSUME NEW n \in Node, n \notin nodes' PROVE Forgettable(row'[n])
  <2>1. CASE n \notin nodes
    BY <1>a, <2>1, SettledKept
  <2>2. CASE n \in nodes
    <3>1. ASSUME NEW p \in Request, DeleteNode(p) PROVE Forgettable(row'[n])
      BY <1>1, <2>2, <3>1 DEF DeleteNode, At, EditInv
    <3>2. ASSUME NEW p \in Request, NEW fresh, ReplaceGraph(p, fresh) PROVE Forgettable(row'[n])
      BY <3>2 DEF ReplaceGraph, At, EditInv, Forgettable
    <3>3. ASSUME NEW p \in Request, DeleteSketchDone(p) PROVE Forgettable(row'[n])
      BY <3>3 DEF DeleteSketchDone, NoRow, Forgettable
    <3> QED
      BY <1>1, <2>2, <3>1, <3>2, <3>3, NodesTaken
  <2> QED
    BY <2>1, <2>2
<1>2. LiveKeepsNode'
  BY <1>1 DEF LiveKeepsNode, Forgettable
<1>3. ASSUME NEW p \in Request, At(p, "deleteNode", "edit")'
      PROVE  req'[p].cur \in Node /\ Forgettable(row'[req'[p].cur])
  <2>1. ~Restart /\ req'[p].op = "deleteNode"
    BY <1>3 DEF At, Restart, Idle
  <2>2. CASE req'[p] = req[p]
    BY <1>0, <1>3, <2>1, <2>2, GuardedRows DEF At, EditInv
  <2>3. CASE req'[p] # req[p]
    <3>1. \E n \in Node : DeleteNodeStart(p, n)
      BY <2>1, <2>3, EditStarts
    <3>2. PICK n \in Node : DeleteNodeStart(p, n)
      BY <3>1
    <3>3. req'[p].cur = n /\ row' = row
      BY <1>0, <3>2 DEF DeleteNodeStart, EditStart, Becomes, Idle, dbVars
    <3> QED
      BY <1>0, <3>2, <3>3 DEF DeleteNodeStart, Unused, NotInProgress, Forgettable, Row, Status
  <2> QED
    BY <2>2, <2>3
<1>4. ASSUME NEW p \in Request, req'[p].op = "replaceGraph", NEW n \in Node
      PROVE  row'[n].status \in {"NONE", "TERMINATED"}
  <2>1. ~Restart
    BY <1>4 DEF Restart, Idle
  <2>2. CASE req'[p] = req[p]
    BY <1>4, <2>2, GuardedRows DEF EditInv
  <2>3. CASE req'[p] # req[p]
    <3>1. ReplaceGraphStart(p)
      BY <1>4, <2>1, <2>3, EditStarts
    <3> QED
      BY <3>1 DEF ReplaceGraphStart, EditStart, dbVars
  <2> QED
    BY <2>2, <2>3
<1> QED
  BY <1>2, <1>3, <1>4 DEF EditInv, Forgettable

\* A new sketch has every node.
LEMMA EditInit == Init => EditInv
<1> SUFFICES ASSUME Init PROVE EditInv
  OBVIOUS
<1>1. \A n \in Node : row[n].status = "NONE"
  BY DEF Init, NoRow
<1>2. \A p \in Request : req[p].op = "none"
  BY DEF Init, Idle
<1> QED
  BY <1>1, <1>2 DEF EditInv, LiveKeepsNode, At

\* While the edits that take nodes away wait for the handlers, and these for
\* each other, no live or unresolved resource loses its node, whatever AWS, a
\* restart or somebody outside CloudCanvas does in between.
THEOREM LiveNodesStay ==
    ASSUME OneGuarded
    PROVE  Spec => []LiveKeepsNode
<1>1. HandlerInv /\ [Next]_vars => HandlerInv'
  BY GuardedHandler, HandlerNext
<1>2. HandlerInv /\ EditInv /\ [Next]_vars => EditInv'
  BY EditNext
<1>3. EditInv => LiveKeepsNode
  BY DEF EditInv
<1> QED
  BY HandlerInit, EditInit, <1>1, <1>2, <1>3, PTL DEF Spec

\* A deletion of the whole sketch leaves out only what is forgettable, and works
\* on a resource after all that depend on it.
WholeSketch == {"deleteAll", "deleteSketch"}
OrderInv ==
    \A p \in Request : req[p].op \in WholeSketch =>
        /\ \A n \in Node \ req[p].snapNodes : Forgettable(row[n])
        /\ req[p].at \in {"mark"} \cup Marked => Targets(req[p].cur, req[p].snapNodes) \cap req[p].todo = {}

\* Every step keeps OrderInv: a deletion takes a resource when no target is left to do.
LEMMA OrderNext ==
    ASSUME OneGuarded, HandlerInv, EditInv, OrderInv, [Next]_vars
    PROVE  OrderInv'
<1> SUFFICES ASSUME NEW p \in Request, req'[p].op \in WholeSketch
             PROVE  /\ \A n \in Node \ req'[p].snapNodes : Forgettable(row'[n])
                    /\ req'[p].at \in {"mark"} \cup Marked =>
                          Targets(req'[p].cur, req'[p].snapNodes) \cap req'[p].todo = {}
  BY DEF OrderInv, Forgettable, Targets
<1>0. "pick" \notin {"mark"} \cup Marked
  BY DEF Marked
<1>1. ~Restart
  BY DEF Restart, Idle, WholeSketch
<1>2. CASE req'[p].snapNodes = nodes /\ UNCHANGED dbVars /\ req'[p].at = "pick"
  BY <1>0, <1>2 DEF EditInv, LiveKeepsNode, Forgettable, dbVars
<1>3. ASSUME req[p].op = req'[p].op, req'[p].snapNodes = req[p].snapNodes
      PROVE  \A n \in Node \ req'[p].snapNodes : Forgettable(row'[n])
  <2> SUFFICES ASSUME NEW n \in Node, n \notin req[p].snapNodes PROVE Forgettable(row'[n])
    BY <1>3
  <2>1. Forgettable(row[n])
    BY <1>3 DEF OrderInv
  <2>2. ASSUME NEW q \in Request, PublishUpsert(q) PROVE FALSE
    <3>1. req[q].op = "publish"
      BY <2>2 DEF PublishUpsert, NodeReady, At
    <3>2. q = p
      BY <1>3, <3>1, GuardedHandler, OnlyWorker DEF WholeSketch, ResourceOp, DeleteOp
    <3> QED
      BY <1>3, <3>1, <3>2 DEF WholeSketch
  <2> QED
    BY <2>1, <2>2, SettledKept
<1>4. CASE req'[p] = req[p]
  BY <1>3, <1>4 DEF OrderInv
<1>5. CASE req'[p] # req[p]
  <2>1. Delete(p)
    BY <1>1, <1>5, SlotMoves, PublishServes, RefreshServes, EditServes DEF HandlerInv, WholeSketch
  <2>2. CASE /\ req[p].op \in DeleteOp /\ req'[p].op = req[p].op /\ req'[p].snapNodes = req[p].snapNodes
             /\ \/ req'[p].at = "pick"
                \/ req'[p].todo = req[p].todo /\ Targets(req'[p].cur, req[p].snapNodes) \cap req[p].todo = {}
                \/ req'[p].todo = req[p].todo /\ req'[p].cur = req[p].cur /\ req[p].at \in {"mark"} \cup Marked
    BY <1>0, <1>3, <2>2 DEF OrderInv
  <2>3. req'[p].op # "none"
    BY DEF WholeSketch
  <2> QED
    BY <1>2, <2>1, <2>2, <2>3, DeleteServes
<1> QED
  BY <1>4, <1>5

\* A new sketch has no deletion.
LEMMA OrderInit == Init => OrderInv
BY DEF Init, OrderInv, Idle, WholeSketch

\* A resource that an edge leads to reports what it creates, if that is one instance.
LEMMA TargetRecoverable ==
    ASSUME NEW e \in Edge, e[2] \notin Several
    PROVE  e[1] \in Node /\ e[2] \in Node /\ Recoverable(e[2])
BY LifecycleAssumption DEF CanConnect, Recoverable, MultiStep, Checkpointing

\* The step by which a deletion of the sketch takes a resource away finds its
\* dependents gone.
LEMMA DependentsGone ==
    ASSUME OneGuarded, HandlerInv, OrderInv, NoOrphan, Drifting = {}, [Next]_vars,
           NEW e \in Edge, e[2] \notin Several,
           NEW i \in Instance, cloud[e[1]][i] \in Live, cloud'[e[1]][i] \notin Live,
           NEW p \in Request, req[p].op \in WholeSketch, NEW j \in Own
    PROVE  cloud[e[2]][j] \notin Live
<1> DEFINE n == e[1]
           m == e[2]
           r == req[p]
<1>0. n \in Node /\ m \in Node /\ Recoverable(m) /\ r.op \in DeleteOp /\ OneHandler
      /\ r.op \in ResourceOp /\ r.op \notin {"refresh", "publish", "deleteResource"}
  BY GuardedHandler, TargetRecoverable DEF WholeSketch, DeleteOp, ResourceOp
<1>1. cloud \in [Node -> [Instance -> CloudState]]
  BY DEF HandlerInv, TypeOK
<1>2. ~Aws
  <2>1. ASSUME NEW k \in Node, NEW l \in Instance, Settle(k, l) PROVE FALSE
    BY <2>1, <1>0, <1>1 DEF Settle, Settled, Live
  <2>2. ASSUME NEW k \in Node, NEW l \in Own, Drift(k, l) PROVE FALSE
    BY <2>2 DEF Drift
  <2> QED
    BY <2>1, <2>2 DEF Aws
<1>3. PICK q \in Request : CallsAws(q) /\ UNCHANGED row
  BY <1>0, <1>1, <1>2, Effects
<1>4. CallStep(q, n, i) /\ (n = req[q].cur \/ RefreshDelete(q, n))
  BY <1>0, <1>3, CallSteps DEF StartedWith, Live
<1>5. DeleteCall(q) \/ RefreshDelete(q, n)
  BY <1>4 DEF CallStep
<1>6. q = p
  <2>1. req[q].op \in ResourceOp
    BY <1>5 DEF DeleteCall, Deleting, RefreshDelete, MayRead, Unread, At, ResourceOp
  <2> QED
    BY <1>0, <2>1, OnlyWorker
<1>7. ~RefreshDelete(q, n)
  BY <1>0, <1>6 DEF RefreshDelete, MayRead, Unread, At
<1>8. r.at = "delete" /\ n = r.cur
  BY <1>4, <1>5, <1>6, <1>7 DEF DeleteCall, Deleting
<1>9. row[m].status \in {"NONE", "TERMINATED"} \/ row[m].ext = NoExt
  <2>1. CASE m \in r.snapNodes
    <3>1. m \in Targets(n, r.snapNodes)
      <4>1. <<n, m>> = e
        BY LifecycleAssumption
      <4> QED
        BY <2>1, <4>1 DEF Targets
    <3>2. m \notin r.todo
      BY <1>8, <3>1 DEF OrderInv, Marked
    <3> QED
      BY <1>0, <3>2, DeleteFacts DEF DeleteLocal
  <2>2. CASE m \notin r.snapNodes
    BY <1>0, <2>2 DEF OrderInv, Forgettable
  <2> QED
    BY <2>1, <2>2
<1>10. ~Held(m, j)
  <2> SUFFICES ASSUME NEW k \in Request, req[k].cur = m, req[k].ext = j PROVE FALSE
    BY DEF Held
  <2>1. req[k].op = "publish"
    BY HeldBy, ServiceAssumption
  <2>2. k = p
    BY <1>0, <2>1, OnlyWorker DEF ResourceOp
  <2> QED
    BY <1>0, <2>1, <2>2
<1> QED
  BY <1>0, <1>9, <1>10, ServiceAssumption DEF NoOrphan

\* While handlers and guarded edits wait for each other, nobody deletes outside
\* CloudCanvas and the server does not die in the middle, deleting a whole
\* sketch takes a resource away only when nothing that depends on it is left in
\* AWS, what failed deletions and removed nodes have left behind included, as long
\* as what depends on it is one instance: of several, only the first is terminated.
THEOREM DependentsFirst ==
    ASSUME OneGuarded, \A n \in Node : Found(n), ~CanRestart, Drifting = {}
    PROVE  Spec => DependentsGoFirst
<1>1. HandlerInv /\ [Next]_vars => HandlerInv'
  BY GuardedHandler, HandlerNext
<1>2. HandlerInv /\ EditInv /\ [Next]_vars => EditInv'
  BY EditNext
<1>3. HandlerInv /\ EditInv /\ OrderInv /\ [Next]_vars => OrderInv'
  BY OrderNext
<1>4. Spec => []NoOrphan
  BY GuardedHandler, NothingOrphaned
<1> DEFINE A == \A e \in Edge, i \in Instance :
          /\ e[2] \notin Several
          /\ cloud[e[1]][i] \in Live /\ cloud'[e[1]][i] \notin Live
          /\ \E p \in Request : req[p].op \in {"deleteAll", "deleteSketch"}
          => \A j \in Own : cloud[e[2]][j] \notin Live
<1>5. HandlerInv /\ OrderInv /\ NoOrphan /\ [Next]_vars => [A]_vars
  BY DependentsGone DEF WholeSketch
<1>6. Spec => [][A]_vars
  <2> HIDE DEF A
  <2> QED
    BY HandlerInit, EditInit, OrderInit, <1>1, <1>2, <1>3, <1>4, <1>5, PTL DEF Spec
<1> QED
  BY <1>6 DEF DependentsGoFirst

-----------------------------------------------------------------------------
(* The contract of a resource.                                              *)

\* What there is of a resource that CloudCanvas has made.
Living(n) == {i \in Own : cloud[n][i] \in Live}

\* What lives is recorded, or held by the publish that has just created it and is
\* recorded nowhere yet.
LEMMA LivingKnown ==
    ASSUME HandlerInv, NoOrphan, NEW n \in Node, Recoverable(n), NEW i \in Living(n)
    PROVE  /\ row[n].status \notin {"NONE", "TERMINATED"} /\ row[n].ext # Foreign
           /\ row[n].ext = i \/ (row[n].ext = NoExt /\ Held(n, i))
<1>0. i \in Own /\ i # NoExt /\ i # Foreign /\ NoExt # Foreign
  BY ServiceAssumption DEF Living
<1>1. Known(n, i)
  BY DEF Living, NoOrphan, Known
<1>2. CASE row[n].ext = i /\ row[n].status \notin {"NONE", "TERMINATED"}
  BY <1>0, <1>2
<1>3. CASE Held(n, i)
  <2>1. PICK p \in Request : req[p].cur = n /\ req[p].ext = i
    BY <1>3 DEF Held
  <2>2. req[p].at \in {"checkpoint", "setup", "store"} /\ PublishLocal(req[p], row)
    BY <1>0, <2>1, HeldBy
  <2>3. row[n].status = "PROVISIONING" /\ row[n].ext \in {NoExt, i}
    BY <2>1, <2>2 DEF PublishLocal, Claimed
  <2> QED
    BY <1>0, <1>3, <2>3
<1> QED
  BY <1>1, <1>2, <1>3 DEF Known

\* So there is only one.
LEMMA LivingOne ==
    ASSUME OneHandler, HandlerInv, NoOrphan, NEW n \in Node, Recoverable(n),
           NEW i \in Living(n), NEW j \in Living(n)
    PROVE  i = j
<1>0. i # NoExt /\ j # NoExt
  BY ServiceAssumption DEF Living
<1>1. CASE row[n].ext # NoExt
  BY <1>1, LivingKnown
<1>2. CASE row[n].ext = NoExt
  <2>1. PICK p \in Request : req[p].cur = n /\ req[p].ext = i
    BY <1>0, <1>2, LivingKnown DEF Held
  <2>2. PICK q \in Request : req[q].cur = n /\ req[q].ext = j
    BY <1>0, <1>2, LivingKnown DEF Held
  <2>3. p = q
    BY <1>0, <2>1, <2>2, HeldBy, OnlyWorker DEF ResourceOp
  <2> QED
    BY <2>1, <2>2, <2>3
<1> QED
  BY <1>1, <1>2

\* While a handler works that holds nothing, what lives is recorded.
LEMMA LivingRecorded ==
    ASSUME OneHandler, HandlerInv, NoOrphan, NEW n \in Node, Recoverable(n), NEW i \in Living(n),
           NEW p \in Request, req[p].op \in ResourceOp, req[p].ext = NoExt
    PROVE  row[n].ext = i /\ InAws(row[n])
<1>0. i \in Own /\ i # NoExt /\ i # Foreign
  BY ServiceAssumption DEF Living
<1>1. ~Held(n, i)
  <2> SUFFICES ASSUME NEW q \in Request, req[q].ext = i PROVE FALSE
    BY DEF Held
  <2>1. req[q].op \in ResourceOp
    BY <1>0, HeldBy DEF ResourceOp
  <2> QED
    BY <1>0, <2>1, OnlyWorker
<1>2. row[n].ext = i
  BY <1>1, LivingKnown
<1> QED
  BY <1>0, <1>2 DEF HandlerInv, RowsOk, RowOk, InAws

\* What is recorded as running is there.
LEMMA RunningThere ==
    ASSUME HandlerInv', Drifting = {} => PublishedInv', NEW n \in Node, row'[n].status = "RUNNING"
    PROVE  Living(n)' # {} \/ row'[n].ext = Foreign \/ Drifting # {}
<1>1. row'[n].ext \in Instance
  BY DEF HandlerInv, TypeOK, Row, Ext, RowsOk, RowOk
<1>2. CASE Drifting = {}
  <2>1. cloud'[n][row'[n].ext] \in Live
    BY <1>2 DEF PublishedInv, Live
  <2> QED
    BY <1>1, <2>1 DEF Living, Instance
<1> QED
  BY <1>2

\* A new sketch starts every contract.
LEMMA ContractInit ==
    ASSUME Init, NEW n \in Node
    PROVE  Contract(n)!Init
BY ServiceAssumption DEF Init, NoRow, Instance, Live, Contract!Init

\* What the contract makes of a write to the record.
LEMMA ContractRow ==
    ASSUME OneHandler, \A m \in Node : Found(m), HandlerInv, HandlerInv', NoOrphan,
           Drifting = {} => HalfDoneInv /\ PublishedInv', UNCHANGED cloud,
           NEW p \in Request, NEW n \in Node, Recoverable(n),
           n = req[p].cur \/ RefreshWrite(p, n), RowStep(p, n, row[n], row'[n])
    PROVE  [Contract(n)!Next]_(Contract(n)!vars)
<1> DEFINE o == row[n]
           t == row'[n]
           Goal == [Contract(n)!Next]_(Contract(n)!vars)
<1>0. /\ o \in Row /\ RowOk(n, o) /\ t \in Row /\ RowOk(n, t)
      /\ NoExt # Foreign /\ NoExt \notin Own /\ Foreign \notin Own
  BY ServiceAssumption DEF HandlerInv, TypeOK, RowsOk
<1>1. {i \in Own : cloud[n][i] \in Live}' = {i \in Own : cloud[n][i] \in Live}
  OBVIOUS
<1>2. req[p].op \in ResourceOp
  BY RowWriters
<1>3. ASSUME req[p].ext = NoExt, ~InAws(o) \/ cloud[n][o.ext] \notin Live
      PROVE  {i \in Own : cloud[n][i] \in Live} = {}
  BY <1>2, <1>3, LivingRecorded DEF Living
<1>4. ASSUME t.status = "RUNNING"
      PROVE  {i \in Own : cloud[n][i] \in Live} # {} \/ t.ext = Foreign \/ Drifting # {}
  BY <1>4, <1>1, RunningThere DEF Living
<1>5. ASSUME t.ext = Foreign <=> o.ext = Foreign, t.status = o.status PROVE Goal
  BY <1>1, <1>5 DEF Contract!vars
<1>6. ASSUME t.ext = Foreign <=> o.ext = Foreign, o.status \in {"PROVISIONING", "RUNNING", "FAILED"},
             t.status \in {"PROVISIONING", "RUNNING"} \/ (t.status = "DELETING" /\ Drifting # {})
      PROVE  Goal
  <2>1. Contract(n)!Report
    BY <1>1, <1>4, <1>6 DEF Contract!Report
  <2> QED
    BY <2>1 DEF Contract!Next
<1>7. ASSUME t.ext = o.ext, o.status \in {"PROVISIONING", "DELETING"}, t.status = "FAILED" PROVE Goal
  <2>1. Contract(n)!Fail
    BY <1>1, <1>7 DEF Contract!Fail
  <2> QED
    BY <2>1 DEF Contract!Next
<1>8. ASSUME t.ext = o.ext, o.ext # Foreign, o.status \notin {"NONE", "TERMINATED"}, t.status = "DELETING"
      PROVE  Goal
  <2>1. CASE o.status = "DELETING"
    BY <2>1, <1>5, <1>8
  <2>2. CASE o.status # "DELETING"
    <3>1. o.status \in {"PROVISIONING", "RUNNING", "FAILED"}
      BY <1>0, <1>8, <2>2 DEF Row, Status
    <3>2. Contract(n)!Delete
      BY <1>1, <1>8, <3>1 DEF Contract!Delete
    <3> QED
      BY <3>2 DEF Contract!Next
  <2> QED
    BY <2>1, <2>2
<1>9. ASSUME t.ext = o.ext, o.status # "NONE", t.status = "TERMINATED", req[p].ext = NoExt,
             ~InAws(o) \/ cloud[n][o.ext] \notin Live
      PROVE  Goal
  <2>1. Contract(n)!Close
    BY <1>1, <1>3, <1>9 DEF Contract!Close
  <2> QED
    BY <2>1 DEF Contract!Next
<1>10. ASSUME PublishStoreUpdate(p), o.status = "RUNNING", t.status \in {"PROVISIONING", "RUNNING"}, t.ext = o.ext
       PROVE  Goal
  BY <1>10, <1>6
<1>11. ASSUME PublishUpsert(p), o.status \in {"NONE", "TERMINATED", "FAILED"},
              o.status = "FAILED" => o.ext = NoExt, t.status = "PROVISIONING", t.ext = NoExt
       PROVE  Goal
  <2>1. req[p].op = "publish" /\ req[p].at = "wait"
    BY <1>11 DEF PublishUpsert, NodeReady, At
  <2>2. req[p].ext = NoExt
    BY <2>1, PublishFacts DEF PublishLocal
  <2>3. {i \in Own : cloud[n][i] \in Live} = {}
    <3> SUFFICES ASSUME NEW i \in Living(n) PROVE FALSE
      BY DEF Living
    <3>1. row[n].ext = i /\ InAws(row[n])
      BY <1>2, <2>2, LivingRecorded
    <3>2. row[n].status \notin {"NONE", "TERMINATED"}
      BY LivingKnown
    <3> QED
      BY <1>11, <3>1, <3>2 DEF InAws
  <2>4. Contract(n)!Begin
    BY <1>0, <1>1, <1>11, <2>3 DEF Contract!Begin
  <2> QED
    BY <2>4 DEF Contract!Next
<1>12. ASSUME o.status = "PROVISIONING", o.ext = NoExt, t.status = "PROVISIONING", t.ext \in Own
       PROVE  Goal
  BY <1>0, <1>5, <1>12
<1>13. ASSUME PublishStore(p), o.status = "PROVISIONING", o.ext \in {NoExt, req[p].ext},
              t.status = (IF IsCloudFront(n) THEN "PROVISIONING" ELSE "RUNNING"),
              t.ext = req[p].ext, t.ext \in Instance
       PROVE  Goal
  <2>1. CASE t.ext = Foreign /\ o.ext # Foreign
    <3>1. IsAdoptable(n)
      BY <1>0, <1>13, <2>1 DEF RowOk
    <3>2. t.status = "RUNNING"
      BY <1>13, <3>1 DEF IsAdoptable, IsCloudFront, Adoptable
    <3>3. o.ext = NoExt
      BY <1>13, <2>1
    <3>4. {i \in Own : cloud[n][i] \in Live} = {}
      <4> SUFFICES ASSUME NEW i \in Living(n) PROVE FALSE
        BY DEF Living
      <4>1. i \in Own /\ Held(n, i)
        BY <1>0, <3>3, LivingKnown DEF Living
      <4>2. PICK q \in Request : req[q].ext = i
        BY <4>1 DEF Held
      <4>3. req[q].op \in ResourceOp
        BY <1>0, <4>1, <4>2, HeldBy DEF ResourceOp
      <4>4. q = p
        BY <1>2, <4>3, OnlyWorker
      <4> QED
        BY <1>0, <1>13, <2>1, <4>1, <4>2, <4>4
    <3>5. Contract(n)!Adopt
      BY <1>1, <1>13, <2>1, <3>2, <3>4 DEF Contract!Adopt
    <3> QED
      BY <3>5 DEF Contract!Next
  <2>2. CASE ~(t.ext = Foreign /\ o.ext # Foreign)
    <3>1. t.ext = Foreign <=> o.ext = Foreign
      BY <1>0, <1>13, <2>2
    <3> QED
      BY <1>6, <1>13, <3>1
  <2> QED
    BY <2>1, <2>2
<1>14. ASSUME DeleteDetach(p), ~InAws(o), t.status = "TERMINATED", t.ext = o.ext PROVE Goal
  <2>1. req[p].op \in DeleteOp /\ row[req[p].cur].status # "NONE"
    BY <1>14 DEF DeleteDetach, Deleting, Exists
  <2>2. n = req[p].cur
    BY <2>1 DEF RefreshWrite, At, DeleteOp
  <2>3. req[p].ext = NoExt
    BY <2>1, DeleteFacts DEF DeleteLocal
  <2> QED
    BY <1>9, <1>14, <2>1, <2>2, <2>3
<1>15. ASSUME DeleteMark(p), InAws(o), o.status \notin {"NONE", "TERMINATED"}, t.status = "DELETING", t.ext = o.ext
       PROVE  Goal
  BY <1>0, <1>8, <1>15 DEF RowOk, InAws
<1>16. ASSUME DeleteRecord(p), o.status = "DELETING", cloud[n][o.ext] \notin Live, t.status = "TERMINATED", t.ext = o.ext
       PROVE  Goal
  <2>1. req[p].op \in DeleteOp
    BY <1>16 DEF DeleteRecord, Deleting
  <2>2. req[p].ext = NoExt
    BY <2>1, DeleteFacts DEF DeleteLocal
  <2> QED
    BY <1>9, <1>16, <2>2
<1>17. ASSUME RefreshWrite(p, n), ~RefreshSkips(n, o), o.status \notin {"NONE", "TERMINATED"}, t.ext = o.ext,
              \/ t.status = "TERMINATED" /\ (Found(n) => cloud[n][o.ext] \notin Live)
              \/ req[p].seen[n] = t.status /\ t.status \in {"RUNNING", "PROVISIONING", "DELETING"} /\ o.status # "DELETING"
       PROVE  Goal
  <2>1. req[p].op = "refresh"
    BY <1>17 DEF RefreshWrite, At
  <2>2. req[p].ext = NoExt
    BY <2>1, RefreshFacts DEF RefreshLocal
  <2>3. CASE t.status = "TERMINATED"
    BY <1>9, <1>17, <2>2, <2>3
  <2>4. ASSUME t.status # "TERMINATED"
        PROVE  o.status \in {"PROVISIONING", "RUNNING", "FAILED"}
    BY <1>0, <1>17, <2>4 DEF Row, Status
  <2>5. CASE t.status \in {"RUNNING", "PROVISIONING"}
    BY <1>6, <1>17, <2>4, <2>5
  <2>6. CASE t.status = "DELETING" /\ Drifting # {}
    BY <1>6, <1>17, <2>4, <2>6
  <2>7. CASE t.status = "DELETING" /\ Drifting = {}
    <3>1. IsCloudFront(n)
      BY <1>17, <2>1, <2>7 DEF HalfDoneInv
    <3>2. ~IsAdoptable(n)
      BY <3>1 DEF IsCloudFront, IsAdoptable, Adoptable
    <3>3. o.ext # Foreign
      BY <1>0, <1>17, <3>2 DEF RowOk
    <3> QED
      BY <1>8, <1>17, <2>7, <3>3
  <2> QED
    BY <1>17, <2>3, <2>5, <2>6, <2>7
<1> QED
  <2> HIDE DEF Goal, o, t
  <2>1. RowStep(p, n, o, t)
    BY DEF o, t
  <2>2. Goal
    <3>1. t.status = (IF IsCloudFront(n) THEN "PROVISIONING" ELSE "RUNNING") => t.status \in {"PROVISIONING", "RUNNING"}
      OBVIOUS
    <3> QED
      BY <2>1, <3>1, <1>7, <1>10, <1>11, <1>12, <1>13, <1>14, <1>15, <1>16, <1>17 DEF RowStep
  <2> QED
    BY <2>2 DEF Goal

\* What a handler writes.
LEMMA ContractWrites ==
    ASSUME OneHandler, \A m \in Node : Found(m), HandlerInv, HandlerInv', NoOrphan,
           Drifting = {} => HalfDoneInv /\ PublishedInv', UNCHANGED cloud,
           NEW p \in Request, WritesRow(p), NEW n \in Node, Recoverable(n)
    PROVE  [Contract(n)!Next]_(Contract(n)!vars)
<1>0. {i \in Own : cloud[n][i] \in Live}' = {i \in Own : cloud[n][i] \in Live} /\ NoExt # Foreign
  BY ServiceAssumption
<1>1. ASSUME row'[n] = row[n] PROVE [Contract(n)!Next]_(Contract(n)!vars)
  BY <1>0, <1>1 DEF Contract!vars
<1>2. CASE /\ DeleteSketchDone(p)
           /\ \A m \in Node : row[m].status \in {"NONE", "TERMINATED"} /\ row'[m] = NoRow
  <2>1. row[n].status \in {"NONE", "TERMINATED"} /\ row'[n].status = "NONE" /\ row'[n].ext = NoExt
    BY <1>2 DEF NoRow
  <2>2. {i \in Own : cloud[n][i] \in Live} = {}
    BY <2>1, LivingKnown DEF Living
  <2>3. Contract(n)!Forget
    BY <1>0, <2>1, <2>2 DEF Contract!Forget
  <2> QED
    BY <2>3 DEF Contract!Next
<1>3. ASSUME NEW m \in Node, m = req[p].cur \/ RefreshWrite(p, m), \A k \in Node \ {m} : row'[k] = row[k],
             RowStep(p, m, row[m], row'[m])
      PROVE  [Contract(n)!Next]_(Contract(n)!vars)
  <2>1. CASE m = n
    BY <1>3, <2>1, ContractRow
  <2>2. CASE m # n
    BY <1>1, <1>3, <2>2
  <2> QED
    BY <2>1, <2>2
<1> QED
  BY <1>2, <1>3, RowSteps

\* What a handler asks of AWS.
LEMMA ContractCalls ==
    ASSUME OneHandler, HandlerInv, NoOrphan, UNCHANGED row,
           NEW p \in Request, CallsAws(p), NEW n \in Node, Recoverable(n)
    PROVE  [Contract(n)!Next]_(Contract(n)!vars)
<1> DEFINE L == {i \in Own : cloud[n][i] \in Live}
           Goal == [Contract(n)!Next]_(Contract(n)!vars)
<1>0. NoExt # Foreign /\ NoExt \notin Own /\ Foreign \notin Own /\ Own \subseteq Instance /\ row[n] \in Row
  BY ServiceAssumption DEF Instance, HandlerInv, TypeOK
<1>1. ASSUME L' = L PROVE Goal
  BY <1>1 DEF Contract!vars
<1>2. PICK m \in Node, i \in Instance :
              /\ m = req[p].cur \/ RefreshDelete(p, m)
              /\ \A k \in Node, j \in Instance :
                    k # m \/ j # i => cloud'[k][j] = cloud[k][j] \/ (k = m /\ StartedWith(m, i, j))
              /\ CallStep(p, m, i)
  BY CallSteps
<1>a. \A j \in Instance : m # n \/ j # i => cloud'[n][j] = cloud[n][j]
  BY <1>2 DEF StartedWith, Recoverable
<1>3. CASE m # n \/ i \notin Own
  BY <1>0, <1>1, <1>a, <1>3
<1>4. CASE m = n /\ i \in Own
  <2>0. \A j \in Own \ {i} : cloud'[n][j] = cloud[n][j]
    BY <1>0, <1>a, <1>4
  <2>1. ASSUME cloud[n][i] \in Live <=> cloud'[n][i] \in Live PROVE Goal
    BY <1>1, <2>0, <2>1
  <2>2. ASSUME PublishCreate(p, i), row[n].status = "PROVISIONING", row[n].ext = NoExt, cloud'[n][i] \in Live
        PROVE  Goal
    <3>1. req[p].op = "publish" /\ req[p].at = "create"
      BY <2>2 DEF PublishCreate, At
    <3>2. req[p].ext = NoExt /\ req[p].op \in ResourceOp
      BY <3>1, PublishFacts DEF PublishLocal, ResourceOp
    <3>3. L = {}
      <4> SUFFICES ASSUME NEW j \in Living(n) PROVE FALSE
        BY DEF Living
      <4> QED
        BY <2>2, <3>2, LivingRecorded DEF InAws
    <3>4. L' = {i}
      BY <1>4, <2>0, <2>2, <3>3
    <3>5. Contract(n)!Create
      BY <1>0, <1>4, <2>2, <3>3, <3>4 DEF Contract!Create
    <3> QED
      BY <3>5 DEF Contract!Next
  <2>3. ASSUME row[n].status = "DELETING", cloud[n][i] \in Live, cloud'[n][i] \notin Live PROVE Goal
    <3>1. i \in Living(n)
      BY <1>4, <2>3 DEF Living
    <3>2. L = {i}
      <4>1. \A j \in Living(n) : j = i
        BY <3>1, LivingOne
      <4> QED
        BY <3>1, <4>1 DEF Living
    <3>3. L' = {}
      BY <2>0, <2>3, <3>2
    <3>4. Contract(n)!Remove
      BY <2>3, <3>2, <3>3 DEF Contract!Remove
    <3> QED
      BY <3>4 DEF Contract!Next
  <2>4. ASSUME row[n].status = "DELETING", cloud'[n][i] = AfterDelete(n, cloud[n][i]), cloud[n][i] \notin Live
        PROVE  cloud'[n][i] \notin Live
    BY <2>4 DEF AfterDelete, Live
  <2> HIDE DEF Goal
  <2>5. CallStep(p, n, i)
    BY <1>2, <1>4
  <2>6. Goal
    BY <2>1, <2>2, <2>3, <2>4, <2>5 DEF CallStep
  <2> QED
    BY <2>6 DEF Goal
<1> QED
  BY <1>3, <1>4

\* What AWS does by itself, or somebody else to it.
LEMMA ContractAws ==
    ASSUME OneHandler, HandlerInv, NoOrphan, UNCHANGED row, Aws, NEW n \in Node, Recoverable(n)
    PROVE  [Contract(n)!Next]_(Contract(n)!vars)
<1> DEFINE L == {i \in Own : cloud[n][i] \in Live}
           Goal == [Contract(n)!Next]_(Contract(n)!vars)
<1>0. cloud \in [Node -> [Instance -> CloudState]]
  BY DEF HandlerInv, TypeOK
<1>1. ASSUME L' = L PROVE Goal
  BY <1>1 DEF Contract!vars
<1>2. ASSUME NEW m \in Node, NEW i \in Instance, Settle(m, i) PROVE Goal
  <2>1. \A j \in Own : cloud'[n][j] = cloud[n][j] \/ cloud'[n][j] = Settled(cloud[n][j])
    BY <1>0, <1>2 DEF Settle, Instance
  <2>2. \A s \in CloudState : Settled(s) \in Live <=> s \in Live
    BY DEF Settled, Live, CloudState
  <2>3. \A j \in Own : cloud'[n][j] \in Live <=> cloud[n][j] \in Live
    BY <1>0, <2>1, <2>2 DEF Instance
  <2> QED
    BY <1>1, <2>3
<1>3. ASSUME NEW m \in Node, NEW i \in Own, Drift(m, i) PROVE Goal
  <2>1. CASE m # n
    BY <1>0, <1>1, <1>3, <2>1 DEF Drift
  <2>2. CASE m = n
    <3>1. i \in Living(n)
      BY <1>3, <2>2 DEF Drift, Living
    <3>2. L = {i}
      <4>1. \A j \in Living(n) : j = i
        BY <3>1, LivingOne
      <4> QED
        BY <3>1, <4>1 DEF Living
    <3>3. cloud'[n][i] \in {"stopping", "gone"} /\ \A j \in Own \ {i} : cloud'[n][j] = cloud[n][j]
      BY <1>0, <1>3, <2>2 DEF Drift, Instance
    <3>4. L' = {}
      BY <3>2, <3>3 DEF Live
    <3>5. Contract(n)!Vanish
      BY <1>3, <3>2, <3>4 DEF Contract!Vanish, Drift
    <3> QED
      BY <3>5 DEF Contract!Next
  <2> QED
    BY <2>1, <2>2
<1> QED
  BY <1>2, <1>3 DEF Aws

\* Every step of the sketch is one of each resource's contract, or none.
LEMMA ContractStep ==
    ASSUME OneHandler, \A m \in Node : Found(m), HandlerInv, HandlerInv', NoOrphan,
           Drifting = {} => HalfDoneInv /\ PublishedInv', [Next]_vars, NEW n \in Node, Recoverable(n)
    PROVE  [Contract(n)!Next]_(Contract(n)!vars)
<1>1. ASSUME UNCHANGED <<row, cloud>> PROVE [Contract(n)!Next]_(Contract(n)!vars)
  BY <1>1 DEF Contract!vars
<1> QED
  BY <1>1, Effects, ContractWrites, ContractCalls, ContractAws DEF dbVars

\* While handlers take turns, a describe call finds what there is and no handler is
\* cut off, each resource whose create handler makes one instance and reports it
\* keeps its contract, whatever sketch, failures, polls and canvas edits there are:
\* the handlers implement ResourceContract.
THEOREM ContractKept ==
    ASSUME OneHandler, \A n \in Node : Found(n), ~CanRestart
    PROVE  Spec => KeepsContract
<1>1. HandlerInv /\ [Next]_vars => HandlerInv'
  BY HandlerNext
<1>2. AdoptionInv /\ [Next]_vars => AdoptionInv'
  BY OneHandlerPublishes, AdoptionNext
<1> DEFINE Undrifted == Drifting = {} => HalfDoneInv /\ PublishedInv
<1>3. Init => Undrifted
  BY HalfDoneInit, PublishedInit
<1>4. HandlerInv /\ AdoptionInv /\ Undrifted /\ [Next]_vars => Undrifted'
  BY HalfDoneNext, PublishedNext DEF AdoptionInv, NoSlowDrift
<1>5. Spec => []NoOrphan
  BY NothingOrphaned
<1> DEFINE A == \A n \in Node : Recoverable(n) => [Contract(n)!Next]_(Contract(n)!vars)
           I == \A n \in Node : Recoverable(n) => Contract(n)!Init
<1>6. HandlerInv /\ HandlerInv' /\ NoOrphan /\ Undrifted /\ Undrifted' /\ [Next]_vars => [A]_vars
  BY ContractStep
<1>7. Init => I
  BY ContractInit
<1>8. Spec => I /\ [][A]_vars
  <2> HIDE DEF A, I, Undrifted
  <2> QED
    BY HandlerInit, AdoptionInit, <1>1, <1>2, <1>3, <1>4, <1>5, <1>6, <1>7, PTL DEF Spec
<1> QED
  BY <1>8 DEF KeepsContract

\* The contract is worth having: its steps keep what it promises.
LEMMA PromisedNext ==
    ASSUME NEW n \in Node, Contract(n)!Promised, [Contract(n)!Next]_(Contract(n)!vars)
    PROVE  Contract(n)!Promised'
<1> DEFINE L == {i \in Own : cloud[n][i] \in Live}
           s == row[n].status
           adopted == row[n].ext = Foreign
<1>0. /\ \A i, j \in L : i = j
      /\ adopted => L = {}
      /\ s \in {"NONE", "TERMINATED"} => L = {}
      /\ s = "RUNNING" => L # {} \/ adopted \/ Drifting # {}
  BY DEF Contract!Promised
<1> SUFFICES /\ \A i, j \in L' : i = j
             /\ adopted' => L' = {}
             /\ s' \in {"NONE", "TERMINATED"} => L' = {}
             /\ s' = "RUNNING" => L' # {} \/ adopted' \/ Drifting # {}
  BY DEF Contract!Promised
<1> HIDE DEF L, s, adopted
<1>1. ASSUME L' = L, adopted' = adopted, s' = s \/ s' \in {"PROVISIONING", "DELETING", "FAILED"}
      PROVE  /\ \A i, j \in L' : i = j
             /\ adopted' => L' = {}
             /\ s' \in {"NONE", "TERMINATED"} => L' = {}
             /\ s' = "RUNNING" => L' # {} \/ adopted' \/ Drifting # {}
  BY <1>0, <1>1
<1> QED
  BY <1>0, <1>1 DEF L, s, adopted, Contract!vars, Contract!Next, Contract!Begin, Contract!Create, Contract!Adopt,
     Contract!Report, Contract!Fail, Contract!Delete, Contract!Remove, Contract!Close, Contract!Forget, Contract!Vanish

\* So of a resource whose create handler makes one instance and reports it there are
\* never two instances at once, nor one beside an adopted one; a record that says
\* TERMINATED leaves nothing behind, and one that says RUNNING has its instance,
\* unless somebody deletes outside CloudCanvas.
THEOREM PromisesKept ==
    ASSUME OneHandler, \A n \in Node : Found(n), ~CanRestart
    PROVE  Spec => [](\A n \in Node : Recoverable(n) => Contract(n)!Promised)
<1> DEFINE A == \A n \in Node : Recoverable(n) => [Contract(n)!Next]_(Contract(n)!vars)
           I == \A n \in Node : Recoverable(n) => Contract(n)!Init
           P == \A n \in Node : Recoverable(n) => Contract(n)!Promised
<1>1. Spec => I /\ [][A]_vars
  BY ContractKept DEF KeepsContract
<1>2. I => P
  BY DEF Contract!Init, Contract!Promised
<1>3. P /\ [A]_vars => P'
  <2>1. P /\ A => P'
    BY PromisedNext DEF Recoverable
  <2>2. P /\ UNCHANGED vars => P'
    BY DEF vars, Contract!Promised, Recoverable
  <2> HIDE DEF P, A
  <2> QED
    BY <2>1, <2>2
<1> HIDE DEF A, I, P
<1>4. Spec => []P
  BY <1>1, <1>2, <1>3, PTL
<1> QED
  BY <1>4 DEF P
=============================================================================
