----------------------- MODULE SketchLifecycleProofs -----------------------
(***************************************************************************)
(* What holds of SketchLifecycle for every sketch, every set of requests   *)
(* and every number of AWS instances, proved with TLAPS.                   *)
(***************************************************************************)
EXTENDS SketchLifecycle, TLAPS

-----------------------------------------------------------------------------
(* The record and row values the handlers build.                            *)

\* A free slot is a request state.
LEMMA IdleType == Idle \in ReqState
BY LifecycleAssumption DEF Idle, ReqState, Ext, Row, NoRow, Op, Mode, Seen, Status

\* Moving one slot to a request state keeps the slots well typed.
LEMMA BecomesType ==
    ASSUME req \in [Request -> ReqState],
           NEW p \in Request, NEW r \in ReqState, Becomes(p, r)
    PROVE  req' \in [Request -> ReqState]
BY DEF Becomes

\* Writing a row, or the row of no node, keeps the rows well typed.
LEMMA SetRowType ==
    ASSUME row \in [Node -> Row],
           NEW n, NEW r, n \in Node => r \in Row, SetRow(n, r)
    PROVE  row' \in [Node -> Row]
BY DEF SetRow

\* So does writing a receipt.
LEMMA SetReceiptType ==
    ASSUME receipt \in [Request -> ReceiptStatus],
           NEW p \in Request, NEW s \in ReceiptStatus, SetReceipt(p, s)
    PROVE  receipt' \in [Request -> ReceiptStatus]
BY DEF SetReceipt, ReceiptStatus

\* The snapshot a request starts with is a request state.
LEMMA SnapshotType ==
    ASSUME TypeOK, NEW op \in Op,
           NEW at \in {"next", "pick", "reading"},
           NEW todo \in SUBSET Node
    PROVE  Snapshot(op, at, todo) \in ReqState
<1>1. row \in [Node -> Row] /\ nodes \in SUBSET Node
  BY DEF TypeOK
<1> QED
  BY <1>1, IdleType DEF Snapshot, ReqState

\* Leaving the current node of a publish or of a deletion, or a resource of a
\* refresh, gives a request state.
LEMMA LeaveType ==
    ASSUME TypeOK, NEW p \in Request
    PROVE  /\ NodeDone(p) \in ReqState
           /\ ResourceDone(p) \in ReqState
           /\ \A n \in Node : Dropped(p, n) \in ReqState
<1>1. req[p] \in ReqState
  BY DEF TypeOK
<1>2. NodeDone(p) \in ReqState
  BY <1>1 DEF NodeDone, ReqState, Ext
<1>3. ResourceDone(p) \in ReqState
  BY <1>1 DEF ResourceDone, ReqState
<1>4. ASSUME NEW n \in Node PROVE Dropped(p, n) \in ReqState
  <2>1. [req[p].seen EXCEPT ![n] = "unread"] \in [Node -> Seen]
    BY <1>1 DEF ReqState, Seen
  <2> QED
    BY <1>1, <2>1 DEF Dropped, ReqState
<1> QED
  BY <1>2, <1>3, <1>4

\* What a create call does: it starts the instance it reports and, where the
\* config may ask for several, perhaps more of the node's own.
LEMMA CreateStarts ==
    ASSUME cloud \in [Node -> [Instance -> CloudState]], NEW p \in Request, NEW i \in Own, PublishCreate(p, i)
    PROVE  /\ cloud' \in [Node -> [Instance -> CloudState]]
           /\ \A m \in Node, j \in Instance :
                 \/ cloud'[m][j] = cloud[m][j]
                 \/ /\ m = req[p].cur /\ j \in Own /\ (j = i \/ m \in Several)
                    /\ cloud[m][j] \in Creatable(m) /\ cloud'[m][j] = FirstState(m)
           /\ req[p].cur \in Node => cloud'[req[p].cur][i] = FirstState(req[p].cur)
<1> DEFINE n == req[p].cur
<1>1. PICK more \in MayAlsoStart(n, i) :
          cloud' = [cloud EXCEPT ![n] = [j \in Instance |-> IF j \in {i} \cup more THEN FirstState(n) ELSE @[j]]]
  BY DEF PublishCreate
<1>2. /\ cloud[n][i] \in Creatable(n) /\ i \in Instance /\ FirstState(n) \in CloudState
      /\ \A j \in more : j \in Own /\ n \in Several /\ cloud[n][j] \in Creatable(n)
  BY <1>1 DEF PublishCreate, MayAlsoStart, Instance, FirstState, CloudState
<1> HIDE DEF n
<1>3. ASSUME n \in Node
      PROVE  cloud' = [m \in Node |-> IF m = n THEN [j \in Instance |-> IF j \in {i} \cup more THEN FirstState(n)
                                                                       ELSE cloud[m][j]]
                                      ELSE cloud[m]]
  BY <1>1, <1>3
<1>4. ASSUME n \notin Node PROVE cloud' = cloud
  BY <1>1, <1>4
<1>5. /\ cloud' \in [Node -> [Instance -> CloudState]]
      /\ \A m \in Node, j \in Instance :
            \/ cloud'[m][j] = cloud[m][j]
            \/ /\ m = n /\ j \in Own /\ (j = i \/ m \in Several)
               /\ cloud[m][j] \in Creatable(m) /\ cloud'[m][j] = FirstState(m)
      /\ n \in Node => cloud'[n][i] = FirstState(n)
  <2>1. CASE n \in Node
    BY <1>2, <1>3, <2>1
  <2>2. CASE n \notin Node
    BY <1>4, <2>2
  <2> QED
    BY <2>1, <2>2
<1> QED
  BY <1>5 DEF n

-----------------------------------------------------------------------------
(* Type correctness.                                                        *)

LEMMA NoRowType == NoRow \in Row
BY DEF NoRow, Row, Ext, Status

\* The initial state, with an untouched AWS account.
LEMMA InitType == Init => TypeOK
<1> SUFFICES ASSUME Init PROVE TypeOK
  OBVIOUS
<1>1. row \in [Node -> Row]
  BY NoRowType DEF Init
<1>2. cloud \in [Node -> [Instance -> CloudState]]
  BY DEF Init, CloudState, FirstForeign
<1>3. req \in [Request -> ReqState]
  BY IdleType DEF Init
<1>4. mode \in [Node -> Mode]
  BY LifecycleAssumption DEF Init
<1> QED
  BY <1>1, <1>2, <1>3, <1>4 DEF Init, TypeOK, ReceiptStatus

LEMMA NextType == TypeOK /\ [Next]_vars => TypeOK'
<1> SUFFICES ASSUME TypeOK, [Next]_vars PROVE TypeOK'
  OBVIOUS
<1> USE DEF dbVars
<1>1. ASSUME NEW p \in Request, Publish(p) PROVE TypeOK'
  <2>0. req[p] \in ReqState /\ row \in [Node -> Row] /\ receipt \in [Request -> ReceiptStatus]
        /\ req \in [Request -> ReqState]
    BY DEF TypeOK
  <2>1. CASE PublishStart(p)
    <3> DEFINE used == [n \in Node |-> IF n \in nodes /\ row[n].status = "RUNNING" THEN row[n].ext ELSE NoExt]
    <3>1. Snapshot("publish", "next", nodes) \in ReqState
      BY SnapshotType DEF TypeOK, Op
    <3>2. used \in [Node -> Ext]
      BY <2>0 DEF Row, Ext
    <3>3. [Snapshot("publish", "next", nodes) EXCEPT !.snapMode = mode, !.used = used] \in ReqState
      BY <3>1, <3>2 DEF ReqState, TypeOK
    <3> QED
      BY <2>1, <3>3, <2>0, BecomesType, SetReceiptType DEF PublishStart, TypeOK, ReceiptStatus
  <2>2. ASSUME NEW n \in Node, PublishNext(p, n) PROVE TypeOK'
    <3>1. [req[p] EXCEPT !.at = "wait", !.cur = n, !.wait = Sources(n, req[p].snapNodes)] \in ReqState
      BY <2>0 DEF ReqState, Sources
    <3> QED
      BY <2>2, <3>1, <2>0, BecomesType DEF PublishNext, TypeOK
  <2>3. ASSUME NEW n \in Node, PublishSourceReady(p, n) PROVE TypeOK'
    <3>1. [req[p] EXCEPT !.wait = @ \ {n}] \in ReqState
      BY <2>0 DEF ReqState
    <3> QED
      BY <2>3, <3>1, <2>0, BecomesType DEF PublishSourceReady, TypeOK
  <2>4. CASE PublishBlocked(p)
    BY <2>4, <2>0, IdleType, BecomesType, SetReceiptType DEF PublishBlocked, Finish, TypeOK, ReceiptStatus
  <2>5. CASE PublishSkip(p)
    BY <2>5, <2>0, LeaveType, BecomesType DEF PublishSkip, TypeOK
  <2>6. CASE PublishUpdate(p)
    <3> DEFINE n == req[p].cur
               i == req[p].snapRow[n].ext
    <3>1. [req[p] EXCEPT !.at = "updated"] \in ReqState
      BY <2>0 DEF ReqState
    <3>2. cloud' \in [Node -> [Instance -> CloudState]]
      BY <2>6 DEF PublishUpdate, TypeOK, CloudState
    <3> QED
      BY <2>6, <3>1, <3>2, <2>0, BecomesType DEF PublishUpdate, TypeOK
  <2>7. CASE PublishStoreUpdate(p)
    <3> DEFINE n == req[p].cur
               r == [row[n] EXCEPT !.setup = "stored", !.status = IF IsCloudFront(n) THEN "PROVISIONING" ELSE @]
    <3>1. n \in Node => r \in Row
      BY <2>0 DEF Row, Status
    <3> QED
      BY <2>7, <3>1, <2>0, LeaveType, BecomesType, SetRowType DEF PublishStoreUpdate, TypeOK
  <2>8. CASE PublishConflict(p)
    BY <2>8, <2>0, IdleType, BecomesType DEF PublishConflict, Finish, TypeOK
  <2>9. CASE PublishUpsert(p)
    <3> DEFINE n == req[p].cur
               r == [status |-> "PROVISIONING", ext |-> NoExt, setup |-> "null",
                     managed |-> req[p].snapMode[n] = "create"]
    <3>1. r \in Row
      BY DEF Row, Status, Ext
    <3>2. [req[p] EXCEPT !.at = "create"] \in ReqState
      BY <2>0 DEF ReqState
    <3> QED
      BY <2>9, <3>1, <3>2, <2>0, BecomesType, SetRowType DEF PublishUpsert, TypeOK
  <2>10. CASE PublishRejectNode(p)
    BY <2>10, <2>0, IdleType, BecomesType, SetReceiptType DEF PublishRejectNode, Finish, TypeOK, ReceiptStatus
  <2>11. CASE PublishAdopt(p)
    <3>1. [req[p] EXCEPT !.at = "store", !.ext = Foreign] \in ReqState
      BY <2>0 DEF ReqState, Ext, Instance
    <3> QED
      BY <2>11, <3>1, <2>0, BecomesType DEF PublishAdopt, TypeOK
  <2>12. ASSUME NEW i \in Own, PublishCreate(p, i) PROVE TypeOK'
    <3> DEFINE n == req[p].cur
    <3>1. [req[p] EXCEPT !.at = AfterCreate(n), !.ext = i] \in ReqState
      BY <2>0 DEF ReqState, AfterCreate, Ext, Instance
    <3>2. cloud' \in [Node -> [Instance -> CloudState]]
      BY <2>12, CreateStarts DEF TypeOK
    <3> QED
      BY <2>12, <3>1, <3>2, <2>0, BecomesType DEF PublishCreate, TypeOK
  <2>13. CASE PublishCheckpoint(p)
    <3> DEFINE n == req[p].cur
               r == [row[n] EXCEPT !.ext = req[p].ext, !.setup = "incomplete"]
    <3>1. n \in Node => r \in Row
      <4>1. req[p].ext \in Ext
        BY <2>0 DEF ReqState
      <4> QED
        BY <2>0, <4>1 DEF Row
    <3>2. [req[p] EXCEPT !.at = "setup"] \in ReqState
      BY <2>0 DEF ReqState
    <3> QED
      BY <2>13, <3>1, <3>2, <2>0, BecomesType, SetRowType DEF PublishCheckpoint, TypeOK
  <2>14. CASE PublishSetup(p)
    <3>1. [req[p] EXCEPT !.at = "store"] \in ReqState
      BY <2>0 DEF ReqState
    <3> QED
      BY <2>14, <3>1, <2>0, BecomesType DEF PublishSetup, TypeOK
  <2>15. CASE PublishAwsError(p)
    <3>1. [req[p] EXCEPT !.at = "fail", !.ext = NoExt] \in ReqState
      BY <2>0 DEF ReqState, Ext
    <3> QED
      BY <2>15, <3>1, <2>0, BecomesType DEF PublishAwsError, TypeOK
  <2>16. CASE PublishStore(p)
    <3> DEFINE n == req[p].cur
               r == [row[n] EXCEPT !.ext = req[p].ext, !.setup = "stored",
                                   !.status = IF IsCloudFront(n) THEN "PROVISIONING" ELSE "RUNNING"]
    <3>1. n \in Node => r \in Row
      <4>1. req[p].ext \in Ext
        BY <2>0 DEF ReqState
      <4> QED
        BY <2>0, <4>1 DEF Row, Status
    <3>2. [req[p].used EXCEPT ![n] = req[p].ext] \in [Node -> Ext]
      BY <2>0 DEF ReqState
    <3>3. [NodeDone(p) EXCEPT !.used[n] = req[p].ext] \in ReqState
      BY <2>0, <3>2 DEF NodeDone, ReqState, Ext
    <3> QED
      BY <2>16, <3>1, <3>3, <2>0, BecomesType, SetRowType DEF PublishStore, TypeOK
  <2>17. CASE PublishFail(p)
    <3>1. req[p].cur \in Node => [row[req[p].cur] EXCEPT !.status = "FAILED"] \in Row
      BY <2>0 DEF Row, Status
    <3> QED
      BY <2>17, <3>1, <2>0, IdleType, BecomesType, SetRowType, SetReceiptType
      DEF PublishFail, Finish, TypeOK, ReceiptStatus
  <2>18. CASE PublishDone(p)
    BY <2>18, <2>0, IdleType, BecomesType, SetReceiptType DEF PublishDone, Finish, TypeOK, ReceiptStatus
  <2> QED
    BY <1>1, <2>1, <2>2, <2>3, <2>4, <2>5, <2>6, <2>7, <2>8, <2>9, <2>10, <2>11, <2>12, <2>13,
       <2>14, <2>15, <2>16, <2>17, <2>18 DEF Publish
<1>2. ASSUME NEW p \in Request, Delete(p) PROVE TypeOK'
  <2>0. req[p] \in ReqState /\ row \in [Node -> Row] /\ receipt \in [Request -> ReceiptStatus]
        /\ req \in [Request -> ReqState]
    BY DEF TypeOK
  <2>1. ASSUME NEW n \in Node, DeleteResourceStart(p, n) PROVE TypeOK'
    <3>1. Snapshot("deleteResource", "pick", {n}) \in ReqState
      BY SnapshotType DEF Op
    <3> QED
      BY <2>1, <3>1, <2>0, BecomesType DEF DeleteResourceStart, TypeOK
  <2>2. ASSUME NEW op \in DeleteOp, DeleteSketchStart(p, op) PROVE TypeOK'
    <3>1. Snapshot(op, "pick", {n \in Node : Exists(n)}) \in ReqState
      BY SnapshotType DEF Op, DeleteOp
    <3> QED
      BY <2>2, <3>1, <2>0, BecomesType DEF DeleteSketchStart, TypeOK
  <2>3. ASSUME NEW n \in Node, DeletePick(p, n) PROVE TypeOK'
    <3>1. [req[p] EXCEPT !.todo = @ \ {n}] \in ReqState
      BY <2>0 DEF ReqState
    <3>2. [req[p] EXCEPT !.cur = n, !.at = IF InAws(req[p].snapRow[n]) THEN "mark" ELSE "detach"] \in ReqState
      BY <2>0 DEF ReqState
    <3> QED
      BY <2>3, <3>1, <3>2, <2>0, BecomesType DEF DeletePick, TypeOK
  <2>4. CASE DeleteDetach(p)
    <3>1. req[p].cur \in Node => [row[req[p].cur] EXCEPT !.status = "TERMINATED"] \in Row
      BY <2>0 DEF Row, Status
    <3> QED
      BY <2>4, <3>1, <2>0, LeaveType, BecomesType, SetRowType DEF DeleteDetach, TypeOK
  <2>5. CASE DeleteMark(p)
    <3>1. req[p].cur \in Node => [row[req[p].cur] EXCEPT !.status = "DELETING"] \in Row
      BY <2>0 DEF Row, Status
    <3>2. [req[p] EXCEPT !.at = "delete"] \in ReqState
      BY <2>0 DEF ReqState
    <3> QED
      BY <2>5, <3>1, <3>2, <2>0, BecomesType, SetRowType, SetReceiptType DEF DeleteMark, TypeOK, ReceiptStatus
  <2>6. CASE DeleteCall(p)
    <3> DEFINE n == req[p].cur
               i == req[p].snapRow[n].ext
               at == IF DeletePending(n, cloud[n][i]) THEN "pending"
                     ELSE IF DeleteFinds(n, cloud[n][i]) THEN "deleted" ELSE "missing"
    <3>1. [req[p] EXCEPT !.at = at] \in ReqState
      BY <2>0 DEF ReqState
    <3>2. cloud' \in [Node -> [Instance -> CloudState]]
      BY <2>6 DEF DeleteCall, TypeOK, CloudState, AfterDelete
    <3> QED
      BY <2>6, <3>1, <3>2, <2>0, BecomesType DEF DeleteCall, TypeOK
  <2>7. CASE DeleteError(p)
    <3>1. [req[p] EXCEPT !.at = "refused"] \in ReqState
      BY <2>0 DEF ReqState
    <3> QED
      BY <2>7, <3>1, <2>0, BecomesType DEF DeleteError, TypeOK
  <2>8. CASE DeleteRecord(p)
    <3> DEFINE n == req[p].cur
               r == [row[n] EXCEPT !.status = "TERMINATED",
                                   !.setup = IF req[p].at = "deleted" THEN "stored" ELSE @]
    <3>1. n \in Node => r \in Row
      BY <2>0 DEF Row, Status
    <3> QED
      BY <2>8, <3>1, <2>0, LeaveType, BecomesType, SetRowType, SetReceiptType
      DEF DeleteRecord, TypeOK, ReceiptStatus
  <2>9. CASE DeletePause(p)
    BY <2>9, <2>0, IdleType, BecomesType, SetReceiptType DEF DeletePause, Finish, TypeOK, ReceiptStatus
  <2>10. CASE DeleteFail(p)
    <3>1. req[p].cur \in Node => [row[req[p].cur] EXCEPT !.status = "FAILED"] \in Row
      BY <2>0 DEF Row, Status
    <3> QED
      BY <2>10, <3>1, <2>0, IdleType, BecomesType, SetRowType, SetReceiptType
      DEF DeleteFail, Finish, TypeOK, ReceiptStatus
  <2>11. CASE DeleteResourceDone(p)
    BY <2>11, <2>0, IdleType, BecomesType DEF DeleteResourceDone, Finish, TypeOK
  <2>12. CASE DeleteAllDone(p)
    BY <2>12, <2>0, IdleType, BecomesType DEF DeleteAllDone, Finish, TypeOK
  <2>13. CASE DeleteSketchDone(p)
    BY <2>13, <2>0, IdleType, BecomesType, NoRowType DEF DeleteSketchDone, Finish, TypeOK, ReceiptStatus
  <2> QED
    BY <1>2, <2>1, <2>2, <2>3, <2>4, <2>5, <2>6, <2>7, <2>8, <2>9, <2>10, <2>11, <2>12, <2>13 DEF Delete
<1>3. ASSUME NEW p \in Request, Refresh(p) PROVE TypeOK'
  <2>0. req[p] \in ReqState /\ row \in [Node -> Row] /\ req \in [Request -> ReqState]
    BY DEF TypeOK
  <2>1. CASE RefreshStart(p)
    <3>1. Snapshot("refresh", "reading", {n \in Node : row[n].status \notin {"NONE", "TERMINATED"}}) \in ReqState
      BY SnapshotType DEF Op
    <3> QED
      BY <2>1, <3>1, <2>0, BecomesType DEF RefreshStart, TypeOK
  <2>2. ASSUME NEW n \in Node, RefreshSkip(p, n) PROVE TypeOK'
    BY <2>2, <2>0, LeaveType, BecomesType DEF RefreshSkip, TypeOK
  <2>3. ASSUME NEW n \in Node, RefreshRead(p, n) PROVE TypeOK'
    <3> DEFINE seen == Observed(n, cloud[n][req[p].snapRow[n].ext])
    <3>1. [req[p].seen EXCEPT ![n] = seen] \in [Node -> Seen]
      BY <2>0 DEF ReqState, Seen, Observed, Status
    <3>2. [req[p] EXCEPT !.seen[n] = seen] \in ReqState
      BY <2>0, <3>1 DEF ReqState
    <3> QED
      BY <2>3, <3>2, <2>0, BecomesType DEF RefreshRead, TypeOK
  <2>4. ASSUME NEW n \in Node, RefreshDelete(p, n) PROVE TypeOK'
    <3>1. [req[p].seen EXCEPT ![n] = "MISSING"] \in [Node -> Seen]
      BY <2>0 DEF ReqState, Seen
    <3>2. [req[p] EXCEPT !.seen[n] = "MISSING"] \in ReqState
      BY <2>0, <3>1 DEF ReqState
    <3>3. cloud' \in [Node -> [Instance -> CloudState]]
      BY <2>4 DEF RefreshDelete, TypeOK, CloudState, AfterDelete
    <3> QED
      BY <2>4, <3>2, <3>3, <2>0, LeaveType, BecomesType DEF RefreshDelete, TypeOK
  <2>5. ASSUME NEW n \in Node, RefreshError(p, n) PROVE TypeOK'
    BY <2>5, <2>0, LeaveType, BecomesType DEF RefreshError, TypeOK
  <2>6. ASSUME NEW n \in Node, RefreshWrite(p, n) PROVE TypeOK'
    <3>1. req[p].seen[n] \in Seen
      BY <2>0 DEF ReqState
    <3>2. Refreshed(row[n], req[p].seen[n]) \in Row
      BY <2>6, <2>0, <3>1 DEF RefreshWrite, Refreshed, Row, Status, Seen
    <3> QED
      BY <2>6, <3>2, <2>0, LeaveType, BecomesType, SetRowType DEF RefreshWrite, TypeOK
  <2>7. CASE RefreshDone(p)
    BY <2>7, <2>0, IdleType, BecomesType DEF RefreshDone, Finish, TypeOK
  <2> QED
    BY <1>3, <2>1, <2>2, <2>3, <2>4, <2>5, <2>6, <2>7 DEF Refresh, RefreshStep
<1>4. ASSUME NEW p \in Request, Edit(p) PROVE TypeOK'
  <2>0. req[p] \in ReqState /\ row \in [Node -> Row] /\ req \in [Request -> ReqState]
    BY DEF TypeOK
  <2>1. ASSUME NEW op \in Op, NEW n \in Node \cup {NoNode}
        PROVE  [Idle EXCEPT !.op = op, !.at = "edit", !.cur = n] \in ReqState
    BY IdleType DEF ReqState
  <2>2. ASSUME NEW n \in Node, CreateNode(p, n) PROVE TypeOK'
    BY <2>2 DEF CreateNode, TypeOK
  <2>3. ASSUME NEW n \in Node, DeleteNodeStart(p, n) \/ UpdateNodeStart(p, n) PROVE TypeOK'
    BY <2>3, <2>0, <2>1, BecomesType DEF DeleteNodeStart, UpdateNodeStart, EditStart, TypeOK, Op
  <2>4. CASE ReplaceGraphStart(p)
    BY <2>4, <2>0, <2>1, BecomesType DEF ReplaceGraphStart, EditStart, TypeOK, Op
  <2>5. CASE DeleteNode(p)
    BY <2>5, <2>0, IdleType, BecomesType DEF DeleteNode, Finish, TypeOK
  <2>6. ASSUME NEW m \in Mode, UpdateNode(p, m) PROVE TypeOK'
    BY <2>6, <2>0, IdleType, BecomesType DEF UpdateNode, Finish, TypeOK
  <2>7. ASSUME NEW fresh \in SUBSET Node, ReplaceGraph(p, fresh) PROVE TypeOK'
    BY <2>7, <2>0, IdleType, BecomesType DEF ReplaceGraph, Finish, TypeOK
  <2> QED
    BY <1>4, <2>2, <2>3, <2>4, <2>5, <2>6, <2>7 DEF Edit
<1>5. ASSUME NEW p \in Request, Orphaned(p) PROVE TypeOK'
  BY <1>5, IdleType, BecomesType DEF Orphaned, Finish, TypeOK
<1>6. CASE Restart
  BY <1>6, IdleType DEF Restart, TypeOK
<1>7. CASE Aws
  <2>1. ASSUME NEW n \in Node, NEW i \in Instance, Settle(n, i) PROVE TypeOK'
    BY <2>1 DEF Settle, Settled, TypeOK, CloudState
  <2>2. ASSUME NEW n \in Node, NEW i \in Own, Drift(n, i) PROVE TypeOK'
    BY <2>2 DEF Drift, TypeOK, CloudState
  <2> QED
    BY <1>7, <2>1, <2>2 DEF Aws
<1>8. CASE UNCHANGED vars
  BY <1>8 DEF vars, TypeOK
<1> QED
  BY <1>1, <1>2, <1>3, <1>4, <1>5, <1>6, <1>7, <1>8 DEF Next

\* Every reachable state is well typed.  The handlers copy rows and describe
\* results between requests and the database; no such copy ever puts a value
\* into a column that the schema does not know.
THEOREM TypeCorrect == Spec => []TypeOK
BY InitType, NextType, PTL DEF Spec

-----------------------------------------------------------------------------
(* Adopted instances.                                                       *)

\* Publishes of the sketch do not overlap.  Nothing in the server enforces it:
\* the run AdoptedDeleted shows what happens without.
SinglePublisher ==
    \A p, q \in Request : "publish" \in Ops[p] /\ "publish" \in Ops[q] => p = q

\* What the locals r of a handler in slot p may be while the rows are rows: its
\* snapshot takes no adopted instance for a managed one, a deletion reaches AWS
\* only for a managed one, and a publish that is about to record an adopted
\* instance has claimed the row as unmanaged.
SlotSafe(p, r, rows) ==
    /\ \A n \in Node : r.snapRow[n].managed => r.snapRow[n].ext # Foreign
    /\ r.op = "publish" => "publish" \in Ops[p]
    /\ r.op = "publish" /\ r.at \in {"wait", "create", "checkpoint", "setup", "store"} => r.cur \in Node
    /\ r.op = "publish" /\ r.at = "create" /\ r.snapMode[r.cur] = "existing" => ~rows[r.cur].managed
    /\ r.op = "publish" /\ r.at = "store" /\ r.ext = Foreign => ~rows[r.cur].managed
    /\ r.at \in {"checkpoint", "setup"} => r.op = "publish" /\ r.ext # Foreign
    /\ r.op \in DeleteOp /\ r.at \in {"mark", "delete"} => r.snapRow[r.cur].managed

RowsSafe == \A n \in Node : row[n].managed => row[n].ext # Foreign

\* The inductive invariant behind AdoptedUntouched.
AdoptionInv ==
    /\ TypeOK
    /\ AdoptedUntouched
    /\ RowsSafe
    /\ \A p \in Request : SlotSafe(p, req[p], row)

\* A step that leaves the adopted instances alone, and one that leaves alone
\* what the rows say about ownership.
ForeignKept == \A n \in Node : cloud'[n][Foreign] = cloud[n][Foreign]
OwnersKept == \A n \in Node : row'[n].managed = row[n].managed /\ row'[n].ext = row[n].ext

\* A free slot is safe.
LEMMA IdleSafe == ASSUME NEW p, NEW rows PROVE SlotSafe(p, Idle, rows)
BY DEF SlotSafe, Idle, NoRow, DeleteOp

\* A request starts with a safe snapshot.
LEMMA SnapshotSafe ==
    ASSUME RowsSafe, TypeOK, NEW p \in Request, NEW op, op = "publish" => "publish" \in Ops[p],
           NEW at \in {"next", "pick", "reading"}, NEW todo
    PROVE  SlotSafe(p, Snapshot(op, at, todo), row)
BY DEF SlotSafe, Snapshot, Idle, RowsSafe

\* Updating the status and the setup mark of a row keeps its owner.
LEMMA OwnerKept ==
    ASSUME TypeOK, NEW n, NEW r, SetRow(n, r),
           n \in Node => r.managed = row[n].managed /\ r.ext = row[n].ext
    PROVE  OwnersKept
BY DEF TypeOK, SetRow, OwnersKept

\* A step in which one slot moves to a safe state and no owner changes.
LEMMA MoveSafe ==
    ASSUME AdoptionInv, ForeignKept, OwnersKept,
           NEW p \in Request, NEW r, Becomes(p, r), SlotSafe(p, r, row)
    PROVE  AdoptedUntouched' /\ RowsSafe' /\ \A q \in Request : SlotSafe(q, req'[q], row')
<1>1. AdoptedUntouched'
  BY DEF AdoptionInv, AdoptedUntouched, ForeignKept
<1>2. RowsSafe'
  BY DEF AdoptionInv, RowsSafe, OwnersKept
<1>3. ASSUME NEW q \in Request, NEW t, SlotSafe(q, t, row) PROVE SlotSafe(q, t, row')
  BY <1>3 DEF SlotSafe, OwnersKept
<1>4. ASSUME NEW q \in Request PROVE SlotSafe(q, req'[q], row')
  <2>1. req'[q] = IF q = p THEN r ELSE req[q]
    BY DEF AdoptionInv, TypeOK, Becomes
  <2> QED
    BY <2>1, <1>3 DEF AdoptionInv
<1> QED
  BY <1>1, <1>2, <1>4

LEMMA AdoptionInit == Init => AdoptionInv
BY InitType, IdleSafe DEF Init, AdoptionInv, AdoptedUntouched, RowsSafe, NoRow, Instance

LEMMA AdoptionNext ==
    ASSUME SinglePublisher, AdoptionInv, [Next]_vars
    PROVE  AdoptionInv'
<1> DEFINE Goal == AdoptedUntouched' /\ RowsSafe' /\ \A q \in Request : SlotSafe(q, req'[q], row')
<1> USE DEF dbVars
<1>0. TypeOK /\ TypeOK' /\ RowsSafe
  BY NextType DEF AdoptionInv
<1>a. ASSUME UNCHANGED cloud PROVE ForeignKept
  BY <1>a DEF ForeignKept
<1>b. ASSUME UNCHANGED row PROVE OwnersKept
  BY <1>b DEF OwnersKept
<1>c. ASSUME ForeignKept, UNCHANGED <<row, req>> PROVE Goal
  <2>1. AdoptedUntouched'
    BY <1>c DEF AdoptionInv, AdoptedUntouched, ForeignKept
  <2>2. RowsSafe'
    BY <1>c DEF AdoptionInv, RowsSafe
  <2>3. ASSUME NEW q \in Request PROVE SlotSafe(q, req'[q], row')
    <3>1. SlotSafe(q, req[q], row)
      BY DEF AdoptionInv
    <3>2. req' = req /\ row' = row
      BY <1>c
    <3> QED
      BY <3>1, <3>2
  <2> QED
    BY <2>1, <2>2, <2>3
<1>1. ASSUME NEW p \in Request, Publish(p) PROVE Goal
  <2> DEFINE r == req[p]
             n == req[p].cur
  <2>0. r \in ReqState /\ SlotSafe(p, r, row) /\ row \in [Node -> Row]
    BY <1>0 DEF AdoptionInv, TypeOK
  <2>a. SlotSafe(p, Idle, row)
    BY IdleSafe
  <2>b. SlotSafe(p, NodeDone(p), row)
    BY <2>0 DEF SlotSafe, NodeDone, ReqState, DeleteOp
  <2>1. CASE PublishStart(p)
    <3>1. SlotSafe(p, Snapshot("publish", "next", nodes), row)
      BY <2>1, <1>0, SnapshotSafe DEF PublishStart, Begin
    <3>2. ASSUME NEW used, NEW modes
          PROVE  SlotSafe(p, [Snapshot("publish", "next", nodes) EXCEPT !.snapMode = modes, !.used = used], row)
      BY <3>1 DEF SlotSafe, Snapshot, Idle
    <3> QED
      BY <2>1, <3>2, <1>a, <1>b, MoveSafe DEF PublishStart
  <2>2. ASSUME NEW m \in Node, PublishNext(p, m) PROVE Goal
    <3>1. SlotSafe(p, [r EXCEPT !.at = "wait", !.cur = m, !.wait = Sources(m, r.snapNodes)], row)
      BY <2>2, <2>0 DEF PublishNext, SlotSafe, ReqState, DeleteOp, At
    <3> QED
      BY <2>2, <3>1, <1>a, <1>b, MoveSafe DEF PublishNext
  <2>3. ASSUME NEW s \in Node, PublishSourceReady(p, s) PROVE Goal
    <3>1. SlotSafe(p, [r EXCEPT !.wait = @ \ {s}], row)
      BY <2>3, <2>0 DEF PublishSourceReady, SlotSafe, ReqState, DeleteOp
    <3> QED
      BY <2>3, <3>1, <1>a, <1>b, MoveSafe DEF PublishSourceReady
  <2>4. CASE PublishBlocked(p)
    BY <2>4, <2>a, <1>a, <1>b, MoveSafe DEF PublishBlocked, Finish
  <2>5. CASE PublishSkip(p)
    BY <2>5, <2>b, <1>a, <1>b, MoveSafe DEF PublishSkip
  <2>6. CASE PublishUpdate(p)
    <3>1. SlotSafe(p, [r EXCEPT !.at = "updated"], row)
      BY <2>0 DEF SlotSafe, ReqState, DeleteOp
    <3>2. ForeignKept
      <4>1. ASSUME NEW m \in Node, IsCloudFront(m) PROVE cloud[m][Foreign] = "absent"
        BY <4>1 DEF AdoptionInv, AdoptedUntouched, FirstForeign, IsAdoptable, IsCloudFront, Adoptable
      <4> QED
        BY <2>6, <1>0, <4>1 DEF PublishUpdate, ForeignKept, TypeOK, Instance, Live
    <3> QED
      BY <2>6, <3>1, <3>2, <1>b, MoveSafe DEF PublishUpdate
  <2>7. CASE PublishStoreUpdate(p)
    <3>1. OwnersKept
      BY <2>7, <2>0, <1>0, OwnerKept DEF PublishStoreUpdate, Row
    <3> QED
      BY <2>7, <3>1, <2>b, <1>a, MoveSafe DEF PublishStoreUpdate
  <2>8. CASE PublishConflict(p)
    BY <2>8, <2>a, <1>a, <1>b, MoveSafe DEF PublishConflict, Finish
  <2>9. CASE PublishUpsert(p)
    <3> DEFINE new == [r EXCEPT !.at = "create"]
               claimed == [status |-> "PROVISIONING", ext |-> NoExt, setup |-> "null",
                           managed |-> r.snapMode[n] = "create"]
    <3>1. n \in Node /\ r.op = "publish"
      BY <2>9, <2>0 DEF PublishUpsert, NodeReady, At, SlotSafe
    <3>2. row' = [row EXCEPT ![n] = claimed]
      BY <2>9 DEF PublishUpsert, SetRow
    <3>3. SlotSafe(p, new, row')
      BY <2>0, <3>1, <3>2 DEF SlotSafe, ReqState, DeleteOp
    <3>4. ASSUME NEW q \in Request, q # p PROVE SlotSafe(q, req[q], row')
      <4>1. SlotSafe(q, req[q], row)
        BY DEF AdoptionInv
      <4>2. req[q].op # "publish"
        BY <2>0, <3>1, <3>4, <4>1 DEF SlotSafe, SinglePublisher
      <4> QED
        BY <4>1, <4>2 DEF SlotSafe
    <3>5. RowsSafe'
      BY <1>0, <2>0, <3>1, <3>2, ServiceAssumption DEF RowsSafe
    <3>6. \A q \in Request : req'[q] = IF q = p THEN new ELSE req[q]
      BY <2>9, <1>0 DEF PublishUpsert, Becomes, TypeOK
    <3> QED
      BY <2>9, <3>3, <3>4, <3>5, <3>6 DEF PublishUpsert, AdoptionInv, AdoptedUntouched
  <2>10. CASE PublishRejectNode(p)
    BY <2>10, <2>a, <1>a, <1>b, MoveSafe DEF PublishRejectNode, Finish
  <2>11. CASE PublishAdopt(p)
    <3>1. SlotSafe(p, [r EXCEPT !.at = "store", !.ext = Foreign], row)
      BY <2>11, <2>0 DEF PublishAdopt, SlotSafe, ReqState, DeleteOp, At
    <3> QED
      BY <2>11, <3>1, <1>a, <1>b, MoveSafe DEF PublishAdopt
  <2>12. ASSUME NEW i \in Own, PublishCreate(p, i) PROVE Goal
    <3>1. i # Foreign
      BY ServiceAssumption
    <3>2. SlotSafe(p, [r EXCEPT !.at = AfterCreate(n), !.ext = i], row)
      BY <2>12, <2>0, <3>1 DEF PublishCreate, SlotSafe, ReqState, DeleteOp, AfterCreate, At
    <3>3. ForeignKept
      BY <2>12, <1>0, <3>1, CreateStarts, ServiceAssumption DEF ForeignKept, TypeOK, Instance
    <3> QED
      BY <2>12, <3>2, <3>3, <1>b, MoveSafe DEF PublishCreate
  <2>13. CASE PublishCheckpoint(p)
    <3> DEFINE saved == [row[n] EXCEPT !.ext = r.ext, !.setup = "incomplete"]
    <3>1. r.ext # Foreign
      BY <2>13, <2>0 DEF PublishCheckpoint, At, SlotSafe
    <3>2. row' = [row EXCEPT ![n] = saved]
      BY <2>13 DEF PublishCheckpoint, SetRow
    <3>3. \A m \in Node : row'[m].managed = row[m].managed
      BY <2>0, <3>2 DEF Row
    <3>4. RowsSafe'
      BY <1>0, <2>0, <3>1, <3>2 DEF RowsSafe, Row
    <3>5. SlotSafe(p, [r EXCEPT !.at = "setup"], row')
      BY <2>13, <2>0, <3>1 DEF PublishCheckpoint, At, SlotSafe, ReqState, DeleteOp
    <3>6. ASSUME NEW q \in Request PROVE SlotSafe(q, req[q], row')
      BY <3>3 DEF AdoptionInv, SlotSafe
    <3>7. \A q \in Request : req'[q] = IF q = p THEN [r EXCEPT !.at = "setup"] ELSE req[q]
      BY <2>13, <1>0 DEF PublishCheckpoint, Becomes, TypeOK
    <3> QED
      BY <2>13, <3>4, <3>5, <3>6, <3>7 DEF PublishCheckpoint, AdoptionInv, AdoptedUntouched
  <2>14. CASE PublishSetup(p)
    <3>1. SlotSafe(p, [r EXCEPT !.at = "store"], row)
      BY <2>14, <2>0 DEF PublishSetup, SlotSafe, ReqState, DeleteOp, At
    <3> QED
      BY <2>14, <3>1, <1>a, <1>b, MoveSafe DEF PublishSetup
  <2>15. CASE PublishAwsError(p)
    <3>1. SlotSafe(p, [r EXCEPT !.at = "fail", !.ext = NoExt], row)
      BY <2>0 DEF SlotSafe, ReqState
    <3> QED
      BY <2>15, <3>1, <1>a, <1>b, MoveSafe DEF PublishAwsError
  <2>16. CASE PublishStore(p)
    <3> DEFINE done == [NodeDone(p) EXCEPT !.used[n] = r.ext]
               saved == [row[n] EXCEPT !.ext = r.ext, !.setup = "stored",
                                       !.status = IF IsCloudFront(n) THEN "PROVISIONING" ELSE "RUNNING"]
    <3>1. r.ext = Foreign => ~row[n].managed
      BY <2>16, <2>0 DEF PublishStore, At, SlotSafe
    <3>2. row' = [row EXCEPT ![n] = saved]
      BY <2>16 DEF PublishStore, SetRow
    <3>3. \A m \in Node : row'[m].managed = row[m].managed
      BY <2>0, <3>2 DEF Row
    <3>4. RowsSafe'
      BY <1>0, <2>0, <3>1, <3>2 DEF RowsSafe, Row
    <3>5. SlotSafe(p, done, row')
      BY <2>0 DEF NodeDone, SlotSafe, ReqState, DeleteOp
    <3>6. ASSUME NEW q \in Request PROVE SlotSafe(q, req[q], row')
      BY <3>3 DEF AdoptionInv, SlotSafe
    <3>7. \A q \in Request : req'[q] = IF q = p THEN done ELSE req[q]
      BY <2>16, <1>0 DEF PublishStore, Becomes, TypeOK
    <3> QED
      BY <2>16, <3>4, <3>5, <3>6, <3>7 DEF PublishStore, AdoptionInv, AdoptedUntouched
  <2>17. CASE PublishFail(p)
    <3>1. OwnersKept
      BY <2>17, <2>0, <1>0, OwnerKept DEF PublishFail, Row
    <3> QED
      BY <2>17, <3>1, <2>a, <1>a, MoveSafe DEF PublishFail, Finish
  <2>18. CASE PublishDone(p)
    BY <2>18, <2>a, <1>a, <1>b, MoveSafe DEF PublishDone, Finish
  <2> QED
    BY <1>1, <2>1, <2>2, <2>3, <2>4, <2>5, <2>6, <2>7, <2>8, <2>9, <2>10, <2>11, <2>12, <2>13,
       <2>14, <2>15, <2>16, <2>17, <2>18 DEF Publish
<1>2. ASSUME NEW p \in Request, Delete(p) PROVE Goal
  <2> DEFINE r == req[p]
             n == req[p].cur
  <2>0. r \in ReqState /\ SlotSafe(p, r, row) /\ row \in [Node -> Row]
    BY <1>0 DEF AdoptionInv, TypeOK
  <2>a. SlotSafe(p, Idle, row)
    BY IdleSafe
  <2>b. r.op \in DeleteOp => SlotSafe(p, ResourceDone(p), row)
    BY <2>0 DEF SlotSafe, ResourceDone, ReqState, DeleteOp
  <2>1. ASSUME NEW m \in Node, DeleteResourceStart(p, m) PROVE Goal
    BY <2>1, <1>0, SnapshotSafe, <1>a, <1>b, MoveSafe DEF DeleteResourceStart
  <2>2. ASSUME NEW op \in DeleteOp, DeleteSketchStart(p, op) PROVE Goal
    BY <2>2, <1>0, SnapshotSafe, <1>a, <1>b, MoveSafe DEF DeleteSketchStart, DeleteOp
  <2>3. ASSUME NEW m \in Node, DeletePick(p, m) PROVE Goal
    <3>1. r.op \in DeleteOp
      BY <2>3 DEF DeletePick, At
    <3>2. SlotSafe(p, [r EXCEPT !.todo = @ \ {m}], row)
      BY <2>0 DEF SlotSafe, ReqState
    <3>3. SlotSafe(p, [r EXCEPT !.cur = m, !.at = IF InAws(r.snapRow[m]) THEN "mark" ELSE "detach"], row)
      BY <2>0, <3>1 DEF SlotSafe, ReqState, InAws, DeleteOp
    <3> QED
      BY <2>3, <3>2, <3>3, <1>a, <1>b, MoveSafe DEF DeletePick
  <2>4. CASE DeleteDetach(p)
    <3>1. OwnersKept
      BY <2>4, <2>0, <1>0, OwnerKept DEF DeleteDetach, Row
    <3> QED
      BY <2>4, <3>1, <2>b, <1>a, MoveSafe DEF DeleteDetach, Deleting
  <2>5. CASE DeleteMark(p)
    <3>1. OwnersKept
      BY <2>5, <2>0, <1>0, OwnerKept DEF DeleteMark, Row
    <3>2. SlotSafe(p, [r EXCEPT !.at = "delete"], row)
      BY <2>5, <2>0 DEF DeleteMark, Deleting, SlotSafe, ReqState, DeleteOp
    <3> QED
      BY <2>5, <3>1, <3>2, <1>a, MoveSafe DEF DeleteMark
  <2>6. CASE DeleteCall(p)
    <3> DEFINE i == r.snapRow[n].ext
    <3>1. n \in Node => i # Foreign
      BY <2>6, <2>0 DEF DeleteCall, Deleting, SlotSafe
    <3>2. ForeignKept
      BY <2>6, <1>0, <3>1 DEF DeleteCall, ForeignKept, TypeOK, Instance
    <3>3. ASSUME NEW at \in {"pending", "deleted", "missing"} PROVE SlotSafe(p, [r EXCEPT !.at = at], row)
      BY <2>0 DEF SlotSafe, ReqState, DeleteOp
    <3> QED
      BY <2>6, <3>2, <3>3, <1>b, MoveSafe DEF DeleteCall
  <2>7. CASE DeleteError(p)
    <3>1. SlotSafe(p, [r EXCEPT !.at = "refused"], row)
      BY <2>7, <2>0 DEF DeleteError, SlotSafe, ReqState, DeleteOp
    <3> QED
      BY <2>7, <3>1, <1>a, <1>b, MoveSafe DEF DeleteError
  <2>8. CASE DeleteRecord(p)
    <3>1. OwnersKept
      BY <2>8, <2>0, <1>0, OwnerKept DEF DeleteRecord, Row
    <3> QED
      BY <2>8, <3>1, <2>b, <1>a, MoveSafe DEF DeleteRecord, Deleting
  <2>9. CASE DeletePause(p)
    BY <2>9, <2>a, <1>a, <1>b, MoveSafe DEF DeletePause, Finish
  <2>10. CASE DeleteFail(p)
    <3>1. OwnersKept
      BY <2>10, <2>0, <1>0, OwnerKept DEF DeleteFail, Row
    <3> QED
      BY <2>10, <3>1, <2>a, <1>a, MoveSafe DEF DeleteFail, Finish
  <2>11. CASE DeleteResourceDone(p)
    BY <2>11, <2>a, <1>a, <1>b, MoveSafe DEF DeleteResourceDone, Finish
  <2>12. CASE DeleteAllDone(p)
    BY <2>12, <2>a, <1>a, <1>b, MoveSafe DEF DeleteAllDone, Finish
  <2>13. CASE DeleteSketchDone(p)
    <3>1. \A m \in Node : ~row'[m].managed
      BY <2>13 DEF DeleteSketchDone, NoRow
    <3>2. ASSUME NEW q \in Request PROVE SlotSafe(q, req[q], row')
      BY <3>1 DEF AdoptionInv, SlotSafe
    <3>3. \A q \in Request : req'[q] = IF q = p THEN Idle ELSE req[q]
      BY <2>13, <1>0 DEF DeleteSketchDone, Finish, Becomes, TypeOK
    <3> QED
      BY <2>13, <3>1, <3>2, <3>3, IdleSafe DEF DeleteSketchDone, AdoptionInv, AdoptedUntouched, RowsSafe
  <2> QED
    BY <1>2, <2>1, <2>2, <2>3, <2>4, <2>5, <2>6, <2>7, <2>8, <2>9, <2>10, <2>11, <2>12, <2>13 DEF Delete
<1>3. ASSUME NEW p \in Request, Refresh(p) PROVE Goal
  <2> DEFINE r == req[p]
  <2>0. r \in ReqState /\ SlotSafe(p, r, row) /\ row \in [Node -> Row]
    BY <1>0 DEF AdoptionInv, TypeOK
  <2>a. SlotSafe(p, Idle, row)
    BY IdleSafe
  <2>b. \A n \in Node : SlotSafe(p, Dropped(p, n), row)
    BY <2>0 DEF SlotSafe, Dropped, ReqState
  <2>1. CASE RefreshStart(p)
    BY <2>1, <1>0, SnapshotSafe, <1>a, <1>b, MoveSafe DEF RefreshStart
  <2>2. ASSUME NEW n \in Node, RefreshSkip(p, n) PROVE Goal
    BY <2>2, <2>b, <1>a, <1>b, MoveSafe DEF RefreshSkip
  <2>3. ASSUME NEW n \in Node, RefreshRead(p, n) PROVE Goal
    <3>1. ASSUME NEW seen PROVE SlotSafe(p, [r EXCEPT !.seen[n] = seen], row)
      BY <2>0 DEF SlotSafe, ReqState
    <3> QED
      BY <2>3, <3>1, <1>a, <1>b, MoveSafe DEF RefreshRead
  <2>4. ASSUME NEW n \in Node, RefreshDelete(p, n) PROVE Goal
    <3>1. SlotSafe(p, [r EXCEPT !.seen[n] = "MISSING"], row)
      BY <2>0 DEF SlotSafe, ReqState
    <3>2. IsCloudFront(n)
      BY <2>4 DEF RefreshDelete, MayRead, RefreshSkips, RetriesDelete
    <3>3. cloud[n][Foreign] = "absent"
      BY <3>2 DEF AdoptionInv, AdoptedUntouched, FirstForeign, IsAdoptable, IsCloudFront, Adoptable
    <3>4. ForeignKept
      BY <2>4, <1>0, <3>2, <3>3 DEF RefreshDelete, ForeignKept, TypeOK, Instance, AfterDelete, Live
    <3> QED
      BY <2>4, <3>1, <3>4, <2>b, <1>b, MoveSafe DEF RefreshDelete
  <2>5. ASSUME NEW n \in Node, RefreshError(p, n) PROVE Goal
    BY <2>5, <2>b, <1>a, <1>b, MoveSafe DEF RefreshError
  <2>6. ASSUME NEW n \in Node, RefreshWrite(p, n) PROVE Goal
    <3>1. OwnersKept
      BY <2>6, <2>0, <1>0, OwnerKept DEF RefreshWrite, Refreshed, Row
    <3> QED
      BY <2>6, <3>1, <2>b, <1>a, MoveSafe DEF RefreshWrite
  <2>7. CASE RefreshDone(p)
    BY <2>7, <2>a, <1>a, <1>b, MoveSafe DEF RefreshDone, Finish
  <2> QED
    BY <1>3, <2>1, <2>2, <2>3, <2>4, <2>5, <2>6, <2>7 DEF Refresh, RefreshStep
<1>4. ASSUME NEW p \in Request, Edit(p) PROVE Goal
  <2>a. SlotSafe(p, Idle, row)
    BY IdleSafe
  <2>b. ASSUME NEW op, op # "publish", NEW n PROVE SlotSafe(p, [Idle EXCEPT !.op = op, !.at = "edit", !.cur = n], row)
    BY <2>b DEF SlotSafe, Idle, NoRow
  <2>1. ASSUME NEW n \in Node, CreateNode(p, n) PROVE Goal
    BY <2>1 DEF CreateNode, AdoptionInv, AdoptedUntouched, RowsSafe
  <2>2. ASSUME NEW n \in Node, DeleteNodeStart(p, n) \/ UpdateNodeStart(p, n) PROVE Goal
    BY <2>2, <2>b, <1>a, <1>b, MoveSafe DEF DeleteNodeStart, UpdateNodeStart, EditStart
  <2>3. CASE ReplaceGraphStart(p)
    BY <2>3, <2>b, <1>a, <1>b, MoveSafe DEF ReplaceGraphStart, EditStart
  <2>4. CASE DeleteNode(p)
    BY <2>4, <2>a, <1>a, <1>b, MoveSafe DEF DeleteNode, Finish
  <2>5. ASSUME NEW m \in Mode, UpdateNode(p, m) PROVE Goal
    BY <2>5, <2>a, <1>a, <1>b, MoveSafe DEF UpdateNode, Finish
  <2>6. ASSUME NEW fresh \in SUBSET Node, ReplaceGraph(p, fresh) PROVE Goal
    BY <2>6, <2>a, <1>a, <1>b, MoveSafe DEF ReplaceGraph, Finish
  <2> QED
    BY <1>4, <2>1, <2>2, <2>3, <2>4, <2>5, <2>6 DEF Edit
<1>5. ASSUME NEW p \in Request, Orphaned(p) PROVE Goal
  BY <1>5, IdleSafe, <1>a, <1>b, MoveSafe DEF Orphaned, Finish
<1>6. ASSUME Restart PROVE Goal
  BY <1>6, IdleSafe DEF Restart, AdoptionInv, AdoptedUntouched, RowsSafe
<1>7. ASSUME Aws PROVE Goal
  <2>1. ASSUME NEW n \in Node, NEW i \in Instance, Settle(n, i) PROVE ForeignKept
    BY <2>1, <1>0 DEF Settle, Settled, ForeignKept, AdoptionInv, AdoptedUntouched, FirstForeign, TypeOK, Instance
  <2>2. ASSUME NEW n \in Node, NEW i \in Own, Drift(n, i) PROVE ForeignKept
    BY <2>2, <1>0, ServiceAssumption DEF Drift, ForeignKept, TypeOK, Instance
  <2>3. ForeignKept /\ UNCHANGED <<row, req>>
    BY <1>7, <2>1, <2>2 DEF Aws, Settle, Drift
  <2> QED
    BY <2>3, <1>c
<1>8. ASSUME UNCHANGED vars PROVE Goal
  <2>1. ForeignKept /\ UNCHANGED <<row, req>>
    BY <1>8 DEF vars, ForeignKept
  <2> QED
    BY <2>1, <1>c
<1>9. Goal
  <2> HIDE DEF Goal
  <2> QED
    BY <1>1, <1>2, <1>3, <1>4, <1>5, <1>6, <1>7, <1>8 DEF Next
<1> QED
  BY <1>0, <1>9 DEF AdoptionInv

\* CloudCanvas never deletes, replaces or reconfigures an instance the user has
\* adopted, whatever deletions, refreshes, edits, restarts and outside changes
\* interleave, as long as the publishes of the sketch do not overlap.
THEOREM AdoptedSafe == ASSUME SinglePublisher PROVE Spec => []AdoptedUntouched
<1>1. AdoptionInv /\ [Next]_vars => AdoptionInv'
  BY AdoptionNext
<1>2. AdoptionInv => AdoptedUntouched
  BY DEF AdoptionInv
<1> QED
  BY AdoptionInit, <1>1, <1>2, PTL DEF Spec

-----------------------------------------------------------------------------
(* Dependencies.                                                            *)

\* What the locals r of a publish promise while the cloud is c: every source of
\* its current node is still waited for, or has been seen in AWS, and nothing
\* that was seen goes back to being created.
Waits(r, c) ==
    r.op = "publish" /\ r.at \in {"wait", "create"} =>
        \A s \in Sources(r.cur, r.snapNodes) :
            \/ r.at = "wait" /\ s \in r.wait
            \/ r.used[s] # NoExt /\ c[s][r.used[s]] # "creating"

WaitInv == \A p \in Request : Waits(req[p], cloud)

\* A step after which no instance of a possible source is new.
NothingNew ==
    \A s \in Node, i \in Instance :
        ~IsCloudFront(s) /\ cloud[s][i] # "creating" => cloud'[s][i] # "creating"

\* A distribution is nobody's source.
LEMMA SourceService ==
    ASSUME NEW n, NEW canvas, NEW s \in Sources(n, canvas)
    PROVE  s \in Node /\ ~IsCloudFront(s)
<1>1. <<s, n>> \in Edge
  BY DEF Sources
<1>2. s \in Node /\ <<Service[s], Service[n]>> \in CanConnect
  BY <1>1, LifecycleAssumption
<1> QED
  BY <1>2 DEF CanConnect, IsCloudFront

\* What a slot waits for survives a step that makes no source new.
LEMMA WaitsKept ==
    ASSUME NothingNew, NEW r \in ReqState, Waits(r, cloud)
    PROVE  Waits(r, cloud')
<1>1. r.used \in [Node -> Ext]
  BY DEF ReqState
<1> QED
  BY <1>1, SourceService DEF Waits, NothingNew, Ext

\* A step in which one slot moves to r.
LEMMA MoveWaits ==
    ASSUME TypeOK, WaitInv, NothingNew, NEW p \in Request, NEW r, Becomes(p, r), Waits(r, cloud')
    PROVE  WaitInv'
<1> SUFFICES ASSUME NEW q \in Request PROVE Waits(req'[q], cloud')
  BY DEF WaitInv
<1>1. req'[q] = IF q = p THEN r ELSE req[q]
  BY DEF TypeOK, Becomes
<1>2. Waits(req[q], cloud')
  BY WaitsKept DEF WaitInv, TypeOK
<1> QED
  BY <1>1, <1>2

\* A slot that is not between the start of a loop body and its create call
\* waits for nothing.
LEMMA NoWait ==
    ASSUME NEW r, NEW c, r.op # "publish" \/ r.at \notin {"wait", "create"}
    PROVE  Waits(r, c)
BY DEF Waits

LEMMA WaitInit == Init => WaitInv
BY NoWait DEF Init, WaitInv, Idle

LEMMA WaitNext ==
    ASSUME SinglePublisher, AdoptionInv, WaitInv, [Next]_vars
    PROVE  WaitInv'
<1> USE DEF dbVars
<1>0. TypeOK
  BY DEF AdoptionInv
<1>a. ASSUME UNCHANGED cloud PROVE NothingNew
  BY <1>a DEF NothingNew
<1>b. \A c : Waits(Idle, c)
  BY NoWait DEF Idle
<1>c. ASSUME NothingNew, UNCHANGED req PROVE WaitInv'
  BY <1>0, <1>c, WaitsKept DEF WaitInv, TypeOK
<1>1. ASSUME NEW p \in Request, Publish(p) PROVE WaitInv'
  <2> DEFINE r == req[p]
             n == req[p].cur
  <2>0. r \in ReqState /\ SlotSafe(p, r, row) /\ Waits(r, cloud)
    BY <1>0 DEF AdoptionInv, WaitInv, TypeOK
  <2>a. \A c : Waits(NodeDone(p), c)
    BY <2>0 DEF Waits, NodeDone, ReqState
  <2>b. ASSUME NEW at, at \notin {"wait", "create"}, NEW i, NEW c
        PROVE  Waits([r EXCEPT !.at = at], c) /\ Waits([r EXCEPT !.at = at, !.ext = i], c)
    BY <2>0, <2>b DEF Waits, ReqState
  <2>1. CASE PublishStart(p)
    <3>1. ASSUME NEW used, NEW modes, NEW c
          PROVE  Waits([Snapshot("publish", "next", nodes) EXCEPT !.snapMode = modes, !.used = used], c)
      BY DEF Waits, Snapshot, Idle
    <3> QED
      BY <2>1, <3>1, <1>0, <1>a, MoveWaits DEF PublishStart
  <2>2. ASSUME NEW m \in Node, PublishNext(p, m) PROVE WaitInv'
    <3>1. Waits([r EXCEPT !.at = "wait", !.cur = m, !.wait = Sources(m, r.snapNodes)], cloud')
      BY <2>0 DEF Waits, ReqState
    <3> QED
      BY <2>2, <3>1, <1>0, <1>a, MoveWaits DEF PublishNext
  <2>3. ASSUME NEW s \in Node, PublishSourceReady(p, s) PROVE WaitInv'
    <3>1. cloud[s][r.used[s]] # "creating" /\ r.used[s] # NoExt
      BY <2>3 DEF PublishSourceReady, Ready, Observed
    <3>2. Waits([r EXCEPT !.wait = @ \ {s}], cloud)
      BY <2>0, <3>1 DEF Waits, ReqState
    <3>3. cloud' = cloud
      BY <2>3 DEF PublishSourceReady
    <3> QED
      BY <2>3, <3>2, <3>3, <1>0, <1>a, MoveWaits DEF PublishSourceReady
  <2>4. CASE PublishBlocked(p) \/ PublishConflict(p) \/ PublishRejectNode(p)
    BY <2>4, <1>0, <1>a, <1>b, MoveWaits DEF PublishBlocked, PublishConflict, PublishRejectNode, Finish
  <2>5. CASE PublishSkip(p)
    BY <2>5, <2>a, <1>0, <1>a, MoveWaits DEF PublishSkip
  <2>6. CASE PublishUpdate(p)
    <3> DEFINE i == r.snapRow[n].ext
    <3>1. NothingNew
      <4> SUFFICES ASSUME NEW s \in Node, NEW j \in Instance, ~IsCloudFront(s), cloud[s][j] # "creating"
                   PROVE  cloud'[s][j] # "creating"
        BY DEF NothingNew
      <4>1. cloud' = [cloud EXCEPT ![n][i] = IF IsCloudFront(n) THEN "creating" ELSE @]
        BY <2>6 DEF PublishUpdate
      <4>2. cloud'[s][j] = cloud[s][j]
        BY <1>0, <4>1 DEF TypeOK
      <4> QED
        BY <4>2
    <3> QED
      BY <2>6, <2>b, <3>1, <1>0, MoveWaits DEF PublishUpdate
  <2>7. CASE PublishStoreUpdate(p)
    BY <2>7, <2>a, <1>0, <1>a, MoveWaits DEF PublishStoreUpdate
  <2>8. CASE PublishUpsert(p)
    <3>1. Waits([r EXCEPT !.at = "create"], cloud)
      BY <2>8, <2>0 DEF PublishUpsert, NodeReady, At, Waits, ReqState
    <3>2. cloud' = cloud
      BY <2>8 DEF PublishUpsert
    <3> QED
      BY <2>8, <3>1, <3>2, <1>0, <1>a, MoveWaits DEF PublishUpsert
  <2>9. CASE PublishAdopt(p)
    BY <2>9, <2>b, <1>0, <1>a, MoveWaits DEF PublishAdopt
  <2>10. ASSUME NEW i \in Own, PublishCreate(p, i) PROVE WaitInv'
    <3>1. r.op = "publish"
      BY <2>10 DEF PublishCreate, At
    <3>2. Waits([r EXCEPT !.at = AfterCreate(n), !.ext = i], cloud')
      BY <2>b DEF AfterCreate
    <3>3. ASSUME NEW q \in Request, q # p PROVE Waits(req[q], cloud')
      <4>1. SlotSafe(q, req[q], row)
        BY DEF AdoptionInv
      <4>2. req[q].op # "publish"
        BY <2>0, <3>1, <3>3, <4>1 DEF SlotSafe, SinglePublisher
      <4> QED
        BY <4>2, NoWait
    <3>4. \A q \in Request : req'[q] = IF q = p THEN [r EXCEPT !.at = AfterCreate(n), !.ext = i] ELSE req[q]
      BY <2>10, <1>0 DEF PublishCreate, Becomes, TypeOK
    <3> QED
      BY <3>2, <3>3, <3>4 DEF WaitInv
  <2>11. CASE PublishCheckpoint(p)
    BY <2>11, <2>b, <1>0, <1>a, MoveWaits DEF PublishCheckpoint
  <2>12. CASE PublishSetup(p)
    BY <2>12, <2>b, <1>0, <1>a, MoveWaits DEF PublishSetup
  <2>13. CASE PublishAwsError(p)
    BY <2>13, <2>b, <1>0, <1>a, MoveWaits DEF PublishAwsError
  <2>14. CASE PublishStore(p)
    <3>1. \A c : Waits([NodeDone(p) EXCEPT !.used[n] = r.ext], c)
      BY <2>0 DEF NodeDone, Waits, ReqState
    <3> QED
      BY <2>14, <3>1, <1>0, <1>a, MoveWaits DEF PublishStore
  <2>15. CASE PublishFail(p)
    BY <2>15, <1>0, <1>a, <1>b, MoveWaits DEF PublishFail, Finish
  <2>16. CASE PublishDone(p)
    BY <2>16, <1>0, <1>a, <1>b, MoveWaits DEF PublishDone, Finish
  <2> QED
    BY <1>1, <2>1, <2>2, <2>3, <2>4, <2>5, <2>6, <2>7, <2>8, <2>9, <2>10, <2>11, <2>12, <2>13,
       <2>14, <2>15, <2>16 DEF Publish
<1>2. ASSUME NEW p \in Request, Delete(p) PROVE WaitInv'
  <2> DEFINE r == req[p]
             n == req[p].cur
  <2>0. r \in ReqState
    BY <1>0 DEF TypeOK
  <2>a. ASSUME NEW op, op # "publish", NEW at, NEW todo, NEW c PROVE Waits(Snapshot(op, at, todo), c)
    BY <2>a DEF Waits, Snapshot, Idle
  <2>b. ASSUME r.op \in DeleteOp, NEW at, NEW c
        PROVE  Waits([r EXCEPT !.at = at], c) /\ Waits(ResourceDone(p), c)
    BY <2>0, <2>b DEF Waits, ReqState, DeleteOp, ResourceDone
  <2>1. ASSUME NEW m \in Node, DeleteResourceStart(p, m) PROVE WaitInv'
    BY <2>1, <2>a, <1>0, <1>a, MoveWaits DEF DeleteResourceStart
  <2>2. ASSUME NEW op \in DeleteOp, DeleteSketchStart(p, op) PROVE WaitInv'
    BY <2>2, <2>a, <1>0, <1>a, MoveWaits DEF DeleteSketchStart
  <2>3. ASSUME NEW m \in Node, DeletePick(p, m) PROVE WaitInv'
    <3>1. r.op \in DeleteOp
      BY <2>3 DEF DeletePick, At
    <3>2. ASSUME NEW at PROVE /\ Waits([r EXCEPT !.todo = @ \ {m}], cloud')
                              /\ Waits([r EXCEPT !.cur = m, !.at = at], cloud')
      BY <2>0, <3>1 DEF Waits, ReqState, DeleteOp
    <3> QED
      BY <2>3, <3>2, <1>0, <1>a, MoveWaits DEF DeletePick
  <2>4. CASE DeleteDetach(p)
    BY <2>4, <2>b, <1>0, <1>a, MoveWaits DEF DeleteDetach, Deleting
  <2>5. CASE DeleteMark(p)
    BY <2>5, <2>b, <1>0, <1>a, MoveWaits DEF DeleteMark, Deleting
  <2>6. CASE DeleteCall(p)
    <3>1. NothingNew
      BY <2>6, <1>0 DEF DeleteCall, NothingNew, TypeOK, AfterDelete, Live
    <3> QED
      BY <2>6, <2>b, <3>1, <1>0, MoveWaits DEF DeleteCall, Deleting
  <2>7. CASE DeleteError(p)
    BY <2>7, <2>b, <1>0, <1>a, MoveWaits DEF DeleteError, Deleting
  <2>8. CASE DeleteRecord(p)
    BY <2>8, <2>b, <1>0, <1>a, MoveWaits DEF DeleteRecord, Deleting
  <2>9. CASE DeletePause(p)
    BY <2>9, <1>0, <1>a, <1>b, MoveWaits DEF DeletePause, Finish
  <2>10. CASE DeleteFail(p)
    BY <2>10, <1>0, <1>a, <1>b, MoveWaits DEF DeleteFail, Finish
  <2>11. CASE DeleteResourceDone(p) \/ DeleteAllDone(p) \/ DeleteSketchDone(p)
    BY <2>11, <1>0, <1>a, <1>b, MoveWaits DEF DeleteResourceDone, DeleteAllDone, DeleteSketchDone, Finish
  <2> QED
    BY <1>2, <2>1, <2>2, <2>3, <2>4, <2>5, <2>6, <2>7, <2>8, <2>9, <2>10, <2>11 DEF Delete
<1>3. ASSUME NEW p \in Request, Refresh(p) PROVE WaitInv'
  <2> DEFINE r == req[p]
  <2>0. r \in ReqState
    BY <1>0 DEF TypeOK
  <2>a. ASSUME NEW n, r.op = "refresh", NEW seen, NEW c
        PROVE  Waits(Dropped(p, n), c) /\ Waits([r EXCEPT !.seen[n] = seen], c)
    BY <2>0, <2>a DEF Waits, Dropped, ReqState
  <2>1. CASE RefreshStart(p)
    <3>1. ASSUME NEW todo, NEW c PROVE Waits(Snapshot("refresh", "reading", todo), c)
      BY DEF Waits, Snapshot, Idle
    <3> QED
      BY <2>1, <3>1, <1>0, <1>a, MoveWaits DEF RefreshStart
  <2>2. ASSUME NEW n \in Node, RefreshSkip(p, n) PROVE WaitInv'
    BY <2>2, <2>a, <1>0, <1>a, MoveWaits DEF RefreshSkip, Unread, At
  <2>3. ASSUME NEW n \in Node, RefreshRead(p, n) PROVE WaitInv'
    BY <2>3, <2>a, <1>0, <1>a, MoveWaits DEF RefreshRead, MayRead, Unread, At
  <2>4. ASSUME NEW n \in Node, RefreshDelete(p, n) PROVE WaitInv'
    <3>1. NothingNew
      BY <2>4, <1>0 DEF RefreshDelete, NothingNew, TypeOK, AfterDelete, Live
    <3> QED
      BY <2>4, <2>a, <3>1, <1>0, MoveWaits DEF RefreshDelete, MayRead, Unread, At
  <2>5. ASSUME NEW n \in Node, RefreshError(p, n) PROVE WaitInv'
    BY <2>5, <2>a, <1>0, <1>a, MoveWaits DEF RefreshError, MayRead, Unread, At
  <2>6. ASSUME NEW n \in Node, RefreshWrite(p, n) PROVE WaitInv'
    BY <2>6, <2>a, <1>0, <1>a, MoveWaits DEF RefreshWrite, At
  <2>7. CASE RefreshDone(p)
    BY <2>7, <1>0, <1>a, <1>b, MoveWaits DEF RefreshDone, Finish
  <2> QED
    BY <1>3, <2>1, <2>2, <2>3, <2>4, <2>5, <2>6, <2>7 DEF Refresh, RefreshStep
<1>4. ASSUME NEW p \in Request, Edit(p) PROVE WaitInv'
  <2>a. ASSUME NEW op, NEW n, NEW c PROVE Waits([Idle EXCEPT !.op = op, !.at = "edit", !.cur = n], c)
    BY DEF Waits, Idle
  <2>1. ASSUME NEW n \in Node, CreateNode(p, n) PROVE WaitInv'
    BY <2>1, <1>a, <1>c DEF CreateNode
  <2>2. ASSUME NEW n \in Node, DeleteNodeStart(p, n) \/ UpdateNodeStart(p, n) PROVE WaitInv'
    BY <2>2, <2>a, <1>0, <1>a, MoveWaits DEF DeleteNodeStart, UpdateNodeStart, EditStart
  <2>3. CASE ReplaceGraphStart(p)
    BY <2>3, <2>a, <1>0, <1>a, MoveWaits DEF ReplaceGraphStart, EditStart
  <2>4. CASE DeleteNode(p)
    BY <2>4, <1>0, <1>a, <1>b, MoveWaits DEF DeleteNode, Finish
  <2>5. ASSUME NEW m \in Mode, UpdateNode(p, m) PROVE WaitInv'
    BY <2>5, <1>0, <1>a, <1>b, MoveWaits DEF UpdateNode, Finish
  <2>6. ASSUME NEW fresh \in SUBSET Node, ReplaceGraph(p, fresh) PROVE WaitInv'
    BY <2>6, <1>0, <1>a, <1>b, MoveWaits DEF ReplaceGraph, Finish
  <2> QED
    BY <1>4, <2>1, <2>2, <2>3, <2>4, <2>5, <2>6 DEF Edit
<1>5. ASSUME NEW p \in Request, Orphaned(p) PROVE WaitInv'
  BY <1>5, <1>0, <1>a, <1>b, MoveWaits DEF Orphaned, Finish
<1>6. CASE Restart
  BY <1>6, <1>b DEF Restart, WaitInv
<1>7. CASE Aws
  <2>1. ASSUME NEW n \in Node, NEW i \in Instance, Settle(n, i) PROVE NothingNew
    BY <2>1, <1>0 DEF Settle, Settled, NothingNew, TypeOK
  <2>2. ASSUME NEW n \in Node, NEW i \in Own, Drift(n, i) PROVE NothingNew
    BY <2>2, <1>0 DEF Drift, NothingNew, TypeOK
  <2>3. NothingNew /\ UNCHANGED req
    BY <1>7, <2>1, <2>2 DEF Aws, Settle, Drift
  <2> QED
    BY <2>3, <1>c
<1>8. CASE UNCHANGED vars
  BY <1>8, <1>a, <1>c DEF vars
<1> QED
  BY <1>1, <1>2, <1>3, <1>4, <1>5, <1>6, <1>7, <1>8 DEF Next

\* As long as the publishes of the sketch do not overlap, a publish brings a
\* node to life in AWS only after every resource the node depends on has become
\* visible there under the identifier the publish uses for it, whatever
\* deletions, refreshes and outside changes interleave with its waiting.
THEOREM DependentsWait == ASSUME SinglePublisher PROVE Spec => DependentsAfterReady
<1>1. AdoptionInv /\ [Next]_vars => AdoptionInv'
  BY AdoptionNext
<1>2. AdoptionInv /\ WaitInv /\ [Next]_vars => WaitInv'
  BY WaitNext
<1> DEFINE Step ==
      \A p \in Request, i \in Own :
          At(p, "publish", "create") /\ cloud[req[p].cur][i] \notin Live /\ cloud'[req[p].cur][i] \in Live =>
              \A s \in Sources(req[p].cur, req[p].snapNodes) :
                  req[p].used[s] # NoExt /\ cloud[s][req[p].used[s]] # "creating"
<1>3. WaitInv => [Step]_vars
  BY DEF WaitInv, Waits, At
<1>4. Spec => [][Step]_vars
  BY AdoptionInit, WaitInit, <1>1, <1>2, <1>3, PTL DEF Spec
<1> QED
  BY <1>4 DEF DependentsAfterReady

=============================================================================
