-------------------------- MODULE CloudFrontService --------------------------
(***************************************************************************)
(* The calls of server/src/services/aws/resources/cloudfront.ts, for       *)
(* distributions in front of one bucket: a distribution, the origin access *)
(* control it signs with and its grant in the bucket policy are made and   *)
(* taken away by separate calls, each of which may fail, and what a failed *)
(* handler left behind is found again only through the resource row.  The  *)
(* handlers of infrastructureController.ts that call the service are taken *)
(* along: publish, update, delete and the refresh that retries a deletion. *)
(***************************************************************************)
EXTENDS Naturals, FiniteSets

CONSTANTS
    Dist,           \* distributions, each with a row of its own
    Handler,        \* slots for the requests in flight
    Https,          \* a statement of the bucket policy that is not a grant
    None,           \* no distribution
    BucketMayGo     \* whether the bucket may be deleted

CloudFrontAssumption ==
    /\ Https \notin Dist /\ None \notin Dist
    /\ BucketMayGo \in BOOLEAN

VARIABLES
    dist,       \* CloudFront: the distributions
    oac,        \* CloudFront: the distributions whose access control exists
    bucket,     \* S3: whether the bucket exists
    policy,     \* S3: the statements of the bucket policy
    row,        \* the AwsResource rows
    req         \* the handlers

vars == <<dist, oac, bucket, policy, row, req>>

Status == {"NONE", "PROVISIONING", "RUNNING", "DELETING", "FAILED", "TERMINATED"}
Statement == Dist \cup {Https}

Distribution == [state : {"absent", "enabled", "disabled", "gone"}, deployed : BOOLEAN]
\* origins: actualState names the access control of the distribution.
Row == [status : Status, ext : BOOLEAN, origins : BOOLEAN]

Op == {"create", "update", "delete", "refresh"}
Idle == [op |-> "none", d |-> None, at |-> "idle", fresh |-> FALSE, seen |-> {}, origins |-> FALSE]
Req == [op : Op \cup {"none"}, d : Dist \cup {None},
        at : {"idle", "oac", "distribution", "undo", "checkpoint", "read", "write", "store", "fail",
              "get", "configure", "disable", "remove", "collect", "record"},
        fresh : BOOLEAN,            \* the ETag read is still the current one
        seen : SUBSET Statement,    \* the policy read
        origins : BOOLEAN]          \* the row as read named an access control

TypeOK ==
    /\ dist \in [Dist -> Distribution]
    /\ oac \subseteq Dist
    /\ bucket \in BOOLEAN
    /\ policy \subseteq Statement
    /\ row \in [Dist -> Row]
    /\ req \in [Handler -> Req]

Init ==
    /\ dist = [d \in Dist |-> [state |-> "absent", deployed |-> FALSE]]
    /\ oac = {}
    /\ bucket = TRUE
    /\ policy = {Https}
    /\ row = [d \in Dist |-> [status |-> "NONE", ext |-> FALSE, origins |-> FALSE]]
    /\ req = [p \in Handler |-> Idle]

-----------------------------------------------------------------------------
At(p, at) == req[p].at = at
D(p) == req[p].d
Becomes(p, r) == req' = [req EXCEPT ![p] = r]
Goto(p, at) == Becomes(p, [req[p] EXCEPT !.at = at])
Finish(p) == Becomes(p, Idle)
SetStatus(d, s) == row' = [row EXCEPT ![d].status = s]

Begin(p, op, d, at) ==
    /\ At(p, "idle")
    /\ Becomes(p, [Idle EXCEPT !.op = op, !.d = d, !.at = at, !.origins = row[d].origins])

\* A write gives the distribution a new ETag; whoever read the old one is late.
Written(p, d, r) ==
    req' = [q \in Handler |-> IF q = p THEN r
                              ELSE IF req[q].d = d THEN [req[q] EXCEPT !.fresh = FALSE] ELSE req[q]]

\* Where a failed AWS call leaves the handler: a publish and a deletion record
\* it as FAILED, a refused update and a refresh change no status.
FailPoint(p) == IF req[p].op \in {"create", "delete"} THEN [req[p] EXCEPT !.at = "fail"] ELSE Idle

-----------------------------------------------------------------------------
(* create.                                                                  *)

CreateStart(p, d) ==
    /\ row[d].status = "NONE" /\ bucket
    /\ SetStatus(d, "PROVISIONING")
    /\ Begin(p, "create", d, "oac")
    /\ UNCHANGED <<dist, oac, bucket, policy>>

CreateOac(p) ==
    /\ At(p, "oac")
    /\ oac' = oac \cup {D(p)}
    /\ Goto(p, "distribution")
    /\ UNCHANGED <<dist, bucket, policy, row>>

CreateDistribution(p) ==
    /\ At(p, "distribution")
    /\ dist' = [dist EXCEPT ![D(p)] = [state |-> "enabled", deployed |-> FALSE]]
    /\ Goto(p, "checkpoint")
    /\ UNCHANGED <<oac, bucket, policy, row>>

\* Without a distribution its access control is deleted again; when that fails too,
\* no row names what is left.
CreateRefused(p) ==
    /\ At(p, "distribution")
    /\ Goto(p, "undo")
    /\ UNCHANGED <<dist, oac, bucket, policy, row>>

UndoOac(p) ==
    /\ At(p, "undo")
    /\ oac' \in {oac, oac \ {D(p)}}
    /\ Goto(p, "fail")
    /\ UNCHANGED <<dist, bucket, policy, row>>

\* onCreated: the identifier and the origins are stored before the policy is set.
Checkpoint(p) ==
    /\ At(p, "checkpoint")
    /\ row' = [row EXCEPT ![D(p)].ext = TRUE, ![D(p)].origins = TRUE]
    /\ Goto(p, "read")
    /\ UNCHANGED <<dist, oac, bucket, policy>>

Store(p) ==
    /\ At(p, "store")
    /\ row' = [row EXCEPT ![D(p)] = [status |-> "PROVISIONING", ext |-> TRUE, origins |-> TRUE]]
    /\ Finish(p)
    /\ UNCHANGED <<dist, oac, bucket, policy>>

Fail(p) ==
    /\ At(p, "fail")
    /\ SetStatus(D(p), "FAILED")
    /\ Finish(p)
    /\ UNCHANGED <<dist, oac, bucket, policy>>

-----------------------------------------------------------------------------
(* policy: read the bucket policy, change one statement, write it back.     *)

AfterPolicy(p) == IF req[p].op = "create" THEN "store" ELSE "remove"

PolicyRead(p) ==
    /\ At(p, "read")
    /\ IF bucket THEN Becomes(p, [req[p] EXCEPT !.at = "write", !.seen = policy])
       ELSE IF req[p].op = "create" THEN Becomes(p, FailPoint(p))
       ELSE Goto(p, "remove")
    /\ UNCHANGED <<dist, oac, bucket, policy, row>>

\* Mutant: the policy written has nothing but the grant.
OnlyOwnStatement(p) == IF req[p].op = "create" THEN {D(p)} ELSE {}

Statements(p) == IF req[p].op = "create" THEN req[p].seen \cup {D(p)} ELSE req[p].seen \ {D(p)}

\* An empty policy is deleted, and not written if it was empty before.
PolicyWrite(p) ==
    /\ At(p, "write")
    /\ IF bucket \/ (Statements(p) = {} /\ req[p].seen = {})
       THEN /\ policy' = IF Statements(p) = {} /\ req[p].seen = {} THEN policy ELSE Statements(p)
            /\ Goto(p, AfterPolicy(p))
       ELSE /\ IF req[p].op = "create" THEN Becomes(p, FailPoint(p)) ELSE Goto(p, "remove")
            /\ UNCHANGED policy
    /\ UNCHANGED <<dist, oac, bucket, row>>

-----------------------------------------------------------------------------
(* update, of a distribution that runs.                                     *)

UpdateStart(p, d) ==
    /\ row[d].status = "RUNNING"
    /\ Begin(p, "update", d, "get")
    /\ UNCHANGED <<dist, oac, bucket, policy, row>>

\* updateDistribution and the update of the row; the requested config enables it.
Configure(p) ==
    LET d == D(p) IN
    /\ At(p, "configure")
    /\ IF req[p].fresh
       THEN /\ dist' = [dist EXCEPT ![d] = [state |-> "enabled", deployed |-> FALSE]]
            /\ Written(p, d, [req[p] EXCEPT !.at = "record"])
       ELSE Finish(p) /\ UNCHANGED dist
    /\ UNCHANGED <<oac, bucket, policy, row>>

-----------------------------------------------------------------------------
(* delete, asked for by the user or retried by a refresh.                   *)

\* A row without an identifier is terminated without asking AWS.
DeleteStart(p, d) ==
    /\ row[d].status \notin {"NONE", "TERMINATED"}
    /\ IF row[d].ext
       THEN /\ SetStatus(d, "DELETING")
            /\ Begin(p, "delete", d, "get")
       ELSE /\ At(p, "idle")
            /\ SetStatus(d, "TERMINATED")
            /\ UNCHANGED req
    /\ UNCHANGED <<dist, oac, bucket, policy>>

\* Mutant: a refresh that finds a deletion in progress leaves it alone.
RefreshStartSkipsDeletions(p, d) ==
    /\ row[d].status = "PROVISIONING" /\ dist[d].state = "disabled"
    /\ Begin(p, "refresh", d, "get")
    /\ UNCHANGED <<dist, oac, bucket, policy, row>>
RefreshStart(p, d) ==
    /\ row[d].status = "DELETING" /\ row[d].ext
    /\ Begin(p, "refresh", d, "get")
    /\ UNCHANGED <<dist, oac, bucket, policy, row>>

\* Mutant: a missing distribution needs no further work.
AfterMissingNothing(p) == "record"
AfterMissing(p) == IF req[p].origins THEN "collect" ELSE "record"

Get(p) ==
    LET s == dist[D(p)] IN
    /\ At(p, "get")
    /\ Becomes(p,
         IF s.state \in {"absent", "gone"}
         THEN IF req[p].op = "update" THEN Idle ELSE [req[p] EXCEPT !.at = AfterMissing(p)]
         ELSE IF req[p].op = "update" THEN [req[p] EXCEPT !.at = "configure", !.fresh = TRUE]
         ELSE IF s.state = "enabled" THEN [req[p] EXCEPT !.at = "disable", !.fresh = TRUE]
         ELSE IF ~s.deployed THEN Idle
         ELSE [req[p] EXCEPT !.at = "read", !.fresh = TRUE])
    /\ UNCHANGED <<dist, oac, bucket, policy, row>>

Disable(p) ==
    LET d == D(p) IN
    /\ At(p, "disable")
    /\ IF req[p].fresh
       THEN /\ dist' = [dist EXCEPT ![d] = [state |-> "disabled", deployed |-> FALSE]]
            /\ Written(p, d, Idle)
       ELSE Becomes(p, FailPoint(p)) /\ UNCHANGED dist
    /\ UNCHANGED <<oac, bucket, policy, row>>

\* deleteDistribution; the message that the distribution does not exist counts,
\* in the handler, as a deletion that is done.
\* Mutant: the distribution is deleted without its ETag.
RemoveWithoutETag(p) ==
    LET d == D(p) IN
    /\ At(p, "remove")
    /\ IF dist[d].state = "gone" THEN Goto(p, "record") /\ UNCHANGED dist
       ELSE /\ dist' = [dist EXCEPT ![d].state = "gone"]
            /\ Written(p, d, [req[p] EXCEPT !.at = "collect"])
    /\ UNCHANGED <<oac, bucket, policy, row>>
Remove(p) ==
    LET d == D(p) IN
    /\ At(p, "remove")
    /\ IF dist[d].state = "gone" THEN Goto(p, "record") /\ UNCHANGED dist
       ELSE IF ~req[p].fresh THEN Becomes(p, FailPoint(p)) /\ UNCHANGED dist
       ELSE /\ dist' = [dist EXCEPT ![d].state = "gone"]
            /\ Written(p, d, [req[p] EXCEPT !.at = "collect"])
    /\ UNCHANGED <<oac, bucket, policy, row>>

\* deleteOac, which takes a missing access control for a deleted one.
Collect(p) ==
    /\ At(p, "collect")
    /\ oac' = oac \ {D(p)}
    /\ Goto(p, "record")
    /\ UNCHANGED <<dist, bucket, policy, row>>

\* The result is written to the row.
Record(p) ==
    /\ At(p, "record")
    /\ SetStatus(D(p), IF req[p].op = "update" THEN "PROVISIONING" ELSE "TERMINATED")
    /\ Finish(p)
    /\ UNCHANGED <<dist, oac, bucket, policy>>

\* Any AWS call may fail.
CallFails(p) ==
    /\ req[p].at \in {"oac", "read", "write", "get", "configure", "disable", "remove", "collect"}
    /\ Becomes(p, FailPoint(p))
    /\ UNCHANGED <<dist, oac, bucket, policy, row>>

-----------------------------------------------------------------------------
\* A refresh of a distribution that is not being deleted describes it.
Describe(d) ==
    /\ row[d].status \in {"PROVISIONING", "RUNNING"} /\ row[d].ext
    /\ dist[d].state \in {"enabled", "disabled"}
    /\ \A p \in Handler : D(p) # d
    /\ SetStatus(d, IF dist[d].deployed THEN "RUNNING" ELSE "PROVISIONING")
    /\ UNCHANGED <<dist, oac, bucket, policy, req>>

\* CloudFront finishes a change.
Deploy(d) ==
    /\ dist[d].state \in {"enabled", "disabled"} /\ ~dist[d].deployed
    /\ dist' = [dist EXCEPT ![d].deployed = TRUE]
    /\ UNCHANGED <<oac, bucket, policy, row, req>>

\* The bucket node is deleted on its own; its policy goes along.
BucketDeleted ==
    /\ BucketMayGo /\ bucket
    /\ bucket' = FALSE
    /\ policy' = {}
    /\ UNCHANGED <<dist, oac, row, req>>

\* The calls of a handler that has started.
Step(p) ==
    \/ CreateOac(p) \/ CreateDistribution(p) \/ CreateRefused(p) \/ UndoOac(p) \/ Checkpoint(p)
    \/ Store(p) \/ Fail(p) \/ PolicyRead(p) \/ PolicyWrite(p) \/ Configure(p)
    \/ Get(p) \/ Disable(p) \/ Remove(p) \/ Collect(p) \/ Record(p)

Next ==
    \/ \E p \in Handler :
          \/ Step(p) \/ CallFails(p)
          \/ \E d \in Dist : CreateStart(p, d) \/ UpdateStart(p, d) \/ DeleteStart(p, d) \/ RefreshStart(p, d)
    \/ \E d \in Dist : Describe(d) \/ Deploy(d)
    \/ BucketDeleted

Spec == Init /\ [][Next]_vars

-----------------------------------------------------------------------------
(* Properties.                                                              *)

Busy(d) == \E p \in Handler : D(p) = d

\* Of a resource that is terminated nothing is left: no grant in the policy of the
\* bucket, and no access control, unless CloudFront refused the distribution and
\* then the deletion of its access control too.
NothingLeft ==
    \A d \in Dist : row[d].status = "TERMINATED" /\ ~Busy(d) =>
        /\ d \notin policy
        /\ d \in oac => dist[d].state = "absent"

\* A distribution that is running, and was not asked to stop, may read its bucket.
MayReadBucket ==
    \A d \in Dist : row[d].status = "RUNNING" /\ bucket => d \in policy /\ d \in oac

\* A handler changes no statement of the bucket policy but its own.
StatementsKept ==
    [][bucket' => \A s \in Statement :
          (s \in policy) # (s \in policy') => \E p \in Handler : D(p) = s /\ At(p, "write")]_vars

\* While the editor polls, a deletion that was accepted ends.
DeletionFinishes ==
    \A d \in Dist : row[d].status = "DELETING" ~> row[d].status \in {"TERMINATED", "FAILED"}

\* The stages SketchLifecycle sees; Adapters states that it knows no others.
StageOf(d) ==
    CASE dist[d].state = "enabled"  -> IF dist[d].deployed THEN "ready" ELSE "creating"
      [] dist[d].state = "disabled" -> IF dist[d].deployed THEN "disabled" ELSE "disabling"
      [] OTHER                      -> dist[d].state
=============================================================================
