-------------------------- MODULE DistributionStages --------------------------
(***************************************************************************)
(* What the rest of the server may assume of CloudFront distributions: the *)
(* stages SketchLifecycle moves an instance through, by the operators of   *)
(* AwsServices, with creation, update and each deletion call as one step.  *)
(* CloudFrontService shows that the calls these steps consist of, with     *)
(* their failures, retries and version checks, do no more than this.       *)
(***************************************************************************)
EXTENDS AwsServices

VARIABLE stage      \* the stage of each distribution (they are the nodes here)

Init == stage = [d \in Node |-> "absent"]

Becomes(d, s) == stage' = [stage EXCEPT ![d] = s]

Create(d) == stage[d] = "absent" /\ Becomes(d, FirstState(d))
Update(d) == stage[d] \in Live /\ Becomes(d, "creating")
Delete(d) == stage[d] \in Live /\ Becomes(d, AfterDelete(d, stage[d]))
Settle(d) == stage[d] \in Live /\ Becomes(d, Settled(stage[d]))

Next == \E d \in Node : Create(d) \/ Update(d) \/ Delete(d) \/ Settle(d)

Spec == Init /\ [][Next]_stage
=============================================================================
