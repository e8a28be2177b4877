----------------------------- MODULE AwsServices -----------------------------
(***************************************************************************)
(* What the server relies on from the AWS services it calls: how an        *)
(* instance of a resource starts, what a describe call reports about it,   *)
(* and what a delete call does to it.  AWS itself is not part of the       *)
(* repository; the operators follow the way server/src/services/aws uses   *)
(* it.  A node of the sketch owns a few possible AWS instances (Own, whose *)
(* size bounds how often a node can be created in one behaviour) and, for  *)
(* the adoptable services, one instance the user already has (Foreign).    *)
(***************************************************************************)
EXTENDS Naturals

CONSTANTS
    Node,       \* sketch nodes
    Service,    \* the AWS service of every node
    Own,        \* instances a publish may create for a node (a bound)
    Foreign,    \* the instance a node in mode "existing" adopts
    NoExt,      \* null externalId
    Lagging     \* nodes whose fresh instance a describe call may not see yet

ServiceName ==
    {"S3_BUCKET", "CLOUDFRONT_DISTRIBUTION", "EC2_INSTANCE", "KEY_PAIR",
     "SECURITY_GROUP", "IAM_ROLE", "LAMBDA_FUNCTION", "DYNAMODB_TABLE",
     "SQS_QUEUE", "SNS_TOPIC", "ECR_REPOSITORY"}

Instance == Own \cup {Foreign}
Ext == Instance \cup {NoExt}

ASSUME ServiceAssumption ==
    /\ Service \in [Node -> ServiceName]
    /\ Foreign \notin Own
    /\ NoExt \notin Own \cup {Foreign}
    /\ Lagging \subseteq Node

\* The services whose create handler reports the identifier before the rest
\* of the setup runs, those with more than one AWS call, those a node may
\* adopt instead of creating, those that take time to start or to stop, and
\* those whose identifier AWS makes up; the others are known by their name,
\* which a later publish may use again.
Checkpointing == {"S3_BUCKET", "CLOUDFRONT_DISTRIBUTION"}
MultiStep == Checkpointing \cup {"IAM_ROLE", "SECURITY_GROUP"}
Adoptable == {"EC2_INSTANCE", "SECURITY_GROUP", "KEY_PAIR"}
SlowStart == {"CLOUDFRONT_DISTRIBUTION", "EC2_INSTANCE", "LAMBDA_FUNCTION", "DYNAMODB_TABLE"}
SlowStop == {"EC2_INSTANCE", "DYNAMODB_TABLE"}
Numbered == {"CLOUDFRONT_DISTRIBUTION", "EC2_INSTANCE", "SECURITY_GROUP"}

IsCloudFront(n) == Service[n] = "CLOUDFRONT_DISTRIBUTION"
IsAdoptable(n) == Service[n] \in Adoptable

CloudState == {"absent", "creating", "ready", "disabling", "disabled", "stopping", "gone"}
Live == {"creating", "ready", "disabling", "disabled"}

FirstForeign(n) == IF IsAdoptable(n) THEN "ready" ELSE "absent"
FirstState(n) == IF Service[n] \in SlowStart \/ n \in Lagging THEN "creating" ELSE "ready"

\* The states in which a create call may bring the instance to life.
Creatable(n) == IF Service[n] \in Numbered THEN {"absent"} ELSE {"absent", "gone"}

\* Status getResourceDetails reports; "MISSING" is its not-found error.
Observed(n, s) ==
    CASE s \in {"ready", "disabled"}     -> "RUNNING"
      [] s = "disabling"                 -> "PROVISIONING"
      [] s = "stopping"                  -> "DELETING"
      [] s = "creating"                  -> IF Service[n] \in SlowStart THEN "PROVISIONING" ELSE "MISSING"
      [] OTHER                           -> "MISSING"

\* CloudFront is deleted in stages: an enabled distribution is disabled, and
\* only a disabled one that has propagated is deleted.
DeletePending(n, s) == IsCloudFront(n) /\ s \in {"creating", "ready", "disabling"}

\* Whether the delete call finds something to delete; CloudFront's handler
\* answers for a missing distribution as for a deleted one.
DeleteFinds(n, s) == IsCloudFront(n) \/ s \in Live \cup {"stopping"}

AfterDelete(n, s) ==
    CASE IsCloudFront(n) /\ s \in {"creating", "ready"} -> "disabling"
      [] IsCloudFront(n) /\ s = "disabled"              -> "gone"
      [] ~IsCloudFront(n) /\ s \in Live                 -> IF Service[n] \in SlowStop THEN "stopping" ELSE "gone"
      [] OTHER                                          -> s

\* What propagation inside AWS makes of an instance.
Settled(s) ==
    CASE s = "creating"  -> "ready"
      [] s = "disabling" -> "disabled"
      [] s = "stopping"  -> "gone"
      [] OTHER           -> s
=============================================================================
