--------------------------- MODULE ResourceUpdates ---------------------------
(***************************************************************************)
(* What the update handlers make of a running resource when its sketch is  *)
(* published again: which settings each AWS call of updateResource carries,*)
(* what an absent setting stands for at creation and at an update, and     *)
(* what the canvas shows as still to be published.                         *)
(***************************************************************************)
EXTENDS Naturals, Sequences, Functions

CONSTANTS
    Services,   \* the services looked at
    MaxEdits    \* bound on the edits that get past updateSketchNode's guard

\* The settings of each AWS call of updateResource, in the order of the calls.
Calls ==
    [LAMBDA_FUNCTION |-> <<{"memorySize", "timeout"}, {"codeZipBase64"}>>,
     ECR_REPOSITORY |-> <<{"imageTagMutability"}, {"scanOnPush"}>>,
     SNS_TOPIC |-> <<{"displayName"}, {"contentBasedDeduplication"}>>,
     SQS_QUEUE |-> <<{"visibilityTimeoutSeconds", "messageRetentionPeriodSeconds"}>>,
     DYNAMODB_TABLE |-> <<{"billingMode", "readCapacityUnits", "writeCapacityUnits"}>>,
     EC2_INSTANCE |-> <<{"securityGroupIds"}, {"shutdownBehavior"}, {"disableApiTermination"}, {"monitoring"}>>,
     S3_BUCKET |-> <<{"versioning"}, {"blockPublicAccess"}, {"encryption"}, {"enforceHttps"}>>]

\* The order in which buildResourceRequest lists them, with the fields that every
\* config has and no update changes; the database returns them by length and then
\* by name.
RequestOrder ==
    [LAMBDA_FUNCTION |-> <<"functionName", "roleArn", "codeZipBase64", "memorySize", "timeout">>,
     ECR_REPOSITORY |-> <<"repositoryName", "imageTagMutability", "scanOnPush">>,
     SNS_TOPIC |-> <<"topicName", "displayName", "contentBasedDeduplication">>,
     SQS_QUEUE |-> <<"queueName", "visibilityTimeoutSeconds", "messageRetentionPeriodSeconds">>,
     DYNAMODB_TABLE |-> <<"tableName", "keySchema", "billingMode", "readCapacityUnits", "writeCapacityUnits">>,
     EC2_INSTANCE |-> <<"imageId", "securityGroupIds", "monitoring", "disableApiTermination", "shutdownBehavior">>,
     S3_BUCKET |-> <<"bucketName", "versioning", "blockPublicAccess", "encryption", "enforceHttps">>]
Jsonb ==
    <<"imageId", "roleArn", "timeout", "keySchema", "queueName", "tableName", "topicName", "bucketName", "encryption", "memorySize",
      "monitoring", "scanOnPush", "versioning", "billingMode", "displayName", "enforceHttps", "functionName",
      "codeZipBase64", "repositoryName", "securityGroupIds", "shutdownBehavior", "blockPublicAccess",
      "readCapacityUnits", "imageTagMutability", "writeCapacityUnits", "disableApiTermination",
      "visibilityTimeoutSeconds", "contentBasedDeduplication", "messageRetentionPeriodSeconds">>

UpdatesAssumption == Services \subseteq DOMAIN Calls /\ MaxEdits \in Nat

VARIABLES
    service,    \* the service of the resource
    config,     \* the settings in the config of its node
    desired,    \* its row's desiredConfig, the config while there is no row
    live,       \* its settings in AWS
    step,       \* 0: not created, 1: at rest; 1 + i: the i-th call of an update is next
    sent,       \* the request of the update in progress
    others,     \* the policy of the bucket has statements of others, such as a grant to a frontend
    edits

vars == <<service, config, desired, live, step, sent, others, edits>>

\* "std" is what AWS, or the creation handler, makes of a setting not given; "ref"
\* is a list of groups with a reference "${node.groupId}" in it, and stands for "low".
Setting(s) == UNION Range(Calls[s])
Value == {"low", "std", "high"}
Required == {"codeZipBase64"}
Choices(f) == {"std", "high"} \cup IF f = "securityGroupIds" THEN {"ref"} ELSE {}
Config(s) ==
    LET Settings == {D \in SUBSET Setting(s) : Required \cap Setting(s) \subseteq D}
    IN  UNION {{c \in [D -> {"std", "high", "ref"}] : \A f \in D : c[f] \in Choices(f)} : D \in Settings}

\* resolveConfigReferences puts in the group that was created.
Resolved(c) == [f \in DOMAIN c |-> IF c[f] = "ref" THEN "low" ELSE c[f]]

TypeOK ==
    /\ service \in Services
    /\ config \in Config(service) /\ {desired, sent} \subseteq {Resolved(c) : c \in Config(service)}
    /\ live \in [Setting(service) -> Value \cup {"none"}]
    /\ step \in 0..(1 + Len(Calls[service])) /\ others \in BOOLEAN /\ edits \in 0..MaxEdits

-----------------------------------------------------------------------------
Given(c, f, otherwise) == IF f \in DOMAIN c THEN c[f] ELSE otherwise

\* The capacities of a table are its own only in provisioned mode, which is "high".
OnDemand(c) == service = "DYNAMODB_TABLE" /\ Given(c, "billingMode", "std") = "std"
Capacity == {"readCapacityUnits", "writeCapacityUnits"}
Applied(c, f, otherwise) ==
    IF f \in Capacity /\ OnDemand(c) THEN "none" ELSE Given(c, f, otherwise)

\* What creation makes of a resolved config.
Created(c) == [f \in Setting(service) |-> Applied(c, f, "std")]

\* Lambda, ECR, SNS, SQS and DynamoDB send a value of their own for a setting that
\* is not given (for capacities it is 1, where creation has 5); EC2 and S3 leave
\* the setting alone.
Default(f) == IF f \in Capacity THEN "low" ELSE "std"
Otherwise(f) == IF service \in {"EC2_INSTANCE", "S3_BUCKET"} THEN live[f] ELSE Default(f)

\* JSON.stringify of the stored and of the resolved config.
Order(c) == SelectSeq(RequestOrder[service], LAMBDA k : k \notin Setting(service) \/ k \in DOMAIN c)
Stored(c) == SelectSeq(Jsonb, LAMBDA k : k \in Range(Order(c)))
Same(c) == desired = Resolved(c) /\ Order(c) = Stored(c)

\* configureBucket takes its own statement out of the policy, and puts the policy
\* back only if a statement is left: of the last one, AWS keeps the Deny.
Unsent(c, f) == f = "enforceHttps" /\ Given(c, f, "none") = "std" /\ ~others

Init ==
    /\ service \in Services
    /\ config \in Config(service) /\ desired = Resolved(config) /\ sent = desired
    /\ live = Created(desired) /\ others \in BOOLEAN
    /\ step = 0 /\ edits = 0

\* The first publish.
Create ==
    /\ step = 0
    /\ desired' = Resolved(config) /\ live' = Created(desired') /\ step' = 1
    /\ UNCHANGED <<service, config, sent, others, edits>>

Updated(f, v) == [g \in DOMAIN config \cup {f} |-> IF g = f THEN v ELSE config[g]]

\* A form sets one field.  updateSketchNode refuses this for a running resource,
\* but an edit whose check came before the publish is written after it.
Edit(f, v) ==
    /\ edits < MaxEdits /\ step > 0
    /\ config' = Updated(f, v)
    /\ edits' = edits + 1
    /\ UNCHANGED <<service, desired, live, step, sent, others>>

\* Published again: unchanged configs are skipped.
Publish ==
    /\ step = 1 /\ ~Same(config)
    /\ sent' = Resolved(config) /\ step' = 2
    /\ UNCHANGED <<service, config, desired, live, others, edits>>

\* The calls, one after another.  S3's settings that are not given have no call.
Call ==
    /\ step > 1
    /\ LET now == Calls[service][step - 1] IN
        live' = [f \in Setting(service) |->
            IF f \in now /\ ~Unsent(sent, f) THEN Applied(sent, f, Otherwise(f)) ELSE live[f]]
    /\ step' = (IF step - 1 = Len(Calls[service]) THEN 1 ELSE step + 1)
    /\ desired' = (IF step' = 1 THEN sent ELSE desired)
    /\ UNCHANGED <<service, config, sent, others, edits>>

\* A call fails: the publish ends in a conflict and the row stays as it was.
\* Mutant: the row has the new config before the calls are made.
StoredFirst == sent
AfterFailure == desired
Fail ==
    /\ step > 1
    /\ step' = 1 /\ desired' = AfterFailure
    /\ UNCHANGED <<service, config, live, sent, others, edits>>

Next ==
    \/ Create \/ Publish \/ Call \/ Fail
    \/ \E f \in Setting(service) : \E v \in Choices(f) : Edit(f, v)

Spec == Init /\ [][Next]_vars

-----------------------------------------------------------------------------

\* getPendingDeploymentChanges: what the canvas shows as still to be published.
\* valuesMatch takes a list with a reference for any other list.
ValuesMatch(f) ==
    \/ Given(config, f, "none") = Given(desired, f, "none")
    \/ Given(config, f, "none") = "ref" /\ f \in DOMAIN desired
Pending == {f \in Setting(service) : ~ValuesMatch(f)}

\* The exceptions: HTTPS was turned off where the policy of the bucket had no other
\* statement, or the list of groups has a reference and the row another list.
DenyStays(f) == Unsent(config, f)
ListHidden(f) ==
    f \in DOMAIN config \cap DOMAIN desired /\ config[f] = "ref" /\ desired[f] # Resolved(config)[f]

\* When the canvas says that there are no unpublished changes, AWS has every
\* setting that the config stands for, but for the two exceptions: a refused
\* update is still pending.
NothingPendingMeansLive ==
    step = 1 /\ Pending = {} =>
        \A f \in Setting(service) :
            live[f] = Created(Resolved(config))[f] \/ DenyStays(f) \/ ListHidden(f)

\* Publishing a sketch again whose config has not changed changes nothing in AWS.
RepublishKeeps ==
    [][step > 1 /\ sent = desired => live' = live]_vars

=============================================================================
