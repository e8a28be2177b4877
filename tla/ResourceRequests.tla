--------------------------- MODULE ResourceRequests ---------------------------
(***************************************************************************)
(* What deploySketch asks of AWS when it is called again and again for one *)
(* sketch: how references to the outputs of other nodes are resolved, from *)
(* stored and freshly described outputs, and how the resolved config of a  *)
(* running resource is compared with the stored one, to skip, update or    *)
(* refuse it.  Publishes, deletions and edits follow one another; refreshes*)
(* come at any time.  Their races are modelled in SketchLifecycle.         *)
(***************************************************************************)
EXTENDS Naturals, Sequences, Functions

CONSTANTS
    Node, Service, Edge,    \* the nodes of the sketch, and what is attached to what
    Fields,                 \* the fields given in the config of each node
    MaxCreated              \* bound on the instances created

\* What a config refers to at the source of an edge, and the field it fills.
RefOutput ==
    [KEY_PAIR |-> "keyName", SECURITY_GROUP |-> "securityGroupId",
     IAM_ROLE |-> "roleArn", S3_BUCKET |-> "bucketName"]

\* The outputs (of those a node may refer to, or takes for one) that createResource
\* and getResourceDetails return.
CreateOutputs ==
    [KEY_PAIR |-> {"keyName"}, SECURITY_GROUP |-> {"securityGroupId", "groupName"},
     IAM_ROLE |-> {"roleArn"}, S3_BUCKET |-> {"bucketName"},
     EC2_INSTANCE |-> {}, LAMBDA_FUNCTION |-> {}, CLOUDFRONT_DISTRIBUTION |-> {}]
\* Mutant: a role is described by the name AWS has for its ARN.
DetailOutputsAsNamedByAws ==
    [KEY_PAIR |-> {"keyName"}, SECURITY_GROUP |-> {"groupId", "groupName"},
     IAM_ROLE |-> {"arn"}, S3_BUCKET |-> {"bucketName"},
     EC2_INSTANCE |-> {}, LAMBDA_FUNCTION |-> {}, CLOUDFRONT_DISTRIBUTION |-> {}]
DetailOutputs ==
    [KEY_PAIR |-> {"keyName"}, SECURITY_GROUP |-> {"groupId", "groupName"},
     IAM_ROLE |-> {"roleArn"}, S3_BUCKET |-> {"bucketName"},
     EC2_INSTANCE |-> {}, LAMBDA_FUNCTION |-> {}, CLOUDFRONT_DISTRIBUTION |-> {}]

\* The database returns the fields of a stored config by length and then by name.
Jsonb ==
    <<"mode", "name", "vpcId", "groupId", "handler", "imageId", "keyName", "roleArn", "runtime", "roleName",
      "groupName", "bucketName", "encryption", "memorySize", "monitoring", "versioning",
      "description", "functionName", "instanceType", "trustedService", "securityGroupIds",
      "managedPolicyArns", "publicKeyMaterial">>

\* buildResourceRequest lists them in an order of its own; the config of a
\* distribution is taken as the database returned it.
RequestOrder ==
    [KEY_PAIR |-> <<"mode", "keyName", "publicKeyMaterial">>,
     SECURITY_GROUP |-> <<"mode", "groupId", "groupName", "description", "vpcId">>,
     IAM_ROLE |-> <<"roleName", "trustedService", "managedPolicyArns", "description">>,
     S3_BUCKET |-> <<"bucketName", "versioning", "encryption">>,
     EC2_INSTANCE |-> <<"imageId", "instanceType", "keyName", "securityGroupIds", "name", "monitoring">>,
     LAMBDA_FUNCTION |-> <<"functionName", "roleArn", "handler", "runtime", "memorySize">>,
     CLOUDFRONT_DISTRIBUTION |-> Jsonb]

RequestsAssumption ==
    /\ Service \in [Node -> DOMAIN RequestOrder]
    /\ Edge \subseteq Node \X Node
    /\ \A e \in Edge : Service[e[1]] \in DOMAIN RefOutput
    /\ \A n \in Node : Fields[n] \subseteq Range(RequestOrder[Service[n]])
    /\ MaxCreated \in Nat

VARIABLES
    row,        \* the AwsResource row of each node
    cloud,      \* AWS: the instance of each node, by what its outputs say
    name,       \* the name in each node's config
    made,       \* number of instances created
    pub,        \* the publish that is running
    outcome     \* how the last publish ended

vars == <<row, cloud, name, made, pub, outcome>>

Output == {"keyName", "securityGroupId", "groupId", "groupName", "roleArn", "bucketName"}
None == MaxCreated + 1
Value == 0..MaxCreated
NoDesired == [fields |-> Jsonb, name |-> 0, refs |-> <<>>]

NoRow == [status |-> "NONE", outputs |-> <<>>, desired |-> NoDesired]
NoPub == [active |-> FALSE]

\* Outputs and resolved references are partial functions.
Partial(f, D, R) == DOMAIN f \subseteq D /\ \A x \in DOMAIN f : f[x] \in R
IsRow(r) ==
    /\ r.status \in {"NONE", "PROVISIONING", "RUNNING", "TERMINATED"}
    /\ Partial(r.outputs, Output, Value)
    /\ r.desired.name \in Value
    /\ Partial(r.desired.refs, Node, Value)
    /\ r.desired.fields \in Seq(Range(Jsonb))

TypeOK ==
    /\ \A n \in Node : IsRow(row[n]) /\ cloud[n] \in Value \cup {None} /\ name[n] \in Value
    /\ made \in 0..MaxCreated
    /\ pub.active => /\ pub.todo \subseteq Node
                     /\ \A n \in Node : IsRow(pub.row[n]) /\ Partial(pub.outputsByNode[n], Output, Value)
    /\ outcome \in {"none", "SUCCEEDED", "conflict", "unresolved"}

Init ==
    /\ row = [n \in Node |-> NoRow]
    /\ cloud = [n \in Node |-> None]
    /\ name = [n \in Node |-> 0]
    /\ made = 0
    /\ pub = NoPub
    /\ outcome = "none"

-----------------------------------------------------------------------------
Sources(n) == {s \in Node : <<s, n>> \in Edge}

\* AWS makes up the identifier of a new security group; the others are named.
Numbered(n) == Service[n] = "SECURITY_GROUP" /\ "groupId" \notin Fields[n]
Valued(O, v) == [o \in O |-> v]
Details(n) == Valued(DetailOutputs[Service[n]], cloud[n])

\* Merged over what is known already.
Merge(old, new) ==
    [o \in DOMAIN old \cup DOMAIN new |-> IF o \in DOMAIN new THEN new[o] ELSE old[o]]

\* resolveConfigReferences, and the config as it is sent.
Resolvable(n, outs) == \A s \in Sources(n) : RefOutput[Service[s]] \in DOMAIN outs[s]

Resolved(n, outs) == [s \in Sources(n) |-> outs[s][RefOutput[Service[s]]]]

buildResourceRequest(n, outs) ==
    [fields |-> SelectSeq(RequestOrder[Service[n]], LAMBDA k : k \in Fields[n]),
     name |-> pub.name[n],
     refs |-> Resolved(n, outs)]

\* What the database makes of the config.
Stored(c) == [c EXCEPT !.fields = SelectSeq(Jsonb, LAMBDA k : k \in Range(c.fields))]

\* JSON.stringify tells apart the order of the fields, too.
\* Mutant: the configs are compared before the references are resolved.
SameExceptReferences(stored, c) == stored.fields = c.fields /\ stored.name = c.name
SameConfig(stored, c) == stored = c

\* assertDeployedResourceUpdate and updateResource: what has an update at all, and
\* which references may change.
NotUpdatable == {"KEY_PAIR", "SECURITY_GROUP", "IAM_ROLE"}
LaunchOnly(s, n) ==
    \/ Service[n] = "EC2_INSTANCE" /\ Service[s] = "KEY_PAIR"
    \/ Service[n] = "CLOUDFRONT_DISTRIBUTION"
Updatable(n, stored, c) ==
    /\ Service[n] \notin NotUpdatable
    /\ stored.name = c.name
    /\ \A s \in Sources(n) : LaunchOnly(s, n) =>
           s \in DOMAIN stored.refs /\ stored.refs[s] = c.refs[s]

FirstStatus(n) == IF Service[n] = "CLOUDFRONT_DISTRIBUTION" THEN "PROVISIONING" ELSE "RUNNING"

-----------------------------------------------------------------------------
\* deploySketch passes its preflight.
PublishStart ==
    /\ ~pub.active
    /\ \A n \in Node : row[n].status # "PROVISIONING"
    /\ pub' = [active |-> TRUE, todo |-> Node, row |-> row, name |-> name,
               outputsByNode |-> [n \in Node |-> IF row[n].status = "RUNNING" THEN row[n].outputs ELSE <<>>]]
    /\ UNCHANGED <<row, cloud, name, made, outcome>>

\* The outputs known when it is n's turn: the sources have been described again.
Known(n) ==
    [m \in Node |-> IF m \in Sources(n) THEN Merge(pub.outputsByNode[m], Details(m))
                                        ELSE pub.outputsByNode[m]]
Turn(n) == pub.active /\ n \in pub.todo /\ Sources(n) \cap pub.todo = {}
Running(n) == pub.row[n].status = "RUNNING"
Done(n, outs) == pub' = [pub EXCEPT !.todo = @ \ {n}, !.outputsByNode = outs]
End(how) == pub' = NoPub /\ outcome' = how

PublishUnresolved(n) ==
    /\ Turn(n)
    /\ ~Resolvable(n, Known(n))
    /\ End("unresolved")
    /\ UNCHANGED <<row, cloud, name, made>>

PublishSkip(n) ==
    /\ Turn(n) /\ Running(n) /\ Resolvable(n, Known(n))
    /\ SameConfig(pub.row[n].desired, buildResourceRequest(n, Known(n)))
    /\ Done(n, Known(n))
    /\ UNCHANGED <<row, cloud, name, made, outcome>>

\* The output of an update is described, not created.
PublishUpdate(n) ==
    LET c == buildResourceRequest(n, Known(n)) IN
    /\ Turn(n) /\ Running(n) /\ Resolvable(n, Known(n))
    /\ ~SameConfig(pub.row[n].desired, c)
    /\ Updatable(n, pub.row[n].desired, c)
    /\ row' = [row EXCEPT ![n] = [@ EXCEPT !.desired = Stored(c), !.outputs = Details(n),
                                          !.status = FirstStatus(n)]]
    /\ Done(n, [Known(n) EXCEPT ![n] = Details(n)])
    /\ UNCHANGED <<cloud, name, made, outcome>>

PublishConflict(n) ==
    LET c == buildResourceRequest(n, Known(n)) IN
    /\ Turn(n) /\ Running(n) /\ Resolvable(n, Known(n))
    /\ ~SameConfig(pub.row[n].desired, c)
    /\ ~Updatable(n, pub.row[n].desired, c)
    /\ End("conflict")
    /\ UNCHANGED <<row, cloud, name, made>>

PublishCreate(n) ==
    LET v == IF Numbered(n) THEN made + 1 ELSE pub.name[n]
        outputs == Valued(CreateOutputs[Service[n]], v) IN
    /\ Turn(n) /\ ~Running(n) /\ Resolvable(n, Known(n))
    /\ made < MaxCreated
    /\ made' = made + 1
    /\ cloud' = [cloud EXCEPT ![n] = v]
    /\ row' = [row EXCEPT ![n] = [status |-> FirstStatus(n), outputs |-> outputs,
                                  desired |-> Stored(buildResourceRequest(n, Known(n)))]]
    /\ Done(n, [Known(n) EXCEPT ![n] = outputs])
    /\ UNCHANGED <<name, outcome>>

PublishDone ==
    /\ pub.active /\ pub.todo = {}
    /\ End("SUCCEEDED")
    /\ UNCHANGED <<row, cloud, name, made>>

\* refreshResourceRecord replaces the stored outputs by the described ones.
Refresh(n) ==
    /\ row[n].status \in {"RUNNING", "PROVISIONING"}
    /\ row' = [row EXCEPT ![n] = [@ EXCEPT !.status = "RUNNING", !.outputs = Details(n)]]
    /\ UNCHANGED <<cloud, name, made, pub, outcome>>

\* deleteAwsResource, of any one resource.
Delete(n) ==
    /\ ~pub.active
    /\ row[n].status \in {"RUNNING", "PROVISIONING"}
    /\ row' = [row EXCEPT ![n].status = "TERMINATED", ![n].outputs = <<>>]
    /\ cloud' = [cloud EXCEPT ![n] = None]
    /\ UNCHANGED <<name, made, pub, outcome>>

\* updateSketchNode, of a node that has no resource: it gets another name.
Rename(n) ==
    /\ ~pub.active
    /\ row[n].status \in {"NONE", "TERMINATED"}
    /\ name' = [name EXCEPT ![n] = 1 - @]
    /\ UNCHANGED <<row, cloud, made, pub, outcome>>

Next ==
    \/ PublishStart \/ PublishDone
    \/ \E n \in Node : \/ PublishUnresolved(n) \/ PublishSkip(n) \/ PublishUpdate(n)
                       \/ PublishConflict(n) \/ PublishCreate(n)
                       \/ Refresh(n) \/ Delete(n) \/ Rename(n)

Spec == Init /\ [][Next]_vars

-----------------------------------------------------------------------------
(* Properties.                                                              *)

\* Every reference along an edge can be resolved once its source is deployed,
\* however often it was refreshed, updated or replaced before.
ReferencesResolve == outcome # "unresolved"

\* After a publish that succeeded, every running resource is configured with
\* what the resources it depends on are now, also when those were replaced.
AppliesCurrent ==
    pub.active /\ ~pub'.active /\ outcome' = "SUCCEEDED" =>
        \A e \in Edge : row[e[2]].desired.refs[e[1]] = cloud[e[1]]

\* A publish is refused because of a running resource only if what is asked of
\* the resource is not what it was configured with.
ConflictMeansChanged ==
    [][\A n \in Node : PublishConflict(n) =>
          LET c == buildResourceRequest(n, Known(n)) IN
              pub.row[n].desired # Stored(c)]_vars
=============================================================================
