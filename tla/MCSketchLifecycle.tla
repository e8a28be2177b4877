-------------------------- MODULE MCSketchLifecycle --------------------------
(***************************************************************************)
(* Instances of SketchLifecycle for TLC: a static frontend (a bucket and   *)
(* the distribution in front of it) and a server (a security group and the *)
(* instance it protects), with one or two request slots.                   *)
(***************************************************************************)
EXTENDS SketchLifecycle, TLC

CONSTANTS n1, n2, i1, i2, r1, r2

Frontend == n1 :> "S3_BUCKET" @@ n2 :> "CLOUDFRONT_DISTRIBUTION"
Compute == n1 :> "SECURITY_GROUP" @@ n2 :> "EC2_INSTANCE"

Distribution == n1 :> "CLOUDFRONT_DISTRIBUTION"
Server == n1 :> "EC2_INSTANCE"
Chain == {<<n1, n2>>}

AllCreate == [n \in Node |-> "create"]

\* What each slot may run: everything in one slot is the behaviour without
\* concurrency; with two slots the second one interferes with the first.
OneByOne == r1 :> Op

PublishAndRefresh == r1 :> (Op \ {"refresh", "replaceGraph"}) @@ r2 :> {"refresh"}
PublishAndEdit == r1 :> {"publish", "deleteResource"} @@ r2 :> {"createNode", "deleteNode", "updateNode", "replaceGraph"}

OnePublisher == r1 :> {"publish", "updateNode", "replaceGraph"} @@ r2 :> (DeleteOp \cup {"refresh", "updateNode"})
PublishAndDisturb == r1 :> {"publish"} @@ r2 :> {"publish", "deleteAll", "refresh"}
TwoPublishers == r1 :> {"publish", "deleteResource", "updateNode"} @@ r2 :> {"publish"}

Instances == Permutations(Own)
=============================================================================
