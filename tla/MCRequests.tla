----------------------------- MODULE MCRequests -----------------------------
(***************************************************************************)
(* Values of Requests for TLC: two buckets and two distributions, with     *)
(* four graphs to import; a canvas of two nodes and two identifiers for    *)
(* the edge between them.                                                  *)
(***************************************************************************)
EXTENDS Requests, Sequences, TLC

Types == "b1" :> "S3_BUCKET" @@ "b2" :> "S3_BUCKET"
         @@ "d1" :> "CLOUDFRONT_DISTRIBUTION" @@ "d2" :> "CLOUDFRONT_DISTRIBUTION"

OneBucket == [type |-> <<"S3_BUCKET">>, edges |-> <<>>, ref |-> <<0>>]
Frontend == [type |-> <<"CLOUDFRONT_DISTRIBUTION", "S3_BUCKET">>, edges |-> <<<<2, 1>>>>, ref |-> <<2, 0>>]
TwoOrigins == [type |-> <<"S3_BUCKET", "S3_BUCKET", "CLOUDFRONT_DISTRIBUTION">>,
               edges |-> <<<<1, 3>>, <<2, 3>>>>, ref |-> <<0, 0, 1>>]
Unattached == [type |-> <<"S3_BUCKET", "CLOUDFRONT_DISTRIBUTION">>, edges |-> <<>>, ref |-> <<0, 1>>]
Graphs == {OneBucket, Frontend, TwoOrigins, Unattached}

Nodes == DOMAIN Types
Joined == "e1" :> <<"a", "b">> @@ "e2" :> <<"a", "b">>
WithoutImage == "a" :> "empty" @@ "b" :> "kept"
OnlyKept == "empty" :> "empty" @@ "chosen" :> "kept" @@ "kept" :> "kept"
=============================================================================
