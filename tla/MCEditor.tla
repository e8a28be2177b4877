------------------------------ MODULE MCEditor ------------------------------
(***************************************************************************)
(* Values of Editor for TLC: two nodes, one of which can be attached to    *)
(* the other, with two identifiers for that edge, as after removing and    *)
(* drawing it again; a bucket with its distribution.                       *)
(***************************************************************************)
EXTENDS Editor, TLC

DrawnTwice == "e1" :> <<"a", "b">> @@ "e2" :> <<"a", "b">>
\* A server is added without an image; of the image chosen for it only a part is kept.
WithoutImage == "a" :> "kept" @@ "b" :> "empty"
OnlyKept == "empty" :> "empty" @@ "chosen" :> "kept" @@ "kept" :> "kept"
BucketFirst == <<"bucket", "dist">>
SomeCollections == <<"images", "vpcs", "keyPairs">>
=============================================================================
