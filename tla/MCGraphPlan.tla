----------------------------- MODULE MCGraphPlan -----------------------------
(***************************************************************************)
(* Calls of createGraphPlan for TLC: all edge lists up to a length over    *)
(* typed and untyped nodes, an unknown end, and a repeated node.           *)
(***************************************************************************)
EXTENDS GraphPlan

CONSTANTS a, b, c, d, x

SomeTypes == {Untyped, "S3_BUCKET", "CLOUDFRONT_DISTRIBUTION"}
Lists(S, max) == UNION {[1..m -> S] : m \in 0..max}

\* Three nodes of any of three types, up to two edges, among them loops and
\* an edge from a node that is not there; and a node that is there twice.
SmallGraphs ==
    [nodes : {<<a, b, c>>, <<a, b, a>>},
     type : {f \in [Id -> SomeTypes] : f[x] = Untyped /\ f[d] = Untyped},
     edges : Lists(({a, b, c} \X {a, b, c}) \cup {<<x, a>>}, 2)]

\* Four nodes without types, up to four edges: diamonds, chains, cycles.
UntypedGraphs ==
    [nodes : {<<a, b, c, d>>},
     type : {[n \in Id |-> Untyped]},
     edges : Lists({e \in {a, b, c, d} \X {a, b, c, d} : e[1] # e[2]}, 4)]

Graphs == SmallGraphs \cup UntypedGraphs
=============================================================================
