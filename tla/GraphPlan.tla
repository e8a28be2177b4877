------------------------------ MODULE GraphPlan ------------------------------
(***************************************************************************)
(* createGraphPlan: the check of a sketch's nodes and edges and the order  *)
(* in which they are published (Kahn's algorithm).  The server and the     *)
(* contract package each have a copy, which differ only in that the        *)
(* server's accepts nodes without a type.  A behaviour is one call: it     *)
(* starts with some input and steps through the loops of the function.     *)
(***************************************************************************)
EXTENDS Naturals, Sequences, FiniteSets, Attachments

CONSTANTS
    Id,         \* identifiers that nodes have and edges name
    Untyped,    \* the type of a node that has none
    Input       \* the calls to consider

\* nodes in the order of the sketch, their types, and edges as
\* <<source, target>> in the order of the sketch.
AnyInput == [nodes : Seq(Id), type : [Id -> AwsService \cup {Untyped}], edges : Seq(Id \X Id)]

ASSUME InputAssumption ==
    /\ Untyped \notin AwsService
    /\ Input \subseteq AnyInput

VARIABLES
    input,      \* the arguments
    phase,      \* the loop the call is in, or its result
    pos,        \* index of the loop over edges or nodes
    sources,    \* sourcesByTarget
    outgoing,   \* targets of each node, in the order of the edges
    degree,     \* inDegree
    ready,      \* queue of nodes whose sources are all in the order
    order,      \* the order so far
    todo        \* targets of the node taken last, still to be visited

vars == <<input, phase, pos, sources, outgoing, degree, ready, order, todo>>

Elems(s) == {s[k] : k \in 1..Len(s)}
Distinct(s) == \A j, k \in 1..Len(s) : s[j] = s[k] => j = k
Nodes == Elems(input.nodes)

Result == {"ok", "rejected", "cycle"}
Phase == {"nodes", "edges", "seed", "visit", "relax"} \cup Result

TypeOK ==
    /\ input \in AnyInput
    /\ phase \in Phase
    /\ pos \in Nat
    /\ sources \in [Nodes -> SUBSET Nodes]
    /\ outgoing \in [Nodes -> Seq(Nodes)]
    /\ degree \in [Nodes -> Nat]
    /\ ready \in Seq(Nodes)
    /\ order \in Seq(Nodes)
    /\ todo \in Seq(Nodes)

Init ==
    /\ input \in Input
    /\ phase = "nodes"
    /\ pos = 1
    /\ sources = [n \in Nodes |-> {}]
    /\ outgoing = [n \in Nodes |-> <<>>]
    /\ degree = [n \in Nodes |-> 0]
    /\ ready = <<>>
    /\ order = <<>>
    /\ todo = <<>>

-----------------------------------------------------------------------------
TypesConnect(s, t) ==
    s # Untyped /\ t # Untyped => canConnectResources(s, t)

CheckNodes ==
    /\ phase = "nodes"
    /\ phase' = IF Distinct(input.nodes) THEN "edges" ELSE "rejected"
    /\ UNCHANGED <<input, pos, sources, outgoing, degree, ready, order, todo>>

\* Known ends, not a loop, connectable, one origin per distribution, no
\* duplicate of an edge before it.
\* Mutant: the number of origins is not looked at.
EdgeAllowedManyOrigins(s, t) ==
    /\ {s, t} \subseteq Nodes
    /\ s # t
    /\ TypesConnect(input.type[s], input.type[t])
    /\ s \notin sources[t]
EdgeAllowed(s, t) ==
    /\ {s, t} \subseteq Nodes
    /\ s # t
    /\ TypesConnect(input.type[s], input.type[t])
    /\ input.type[t] = "CLOUDFRONT_DISTRIBUTION" => sources[t] = {}
    /\ s \notin sources[t]

AddEdge ==
    /\ phase = "edges"
    /\ pos <= Len(input.edges)
    /\ LET s == input.edges[pos][1]
           t == input.edges[pos][2] IN
       /\ EdgeAllowed(s, t)
       /\ sources' = [sources EXCEPT ![t] = @ \cup {s}]
       /\ outgoing' = [outgoing EXCEPT ![s] = Append(@, t)]
       /\ degree' = [degree EXCEPT ![t] = @ + 1]
    /\ pos' = pos + 1
    /\ UNCHANGED <<input, phase, ready, order, todo>>

RejectEdge ==
    /\ phase = "edges"
    /\ pos <= Len(input.edges)
    /\ ~EdgeAllowed(input.edges[pos][1], input.edges[pos][2])
    /\ phase' = "rejected"
    /\ UNCHANGED <<input, pos, sources, outgoing, degree, ready, order, todo>>

EdgesDone ==
    /\ phase = "edges"
    /\ pos > Len(input.edges)
    /\ phase' = "seed"
    /\ pos' = 1
    /\ UNCHANGED <<input, sources, outgoing, degree, ready, order, todo>>

\* The queue starts with the nodes that have no source.
Seed ==
    /\ phase = "seed"
    /\ pos <= Len(input.nodes)
    /\ ready' = IF degree[input.nodes[pos]] = 0 THEN Append(ready, input.nodes[pos]) ELSE ready
    /\ pos' = pos + 1
    /\ UNCHANGED <<input, phase, sources, outgoing, degree, order, todo>>

SeedDone ==
    /\ phase = "seed"
    /\ pos > Len(input.nodes)
    /\ phase' = "visit"
    /\ UNCHANGED <<input, pos, sources, outgoing, degree, ready, order, todo>>

Visit ==
    /\ phase = "visit"
    /\ ready # <<>>
    /\ ready' = Tail(ready)
    /\ order' = Append(order, Head(ready))
    /\ todo' = outgoing[Head(ready)]
    /\ phase' = "relax"
    /\ UNCHANGED <<input, pos, sources, outgoing, degree>>

\* Mutant: a target is queued at its first visited source.
ReadyAtOnce(d) == d >= 1
LastSource(d) == d = 1

Relax ==
    /\ phase = "relax"
    /\ todo # <<>>
    /\ degree' = [degree EXCEPT ![Head(todo)] = @ - 1]
    /\ ready' = IF LastSource(degree[Head(todo)]) THEN Append(ready, Head(todo)) ELSE ready
    /\ todo' = Tail(todo)
    /\ UNCHANGED <<input, phase, pos, sources, outgoing, order>>

RelaxDone ==
    /\ phase = "relax"
    /\ todo = <<>>
    /\ phase' = "visit"
    /\ UNCHANGED <<input, pos, sources, outgoing, degree, ready, order, todo>>

\* Mutant: the length of the order is not compared with the nodes.
VerdictAlwaysOk == "ok"
Verdict == IF Len(order) = Len(input.nodes) THEN "ok" ELSE "cycle"

Finish ==
    /\ phase = "visit"
    /\ ready = <<>>
    /\ phase' = Verdict
    /\ UNCHANGED <<input, pos, sources, outgoing, degree, ready, order, todo>>

Next ==
    \/ CheckNodes \/ AddEdge \/ RejectEdge \/ EdgesDone \/ Seed \/ SeedDone
    \/ Visit \/ Relax \/ RelaxDone \/ Finish

Spec == Init /\ [][Next]_vars

-----------------------------------------------------------------------------
(* What a plan promises, stated on the arguments alone.                     *)

\* The rules for nodes and edges.
ValidInput ==
    /\ Distinct(input.nodes)
    /\ Distinct(input.edges)
    /\ \A k \in 1..Len(input.edges) :
          LET s == input.edges[k][1]
              t == input.edges[k][2] IN
          /\ {s, t} \subseteq Nodes
          /\ s # t
          /\ TypesConnect(input.type[s], input.type[t])
          /\ input.type[t] = "CLOUDFRONT_DISTRIBUTION" =>
                \A j \in 1..Len(input.edges) : input.edges[j][2] = t => j = k

\* A set of nodes each of which has a source in the set holds a cycle.
Closed(S) == \A n \in S : \E m \in S : <<m, n>> \in Elems(input.edges)
Cyclic == \E S \in SUBSET Nodes : S # {} /\ Closed(S)

\* Every node of the order comes after all its sources: a publish in this order
\* finds the outputs its references need, a teardown in the reverse order
\* leaves nothing attached.
Topological ==
    \A i \in 1..Len(order) : \A s \in sources[order[i]] :
        \E j \in 1..(i - 1) : order[j] = s

\* An accepted plan has every node exactly once.
OrderComplete ==
    phase = "ok" => Distinct(order) /\ Elems(order) = Nodes

\* Of the graphs that satisfy the rules exactly the cyclic ones are refused.
CycleVerdict ==
    /\ phase = "ok" => ~Cyclic
    /\ phase = "cycle" => Cyclic

\* A graph is refused for a rule if and only if it breaks one.
RejectsExactlyInvalid ==
    /\ phase = "rejected" => ~ValidInput
    /\ phase \in {"ok", "cycle"} => ValidInput

=============================================================================
