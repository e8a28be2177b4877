----------------------------- MODULE SketchGraph -----------------------------
(***************************************************************************)
(* The stored graph of one sketch and the handlers that change it: create, *)
(* import, replace and delete the sketch, edit its nodes and edges.  The   *)
(* handlers check what they read and write it later; every write is one    *)
(* statement or one transaction.  No resource of the sketch is deployed:   *)
(* SketchLifecycle has the guards that depend on resources.                *)
(***************************************************************************)
EXTENDS Naturals, Sequences, FiniteSets, Attachments

CONSTANTS
    Node,       \* identifiers of stored nodes
    ServiceOf,  \* the type with which each of them is created
    Edge,       \* identifiers of stored edges
    Request,    \* requests handled at the same time
    Overlap,    \* whether a request may come while another is in progress
    Definition, \* graphs that a user, a file or the AI service may send
    Retype,     \* whether updateSketchNode is asked to change a type
    NoNode      \* what is not there

GraphAssumption ==
    /\ ServiceOf \in [Node -> AwsService]
    /\ NoNode \notin Node \cup AwsService

\* A graph that was sent has identifiers of its own, 1..k: the types, the edges,
\* and for each node the one that its config refers to, or 0.
DefinitionAssumption ==
    \A g \in Definition :
        /\ g.type \in Seq(AwsService)
        /\ g.edges \in Seq((DOMAIN g.type) \X (DOMAIN g.type))
        /\ g.ref \in [DOMAIN g.type -> {0} \cup DOMAIN g.type]

VARIABLES
    exists,     \* the row of the sketch
    type,       \* the stored nodes and their types
    ref,        \* the node each stored config refers to
    edges,      \* the stored edges, as <<source, target>>
    req         \* what each request in progress has read

vars == <<exists, type, ref, edges, req>>

NoEdge == <<NoNode, NoNode>>
Idle == [op |-> "idle"]

Present == {n \in Node : type[n] # NoNode}
Drawn == {e \in Edge : edges[e] # NoEdge}

Ready == Overlap \/ \A r \in Request : req[r] = Idle

Work ==
    {Idle}
    \cup [op : {"connect"}, id : Edge, ends : Node \X Node]
    \cup [op : {"update"}, node : Node, type : AwsService, ref : Node \cup {NoNode}]
    \cup [op : {"replace"}, graph : Definition]
    \cup [op : {"deleting"}, graph : Definition, seen : SUBSET Node]

TypeOK ==
    /\ exists \in BOOLEAN
    /\ type \in [Node -> AwsService \cup {NoNode}]
    /\ ref \in [Node -> Node \cup {NoNode}]
    /\ edges \in [Edge -> (Node \X Node) \cup {NoEdge}]
    /\ req \in [Request -> Work]

Init ==
    /\ exists = FALSE
    /\ type = [n \in Node |-> NoNode]
    /\ ref = [n \in Node |-> NoNode]
    /\ edges = [e \in Edge |-> NoEdge]
    /\ req = [r \in Request |-> Idle]

-----------------------------------------------------------------------------
(* createGraphPlan and the validation of a graph that was sent.             *)

\* What createGraphPlan accepts (see RejectsExactlyInvalid of
\* GraphPlan): t gives the types, and p the ends of each edge in E.
PlanAccepts(t, E, p) ==
    /\ \A e \in E : canConnectResources(t[p[e][1]], t[p[e][2]])
    /\ \A e, f \in E :
          \/ e = f
          \/ p[e] # p[f] /\ (t[p[e][2]] = "CLOUDFRONT_DISTRIBUTION" => p[e][2] # p[f][2])

\* validateGraphObject: a plan, and an edge for every reference.
Valid(g) ==
    /\ PlanAccepts(g.type, DOMAIN g.edges, g.edges)
    /\ \A n \in DOMAIN g.type :
          g.ref[n] # 0 => \E k \in DOMAIN g.edges : g.edges[k] = <<g.ref[n], n>>

-----------------------------------------------------------------------------
(* Whole graphs.                                                            *)

\* Rows that a replacement has deleted and not committed: others wait for them.
Locked == UNION {req[r].seen : r \in {q \in Request : req[q].op = "deleting"}}

\* Fresh identifiers for the nodes and edges of a definition.
Mentioned ==
    LET R == {req[r] : r \in Request} IN
    UNION {{w.ends[1], w.ends[2]} : w \in {w \in R : w.op = "connect"}}
        \cup {w.node : w \in {w \in R : w.op = "update"}}
FreshNodes(g) ==
    {f \in [DOMAIN g.type -> Node \ (Present \cup Mentioned)] :
        /\ \A j, k \in DOMAIN g.type : f[j] = f[k] => j = k
        /\ \A k \in DOMAIN g.type : ServiceOf[f[k]] = g.type[k]}
FreshEdges(g) ==
    {f \in [DOMAIN g.edges -> Edge \ Drawn] : \A j, k \in DOMAIN g.edges : f[j] = f[k] => j = k}

remapConfigReferences(r, new) == IF r = 0 THEN NoNode ELSE new[r]

\* persistPreparedGraph, after the nodes in gone (and so their edges) are deleted.
persistPreparedGraph(g, gone) ==
    \E new \in FreshNodes(g), line \in FreshEdges(g) :
        LET Old(n) == CHOOSE k \in DOMAIN g.type : new[k] = n
            Made == {new[k] : k \in DOMAIN g.type}
            Lines == {line[k] : k \in DOMAIN g.edges} IN
        /\ type' = [n \in Node |-> IF n \in Made THEN g.type[Old(n)]
                                   ELSE IF n \in gone THEN NoNode ELSE type[n]]
        /\ ref' = [n \in Node |-> IF n \in Made THEN remapConfigReferences(g.ref[Old(n)], new)
                                  ELSE IF n \in gone THEN NoNode ELSE ref[n]]
        /\ edges' = [e \in Edge |->
              IF e \in Lines
              THEN LET k == CHOOSE k \in DOMAIN g.edges : line[k] = e IN
                   <<new[g.edges[k][1]], new[g.edges[k][2]]>>
              ELSE IF {edges[e][1], edges[e][2]} \cap gone # {} THEN NoEdge ELSE edges[e]]

createSketch ==
    /\ Ready
    /\ ~exists /\ exists' = TRUE
    /\ UNCHANGED <<type, ref, edges, req>>

\* importSketchGraph, and createAiSketch when the agent has answered with a graph.
importSketchGraph(g) ==
    /\ Ready
    /\ ~exists /\ exists' = TRUE
    /\ Valid(g)
    /\ persistPreparedGraph(g, {})
    /\ UNCHANGED req

\* Nodes and edges go with the sketch.
deleteSketch ==
    /\ Ready
    /\ exists /\ exists' = FALSE
    /\ \A r \in Request : req[r].op # "deleting"
    /\ type' = [n \in Node |-> NoNode]
    /\ ref' = [n \in Node |-> NoNode]
    /\ edges' = [e \in Edge |-> NoEdge]
    /\ UNCHANGED req

\* replaceSketchGraph: checked outside the transaction.
ReplaceCheck(r, g) ==
    /\ Ready /\ req[r] = Idle
    /\ exists /\ Valid(g)
    /\ req' = [req EXCEPT ![r] = [op |-> "replace", graph |-> g]]
    /\ UNCHANGED <<exists, type, ref, edges>>

\* The transaction deletes the edges it sees, waiting for a transaction that has
\* deleted one of them, and then the nodes.
\* Mutant: only nodes at the ends of edges are deleted.
SeenOnEdges == {n \in Present : \E e \in Drawn : n \in {edges[e][1], edges[e][2]}}
Seen == Present
ReplaceDelete(r) ==
    /\ req[r].op = "replace"
    /\ \A e \in Drawn : {edges[e][1], edges[e][2]} \cap Locked = {}
    /\ req' = IF exists THEN [req EXCEPT ![r] = [op |-> "deleting", graph |-> req[r].graph, seen |-> Seen]]
                        ELSE [req EXCEPT ![r] = Idle]
    /\ UNCHANGED <<exists, type, ref, edges>>

\* The new nodes and edges; with this, all of it becomes visible.
ReplaceCommit(r) ==
    /\ req[r].op = "deleting"
    /\ persistPreparedGraph(req[r].graph, req[r].seen)
    /\ req' = [req EXCEPT ![r] = Idle]
    /\ UNCHANGED exists

\* Any statement of the transaction fails: nothing has happened.
ReplaceRollback(r) ==
    /\ req[r].op = "deleting"
    /\ req' = [req EXCEPT ![r] = Idle]
    /\ UNCHANGED <<exists, type, ref, edges>>

-----------------------------------------------------------------------------
(* Single nodes and edges.                                                  *)

createSketchNode(n) ==
    /\ Ready
    /\ exists
    /\ type[n] = NoNode
    /\ type' = [type EXCEPT ![n] = ServiceOf[n]]
    /\ UNCHANGED <<exists, ref, edges, req>>

\* updateSketchNode reads the node, and writes type and config together.
UpdateRead(r, n, t, m) ==
    /\ Ready /\ req[r] = Idle
    /\ n \in Present
    /\ ~Retype => t = type[n]
    /\ m # NoNode => \E e \in Drawn : edges[e] = <<m, n>>
    /\ req' = [req EXCEPT ![r] = [op |-> "update", node |-> n, type |-> t, ref |-> m]]
    /\ UNCHANGED <<exists, type, ref, edges>>

UpdateWrite(r) ==
    /\ req[r].op = "update"
    /\ LET w == req[r] IN
       /\ w.node \notin Locked
       /\ IF w.node \in Present
          THEN type' = [type EXCEPT ![w.node] = w.type] /\ ref' = [ref EXCEPT ![w.node] = w.ref]
          ELSE UNCHANGED <<type, ref>>
    /\ req' = [req EXCEPT ![r] = Idle]
    /\ UNCHANGED <<exists, edges>>

\* Deleting a node takes its edges along.
Cascade(n) == [e \in Edge |-> IF n \in {edges[e][1], edges[e][2]} THEN NoEdge ELSE edges[e]]
deleteSketchNode(n) ==
    /\ Ready
    /\ n \in Present \ Locked
    /\ type' = [type EXCEPT ![n] = NoNode]
    /\ ref' = [ref EXCEPT ![n] = NoNode]
    /\ edges' = Cascade(n)
    /\ UNCHANGED <<exists, req>>

\* createSketchEdge: the edge must fit into a plan with the edges that were read.
Connects(p, e) ==
    /\ canConnectResources(type[p[1]], type[p[2]])
    /\ PlanAccepts(type, Drawn \cup {e}, [edges EXCEPT ![e] = p])

ConnectCheck(r, e, p) ==
    /\ Ready /\ req[r] = Idle
    /\ e \notin Drawn
    /\ p[1] \in Present /\ p[2] \in Present
    /\ Connects(p, e)
    /\ req' = [req EXCEPT ![r] = [op |-> "connect", id |-> e, ends |-> p]]
    /\ UNCHANGED <<exists, type, ref, edges>>

\* The insertion fails unless the identifier is free and both nodes are there.
ConnectInsert(r) ==
    /\ req[r].op = "connect"
    /\ LET w == req[r]
           ends == {w.ends[1], w.ends[2]} IN
       /\ ends \cap Locked = {}
       /\ edges' = IF w.id \notin Drawn /\ ends \subseteq Present
                   THEN [edges EXCEPT ![w.id] = w.ends] ELSE edges
    /\ req' = [req EXCEPT ![r] = Idle]
    /\ UNCHANGED <<exists, type, ref>>

deleteSketchEdge(e) ==
    /\ Ready
    /\ e \in Drawn
    /\ {edges[e][1], edges[e][2]} \cap Locked = {}
    /\ edges' = [edges EXCEPT ![e] = NoEdge]
    /\ UNCHANGED <<exists, type, ref, req>>

-----------------------------------------------------------------------------
Next ==
    \/ createSketch \/ deleteSketch
    \/ \E g \in Definition : importSketchGraph(g)
    \/ \E r \in Request, g \in Definition : ReplaceCheck(r, g)
    \/ \E r \in Request : ReplaceDelete(r) \/ ReplaceCommit(r) \/ ReplaceRollback(r)
    \/ \E n \in Node : createSketchNode(n) \/ deleteSketchNode(n)
    \/ \E r \in Request, n \in Node, t \in AwsService, m \in Node \cup {NoNode} : UpdateRead(r, n, t, m)
    \/ \E r \in Request, e \in Edge, p \in Node \X Node : ConnectCheck(r, e, p)
    \/ \E r \in Request : UpdateWrite(r) \/ ConnectInsert(r)
    \/ \E e \in Edge : deleteSketchEdge(e)

Spec == Init /\ [][Next]_vars

-----------------------------------------------------------------------------
(* Properties.                                                              *)

\* An edge joins types that can be attached.
PairsCompatible ==
    \A e \in Drawn : canConnectResources(type[edges[e][1]], type[edges[e][2]])

\* The stored graph can be planned, so that it can be published, extended by an
\* edge, and torn down in order.
Plannable == PlanAccepts(type, Drawn, edges)

\* f shows the stored graph to be the definition g, under new identifiers.
SameGraph(g, f) ==
    /\ {f[k] : k \in DOMAIN f} = Present
    /\ \A k \in DOMAIN f :
          /\ type[f[k]] = g.type[k]
          /\ ref[f[k]] = IF g.ref[k] = 0 THEN NoNode ELSE f[g.ref[k]]
    /\ {edges[e] : e \in Drawn} = {<<f[g.edges[k][1]], f[g.edges[k][2]]>> : k \in DOMAIN g.edges}
Holds(g) ==
    \E f \in [DOMAIN g.type -> Node] :
        /\ \A j, k \in DOMAIN f : f[j] = f[k] => j = k
        /\ SameGraph(g, f)

\* When a graph was imported or has replaced another, the sketch holds this graph
\* and nothing else, its references leading to its own nodes.
Overwrites ==
    \A g \in Definition :
        /\ importSketchGraph(g) => Holds(g)'
        /\ \A r \in Request : ReplaceCommit(r) /\ req[r].graph = g => Holds(g)'
OverwritesGraph == [][Overwrites]_vars
=============================================================================
