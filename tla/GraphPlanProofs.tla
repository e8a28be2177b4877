--------------------------- MODULE GraphPlanProofs ---------------------------
(***************************************************************************)
(* What createGraphPlan guarantees for every sketch, proved with TLAPS:    *)
(* the order is topological and complete, and the verdict on cycles is     *)
(* right.  The invariant behind it says that the in-degree of a node       *)
(* counts its sources that have not been taken from the queue yet, or have *)
(* been taken last and are about to be counted off.                        *)
(***************************************************************************)
EXTENDS GraphPlan, FiniteSetTheorems, TLAPS

-----------------------------------------------------------------------------
(* Sequences as queues of distinct elements.                                *)

\* Appending adds the element, and keeps the elements distinct if it is new.
LEMMA AppendElems ==
    ASSUME NEW S, NEW s \in Seq(S), NEW e \in S
    PROVE  /\ Append(s, e) \in Seq(S)
           /\ Elems(Append(s, e)) = Elems(s) \cup {e}
           /\ Distinct(s) /\ e \notin Elems(s) => Distinct(Append(s, e))
<1>1. /\ Append(s, e) \in Seq(S)
      /\ Len(Append(s, e)) = Len(s) + 1
      /\ Append(s, e)[Len(s) + 1] = e
      /\ \A k \in 1..Len(s) : Append(s, e)[k] = s[k]
      /\ Len(s) \in Nat
  OBVIOUS
<1>2. Elems(Append(s, e)) = Elems(s) \cup {e}
  BY <1>1 DEF Elems
<1>3. ASSUME Distinct(s), e \notin Elems(s)
      PROVE  Distinct(Append(s, e))
  BY <1>1, <1>3 DEF Elems, Distinct
<1> QED
  BY <1>1, <1>2, <1>3

\* Taking the head of a queue of distinct elements removes just that element.
LEMMA TailElems ==
    ASSUME NEW S, NEW s \in Seq(S), s # <<>>, Distinct(s)
    PROVE  /\ Head(s) \in S
           /\ Head(s) \in Elems(s)
           /\ Tail(s) \in Seq(S)
           /\ Elems(Tail(s)) = Elems(s) \ {Head(s)}
           /\ Distinct(Tail(s))
<1>1. /\ Head(s) = s[1]
      /\ Head(s) \in S
      /\ Tail(s) \in Seq(S)
      /\ Len(s) \in Nat \ {0}
      /\ Len(Tail(s)) = Len(s) - 1
      /\ \A k \in 1..Len(s) - 1 : Tail(s)[k] = s[k + 1]
  OBVIOUS
<1>2. Head(s) \in Elems(s)
  BY <1>1 DEF Elems
<1>3. Elems(Tail(s)) \subseteq Elems(s) \ {Head(s)}
  BY <1>1 DEF Elems, Distinct
<1>4. ASSUME NEW e \in Elems(s) \ {Head(s)}
      PROVE  e \in Elems(Tail(s))
  <2>1. PICK k \in 1..Len(s) : s[k] = e
    BY DEF Elems
  <2>2. k # 1
    BY <1>1, <2>1
  <2>3. k - 1 \in 1..Len(s) - 1 /\ Tail(s)[k - 1] = e
    BY <1>1, <2>1, <2>2
  <2> QED
    BY <1>1, <2>3 DEF Elems
<1>5. Distinct(Tail(s))
  BY <1>1 DEF Distinct
<1> QED
  BY <1>1, <1>2, <1>3, <1>4, <1>5

\* A sequence of distinct elements is as long as the set of its elements.
LEMMA DistinctCardinality ==
    ASSUME NEW S, NEW s \in Seq(S), Distinct(s)
    PROVE  /\ IsFiniteSet(Elems(s))
           /\ Cardinality(Elems(s)) = Len(s)
<1>1. Len(s) \in Nat /\ s \in [1..Len(s) -> Elems(s)]
  BY DEF Elems
<1>2. s \in Bijection(1..Len(s), Elems(s))
  BY <1>1 DEF Elems, Distinct, Bijection, Injection, Surjection, IsInjective
<1>3. ExistsBijection(1..Len(s), Elems(s))
  BY <1>2 DEF ExistsBijection
<1>4. IsFiniteSet(Elems(s))
  BY <1>1, <1>3, FS_NatBijection
<1> QED
  BY <1>1, <1>3, <1>4, FS_CountingElements

\* The nodes of a call are finitely many, and so is any set of them.
LEMMA NodesFinite ==
    ASSUME input \in AnyInput
    PROVE  \A S \in SUBSET Nodes : IsFiniteSet(S) /\ Cardinality(S) \in Nat
<1>1. input.nodes \in Seq(Id) /\ Len(input.nodes) \in Nat
  BY DEF AnyInput
<1>2. IsFiniteSet(1..Len(input.nodes))
  BY <1>1, FS_Interval
<1>3. [k \in 1..Len(input.nodes) |-> input.nodes[k]] \in Surjection(1..Len(input.nodes), Nodes)
  BY <1>1 DEF Nodes, Elems, Surjection
<1>4. IsFiniteSet(Nodes)
  BY <1>1, <1>3, FS_NatSurjection DEF ExistsSurjection
<1> QED
  BY <1>4, FS_Subset, FS_CardinalityType

-----------------------------------------------------------------------------
(* The inductive invariant.                                                 *)

\* The sources of a node that its in-degree still counts.
Open(t) ==
    {s \in sources[t] : \/ s \notin Elems(order)
                        \/ phase = "relax" /\ s = order[Len(order)] /\ t \in Elems(todo)}

\* The edges that have been added so far.
Read == IF phase \in {"nodes", "edges"} THEN pos - 1 ELSE Len(input.edges)

\* Which phases have what in the queue, the order and the targets to visit.
PhaseInv ==
    /\ phase \in {"nodes", "edges"} => ready = <<>> /\ pos >= 1
    /\ phase = "nodes" => pos = 1
    /\ phase = "edges" => pos <= Len(input.edges) + 1
    /\ phase \in {"nodes", "edges", "seed"} => order = <<>>
    /\ phase # "relax" => todo = <<>>
    /\ phase \in {"ok", "cycle"} => ready = <<>>
    /\ phase = "ok" => Len(order) = Len(input.nodes)
    /\ phase = "cycle" => Len(order) # Len(input.nodes)
    /\ phase \notin {"nodes", "rejected"} => Distinct(input.nodes)

\* The two adjacency maps agree with each other and with the edges read.
AdjacencyInv ==
    /\ \A s, t \in Nodes : s \in sources[t] <=> t \in Elems(outgoing[s])
    /\ \A n \in Nodes : Distinct(outgoing[n])
    /\ phase # "rejected" =>
          \A s, t \in Nodes : s \in sources[t] <=> \E k \in 1..Read : input.edges[k] = <<s, t>>

\* In-degrees count the open sources.
DegreeInv == \A t \in Nodes : degree[t] = Cardinality(Open(t))

\* No node is queued or taken twice, and only nodes without open sources are.
QueueInv ==
    /\ Distinct(ready) /\ Distinct(order) /\ Distinct(todo)
    /\ Elems(ready) \cap Elems(order) = {}
    /\ \A n \in Elems(ready) \cup Elems(order) : degree[n] = 0
    /\ phase = "relax" => /\ order # <<>>
                          /\ \A t \in Elems(todo) : order[Len(order)] \in sources[t]

\* Conversely every node without open sources has been queued.
ReadyInv ==
    /\ phase = "seed" =>
          /\ pos \in 1..(Len(input.nodes) + 1)
          /\ \A n \in Elems(ready) : \E k \in 1..(pos - 1) : input.nodes[k] = n
          /\ \A k \in 1..(pos - 1) : degree[input.nodes[k]] = 0 => input.nodes[k] \in Elems(ready)
    /\ phase \in {"visit", "relax", "ok", "cycle"} =>
          \A n \in Nodes : degree[n] = 0 => n \in Elems(ready) \cup Elems(order)

\* No node of a set closed under sources is ever taken.
CycleInv == \A S \in SUBSET Nodes : Closed(S) => S \cap Elems(order) = {}

PlanInv ==
    /\ TypeOK /\ PhaseInv /\ AdjacencyInv /\ DegreeInv /\ QueueInv /\ ReadyInv
    /\ CycleInv /\ Topological

-----------------------------------------------------------------------------
(* The invariant holds initially and is preserved by every step.            *)

\* The empty call state satisfies the invariant.
LEMMA PlanInvInit == Init => PlanInv
<1> SUFFICES ASSUME Init PROVE PlanInv
  OBVIOUS
<1>1. input \in AnyInput
  BY InputAssumption DEF Init
<1>2. TypeOK
  BY <1>1 DEF TypeOK, Init, Phase
<1>3. Elems(<<>>) = {} /\ Distinct(<<>>)
  BY DEF Elems, Distinct
<1>4. PhaseInv
  <2>1. Len(input.edges) \in Nat
    BY <1>1 DEF AnyInput
  <2> QED
    BY <2>1 DEF PhaseInv, Init
<1>5. AdjacencyInv
  BY <1>3 DEF AdjacencyInv, Init, Read
<1>6. DegreeInv
  BY FS_EmptySet DEF DegreeInv, Open, Init
<1>7. QueueInv
  BY <1>3 DEF QueueInv, Init
<1>8. ReadyInv
  BY DEF ReadyInv, Init
<1>9. CycleInv /\ Topological
  BY <1>3 DEF CycleInv, Topological, Init
<1> QED
  BY <1>2, <1>4, <1>5, <1>6, <1>7, <1>8, <1>9 DEF PlanInv

\* Steps between loops leave every map and queue as it is.
LEMMA PhaseStepInv ==
    ASSUME PlanInv, CheckNodes \/ RejectEdge \/ EdgesDone \/ SeedDone \/ RelaxDone \/ Finish
    PROVE  PlanInv'
<1>1. UNCHANGED <<input, sources, outgoing, degree, ready, order, todo>>
  BY DEF CheckNodes, RejectEdge, EdgesDone, SeedDone, RelaxDone, Finish
<1>2. input \in AnyInput /\ Len(input.nodes) \in Nat /\ Len(input.edges) \in Nat /\ pos \in Nat
  BY DEF PlanInv, TypeOK, AnyInput
<1>3. phase' \in Phase /\ pos' \in Nat
  BY <1>2 DEF CheckNodes, RejectEdge, EdgesDone, SeedDone, RelaxDone, Finish, Phase, Result, Verdict, PlanInv, TypeOK
<1>4. TypeOK'
  BY <1>1, <1>3 DEF PlanInv, TypeOK, Nodes
<1>5. PhaseInv'
  BY <1>1, <1>2 DEF PlanInv, TypeOK, PhaseInv, QueueInv, CheckNodes, RejectEdge, EdgesDone, SeedDone, RelaxDone, Finish, Verdict
<1>6. phase' # "rejected" => Read' = Read
  BY <1>1, <1>2 DEF PlanInv, PhaseInv, Read, CheckNodes, RejectEdge, EdgesDone, SeedDone, RelaxDone, Finish, Verdict
<1>7. phase' # "rejected" => phase # "rejected"
  BY DEF CheckNodes, RejectEdge, EdgesDone, SeedDone, RelaxDone, Finish
<1>8. AdjacencyInv'
  BY <1>1, <1>6, <1>7 DEF PlanInv, AdjacencyInv, Nodes
<1>9. Elems(<<>>) = {}
  BY DEF Elems
<1>10. ASSUME NEW t PROVE Open(t)' = Open(t)
  BY <1>1, <1>9 DEF PlanInv, PhaseInv, Open, CheckNodes, RejectEdge, EdgesDone, SeedDone, RelaxDone, Finish, Verdict
<1>11. DegreeInv'
  BY <1>1, <1>10 DEF PlanInv, DegreeInv, Nodes
<1>12. QueueInv'
  BY <1>1 DEF PlanInv, QueueInv, CheckNodes, RejectEdge, EdgesDone, SeedDone, RelaxDone, Finish, Verdict
<1>13. ReadyInv'
  <2>1. CASE EdgesDone
    BY <1>1, <1>2, <1>9, <2>1 DEF PlanInv, PhaseInv, ReadyInv, EdgesDone
  <2>2. CASE SeedDone
    <3>1. ASSUME NEW n \in Nodes, degree[n] = 0 PROVE n \in Elems(ready)
      <4>1. PICK k \in 1..Len(input.nodes) : input.nodes[k] = n
        BY DEF Nodes, Elems
      <4>2. k \in 1..(pos - 1)
        BY <1>2, <2>2 DEF SeedDone
      <4> QED
        BY <3>1, <4>1, <4>2, <2>2 DEF PlanInv, ReadyInv, SeedDone
    <3> QED
      BY <1>1, <2>2, <3>1 DEF ReadyInv, SeedDone, Nodes
  <2>3. CASE CheckNodes \/ RejectEdge
    BY <2>3 DEF ReadyInv, CheckNodes, RejectEdge
  <2>4. CASE RelaxDone \/ Finish
    BY <1>1, <2>4 DEF PlanInv, ReadyInv, RelaxDone, Finish, Verdict, Nodes
  <2> QED
    BY <2>1, <2>2, <2>3, <2>4
<1>14. CycleInv' /\ Topological'
  BY <1>1 DEF PlanInv, CycleInv, Closed, Nodes, Topological
<1> QED
  BY <1>4, <1>5, <1>8, <1>11, <1>12, <1>13, <1>14 DEF PlanInv

\* Adding an edge adds one open source to its target.
LEMMA AddEdgeInv ==
    ASSUME PlanInv, AddEdge
    PROVE  PlanInv'
<1> DEFINE s == input.edges[pos][1]
           t == input.edges[pos][2]
<1>1. /\ phase = "edges" /\ pos \in Nat /\ pos <= Len(input.edges)
      /\ s \in Nodes /\ t \in Nodes /\ s \notin sources[t]
      /\ sources' = [sources EXCEPT ![t] = @ \cup {s}]
      /\ outgoing' = [outgoing EXCEPT ![s] = Append(@, t)]
      /\ degree' = [degree EXCEPT ![t] = @ + 1]
      /\ pos' = pos + 1
      /\ UNCHANGED <<input, phase, ready, order, todo>>
  BY DEF AddEdge, EdgeAllowed, PlanInv, TypeOK
<1>2. /\ input \in AnyInput /\ Len(input.edges) \in Nat
      /\ sources \in [Nodes -> SUBSET Nodes]
      /\ outgoing \in [Nodes -> Seq(Nodes)]
      /\ degree \in [Nodes -> Nat]
  BY DEF PlanInv, TypeOK, AnyInput
<1>3. order = <<>> /\ ready = <<>> /\ todo = <<>> /\ pos >= 1
  BY <1>1 DEF PlanInv, PhaseInv
<1>4. /\ Append(outgoing[s], t) \in Seq(Nodes)
      /\ Elems(Append(outgoing[s], t)) = Elems(outgoing[s]) \cup {t}
      /\ Distinct(outgoing[s]) /\ t \notin Elems(outgoing[s]) => Distinct(Append(outgoing[s], t))
  <2>1. outgoing[s] \in Seq(Nodes)
    BY <1>1, <1>2
  <2> QED
    BY <1>1, <2>1, AppendElems
<1> HIDE DEF s, t
<1>5. Nodes' = Nodes
  BY <1>1 DEF Nodes
<1>6. TypeOK'
  BY <1>1, <1>2, <1>4, <1>5 DEF PlanInv, TypeOK
<1>7. PhaseInv'
  BY <1>1, <1>2, <1>3 DEF PlanInv, PhaseInv
<1>8. \A u, v \in Nodes : u \in sources'[v] <=> u \in sources[v] \/ (u = s /\ v = t)
  BY <1>1, <1>2
<1>9. \A u \in Nodes : outgoing'[u] = IF u = s THEN Append(outgoing[s], t) ELSE outgoing[u]
  BY <1>1, <1>2
<1>10. AdjacencyInv'
  <2>1. \A u, v \in Nodes : u \in sources[v] <=> v \in Elems(outgoing[u])
    BY DEF PlanInv, AdjacencyInv
  <2>2. \A u, v \in Nodes : u \in sources'[v] <=> v \in Elems(outgoing'[u])
    BY <1>1, <1>4, <1>8, <1>9, <2>1
  <2>3. \A n \in Nodes : Distinct(outgoing'[n])
    BY <1>1, <1>4, <1>9, <2>1 DEF PlanInv, AdjacencyInv
  <2>4. \A u, v \in Nodes : u \in sources[v] <=> \E k \in 1..(pos - 1) : input.edges[k] = <<u, v>>
    BY <1>1 DEF PlanInv, AdjacencyInv, Read
  <2>5. input.edges[pos] = <<s, t>>
    BY <1>1, <1>2, <1>3 DEF AnyInput, s, t
  <2>6. Read' = pos
    BY <1>1 DEF Read
  <2>7. \A u, v \in Nodes : u \in sources'[v] <=> \E k \in 1..pos : input.edges[k] = <<u, v>>
    <3>1. 1..pos = 1..(pos - 1) \cup {pos}
      BY <1>1, <1>3
    <3> QED
      BY <1>8, <2>4, <2>5, <3>1
  <2> QED
    BY <1>1, <1>5, <2>2, <2>3, <2>6, <2>7 DEF AdjacencyInv
<1>11. DegreeInv'
  <2>1. Elems(<<>>) = {}
    BY DEF Elems
  <2>2. \A v \in Nodes : Open(v) = sources[v] /\ Open(v)' = sources'[v]
    BY <1>1, <1>2, <1>3, <1>6, <1>5, <2>1 DEF Open, TypeOK
  <2>3. \A v \in Nodes : sources'[v] = IF v = t THEN sources[t] \cup {s} ELSE sources[v]
    BY <1>1, <1>2
  <2>4. IsFiniteSet(sources[t])
    BY <1>1, <1>2, NodesFinite
  <2>5. Cardinality(sources[t] \cup {s}) = Cardinality(sources[t]) + 1
    BY <1>1, <2>4, FS_AddElement
  <2>6. \A v \in Nodes : degree'[v] = IF v = t THEN degree[t] + 1 ELSE degree[v]
    BY <1>1, <1>2
  <2> QED
    BY <1>5, <2>2, <2>3, <2>5, <2>6 DEF PlanInv, DegreeInv
<1>12. QueueInv'
  <2>1. Elems(<<>>) = {} /\ Distinct(<<>>)
    BY DEF Elems, Distinct
  <2> QED
    BY <1>1, <1>3, <2>1 DEF QueueInv
<1>13. ReadyInv'
  BY <1>1 DEF ReadyInv
<1>14. CycleInv' /\ Topological'
  <2>1. CycleInv'
    BY <1>1 DEF PlanInv, CycleInv, Closed, Nodes
  <2>2. Topological'
    BY <1>1, <1>3 DEF Topological
  <2> QED
    BY <2>1, <2>2
<1> QED
  BY <1>6, <1>7, <1>10, <1>11, <1>12, <1>13, <1>14 DEF PlanInv

\* Seeding the queue looks at one more node.
LEMMA SeedInv ==
    ASSUME PlanInv, Seed
    PROVE  PlanInv'
<1> DEFINE n == input.nodes[pos]
<1>1. /\ phase = "seed" /\ pos <= Len(input.nodes)
      /\ ready' = IF degree[n] = 0 THEN Append(ready, n) ELSE ready
      /\ pos' = pos + 1
      /\ UNCHANGED <<input, phase, sources, outgoing, degree, order, todo>>
  BY DEF Seed
<1>2. /\ input \in AnyInput /\ Len(input.nodes) \in Nat /\ ready \in Seq(Nodes)
      /\ pos \in 1..Len(input.nodes) /\ order = <<>> /\ Distinct(input.nodes) /\ Distinct(ready)
  BY <1>1 DEF PlanInv, TypeOK, PhaseInv, ReadyInv, QueueInv, AnyInput
<1>3. n \in Nodes
  BY <1>2 DEF Nodes, Elems
<1>4. n \notin Elems(ready)
  BY <1>1, <1>2 DEF PlanInv, ReadyInv, Distinct
<1>5. /\ Append(ready, n) \in Seq(Nodes)
      /\ Elems(Append(ready, n)) = Elems(ready) \cup {n}
      /\ Distinct(Append(ready, n))
  BY <1>2, <1>3, <1>4, AppendElems
<1> HIDE DEF n
<1>6. Nodes' = Nodes /\ (\A t : Open(t)' = Open(t)) /\ Read' = Read
  BY <1>1 DEF Nodes, Open, Read
<1>7. TypeOK'
  BY <1>1, <1>2, <1>5, <1>6 DEF PlanInv, TypeOK
<1>8. PhaseInv'
  BY <1>1 DEF PlanInv, PhaseInv
<1>9. AdjacencyInv' /\ DegreeInv'
  BY <1>1, <1>6 DEF PlanInv, AdjacencyInv, DegreeInv
<1>10. Elems(<<>>) = {} /\ Distinct(<<>>)
  BY DEF Elems, Distinct
<1>11. QueueInv'
  BY <1>1, <1>2, <1>5, <1>10 DEF PlanInv, QueueInv
<1>12. ReadyInv'
  <2>1. 1..(pos' - 1) = 1..(pos - 1) \cup {pos}
    BY <1>1, <1>2
  <2>2. \A m \in Elems(ready') : \E k \in 1..(pos' - 1) : input.nodes[k] = m
    BY <1>1, <1>5, <2>1 DEF PlanInv, ReadyInv, n
  <2>3. \A k \in 1..(pos' - 1) : degree[input.nodes[k]] = 0 => input.nodes[k] \in Elems(ready')
    BY <1>1, <1>5, <2>1 DEF PlanInv, ReadyInv, n
  <2> QED
    BY <1>1, <1>2, <2>2, <2>3 DEF ReadyInv
<1>13. CycleInv' /\ Topological'
  BY <1>1 DEF PlanInv, CycleInv, Closed, Nodes, Topological
<1> QED
  BY <1>7, <1>8, <1>9, <1>11, <1>12, <1>13 DEF PlanInv

\* Taking a node from the queue closes none of its edges yet, and all its
\* sources are in the order already.
LEMMA VisitInv ==
    ASSUME PlanInv, Visit
    PROVE  PlanInv'
<1> DEFINE n == Head(ready)
<1>1. /\ phase = "visit" /\ ready # <<>> /\ phase' = "relax"
      /\ ready' = Tail(ready)
      /\ order' = Append(order, n)
      /\ todo' = outgoing[n]
      /\ UNCHANGED <<input, pos, sources, outgoing, degree>>
  BY DEF Visit
<1>2. /\ input \in AnyInput /\ ready \in Seq(Nodes) /\ order \in Seq(Nodes)
      /\ sources \in [Nodes -> SUBSET Nodes]
      /\ outgoing \in [Nodes -> Seq(Nodes)]
      /\ Distinct(ready) /\ Distinct(order) /\ Elems(ready) \cap Elems(order) = {}
  BY DEF PlanInv, TypeOK, QueueInv
<1>3. /\ n \in Nodes /\ n \in Elems(ready)
      /\ Tail(ready) \in Seq(Nodes)
      /\ Elems(Tail(ready)) = Elems(ready) \ {n}
      /\ Distinct(Tail(ready))
  BY <1>1, <1>2, TailElems
<1>4. /\ Append(order, n) \in Seq(Nodes)
      /\ Elems(Append(order, n)) = Elems(order) \cup {n}
      /\ Distinct(Append(order, n))
  <2>1. n \notin Elems(order)
    BY <1>2, <1>3
  <2> QED
    BY <1>2, <1>3, <2>1, AppendElems
<1>5. /\ Len(order) \in Nat /\ Len(order') = Len(order) + 1 /\ order'[Len(order')] = n
      /\ \A k \in 1..Len(order) : order'[k] = order[k]
  BY <1>1, <1>2, <1>3
<1> HIDE DEF n
<1>6. Nodes' = Nodes
  BY <1>1 DEF Nodes
<1>7. TypeOK'
  BY <1>1, <1>2, <1>3, <1>4, <1>6 DEF PlanInv, TypeOK, Phase
<1>8. PhaseInv'
  BY <1>1 DEF PlanInv, PhaseInv
<1>9. AdjacencyInv'
  BY <1>1, <1>6 DEF PlanInv, AdjacencyInv, Read
<1>10. \A s, t \in Nodes : s \in sources[t] <=> t \in Elems(outgoing[s])
  BY DEF PlanInv, AdjacencyInv
<1>11. ASSUME NEW t \in Nodes PROVE Open(t)' = Open(t)
  <2>1. \A s : s \in Open(t) <=> s \in sources[t] /\ s \notin Elems(order)
    BY <1>1 DEF Open
  <2>2. \A s : s \in Open(t)' <=>
                 s \in sources[t] /\ (s \notin Elems(order') \/ (s = n /\ t \in Elems(outgoing[n])))
    BY <1>1, <1>5 DEF Open
  <2>3. n \notin Elems(order)
    BY <1>2, <1>3
  <2>4. n \in sources[t] <=> t \in Elems(outgoing[n])
    BY <1>3, <1>10
  <2> QED
    BY <1>1, <1>4, <2>1, <2>2, <2>3, <2>4
<1>12. DegreeInv'
  BY <1>1, <1>6, <1>11 DEF PlanInv, DegreeInv
<1>13. QueueInv'
  <2>1. Distinct(todo')
    BY <1>1, <1>3 DEF PlanInv, AdjacencyInv
  <2>2. Elems(ready') \cap Elems(order') = {}
    BY <1>1, <1>2, <1>3, <1>4
  <2>3. \A m \in Elems(ready') \cup Elems(order') : degree'[m] = 0
    BY <1>1, <1>3, <1>4 DEF PlanInv, QueueInv
  <2>4. Elems(outgoing[n]) \subseteq Nodes
    BY <1>2, <1>3 DEF Elems
  <2>5. order' # <<>> /\ \A t \in Elems(todo') : order'[Len(order')] \in sources'[t]
    BY <1>1, <1>3, <1>5, <1>10, <2>4
  <2> QED
    BY <1>1, <1>3, <1>4, <2>1, <2>2, <2>3, <2>5 DEF QueueInv
<1>14. ReadyInv'
  BY <1>1, <1>3, <1>4, <1>6 DEF PlanInv, ReadyInv
<1>15. sources[n] \subseteq Elems(order)
  <2>1. degree[n] = 0
    BY <1>3 DEF PlanInv, QueueInv
  <2>2. Open(n) \subseteq Nodes
    BY <1>2, <1>3 DEF Open
  <2>3. Open(n) = {}
    BY <1>2, <1>3, <2>1, <2>2, NodesFinite, FS_EmptySet DEF PlanInv, DegreeInv
  <2> QED
    BY <1>1, <2>3 DEF Open
<1>16. CycleInv'
  <2>1. ASSUME NEW S \in SUBSET Nodes, Closed(S), n \in S
        PROVE  FALSE
    <3>1. PICK m \in S : <<m, n>> \in Elems(input.edges)
      BY <2>1 DEF Closed
    <3>2. PICK k \in 1..Len(input.edges) : input.edges[k] = <<m, n>>
      BY <3>1 DEF Elems
    <3>3. m \in sources[n]
      BY <1>1, <1>3, <3>2 DEF PlanInv, AdjacencyInv, Read
    <3> QED
      BY <1>15, <2>1, <3>1, <3>3 DEF PlanInv, CycleInv
  <2>2. \A S : Closed(S)' <=> Closed(S)
    BY <1>1 DEF Closed
  <2> QED
    BY <1>1, <1>4, <1>6, <2>1, <2>2 DEF PlanInv, CycleInv
<1>17. Topological'
  <2>1. ASSUME NEW i \in 1..Len(order'), NEW s \in sources'[order'[i]]
        PROVE  \E j \in 1..(i - 1) : order'[j] = s
    <3>1. CASE i = Len(order')
      <4>1. s \in Elems(order)
        BY <1>1, <1>5, <1>15, <2>1, <3>1
      <4>2. PICK j \in 1..Len(order) : order[j] = s
        BY <4>1 DEF Elems
      <4> QED
        BY <1>5, <3>1, <4>2
    <3>2. CASE i # Len(order')
      <4>1. i \in 1..Len(order) /\ s \in sources[order[i]]
        BY <1>1, <1>5, <2>1, <3>2
      <4>2. PICK j \in 1..(i - 1) : order[j] = s
        BY <4>1 DEF PlanInv, Topological
      <4> QED
        BY <1>5, <4>1, <4>2
    <3> QED
      BY <3>1, <3>2
  <2> QED
    BY <2>1 DEF Topological
<1> QED
  BY <1>7, <1>8, <1>9, <1>12, <1>13, <1>14, <1>16, <1>17 DEF PlanInv

\* Visiting a target closes the edge from the node taken last, and only that.
LEMMA RelaxInv ==
    ASSUME PlanInv, Relax
    PROVE  PlanInv'
<1> DEFINE t == Head(todo)
           c == order[Len(order)]
<1>1. /\ phase = "relax" /\ todo # <<>>
      /\ degree' = [degree EXCEPT ![t] = @ - 1]
      /\ ready' = IF degree[t] = 1 THEN Append(ready, t) ELSE ready
      /\ todo' = Tail(todo)
      /\ UNCHANGED <<input, phase, pos, sources, outgoing, order>>
  BY DEF Relax, LastSource
<1>2. /\ input \in AnyInput /\ ready \in Seq(Nodes) /\ order \in Seq(Nodes) /\ todo \in Seq(Nodes)
      /\ sources \in [Nodes -> SUBSET Nodes]
      /\ degree \in [Nodes -> Nat]
      /\ Distinct(ready) /\ Distinct(order) /\ Distinct(todo)
      /\ Elems(ready) \cap Elems(order) = {}
      /\ \A m \in Elems(ready) \cup Elems(order) : degree[m] = 0
  BY DEF PlanInv, TypeOK, QueueInv
<1>3. /\ t \in Nodes /\ t \in Elems(todo)
      /\ Tail(todo) \in Seq(Nodes)
      /\ Elems(Tail(todo)) = Elems(todo) \ {t}
      /\ Distinct(Tail(todo))
  BY <1>1, <1>2, TailElems
<1>4. /\ order # <<>> /\ c \in sources[t]
      /\ \A u \in Elems(todo) : c \in sources[u]
  BY <1>1, <1>3 DEF PlanInv, QueueInv
<1>5. c \in Elems(order)
  BY <1>2, <1>4 DEF Elems
<1> HIDE DEF t, c
<1>6. c \in Open(t)
  BY <1>1, <1>3, <1>4 DEF Open, c
<1>7. Nodes' = Nodes
  BY <1>1 DEF Nodes
<1>8. ASSUME NEW u \in Nodes
      PROVE  Open(u)' = IF u = t THEN Open(t) \ {c} ELSE Open(u)
  <2>1. \A s : s \in Open(u) <=>
                 s \in sources[u] /\ (s \notin Elems(order) \/ (s = c /\ u \in Elems(todo)))
    BY <1>1 DEF Open, c
  <2>2. \A s : s \in Open(u)' <=>
                 s \in sources[u] /\ (s \notin Elems(order) \/ (s = c /\ u \in Elems(todo')))
    BY <1>1 DEF Open, c
  <2>3. u \in Elems(todo') <=> u \in Elems(todo) /\ u # t
    BY <1>1, <1>3
  <2>4. ASSUME NEW s
        PROVE  s \in Open(u)' <=> s \in Open(u) /\ ~(u = t /\ s = c)
    BY <1>3, <1>5, <2>1, <2>2, <2>3
  <2>5. CASE u = t
    BY <2>4, <2>5
  <2>6. CASE u # t
    BY <2>4, <2>6
  <2> QED
    BY <2>5, <2>6
<1>9. IsFiniteSet(Open(t)) /\ degree[t] = Cardinality(Open(t)) /\ Cardinality(Open(t)) \in Nat
  <2>1. Open(t) \subseteq Nodes
    BY <1>2, <1>3 DEF Open
  <2> QED
    BY <1>2, <1>3, <2>1, NodesFinite DEF PlanInv, DegreeInv
<1>10. Cardinality(Open(t) \ {c}) = degree[t] - 1 /\ degree[t] >= 1
  <2>1. Cardinality(Open(t) \ {c}) = Cardinality(Open(t)) - 1 /\ IsFiniteSet(Open(t) \ {c})
    BY <1>6, <1>9, FS_RemoveElement
  <2>2. Cardinality(Open(t)) # 0
    BY <1>6, <1>9, FS_EmptySet
  <2> QED
    BY <1>9, <2>1, <2>2
<1>11. \A u \in Nodes : degree'[u] = IF u = t THEN degree[t] - 1 ELSE degree[u]
  BY <1>1, <1>2
<1>12. DegreeInv'
  BY <1>7, <1>8, <1>10, <1>11 DEF PlanInv, DegreeInv
<1>13. t \notin Elems(ready) /\ t \notin Elems(order)
  BY <1>2, <1>10
<1>14. /\ Append(ready, t) \in Seq(Nodes)
       /\ Elems(Append(ready, t)) = Elems(ready) \cup {t}
       /\ Distinct(Append(ready, t))
  BY <1>2, <1>3, <1>13, AppendElems
<1>15. TypeOK'
  <2>1. degree' \in [Nodes -> Nat]
    BY <1>1, <1>2, <1>3, <1>10
  <2>2. ready' \in Seq(Nodes) /\ todo' \in Seq(Nodes)
    BY <1>1, <1>2, <1>3, <1>14
  <2> QED
    BY <1>1, <1>7, <2>1, <2>2 DEF PlanInv, TypeOK
<1>16. PhaseInv'
  BY <1>1 DEF PlanInv, PhaseInv
<1>17. AdjacencyInv'
  BY <1>1, <1>7 DEF PlanInv, AdjacencyInv, Read
<1>18. QueueInv'
  <2>1. Distinct(ready') /\ Elems(ready') \cap Elems(order') = {}
    BY <1>1, <1>2, <1>13, <1>14
  <2>2. Elems(ready) \subseteq Nodes /\ Elems(order) \subseteq Nodes
    BY <1>2 DEF Elems
  <2>3. \A m \in Elems(ready') \cup Elems(order') : degree'[m] = 0
    BY <1>1, <1>2, <1>3, <1>11, <1>13, <1>14, <2>2
  <2>4. \A u \in Elems(todo') : order'[Len(order')] \in sources'[u]
    BY <1>1, <1>3, <1>4 DEF c
  <2> QED
    BY <1>1, <1>2, <1>3, <1>4, <2>1, <2>3, <2>4 DEF QueueInv
<1>19. ReadyInv'
  <2>1. ASSUME NEW u \in Nodes, degree'[u] = 0
        PROVE  u \in Elems(ready') \cup Elems(order')
    <3>1. CASE u = t
      BY <1>1, <1>2, <1>3, <1>11, <1>14, <2>1, <3>1
    <3>2. CASE u # t
      BY <1>1, <1>11, <1>14, <2>1, <3>2 DEF PlanInv, ReadyInv
    <3> QED
      BY <3>1, <3>2
  <2> QED
    BY <1>1, <1>7, <2>1 DEF ReadyInv
<1>20. CycleInv' /\ Topological'
  BY <1>1 DEF PlanInv, CycleInv, Closed, Nodes, Topological
<1> QED
  BY <1>12, <1>15, <1>16, <1>17, <1>18, <1>19, <1>20 DEF PlanInv

\* Every step preserves the invariant.
LEMMA PlanInvNext == PlanInv /\ [Next]_vars => PlanInv'
<1> SUFFICES ASSUME PlanInv, [Next]_vars PROVE PlanInv'
  OBVIOUS
<1>1. CASE UNCHANGED vars
  <2>1. /\ UNCHANGED <<input, phase, pos, sources, outgoing, degree, ready, order, todo>>
        /\ Nodes' = Nodes /\ Read' = Read /\ \A t : Open(t)' = Open(t)
    BY <1>1 DEF vars, Nodes, Read, Open
  <2>2. TypeOK' /\ PhaseInv'
    BY <2>1 DEF PlanInv, TypeOK, PhaseInv
  <2>3. AdjacencyInv' /\ DegreeInv'
    BY <2>1 DEF PlanInv, AdjacencyInv, DegreeInv
  <2>4. QueueInv' /\ ReadyInv'
    BY <2>1 DEF PlanInv, QueueInv, ReadyInv
  <2>5. CycleInv' /\ Topological'
    BY <2>1 DEF PlanInv, CycleInv, Closed, Topological
  <2> QED
    BY <2>2, <2>3, <2>4, <2>5 DEF PlanInv
<1>2. CASE Next
  BY <1>2, PhaseStepInv, AddEdgeInv, SeedInv, VisitInv, RelaxInv DEF Next
<1> QED
  BY <1>1, <1>2

-----------------------------------------------------------------------------
(* What follows from the invariant.                                         *)

\* A plan that leaves nodes out leaves out a set closed under sources; a plan
\* that takes them all leaves no room for one.
LEMMA VerdictRight ==
    ASSUME PlanInv
    PROVE  OrderComplete /\ CycleVerdict
<1>1. /\ input \in AnyInput /\ order \in Seq(Nodes) /\ Distinct(order)
      /\ Len(input.nodes) \in Nat /\ Len(order) \in Nat /\ Len(input.edges) \in Nat
      /\ sources \in [Nodes -> SUBSET Nodes]
  BY DEF PlanInv, TypeOK, QueueInv, AnyInput
<1>2. Elems(order) \subseteq Nodes
  BY <1>1 DEF Elems
<1>3. IsFiniteSet(Elems(order)) /\ Cardinality(Elems(order)) = Len(order)
  BY <1>1, DistinctCardinality
<1>4. ASSUME phase \in {"ok", "cycle"}
      PROVE  /\ IsFiniteSet(Nodes) /\ Cardinality(Nodes) = Len(input.nodes)
             /\ \A m, n \in Nodes : m \in sources[n] <=> <<m, n>> \in Elems(input.edges)
  <2>1. Distinct(input.nodes)
    BY <1>4 DEF PlanInv, PhaseInv
  <2>2. input.nodes \in Seq(Id)
    BY <1>1 DEF AnyInput
  <2>3. \A m, n \in Nodes : m \in sources[n] <=> \E k \in 1..Len(input.edges) : input.edges[k] = <<m, n>>
    BY <1>4 DEF PlanInv, AdjacencyInv, Read
  <2>4. \A m, n \in Nodes : m \in sources[n] <=> <<m, n>> \in Elems(input.edges)
    BY <2>3 DEF Elems
  <2> QED
    BY <2>1, <2>2, <2>4, DistinctCardinality DEF Nodes
<1>5. ASSUME phase = "ok"
      PROVE  Elems(order) = Nodes
  <2>1. Len(order) = Len(input.nodes)
    BY <1>5 DEF PlanInv, PhaseInv
  <2> QED
    BY <1>2, <1>3, <1>4, <1>5, <2>1, FS_Subset
<1>6. ASSUME phase = "ok", NEW S \in SUBSET Nodes, S # {}, Closed(S)
      PROVE  FALSE
  <2>1. S \cap Elems(order) = {}
    BY <1>6 DEF PlanInv, CycleInv
  <2> QED
    BY <1>5, <1>6, <2>1
<1>7. ASSUME phase = "cycle"
      PROVE  Cyclic
  <2> DEFINE S == Nodes \ Elems(order)
  <2>1. S # {}
    <3>1. Len(order) # Len(input.nodes)
      BY <1>7 DEF PlanInv, PhaseInv
    <3>2. S = {} => Nodes = Elems(order)
      BY <1>2
    <3> QED
      BY <1>3, <1>4, <1>7, <3>1, <3>2
  <2>2. ASSUME NEW n \in S
        PROVE  \E m \in S : <<m, n>> \in Elems(input.edges)
    <3>1. Elems(ready) = {}
      BY <1>7 DEF PlanInv, PhaseInv, Elems
    <3>2. degree[n] # 0
      BY <1>7, <2>2, <3>1 DEF PlanInv, ReadyInv
    <3>3. Open(n) # {}
      BY <2>2, <3>2, FS_EmptySet DEF PlanInv, DegreeInv
    <3>4. PICK m \in sources[n] : m \notin Elems(order)
      BY <1>7, <3>3 DEF Open
    <3> QED
      BY <1>1, <1>4, <1>7, <2>2, <3>4
  <2> QED
    BY <2>1, <2>2 DEF Cyclic, Closed
<1> QED
  BY <1>1, <1>5, <1>6, <1>7 DEF OrderComplete, CycleVerdict, Cyclic

\* The value of every variable is of its type, for every sketch.
THEOREM PlanTypeCorrect == Spec => []TypeOK
<1>1. PlanInv => TypeOK
  BY DEF PlanInv
<1> QED
  BY <1>1, PlanInvInit, PlanInvNext, PTL DEF Spec

\* At every moment of a call the order lists a node only after all its sources,
\* whatever the sketch: publishes find the outputs they refer to.
THEOREM OrderIsTopological == Spec => []Topological
<1>1. PlanInv => Topological
  BY DEF PlanInv
<1> QED
  BY <1>1, PlanInvInit, PlanInvNext, PTL DEF Spec

\* An accepted plan has every node exactly once.
THEOREM OrderIsComplete == Spec => []OrderComplete
<1> QED
  BY VerdictRight, PlanInvInit, PlanInvNext, PTL DEF Spec

\* Of the graphs that pass the rules, those and only those with a cycle are
\* refused as cyclic.
THEOREM CyclesFound == Spec => []CycleVerdict
<1> QED
  BY VerdictRight, PlanInvInit, PlanInvNext, PTL DEF Spec

-----------------------------------------------------------------------------
(* The verdict on the rules.                                                *)

\* The first m edges obey the rules, and each other.
RulesUpTo(m) ==
    /\ \A j, k \in 1..m : input.edges[j] = input.edges[k] => j = k
    /\ \A k \in 1..m :
          LET s == input.edges[k][1]
              t == input.edges[k][2] IN
          /\ {s, t} \subseteq Nodes
          /\ s # t
          /\ TypesConnect(input.type[s], input.type[t])
          /\ input.type[t] = "CLOUDFRONT_DISTRIBUTION" =>
                \A j \in 1..m : input.edges[j][2] = t => j = k

\* The edges that were added obey the rules; a refused sketch breaks one.
RulesInv ==
    /\ phase = "rejected" => ~ValidInput
    /\ phase \notin {"nodes", "rejected"} => RulesUpTo(Read)

\* The rules on all edges are the rules on the first Len(edges) of them.
LEMMA AllEdges == ValidInput <=> Distinct(input.nodes) /\ RulesUpTo(Len(input.edges))
<1> QED
  BY DEF ValidInput, RulesUpTo, Distinct

\* An edge is a pair, and a known source is the source of an earlier edge.
LEMMA EarlierEdges ==
    ASSUME PlanInv, phase = "edges", pos <= Len(input.edges)
    PROVE  /\ pos \in 1..Len(input.edges) /\ Len(input.edges) \in Nat
           /\ input.edges[pos] = <<input.edges[pos][1], input.edges[pos][2]>>
           /\ \A u, v \in Nodes : u \in sources[v] <=> \E k \in 1..(pos - 1) : input.edges[k] = <<u, v>>
           /\ \A k \in 1..(pos - 1) : input.edges[k] = <<input.edges[k][1], input.edges[k][2]>>
<1>1. /\ pos \in Nat /\ pos >= 1 /\ input.edges \in Seq(Id \X Id)
  BY DEF PlanInv, TypeOK, PhaseInv, AnyInput
<1>2. \A k \in 1..Len(input.edges) : input.edges[k] \in Id \X Id
  BY <1>1
<1>3. Read = pos - 1
  BY DEF Read
<1>4. Len(input.edges) \in Nat /\ pos \in 1..Len(input.edges)
  BY <1>1
<1>5. \A k \in 1..pos : input.edges[k] = <<input.edges[k][1], input.edges[k][2]>>
  BY <1>2, <1>4
<1>6. \A u, v \in Nodes : u \in sources[v] <=> \E k \in 1..Read : input.edges[k] = <<u, v>>
  BY DEF PlanInv, AdjacencyInv
<1> QED
  BY <1>3, <1>4, <1>5, <1>6

\* An edge that is added obeys the rules together with those before it.
LEMMA AddedEdgeObeys ==
    ASSUME PlanInv, RulesUpTo(pos - 1), AddEdge
    PROVE  RulesUpTo(pos)
<1> DEFINE s == input.edges[pos][1]
           t == input.edges[pos][2]
<1>1. phase = "edges" /\ pos <= Len(input.edges) /\ EdgeAllowed(s, t)
  BY DEF AddEdge
<1>2. /\ pos \in 1..Len(input.edges) /\ Len(input.edges) \in Nat
      /\ input.edges[pos] = <<s, t>>
      /\ \A u, v \in Nodes : u \in sources[v] <=> \E k \in 1..(pos - 1) : input.edges[k] = <<u, v>>
      /\ \A k \in 1..(pos - 1) : input.edges[k] = <<input.edges[k][1], input.edges[k][2]>>
  BY <1>1, EarlierEdges
<1> HIDE DEF s, t
<1>3. /\ s \in Nodes /\ t \in Nodes /\ s # t
      /\ TypesConnect(input.type[s], input.type[t])
      /\ input.type[t] = "CLOUDFRONT_DISTRIBUTION" => sources[t] = {}
      /\ s \notin sources[t]
  BY <1>1 DEF EdgeAllowed
<1>4. \A k \in 1..(pos - 1) : input.edges[k] # input.edges[pos]
  BY <1>2, <1>3
<1>5. \A k \in 1..(pos - 1) :
          /\ input.edges[k][1] \in Nodes /\ input.edges[k][2] \in Nodes
          /\ input.edges[k][1] # input.edges[k][2]
          /\ TypesConnect(input.type[input.edges[k][1]], input.type[input.edges[k][2]])
          /\ input.type[input.edges[k][2]] = "CLOUDFRONT_DISTRIBUTION" =>
                \A j \in 1..(pos - 1) : input.edges[j][2] = input.edges[k][2] => j = k
  BY DEF RulesUpTo
<1>6. \A k \in 1..(pos - 1) :
          input.type[t] = "CLOUDFRONT_DISTRIBUTION" => input.edges[k][2] # t
  <2>1. ASSUME NEW k \in 1..(pos - 1), input.edges[k][2] = t
        PROVE  input.edges[k][1] \in sources[t]
    <3>1. input.edges[k] = <<input.edges[k][1], t>>
      BY <1>2, <2>1
    <3> QED
      BY <1>2, <1>3, <1>5, <3>1
  <2> QED
    BY <1>3, <2>1
<1>7. 1..pos = 1..(pos - 1) \cup {pos}
  BY <1>2
<1>8. input.edges[pos][1] = s /\ input.edges[pos][2] = t
  BY DEF s, t
<1>9. \A j, k \in 1..pos : input.edges[j] = input.edges[k] => j = k
  BY <1>4, <1>7 DEF RulesUpTo
<1>10. ASSUME NEW k \in 1..pos
       PROVE  /\ {input.edges[k][1], input.edges[k][2]} \subseteq Nodes
              /\ input.edges[k][1] # input.edges[k][2]
              /\ TypesConnect(input.type[input.edges[k][1]], input.type[input.edges[k][2]])
              /\ input.type[input.edges[k][2]] = "CLOUDFRONT_DISTRIBUTION" =>
                    \A j \in 1..pos : input.edges[j][2] = input.edges[k][2] => j = k
  <2>1. CASE k = pos
    BY <1>3, <1>6, <1>7, <1>8, <2>1
  <2>2. CASE k \in 1..(pos - 1)
    BY <1>5, <1>6, <1>7, <1>8, <2>2
  <2> QED
    BY <1>7, <2>1, <2>2
<1> QED
  BY <1>9, <1>10 DEF RulesUpTo

\* An edge that is refused breaks a rule, alone or with one before it.
LEMMA RefusedEdgeBreaks ==
    ASSUME PlanInv, RejectEdge
    PROVE  ~ValidInput
<1> DEFINE s == input.edges[pos][1]
           t == input.edges[pos][2]
<1> SUFFICES ASSUME ValidInput PROVE EdgeAllowed(s, t)
  BY DEF RejectEdge
<1>1. phase = "edges" /\ pos <= Len(input.edges)
  BY DEF RejectEdge
<1>2. /\ pos \in 1..Len(input.edges) /\ Len(input.edges) \in Nat
      /\ input.edges[pos] = <<s, t>>
      /\ \A u, v \in Nodes : u \in sources[v] <=> \E k \in 1..(pos - 1) : input.edges[k] = <<u, v>>
  BY <1>1, EarlierEdges
<1>3. \A k \in 1..(pos - 1) : k \in 1..Len(input.edges) /\ k # pos
  BY <1>2
<1>4. /\ s \in Nodes /\ t \in Nodes /\ s # t
      /\ TypesConnect(input.type[s], input.type[t])
      /\ input.type[t] = "CLOUDFRONT_DISTRIBUTION" =>
            \A j \in 1..Len(input.edges) : input.edges[j][2] = t => j = pos
  BY <1>2 DEF ValidInput
<1>5. sources[t] \subseteq Nodes
  BY <1>4 DEF PlanInv, TypeOK
<1> HIDE DEF s, t
<1>6. s \notin sources[t]
  <2>1. \A k \in 1..(pos - 1) : input.edges[k] # input.edges[pos]
    BY <1>2, <1>3 DEF ValidInput, Distinct
  <2> QED
    BY <1>2, <1>4, <2>1
<1>7. ASSUME input.type[t] = "CLOUDFRONT_DISTRIBUTION"
      PROVE  sources[t] = {}
  <2>1. SUFFICES ASSUME NEW u \in sources[t] PROVE FALSE
    OBVIOUS
  <2>2. PICK k \in 1..(pos - 1) : input.edges[k] = <<u, t>>
    BY <1>2, <1>4, <1>5, <2>1
  <2>3. input.edges[k][2] = t
    BY <2>2
  <2> QED
    BY <1>3, <1>4, <1>7, <2>3
<1> QED
  BY <1>4, <1>6, <1>7 DEF EdgeAllowed

\* A new call has read no edge.
LEMMA RulesInvInit == Init => RulesInv
<1> QED
  BY DEF Init, RulesInv

\* Every step keeps the verdict on the rules right.
LEMMA RulesInvNext == PlanInv /\ RulesInv /\ [Next]_vars => RulesInv'
<1> SUFFICES ASSUME PlanInv, RulesInv, [Next]_vars PROVE RulesInv'
  OBVIOUS
<1>1. ASSUME input' = input
      PROVE  (ValidInput' <=> ValidInput) /\ \A m : RulesUpTo(m)' <=> RulesUpTo(m)
  BY <1>1 DEF ValidInput, RulesUpTo, Nodes, Distinct
<1>2. CASE AddEdge
  <2>1. phase = "edges" /\ phase' = "edges" /\ input' = input /\ pos' = pos + 1 /\ pos \in Nat
    BY <1>2 DEF AddEdge, PlanInv, TypeOK
  <2>2. Read = pos - 1 /\ Read' = pos
    BY <2>1 DEF Read
  <2>3. RulesUpTo(pos)
    BY <1>2, <2>1, <2>2, AddedEdgeObeys DEF RulesInv
  <2> QED
    BY <1>1, <2>1, <2>2, <2>3 DEF RulesInv
<1>3. CASE RejectEdge
  <2>1. input' = input /\ phase' = "rejected" /\ ~ValidInput
    BY <1>3, RefusedEdgeBreaks DEF RejectEdge
  <2> QED
    BY <1>1, <2>1 DEF RulesInv
<1>4. CASE CheckNodes
  <2>1. /\ input' = input /\ phase = "nodes" /\ pos' = pos
        /\ phase' = IF Distinct(input.nodes) THEN "edges" ELSE "rejected"
    BY <1>4 DEF CheckNodes
  <2>2. CASE Distinct(input.nodes)
    <3>1. phase' = "edges" /\ Read' = 0
      BY <2>1, <2>2 DEF Read, PlanInv, PhaseInv
    <3>2. RulesUpTo(0)
      BY DEF RulesUpTo
    <3> QED
      BY <1>1, <2>1, <3>1, <3>2 DEF RulesInv
  <2>3. CASE ~Distinct(input.nodes)
    BY <1>1, <2>1, <2>3 DEF RulesInv, ValidInput
  <2> QED
    BY <2>2, <2>3
<1>5. CASE EdgesDone
  <2>1. phase = "edges" /\ phase' = "seed" /\ input' = input /\ pos > Len(input.edges)
    BY <1>5 DEF EdgesDone
  <2>2. pos \in Nat /\ Len(input.edges) \in Nat /\ pos <= Len(input.edges) + 1
    BY <2>1 DEF PlanInv, TypeOK, PhaseInv, AnyInput
  <2>3. Read = Len(input.edges) /\ Read' = Len(input.edges)
    BY <2>1, <2>2 DEF Read
  <2> QED
    BY <1>1, <2>1, <2>3 DEF RulesInv
<1>6. CASE Seed \/ SeedDone \/ Visit \/ Relax \/ RelaxDone \/ Finish
  <2>1. /\ input' = input
        /\ phase \notin {"nodes", "edges", "rejected"}
        /\ phase' \notin {"nodes", "edges", "rejected"}
    BY <1>6 DEF Seed, SeedDone, Visit, Relax, RelaxDone, Finish, Verdict
  <2>2. Read' = Read
    BY <2>1 DEF Read
  <2> QED
    BY <1>1, <2>1, <2>2 DEF RulesInv
<1>7. CASE UNCHANGED vars
  <2>1. input' = input /\ phase' = phase /\ Read' = Read
    BY <1>7 DEF vars, Read
  <2> QED
    BY <1>1, <2>1 DEF RulesInv
<1> QED
  BY <1>2, <1>3, <1>4, <1>5, <1>6, <1>7 DEF Next

\* A sketch is refused for a rule if and only if it breaks one: a distribution
\* with two origins, a duplicate edge, an edge between kinds that do not connect.
THEOREM RulesEnforced == Spec => []RejectsExactlyInvalid
<1>1. PlanInv /\ RulesInv => RejectsExactlyInvalid
  <2> SUFFICES ASSUME PlanInv, RulesInv PROVE RejectsExactlyInvalid
    OBVIOUS
  <2>1. ASSUME phase \in {"ok", "cycle"} PROVE ValidInput
    <3>1. Distinct(input.nodes) /\ Read = Len(input.edges)
      BY <2>1 DEF PlanInv, PhaseInv, Read
    <3> QED
      BY <2>1, <3>1, AllEdges DEF RulesInv
  <2> QED
    BY <2>1 DEF RulesInv, RejectsExactlyInvalid
<1> QED
  BY <1>1, PlanInvInit, PlanInvNext, RulesInvInit, RulesInvNext, PTL DEF Spec

=============================================================================
