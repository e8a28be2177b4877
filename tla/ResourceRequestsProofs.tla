----------------------- MODULE ResourceRequestsProofs -----------------------
(***************************************************************************)
(* What the state of a publish says while its resources have their turns:  *)
(* whoever had its turn is configured with what its sources are now.       *)
(***************************************************************************)
EXTENDS ResourceRequests, TLAPS

\* The outputs in f are those of the instance AWS has for n.
OutputsOf(f, n) == \A o \in DOMAIN f : f[o] = cloud[n]

RowsTyped ==
    /\ row = [n \in Node |-> row[n]]
    /\ \A n \in Node : DOMAIN row[n] = {"status", "outputs", "desired"}
    /\ cloud = [n \in Node |-> cloud[n]]
PubTyped ==
    pub = [active |-> TRUE, todo |-> pub.todo, row |-> pub.row, name |-> pub.name,
           outputsByNode |-> pub.outputsByNode]

\* While a publish runs, whoever had its turn is configured with what its sources
\* are now, and they had theirs before; whoever waits is configured as it was.
PublishInv ==
    /\ PubTyped
    /\ pub.outputsByNode = [n \in Node |-> pub.outputsByNode[n]]
    /\ \A n \in Node : OutputsOf(pub.outputsByNode[n], n)
    /\ \A n \in pub.todo : n \in Node /\ row[n].desired = pub.row[n].desired
    /\ \A n \in Node \ pub.todo : \A s \in Sources(n) : s \notin pub.todo /\ row[n].desired.refs[s] = cloud[s]
RequestsInv ==
    /\ RowsTyped
    /\ \A n \in Node : row[n].status \in {"RUNNING", "PROVISIONING"} => OutputsOf(row[n].outputs, n)
    /\ pub.active => PublishInv

\* No publish is running at first, and no resource.
LEMMA Starts == Init => RequestsInv
BY DEF Init, RequestsInv, RowsTyped, NoRow, NoPub

\* What a node is configured with, when it is its turn, is what its sources are now.
LEMMA ResolvedIsCurrent ==
    ASSUME RequestsAssumption, RequestsInv, NEW n \in Node, Turn(n), Resolvable(n, Known(n))
    PROVE  /\ \A m \in Node : OutputsOf(Known(n)[m], m)
           /\ Known(n) = [m \in Node |-> Known(n)[m]]
           /\ \A s \in Sources(n) : Resolved(n, Known(n))[s] = cloud[s]
<1>1. \A m \in Node : OutputsOf(pub.outputsByNode[m], m)
  BY DEF RequestsInv, PublishInv, Turn
<1>2. ASSUME NEW m \in Node PROVE OutputsOf(Known(n)[m], m)
  <2>1. CASE m \in Sources(n)
    <3>1. Known(n)[m] = Merge(pub.outputsByNode[m], Details(m))
      BY <2>1 DEF Known
    <3>2. \A o \in DOMAIN Details(m) : Details(m)[o] = cloud[m]
      BY DEF Details, Valued
    <3>3. OutputsOf(Merge(pub.outputsByNode[m], Details(m)), m)
      BY <1>1, <3>2 DEF Merge, OutputsOf
    <3> QED BY <3>1, <3>3
  <2>2. CASE m \notin Sources(n)
    BY <1>1, <2>2 DEF Known
  <2> QED BY <2>1, <2>2
<1>3. Known(n) = [m \in Node |-> Known(n)[m]]
  BY DEF Known
<1>4. ASSUME NEW s \in Sources(n) PROVE Resolved(n, Known(n))[s] = cloud[s]
  <2>1. s \in Node
    BY DEF Sources
  <2>2. RefOutput[Service[s]] \in DOMAIN Known(n)[s]
    BY DEF Resolvable
  <2> QED BY <1>2, <2>1, <2>2 DEF Resolved, OutputsOf
<1> QED BY <1>2, <1>3, <1>4

LEMMA RequestsStep == RequestsAssumption /\ RequestsInv /\ [Next]_vars => RequestsInv' /\ AppliesCurrent
<1> SUFFICES ASSUME RequestsAssumption, RequestsInv, [Next]_vars PROVE RequestsInv' /\ AppliesCurrent
  OBVIOUS
<1>r. RowsTyped
  BY DEF RequestsInv
\* A publish ends, or nothing changes.
<1>e. ASSUME pub' = NoPub, UNCHANGED <<row, cloud>> PROVE RequestsInv'
  BY <1>e DEF RequestsInv, RowsTyped, NoPub, OutputsOf
<1>1. CASE PublishStart
  <2>1. /\ ~pub.active /\ UNCHANGED <<row, cloud>>
        /\ pub'.active /\ pub'.todo = Node /\ pub'.row = row
        /\ pub'.outputsByNode = [n \in Node |-> IF row[n].status = "RUNNING" THEN row[n].outputs ELSE <<>>]
        /\ PubTyped'
    BY <1>1 DEF PublishStart, PubTyped
  <2>2. \A n \in Node : OutputsOf(pub.outputsByNode[n], n)'
    BY <2>1 DEF RequestsInv, OutputsOf
  <2>3. PublishInv'
    BY <2>1, <2>2 DEF PublishInv
  <2> QED BY <2>1, <2>3, <1>r DEF RequestsInv, RowsTyped, OutputsOf, AppliesCurrent
<1>2. CASE PublishDone
  <2>1. RequestsInv' /\ pub.active /\ pub.todo = {} /\ row' = row /\ cloud' = cloud
    BY <1>2, <1>e DEF PublishDone, End
  <2>2. AppliesCurrent
    <3> SUFFICES ASSUME NEW e \in Edge PROVE row[e[2]].desired.refs[e[1]] = cloud[e[1]]
      BY DEF AppliesCurrent
    <3>1. e[1] \in Node /\ e[2] \in Node /\ e = <<e[1], e[2]>>
      BY DEF RequestsAssumption
    <3>2. e[1] \in Sources(e[2])
      BY <3>1 DEF Sources
    <3> QED BY <2>1, <3>1, <3>2 DEF RequestsInv, PublishInv
  <2> QED BY <2>1, <2>2
\* The node whose turn it is gets a row, configured with what its sources are.
<1>d. ASSUME NEW n \in Node, Turn(n), RowsTyped',
             \A m \in Node \ {n} : row'[m] = row[m] /\ cloud'[m] = cloud[m],
             row'[n].status \in {"RUNNING", "PROVISIONING"} => OutputsOf(row[n].outputs, n)',
             \A s \in Sources(n) : row'[n].desired.refs[s] = cloud[s],
             NEW outs, Done(n, outs), outs = [m \in Node |-> outs[m]], \A m \in Node : \A o \in DOMAIN outs[m] : outs[m][o] = cloud'[m]
      PROVE  RequestsInv' /\ AppliesCurrent
  <2>1. /\ PubTyped' /\ pub'.active /\ pub'.todo = pub.todo \ {n} /\ pub'.row = pub.row
        /\ pub'.outputsByNode = outs
    BY <1>d DEF RequestsInv, PublishInv, PubTyped, Turn, Done
  <2>2. \A m \in Node : OutputsOf(pub.outputsByNode[m], m)'
    BY <1>d, <2>1 DEF OutputsOf
  <2>3. \A m \in pub'.todo : m \in Node /\ row'[m].desired = pub'.row[m].desired
    BY <1>d, <2>1 DEF RequestsInv, PublishInv, Turn
  <2>4. ASSUME NEW m \in Node \ pub'.todo, NEW s \in Sources(m)
        PROVE  s \notin pub'.todo /\ row'[m].desired.refs[s] = cloud'[s]
    <3>0. s \in Node /\ n \in pub.todo
      BY <1>d DEF Sources, Turn
    <3>1. CASE m = n
      BY <1>d, <2>1, <3>0, <3>1 DEF Turn
    <3>2. CASE m # n
      BY <1>d, <2>1, <2>4, <3>0, <3>2 DEF RequestsInv, PublishInv, Turn
    <3> QED BY <3>1, <3>2
  <2>5. PublishInv'
    BY <1>d, <2>1, <2>2, <2>3, <2>4 DEF PublishInv, Sources
  <2>6. \A m \in Node : row'[m].status \in {"RUNNING", "PROVISIONING"} => OutputsOf(row[m].outputs, m)'
    BY <1>d DEF RequestsInv, OutputsOf
  <2> QED BY <1>d, <2>1, <2>5, <2>6 DEF RequestsInv, AppliesCurrent
<1>3. ASSUME NEW n \in Node, PublishUnresolved(n) \/ PublishConflict(n) PROVE RequestsInv' /\ AppliesCurrent
  BY <1>3, <1>e DEF PublishUnresolved, PublishConflict, End, AppliesCurrent
<1>4. ASSUME NEW n \in Node, PublishSkip(n) PROVE RequestsInv' /\ AppliesCurrent
  <2>1. /\ Turn(n) /\ Resolvable(n, Known(n)) /\ Done(n, Known(n)) /\ UNCHANGED <<row, cloud>>
        /\ pub.row[n].desired = buildResourceRequest(n, Known(n))
    BY <1>4 DEF PublishSkip, SameConfig
  <2>2. PICK outs : outs = Known(n)
    OBVIOUS
  <2>3. /\ \A m \in Node : OutputsOf(outs[m], m)
        /\ outs = [m \in Node |-> outs[m]]
        /\ \A s \in Sources(n) : Resolved(n, outs)[s] = cloud[s]
    BY <2>1, <2>2, ResolvedIsCurrent
  <2>4. \A s \in Sources(n) : row'[n].desired.refs[s] = cloud[s]
    BY <2>1, <2>2, <2>3 DEF RequestsInv, PublishInv, Turn, buildResourceRequest
  <2>5. \A m \in Node : \A o \in DOMAIN outs[m] : outs[m][o] = cloud'[m]
    BY <2>1, <2>3 DEF OutputsOf
  <2>6. RowsTyped' /\ (row'[n].status \in {"RUNNING", "PROVISIONING"} => OutputsOf(row[n].outputs, n)')
    BY <2>1 DEF RequestsInv, RowsTyped, OutputsOf
  <2> QED BY <1>d, <2>1, <2>2, <2>3, <2>4, <2>5, <2>6
<1>5. ASSUME NEW n \in Node, PublishUpdate(n) PROVE RequestsInv' /\ AppliesCurrent
  <2>1. PICK outs : outs = Known(n)
    OBVIOUS
  <2>2. PICK c : c = buildResourceRequest(n, outs)
    OBVIOUS
  <2>3. PICK d : d = Details(n)
    OBVIOUS
  <2> DEFINE r == [row[n] EXCEPT !.desired = Stored(c), !.outputs = d, !.status = FirstStatus(n)]
  <2>4. /\ Turn(n) /\ Resolvable(n, Known(n)) /\ Done(n, [outs EXCEPT ![n] = d]) /\ cloud' = cloud
        /\ row' = [row EXCEPT ![n] = r]
    BY <1>5, <2>1, <2>2, <2>3, <1>r DEF PublishUpdate, RowsTyped
  <2>5. /\ \A m \in Node : OutputsOf(outs[m], m)
        /\ outs = [m \in Node |-> outs[m]]
        /\ \A s \in Sources(n) : Resolved(n, outs)[s] = cloud[s]
    BY <2>1, <2>4, ResolvedIsCurrent
  <2>6. /\ r.outputs = d /\ r.desired = Stored(c)
        /\ DOMAIN r = {"status", "outputs", "desired"}
    BY <1>r DEF RowsTyped
  <2>7. Stored(c).refs = Resolved(n, outs)
    BY <2>2 DEF Stored, buildResourceRequest
  <2>8. \A o \in DOMAIN d : d[o] = cloud[n]
    BY <2>3 DEF Details, Valued
  <2>9. r.outputs = d /\ r.desired.refs = Resolved(n, outs) /\ DOMAIN r = {"status", "outputs", "desired"}
    BY <2>6, <2>7
  <2> HIDE DEF r
  <2>10. RowsTyped' /\ row'[n] = r /\ \A m \in Node \ {n} : row'[m] = row[m] /\ cloud'[m] = cloud[m]
    BY <1>r, <2>4, <2>9 DEF RowsTyped
  <2>11. OutputsOf(row[n].outputs, n)'
    BY <2>4, <2>8, <2>9, <2>10 DEF OutputsOf
  <2> DEFINE next == [outs EXCEPT ![n] = d]
  <2>12. next = [m \in Node |-> next[m]] /\ \A m \in Node : \A o \in DOMAIN next[m] : next[m][o] = cloud'[m]
    BY <2>4, <2>5, <2>8 DEF OutputsOf
  <2> HIDE DEF next
  <2>13. Done(n, next)
    BY <2>4 DEF next
  <2>14. \A s \in Sources(n) : row'[n].desired.refs[s] = cloud[s]
    BY <2>5, <2>9, <2>10
  <2>15. PICK known : known = next
    OBVIOUS
  <2> QED BY <1>d, <2>4, <2>10, <2>11, <2>12, <2>13, <2>14, <2>15
<1>6. ASSUME NEW n \in Node, PublishCreate(n) PROVE RequestsInv' /\ AppliesCurrent
  <2>1. PICK outs : outs = Known(n)
    OBVIOUS
  <2>2. PICK c : c = buildResourceRequest(n, outs)
    OBVIOUS
  <2>3. PICK v : v = IF Numbered(n) THEN made + 1 ELSE pub.name[n]
    OBVIOUS
  <2>4. PICK d : d = Valued(CreateOutputs[Service[n]], v)
    OBVIOUS
  <2> DEFINE r == [status |-> FirstStatus(n), outputs |-> d, desired |-> Stored(c)]
             next == [outs EXCEPT ![n] = d]
  <2>5. /\ Turn(n) /\ Resolvable(n, Known(n)) /\ Done(n, next)
        /\ cloud' = [cloud EXCEPT ![n] = v] /\ row' = [row EXCEPT ![n] = r]
    BY <1>6, <2>1, <2>2, <2>3, <2>4 DEF PublishCreate
  <2>6. /\ \A m \in Node : OutputsOf(outs[m], m)
        /\ outs = [m \in Node |-> outs[m]]
        /\ \A s \in Sources(n) : Resolved(n, outs)[s] = cloud[s]
    BY <2>1, <2>5, ResolvedIsCurrent
  <2>7. Stored(c).refs = Resolved(n, outs)
    BY <2>2 DEF Stored, buildResourceRequest
  <2>8. \A o \in DOMAIN d : d[o] = v
    BY <2>4 DEF Valued
  <2>9. r.outputs = d /\ r.desired.refs = Resolved(n, outs) /\ DOMAIN r = {"status", "outputs", "desired"}
    BY <2>7
  <2> HIDE DEF r
  <2>10. /\ RowsTyped' /\ row'[n] = r /\ cloud'[n] = v
         /\ \A m \in Node \ {n} : row'[m] = row[m] /\ cloud'[m] = cloud[m]
    BY <1>r, <2>5, <2>9 DEF RowsTyped
  <2>11. OutputsOf(row[n].outputs, n)'
    BY <2>8, <2>9, <2>10 DEF OutputsOf
  <2>12. next = [m \in Node |-> next[m]] /\ \A m \in Node : \A o \in DOMAIN next[m] : next[m][o] = cloud'[m]
    BY <2>6, <2>8, <2>10 DEF OutputsOf
  <2> HIDE DEF next
  <2>13. \A s \in Sources(n) : row'[n].desired.refs[s] = cloud[s]
    BY <2>6, <2>9, <2>10
  <2>14. PICK known : known = next
    OBVIOUS
  <2> QED BY <1>d, <2>5, <2>10, <2>11, <2>12, <2>13, <2>14
<1>7. ASSUME NEW n \in Node, Refresh(n) PROVE RequestsInv' /\ AppliesCurrent
  <2>1. PICK d : d = Details(n)
    OBVIOUS
  <2> DEFINE r == [row[n] EXCEPT !.status = "RUNNING", !.outputs = d]
  <2>2. row' = [row EXCEPT ![n] = r] /\ cloud' = cloud /\ pub' = pub
    BY <1>7, <2>1, <1>r DEF Refresh, RowsTyped
  <2>4. r.outputs = d /\ r.desired = row[n].desired /\ DOMAIN r = {"status", "outputs", "desired"}
    BY <1>r DEF RowsTyped
  <2>5. \A o \in DOMAIN d : d[o] = cloud[n]
    BY <2>1 DEF Details, Valued
  <2> HIDE DEF r
  <2>6. /\ RowsTyped' /\ row'[n] = r /\ \A m \in Node : row'[m].desired = row[m].desired
        /\ \A m \in Node \ {n} : row'[m] = row[m]
    BY <1>r, <2>2, <2>4 DEF RowsTyped
  <2>7. \A m \in Node : row'[m].status \in {"RUNNING", "PROVISIONING"} => OutputsOf(row[m].outputs, m)'
    BY <2>2, <2>4, <2>5, <2>6 DEF RequestsInv, OutputsOf
  <2>8. pub'.active => PublishInv'
    BY <2>2, <2>6 DEF RequestsInv, PublishInv, PubTyped, OutputsOf, Sources
  <2> QED BY <2>2, <2>6, <2>7, <2>8 DEF RequestsInv, AppliesCurrent
<1>8. ASSUME NEW n \in Node, Delete(n) PROVE RequestsInv' /\ AppliesCurrent
  <2> DEFINE r == [row[n] EXCEPT !.status = "TERMINATED", !.outputs = <<>>]
  <2>1. row' = [row EXCEPT ![n] = r] /\ cloud' = [cloud EXCEPT ![n] = None] /\ pub' = pub /\ ~pub.active
    BY <1>8, <1>r DEF Delete, RowsTyped
  <2>3. r.status = "TERMINATED" /\ DOMAIN r = {"status", "outputs", "desired"}
    BY <1>r DEF RowsTyped
  <2> HIDE DEF r
  <2>4. RowsTyped' /\ row'[n] = r /\ \A m \in Node \ {n} : row'[m] = row[m] /\ cloud'[m] = cloud[m]
    BY <1>r, <2>1, <2>3 DEF RowsTyped
  <2> QED BY <2>1, <2>3, <2>4 DEF RequestsInv, OutputsOf, AppliesCurrent
<1>9. CASE UNCHANGED <<row, cloud, pub>>
  <2>1. RowsTyped' /\ (pub.active => PublishInv')
    BY <1>9 DEF RequestsInv, RowsTyped, PublishInv, PubTyped, OutputsOf, Sources
  <2>2. \A n \in Node : row'[n].status \in {"RUNNING", "PROVISIONING"} => OutputsOf(row[n].outputs, n)'
    BY <1>9 DEF RequestsInv, OutputsOf
  <2> QED BY <1>9, <2>1, <2>2 DEF RequestsInv, AppliesCurrent
<1> QED BY <1>1, <1>2, <1>3, <1>4, <1>5, <1>6, <1>7, <1>8, <1>9 DEF Next, Rename, vars
=============================================================================
