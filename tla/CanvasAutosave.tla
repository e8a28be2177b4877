---------------------------- MODULE CanvasAutosave ----------------------------
(***************************************************************************)
(* The autosave of the editor (client/src/components/graph/GraphEditor.tsx *)
(* and canvasState.ts): edits arm a debounce timer, the timer queues a     *)
(* snapshot of the canvas, and a queued snapshot is stored by sending the  *)
(* difference to the snapshot stored last, in six batches of concurrent    *)
(* requests.  The server answers each request in one step; what guards it  *)
(* is modelled in SketchLifecycle and SketchGraph.                         *)
(***************************************************************************)
EXTENDS Naturals, Sequences, FiniteSets

CONSTANTS
    Node, Edge,     \* identifiers the client gives to nodes and edges
    Ends,           \* source and target of each edge
    Live,           \* nodes with a deployed resource
    FirstNodes,     \* nodes of the sketch when the editor opens
    Setting,        \* what the form of a node may hold
    Refused,        \* the settings buildResourceRequest throws at, as that of a new server
    Normal,         \* what buildResourceRequest keeps of a setting
    FirstSetting,   \* of a node when it is loaded, or added with the defaults of its service
    Faulty,         \* whether a request or its answer may be lost
    Reloads,        \* whether the editor loads the sketch again while open
    MaxEdits,       \* bound on the edits of the user
    MaxQueue,       \* bound on the snapshots in the queue
    MaxCopies       \* bound on the copies of a request that failed saves have left on their way

AutosaveAssumption ==
    /\ Ends \in [Edge -> Node \X Node]
    /\ Live \subseteq FirstNodes /\ FirstNodes \subseteq Node
    /\ Refused \subseteq Setting /\ Normal \in [Setting -> Setting]
    /\ FirstSetting \in [Node -> Setting] /\ \A n \in Live : FirstSetting[n] \notin Refused
    /\ Faulty \in BOOLEAN /\ Reloads \in BOOLEAN
    /\ MaxEdits \in Nat /\ MaxQueue \in Nat /\ MaxCopies \in Nat

VARIABLES
    canvas,     \* currentCanvas: what the user sees
    baseline,   \* persistedCanvas: what the client takes the server to hold
    server,     \* the stored nodes and edges
    timer,      \* the debounce timer is running
    queue,      \* autoSaveQueue: snapshots still to be stored
    save,       \* the call of persistCanvas that is running
    flight,     \* requests the server has not handled, and how often each was sent
    answer,     \* what the last call of persistCanvas returned
    loading,    \* the sketch a reload has read and not yet shown
    edits       \* number of edits so far

vars == <<canvas, baseline, server, timer, queue, save, flight, answer, loading, edits>>

\* A node has a place and a setting of its own; its config also refers to the
\* nodes attached to it (syncEc2Bindings), so a new edge changes it.
Place == 0..1
Config == Setting \X SUBSET Node
Snapshot == [nodes : SUBSET Node, edges : SUBSET Edge,
           place : [Node -> Place], config : [Node -> Config]]

Attached(E, n) == {Ends[e][1] : e \in {e \in E : Ends[e][2] = n}}
syncEc2Bindings(config, E) == [n \in Node |-> <<config[n][1], Attached(E, n)>>]

Op == [kind : {"deleteEdge", "deleteNode", "createEdge"}, id : Node \cup Edge]
      \cup [kind : {"createNode", "moveNode", "updateNode"}, id : Node, place : Place, config : Config]

NoSave == [active |-> FALSE]
\* batches are those still to be sent, wait the requests of the current one.
Save == [active : {TRUE}, desired : Snapshot, batches : Seq(SUBSET Op), wait : SUBSET Op]

FirstCanvas ==
    [nodes |-> FirstNodes, edges |-> {}, place |-> [n \in Node |-> 0],
     config |-> [n \in Node |-> <<FirstSetting[n], {}>>]]

TypeOK ==
    /\ canvas \in Snapshot /\ baseline \in Snapshot /\ server \in Snapshot
    /\ timer \in BOOLEAN
    /\ queue \in Seq(Snapshot) /\ Len(queue) <= MaxQueue
    /\ IF save.active THEN save \in Save ELSE save = NoSave
    /\ DOMAIN flight \subseteq Op /\ \A o \in DOMAIN flight : flight[o] \in 1..MaxCopies
    /\ answer \in {"none", "saved", "failed"}
    /\ loading \in Seq(Snapshot) /\ Len(loading) <= 1
    /\ edits \in 0..MaxEdits

Init ==
    /\ canvas = FirstCanvas /\ baseline = FirstCanvas /\ server = FirstCanvas
    /\ timer = FALSE
    /\ queue = <<>>
    /\ save = NoSave
    /\ flight = <<>>
    /\ answer = "none"
    /\ loading = <<>>
    /\ edits = 0

-----------------------------------------------------------------------------
(* The user.  Undo and redo bring an earlier canvas back by the same steps.  *)

Shown(c) ==
    /\ canvas' = c
    /\ timer' = TRUE
Edit(c) ==
    /\ edits < MaxEdits
    /\ edits' = edits + 1
    /\ Shown(c)
    /\ UNCHANGED <<baseline, server, queue, save, flight, answer, loading>>

AddNode(n) ==
    /\ n \notin canvas.nodes
    /\ Edit([canvas EXCEPT !.nodes = @ \cup {n}, !.place[n] = 0, !.config[n] = <<FirstSetting[n], {}>>])

RemoveNode(n) ==
    LET E == {e \in canvas.edges : n \notin {Ends[e][1], Ends[e][2]}} IN
    /\ n \in canvas.nodes
    /\ Edit([canvas EXCEPT !.nodes = @ \ {n}, !.edges = E, !.config = syncEc2Bindings(@, E)])

\* isValidConnection: both ends are there and not attached to each other yet.
Connect(e) ==
    LET E == canvas.edges \cup {e} IN
    /\ {Ends[e][1], Ends[e][2]} \subseteq canvas.nodes
    /\ \A f \in canvas.edges : Ends[f] # Ends[e]
    /\ Edit([canvas EXCEPT !.edges = E, !.config = syncEc2Bindings(@, E)])

Disconnect(e) ==
    LET E == canvas.edges \ {e} IN
    /\ e \in canvas.edges
    /\ Edit([canvas EXCEPT !.edges = E, !.config = syncEc2Bindings(@, E)])

Configure(n) ==
    /\ n \in canvas.nodes
    /\ \E s \in Setting \ {canvas.config[n][1]} : Edit([canvas EXCEPT !.config[n][1] = s])

Move(n) ==
    /\ n \in canvas.nodes
    /\ Edit([canvas EXCEPT !.place[n] = 1 - @])

\* Half a second after the last edit, and before a publish or a save without
\* waiting for the timer, the canvas is queued.
Enqueue ==
    /\ Len(queue) < MaxQueue
    /\ queue' = Append(queue, canvas)
    /\ UNCHANGED <<canvas, baseline, server, save, flight, answer, loading, edits>>

Debounce == timer /\ timer' = FALSE /\ Enqueue
Flush == canvas # baseline /\ UNCHANGED timer /\ Enqueue

-----------------------------------------------------------------------------
(* persistCanvas and diffCanvas.                                            *)

Request(kind, id) == [kind |-> kind, id |-> id]
NodeRequest(kind, n, c) == [kind |-> kind, id |-> n, place |-> c.place[n], config |-> c.config[n]]

\* The batches, in the order in which they are sent.
\* Mutant: nodes go before the edges between them.
diffCanvasNodesFirst(b, d) ==
    LET kept == b.nodes \cap d.nodes IN
    <<{Request("deleteNode", n) : n \in b.nodes \ d.nodes},
      {Request("deleteEdge", e) : e \in b.edges \ d.edges},
      {NodeRequest("createNode", n, d) : n \in d.nodes \ b.nodes},
      {Request("createEdge", e) : e \in d.edges \ b.edges},
      {NodeRequest("moveNode", n, d) : n \in {n \in kept : b.place[n] # d.place[n]}},
      {NodeRequest("updateNode", n, d) : n \in {n \in kept : b.config[n] # d.config[n]}}>>
diffCanvas(b, d) ==
    LET kept == b.nodes \cap d.nodes IN
    <<{Request("deleteEdge", e) : e \in b.edges \ d.edges},
      {Request("deleteNode", n) : n \in b.nodes \ d.nodes},
      {NodeRequest("createNode", n, d) : n \in d.nodes \ b.nodes},
      {Request("createEdge", e) : e \in d.edges \ b.edges},
      {NodeRequest("moveNode", n, d) : n \in {n \in kept : b.place[n] # d.place[n]}},
      {NodeRequest("updateNode", n, d) : n \in {n \in kept : b.config[n] # d.config[n]}}>>

Unchanged(b, d) == \A k \in 1..6 : diffCanvas(b, d)[k] = {}

\* What is on its way when more is sent.
Sending(ops) ==
    [o \in DOMAIN flight \cup ops |->
        (IF o \in DOMAIN flight THEN flight[o] ELSE 0) + (IF o \in ops THEN 1 ELSE 0)]

SaveStart ==
    /\ ~save.active
    /\ queue # <<>>
    /\ \A o \in DOMAIN flight : flight[o] < MaxCopies
    /\ queue' = Tail(queue)
    /\ IF Unchanged(baseline, Head(queue))
       THEN answer' = "saved" /\ UNCHANGED <<save, flight>>
       ELSE LET first == diffCanvas(baseline, Head(queue))[1] IN
            /\ save' = [active |-> TRUE, desired |-> Head(queue),
                        batches |-> Tail(diffCanvas(baseline, Head(queue))), wait |-> first]
            /\ flight' = Sending(first)
            /\ UNCHANGED answer
    /\ UNCHANGED <<canvas, baseline, server, timer, loading, edits>>

\* All requests of a batch have been answered with success.
SaveNextBatch ==
    /\ save.active
    /\ save.wait = {} /\ save.batches # <<>>
    /\ save' = [save EXCEPT !.batches = Tail(@), !.wait = Head(save.batches)]
    /\ flight' = Sending(Head(save.batches))
    /\ UNCHANGED <<canvas, baseline, server, timer, queue, answer, loading, edits>>

\* Mutant: the canvas has moved on, but is taken as stored.
StoredAsShown == canvas
Stored == save.desired

SaveDone ==
    /\ save.active
    /\ save.wait = {} /\ save.batches = <<>>
    /\ baseline' = Stored
    /\ save' = NoSave
    /\ answer' = "saved"
    /\ UNCHANGED <<canvas, server, timer, queue, flight, loading, edits>>

-----------------------------------------------------------------------------
(* The server, and the answer on its way back.                              *)

\* updateSketchNode compares the config with the stored one.  It refuses a change of
\* a deployed node, and a config that is not complete; of any other it stores what
\* buildResourceRequest keeps, where createSketchNode stores what is sent.
SameAsStored(o) == o.config = server.config[o.id]
Kept(config) == <<Normal[config[1]], config[2]>>

\* Which requests the handlers accept.
\* Mutant: updateSketchNode does not look at the node's resource.
AcceptsAnyConfig(o) ==
    CASE o.kind = "deleteEdge" -> o.id \in server.edges
      [] o.kind = "deleteNode" -> o.id \in server.nodes \ Live
      [] o.kind = "createNode" -> o.id \notin server.nodes
      [] o.kind = "createEdge" -> /\ {Ends[o.id][1], Ends[o.id][2]} \subseteq server.nodes
                                  /\ \A f \in server.edges : Ends[f] # Ends[o.id]
      [] o.kind = "moveNode"   -> o.id \in server.nodes
      [] o.kind = "updateNode" -> o.id \in server.nodes /\ (SameAsStored(o) \/ o.config[1] \notin Refused)
Accepts(o) ==
    CASE o.kind = "deleteEdge" -> o.id \in server.edges
      [] o.kind = "deleteNode" -> o.id \in server.nodes \ Live
      [] o.kind = "createNode" -> o.id \notin server.nodes
      [] o.kind = "createEdge" -> /\ {Ends[o.id][1], Ends[o.id][2]} \subseteq server.nodes
                                  /\ \A f \in server.edges : Ends[f] # Ends[o.id]
      [] o.kind = "moveNode"   -> o.id \in server.nodes
      [] o.kind = "updateNode" -> o.id \in server.nodes
                                  /\ \/ SameAsStored(o)
                                     \/ o.id \notin Live /\ o.config[1] \notin Refused

\* Deleting a node takes its edges along.
After(o) ==
    CASE o.kind = "deleteEdge" -> [server EXCEPT !.edges = @ \ {o.id}]
      [] o.kind = "deleteNode" -> [server EXCEPT !.nodes = @ \ {o.id},
                                                 !.edges = {e \in @ : o.id \notin {Ends[e][1], Ends[e][2]}}]
      [] o.kind = "createNode" -> [server EXCEPT !.nodes = @ \cup {o.id},
                                                 !.place[o.id] = o.place, !.config[o.id] = o.config]
      [] o.kind = "createEdge" -> [server EXCEPT !.edges = @ \cup {o.id}]
      [] o.kind = "moveNode"   -> [server EXCEPT !.place[o.id] = o.place]
      [] o.kind = "updateNode" -> [server EXCEPT !.place[o.id] = o.place,
                                                 !.config[o.id] = IF SameAsStored(o) THEN @ ELSE Kept(o.config)]

\* Promise.all: the first failure ends the call of persistCanvas, the other
\* requests of the batch go on, and nobody waits for their answers.
Awaited(o) == save.active /\ o \in save.wait
Answered(o, ok) ==
    IF ok THEN save' = [save EXCEPT !.wait = @ \ {o}] /\ UNCHANGED answer
          ELSE save' = NoSave /\ answer' = "failed"

\* One copy of a request arrives, the one a save waits for or one of a failed save.
Arrives(o, awaited) ==
    /\ IF awaited THEN Awaited(o) ELSE flight[o] > (IF Awaited(o) THEN 1 ELSE 0)
    /\ flight' = [r \in {r \in DOMAIN flight : r # o \/ flight[r] > 1} |->
                    IF r = o THEN flight[r] - 1 ELSE flight[r]]

Handle(o, awaited) ==
    /\ Arrives(o, awaited)
    /\ server' = IF Accepts(o) THEN After(o) ELSE server
    /\ IF awaited THEN Answered(o, Accepts(o)) ELSE UNCHANGED <<save, answer>>
    /\ UNCHANGED <<canvas, baseline, timer, queue, loading, edits>>

\* The request, or only its answer, is lost.
Lose(o, awaited) ==
    /\ Faulty
    /\ Arrives(o, awaited)
    /\ \/ UNCHANGED server
       \/ Accepts(o) /\ server' = After(o)
    /\ IF awaited THEN Answered(o, FALSE) ELSE UNCHANGED <<save, answer>>
    /\ UNCHANGED <<canvas, baseline, timer, queue, loading, edits>>

\* reloadSketch and loadSketch, after a publish or a deletion of resources: what
\* the server held becomes the canvas, and the snapshot to compare with.
ReloadRead ==
    /\ Reloads
    /\ loading = <<>>
    /\ loading' = <<server>>
    /\ UNCHANGED <<canvas, baseline, server, timer, queue, save, flight, answer, edits>>

ReloadShow ==
    /\ loading # <<>>
    /\ Shown(loading[1])
    /\ baseline' = loading[1]
    /\ loading' = <<>>
    /\ UNCHANGED <<server, queue, save, flight, answer, edits>>

-----------------------------------------------------------------------------
Editing ==
    \/ \E n \in Node : AddNode(n) \/ RemoveNode(n) \/ Configure(n) \/ Move(n)
    \/ \E e \in Edge : Connect(e) \/ Disconnect(e)
Saving == SaveStart \/ SaveNextBatch \/ SaveDone
Handling == \E o \in DOMAIN flight, awaited \in BOOLEAN : Handle(o, awaited)
Losing == \E o \in DOMAIN flight, awaited \in BOOLEAN : Lose(o, awaited)

Next == Editing \/ Debounce \/ Flush \/ Saving \/ Handling \/ Losing \/ ReloadRead \/ ReloadShow

Spec == Init /\ [][Next]_vars

-----------------------------------------------------------------------------
(* Properties.                                                              *)

\* The server has c, with the configs as they were sent or as they are kept, but for
\* some nodes and edges and what is attached to those.
MatchesBut(c, but) ==
    /\ \A n \in Node \ but :
          /\ n \in server.nodes <=> n \in c.nodes
          /\ n \in c.nodes => /\ server.place[n] = c.place[n]
                             /\ server.config[n] \in {c.config[n], Kept(c.config[n])}
    /\ \A e \in Edge : but \cap {e, Ends[e][1], Ends[e][2]} = {} => (e \in server.edges <=> e \in c.edges)

\* A save fails, and what it had sent by then.
SaveFails == save.active /\ ~save'.active /\ answer' = "failed"
Sent ==
    {o.id : o \in UNION {diffCanvas(baseline, save.desired)[k] : k \in 1..(6 - Len(save.batches))}}

\* Once the user stops editing, the server gets the canvas and keeps it, if no
\* config is ever sent that updateSketchNode refuses.
EventuallyStored ==
    [](\A o \in DOMAIN flight : o.kind = "updateNode" => o.config[1] \notin Refused)
        => <>[]MatchesBut(canvas, {})

\* Whatever is sent, lost, repeated or overtaken, stored edges join stored nodes,
\* no two of them the same ones, and a deployed node keeps its config.
StoredGraphSound ==
    /\ \A e \in server.edges : {Ends[e][1], Ends[e][2]} \subseteq server.nodes
    /\ \A e, f \in server.edges : Ends[e] = Ends[f] => e = f
    /\ Live \subseteq server.nodes
    /\ \A n \in Live : server.config[n] = FirstCanvas.config[n]
=============================================================================
