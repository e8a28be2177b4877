--------------------------- MODULE RequestsProofs ---------------------------
(***************************************************************************)
(* Requests that overlap or get lost, for any number of people, browsers,  *)
(* nodes, edges and graphs.                                                *)
(***************************************************************************)
EXTENDS Requests, Sequences, TLAPS

-----------------------------------------------------------------------------
(* One account for each person and passwords that stay.  The rows and the   *)
(* requests have the address in its one spelling, so the unique index       *)
(* decides between overlapping requests; and the row a request carries has  *)
(* the password the row in the table still has.                             *)

Rows ==
    /\ made \in Nat
    /\ \A u \in user : u \in User /\ u.id < made /\ u.email[2] = "lower"
    /\ \A u, v \in user : u.id = v.id \/ u.email = v.email => u = v
Found(r, rows) ==
    r.found = "somebody" =>
        r.existing \in User /\ \E u \in rows : u.id = r.existing.id /\ u.password = r.existing.password
Pending ==
    [kind : {"signup", "google"}, email : Address, password : Password \cup {NoPassword},
     found : {"unread", "nobody", "somebody"}, existing : User \cup {Idle}]
Waiting ==
    /\ request \in [Browser -> {Idle} \cup Pending]
    /\ \A b \in Browser : request[b] # Idle =>
           /\ request[b].email[2] = "lower"
           /\ request[b].kind = "google" => request[b].password = NoPassword
           /\ Found(request[b], user)
IInv == Rows /\ Waiting

Kept == \A u \in user : \E v \in user' : v.id = u.id /\ v.password = u.password

LEMMA InitIInv == Init => IInv
  BY DEF Init, IInv, Rows, Waiting

\* Normalized addresses are addresses in the one spelling.
LEMMA NormalSpelling == ASSUME NEW e \in Address PROVE Normalized(e) \in Address /\ Normalized(e)[2] = "lower"
  BY SignInAssumption DEF Address, Normalized

\* A browser's request may be replaced by one that is as good.
LEMMA Placed ==
  ASSUME IInv, NEW b \in Browser, NEW q \in Pending, q.email[2] = "lower",
         q.kind = "google" => q.password = NoPassword, Found(q, user),
         user' = user, made' = made, request' = [request EXCEPT ![b] = q]
  PROVE  IInv' /\ Kept
<1>1. Rows' /\ Kept
  BY DEF IInv, Rows, Kept
<1>2. request' \in [Browser -> {Idle} \cup Pending]
  BY DEF IInv, Waiting
<1>3. \A c \in Browser : c # b => request'[c] = request[c]
  BY DEF IInv, Waiting
<1>4. request'[b] = q
  BY DEF IInv, Waiting
<1>5. Waiting'
  BY <1>2, <1>3, <1>4 DEF IInv, Waiting
<1> QED
  BY <1>1, <1>5 DEF IInv

LEMMA AskKeeps ==
  ASSUME IInv, NEW b \in Browser, NEW kind \in {"signup", "google"}, NEW e \in Address,
         NEW p \in Password \cup {NoPassword}, kind = "google" => p = NoPassword, Ask(b, kind, e, p)
  PROVE  IInv' /\ Kept
<1> DEFINE q == [kind |-> kind, email |-> Normalized(e), password |-> p,
                 found |-> "unread", existing |-> Idle]
<1>1. q \in Pending /\ q.email[2] = "lower"
  BY NormalSpelling DEF Pending
<1>2. (q.kind = "google" => q.password = NoPassword) /\ Found(q, user)
  BY DEF Found
<1>3. request' = [request EXCEPT ![b] = q] /\ user' = user /\ made' = made
  BY DEF Ask
<1> HIDE DEF q
<1> QED
  BY <1>1, <1>2, <1>3, Placed

\* An answer leaves the browser idle; the other requests are as they were.
LEMMA AnswerKeeps ==
  ASSUME IInv, NEW b \in Browser, NEW r, Answer(b, r), Rows',
         Kept
  PROVE  Waiting'
<1>1. request' = [request EXCEPT ![b] = Idle]
  BY DEF Answer
<1>2. \A c \in Browser : request'[c] # Idle => request'[c] = request[c]
  BY <1>1 DEF IInv, Waiting
<1>3. ASSUME NEW c \in Browser, request'[c] # Idle
      PROVE  Found(request'[c], user')
  BY <1>2, <1>3 DEF IInv, Waiting, Found, Kept, Rows
<1> QED
  BY <1>1, <1>2, <1>3 DEF IInv, Waiting

LEMMA FindKeeps == ASSUME IInv, NEW b \in Browser, Find(b) PROVE IInv' /\ Kept
<1> DEFINE r == request[b]
<1>1. user' = user /\ made' = made /\ r # Idle
  BY DEF Find
<1>2. r \in Pending /\ r.email[2] = "lower" /\ (r.kind = "google" => r.password = NoPassword)
  BY <1>1 DEF IInv, Waiting
<1>3. CASE Existing(r.email) = {}
  <2> DEFINE q == [r EXCEPT !.found = "nobody"]
  <2>1. q \in Pending /\ q.email = r.email /\ q.kind = r.kind /\ q.password = r.password
    BY <1>2 DEF Pending
  <2>2. Found(q, user)
    BY <1>2 DEF Found, Pending
  <2>3. request' = [request EXCEPT ![b] = q]
    BY <1>3 DEF Find
  <2> HIDE DEF q
  <2> QED
    BY <1>1, <1>2, <2>1, <2>2, <2>3, Placed
<1>4. CASE Existing(r.email) # {}
  <2>1. PICK u \in Existing(r.email) :
          request' = [request EXCEPT ![b].found = "somebody", ![b].existing = u]
    BY <1>4 DEF Find
  <2>2. u \in user /\ u \in User
    BY DEF Existing, IInv, Rows
  <2> DEFINE q == [r EXCEPT !.found = "somebody", !.existing = u]
  <2>3. q \in Pending /\ q.email = r.email /\ q.kind = r.kind /\ q.password = r.password
    BY <1>2, <2>2 DEF Pending
  <2>4. Found(q, user)
    BY <1>2, <2>2 DEF Found, Pending
  <2>5. request' = [request EXCEPT ![b] = q]
    BY <2>1 DEF IInv, Waiting
  <2> HIDE DEF q
  <2> QED
    BY <1>1, <1>2, <2>3, <2>4, <2>5, Placed
<1> QED
  BY <1>3, <1>4

\* The new row has an address that no row has, for rows have one spelling.
LEMMA CreateKeeps == ASSUME IInv, NEW b \in Browser, Create(b) PROVE IInv' /\ Kept
<1> DEFINE r == request[b]
           n == [id |-> made, email |-> r.email, password |-> r.password, provider |-> Provider(r.kind)]
<1>1. user' = user \cup {n} /\ made' = made + 1 /\ Answer(b, "created") /\ ~Taken(r.email) /\ r # Idle
  BY DEF Create
<1>2. n \in User /\ n.email[2] = "lower" /\ n.id = made /\ n.email = r.email
  <2>1. r \in Pending /\ r.email[2] = "lower" /\ made \in Nat
    BY <1>1 DEF IInv, Waiting, Rows
  <2>2. Provider(r.kind) \in {"CREDENTIALS", "GOOGLE"}
    BY DEF Provider
  <2> QED
    BY <2>1, <2>2 DEF User, Pending
<1>3. \A u \in user : u.id # n.id /\ u.email # n.email
  BY <1>1, <1>2 DEF IInv, Rows, Taken, User
<1>4. Kept
  BY <1>1 DEF Kept
<1> HIDE DEF n
<1>5. Rows'
  <2>1. made' \in Nat /\ \A u \in user' : u \in User /\ u.id < made' /\ u.email[2] = "lower"
    BY <1>1, <1>2 DEF IInv, Rows, User
  <2>2. \A u, v \in user' : u.id = v.id \/ u.email = v.email => u = v
    BY <1>1, <1>3 DEF IInv, Rows
  <2> QED
    BY <2>1, <2>2 DEF Rows
<1> QED
  BY <1>1, <1>4, <1>5, AnswerKeeps DEF IInv

\* The updated row has the id, the address and, as it was read, the password.
LEMMA ConfirmKeeps == ASSUME IInv, NEW b \in Browser, Confirm(b) PROVE IInv' /\ Kept
<1> DEFINE r == request[b]
           Upd(u) == IF u.id = r.existing.id
                     THEN [u EXCEPT !.provider = "GOOGLE", !.password = KeptPassword(r)] ELSE u
<1>1. user' = {Upd(u) : u \in user} /\ made' = made /\ Answer(b, "confirmed")
      /\ r.kind = "google" /\ r.found = "somebody"
  BY DEF Confirm
<1>2. r # Idle /\ Found(r, user)
  <2> HIDE DEF r
  <2>1. Idle.kind = "none"
    BY DEF Idle
  <2>2. r # Idle
    BY <1>1, <2>1
  <2> QED
    BY <2>2 DEF IInv, Waiting, r
<1>3. \A u \in user : u.id = r.existing.id => u.password = r.existing.password
  BY <1>1, <1>2 DEF Found, IInv, Rows
<1>4. \A u \in user : /\ Upd(u) \in User /\ Upd(u).id = u.id
                      /\ Upd(u).email = u.email /\ Upd(u).password = u.password
  BY <1>3 DEF IInv, Rows, User, KeptPassword
<1> HIDE DEF Upd
<1>5. Kept
  BY <1>1, <1>4 DEF Kept
<1>6. Rows'
  <2>1. made' \in Nat /\ \A u \in user' : u \in User /\ u.id < made' /\ u.email[2] = "lower"
    BY <1>1, <1>4 DEF IInv, Rows
  <2>2. \A u, v \in user' : u.id = v.id \/ u.email = v.email => u = v
    BY <1>1, <1>4 DEF IInv, Rows
  <2> QED
    BY <2>1, <2>2 DEF Rows
<1> QED
  BY <1>1, <1>5, <1>6, AnswerKeeps DEF IInv

LEMMA RefusedKeeps ==
  ASSUME IInv, NEW b \in Browser, NEW r, Answer(b, r), UNCHANGED <<user, made>> PROVE IInv' /\ Kept
<1>1. Rows' /\ Kept
  BY DEF IInv, Rows, Kept
<1> QED
  BY <1>1, AnswerKeeps DEF IInv

LEMMA NextIInv == IInv /\ [Next]_vars => IInv' /\ Kept
<1> SUFFICES ASSUME IInv, [Next]_vars PROVE IInv' /\ Kept
  OBVIOUS
<1>1. CASE UNCHANGED vars
  BY <1>1 DEF vars, IInv, Rows, Waiting, Found, Kept
<1>2. ASSUME NEW b \in Browser, Find(b) \/ Create(b) \/ Confirm(b) PROVE IInv' /\ Kept
  BY <1>2, FindKeeps, CreateKeeps, ConfirmKeeps
<1>3. ASSUME NEW b \in Browser, SignUpConflict(b) \/ CreateError(b) PROVE IInv' /\ Kept
  BY <1>3, RefusedKeeps DEF SignUpConflict, CreateError
<1>4. ASSUME NEW b \in Browser, NEW e \in Address, googleAuth(b, e) PROVE IInv' /\ Kept
  BY <1>4, AskKeeps DEF googleAuth
<1>5. ASSUME NEW b \in Browser, NEW e \in Address, NEW p \in Password, signUp(b, e, p)
      PROVE  IInv' /\ Kept
  BY <1>5, AskKeeps DEF signUp
<1>6. ASSUME NEW b \in Browser, NEW e \in Address, NEW p \in Password, signIn(b, e, p)
      PROVE  IInv' /\ Kept
  BY <1>6 DEF signIn, IInv, Rows, Waiting, Found, Kept
<1> QED
  BY <1>1, <1>2, <1>3, <1>4, <1>5, <1>6 DEF Next

LEMMA RowsEqual == IInv => OneAccountEach
  BY DEF IInv, Rows, OneAccountEach, Equals, User, Address

\* However requests overlap and addresses are spelled, nobody gets two accounts.
THEOREM EverybodyHasOneAccount == Spec => []OneAccountEach
  BY InitIInv, NextIInv, RowsEqual, PTL DEF Spec

\* No request loses or replaces a password.
THEOREM PasswordsAreKept == Spec => PasswordKept
<1>1. IInv /\ [Next]_vars => [Kept]_vars
  BY NextIInv
<1> QED
  BY <1>1, InitIInv, NextIInv, PTL DEF Spec, PasswordKept, Kept

-----------------------------------------------------------------------------
(* The graph that the saves of an editor leave on the server.               *)

Nodewise == {"createNode", "moveNode", "updateNode"}
Edgewise == {"deleteEdge", "createEdge"}
EditorRequest ==
    [kind : {"deleteNode"}, id : CanvasNode] \cup [kind : Edgewise, id : CanvasEdge]
        \cup [kind : Nodewise, id : CanvasNode, place : Autosave!Place, config : Autosave!Config]
Batch == SUBSET EditorRequest
ActiveSave == [active : {TRUE}, desired : Autosave!Snapshot, batches : Seq(Batch), wait : Batch]

\* Types: what is on its way names a node or an edge, as its kind says.
SavesTyped ==
    /\ canvas \in Autosave!Snapshot /\ baseline \in Autosave!Snapshot /\ server \in Autosave!Snapshot
    /\ queue \in Seq(Autosave!Snapshot)
    /\ save = Autosave!NoSave \/ save \in ActiveSave
    /\ DOMAIN flight \in Batch
    /\ loading \in Seq(Autosave!Snapshot)

SavesInv == SavesTyped /\ Autosave!StoredGraphSound

\* The settings of nodes, and the ends of edges.
LEMMA AutosaveFacts ==
    /\ Live \subseteq CanvasNode
    /\ FirstNodes \subseteq CanvasNode /\ Live \subseteq FirstNodes
    /\ Ends \in [CanvasEdge -> CanvasNode \X CanvasNode]
    /\ \A x \in Setting, N \in SUBSET CanvasNode : <<x, N>> \in Autosave!Config
    /\ 0 \in Autosave!Place /\ \A x \in Autosave!Place : 1 - x \in Autosave!Place
    /\ \A n \in CanvasNode : FirstSetting[n] \in Setting /\ <<FirstSetting[n], {}>> \in Autosave!Config
    /\ \A x \in Setting : Normal[x] \in Setting
BY RequestAssumption DEF Autosave!AutosaveAssumption, Autosave!Place, Autosave!Config

\* A snapshot is known by its four parts.
LEMMA SnapshotParts ==
    ASSUME NEW c \in Autosave!Snapshot
    PROVE  /\ c.nodes \subseteq CanvasNode /\ c.edges \subseteq CanvasEdge
           /\ c.place \in [CanvasNode -> Autosave!Place]
           /\ c.config \in [CanvasNode -> Autosave!Config]
BY DEF Autosave!Snapshot

\* Attaching nodes along edges gives configs.
LEMMA SyncTyped ==
    ASSUME NEW f \in [CanvasNode -> Autosave!Config], NEW E \in SUBSET CanvasEdge
    PROVE  Autosave!syncEc2Bindings(f, E) \in [CanvasNode -> Autosave!Config]
<1>1. ASSUME NEW n \in CanvasNode PROVE <<f[n][1], Autosave!Attached(E, n)>> \in Autosave!Config
  <2>1. f[n][1] \in Setting
    BY DEF Autosave!Config
  <2>2. Autosave!Attached(E, n) \in SUBSET CanvasNode
    <3>1. \A e \in E : Ends[e][1] \in CanvasNode
      BY AutosaveFacts
    <3> QED BY <3>1 DEF Autosave!Attached
  <2> QED BY <2>1, <2>2, AutosaveFacts
<1> QED BY <1>1 DEF Autosave!syncEc2Bindings

\* What an edit makes of a snapshot is a snapshot.
LEMMA EditsTyped ==
    ASSUME NEW c \in Autosave!Snapshot, NEW n \in CanvasNode, NEW E \in SUBSET CanvasEdge
    PROVE  /\ [c EXCEPT !.nodes = @ \cup {n}, !.place[n] = 0, !.config[n] = <<FirstSetting[n], {}>>] \in Autosave!Snapshot
           /\ [c EXCEPT !.nodes = @ \ {n}, !.edges = E, !.config = Autosave!syncEc2Bindings(@, E)] \in Autosave!Snapshot
           /\ [c EXCEPT !.edges = E, !.config = Autosave!syncEc2Bindings(@, E)] \in Autosave!Snapshot
           /\ [c EXCEPT !.place[n] = 1 - @] \in Autosave!Snapshot
<1>0. /\ c = [nodes |-> c.nodes, edges |-> c.edges, place |-> c.place, config |-> c.config]
      /\ c.nodes \subseteq CanvasNode /\ c.edges \subseteq CanvasEdge
      /\ c.place \in [CanvasNode -> Autosave!Place]
      /\ c.config \in [CanvasNode -> Autosave!Config]
  BY DEF Autosave!Snapshot
<1>1. [c EXCEPT !.nodes = @ \cup {n}, !.place[n] = 0, !.config[n] = <<FirstSetting[n], {}>>] \in Autosave!Snapshot
  BY <1>0, AutosaveFacts DEF Autosave!Snapshot
<1>2. Autosave!syncEc2Bindings(c.config, E) \in [CanvasNode -> Autosave!Config]
  BY <1>0, SyncTyped
<1>3. [c EXCEPT !.nodes = @ \ {n}, !.edges = E, !.config = Autosave!syncEc2Bindings(@, E)] \in Autosave!Snapshot
  BY <1>0, <1>2 DEF Autosave!Snapshot
<1>4. [c EXCEPT !.edges = E, !.config = Autosave!syncEc2Bindings(@, E)] \in Autosave!Snapshot
  BY <1>0, <1>2 DEF Autosave!Snapshot
<1>6. [c EXCEPT !.place[n] = 1 - @] \in Autosave!Snapshot
  BY <1>0, AutosaveFacts DEF Autosave!Snapshot
<1> QED BY <1>1, <1>3, <1>4, <1>6

\* So is what another setting makes of it.
LEMMA ConfigureTyped ==
    ASSUME NEW c \in Autosave!Snapshot, NEW n \in CanvasNode, NEW v \in Setting
    PROVE  [c EXCEPT !.config[n][1] = v] \in Autosave!Snapshot
<1>1. /\ c = [nodes |-> c.nodes, edges |-> c.edges, place |-> c.place, config |-> c.config]
      /\ c.nodes \subseteq CanvasNode /\ c.edges \subseteq CanvasEdge
      /\ c.place \in [CanvasNode -> Autosave!Place]
      /\ c.config \in [CanvasNode -> Autosave!Config]
  BY DEF Autosave!Snapshot
<1>2. [c.config[n] EXCEPT ![1] = v] \in Autosave!Config
  <2>1. c.config[n] \in Autosave!Config
    BY <1>1
  <2> QED BY <2>1 DEF Autosave!Config
<1> QED BY <1>1, <1>2 DEF Autosave!Snapshot

\* The batches of a save, in their order.
LEMMA DiffTyped ==
    ASSUME NEW b \in Autosave!Snapshot, NEW d \in Autosave!Snapshot
    PROVE  /\ Autosave!diffCanvas(b, d)[1] \in Batch
           /\ Tail(Autosave!diffCanvas(b, d)) \in Seq(Batch)
<1> DEFINE kept == b.nodes \cap d.nodes
<1>1. {Autosave!Request("deleteEdge", e) : e \in b.edges \ d.edges} \in Batch
  BY SnapshotParts, AutosaveFacts DEF Autosave!Request, Batch, EditorRequest, Nodewise, Edgewise
<1>2. {Autosave!Request("deleteNode", n) : n \in b.nodes \ d.nodes} \in Batch
  BY SnapshotParts, AutosaveFacts DEF Autosave!Request, Batch, EditorRequest, Nodewise, Edgewise
<1>3. {Autosave!NodeRequest("createNode", n, d) : n \in d.nodes \ b.nodes} \in Batch
  BY SnapshotParts, AutosaveFacts DEF Autosave!NodeRequest, Batch, EditorRequest, Nodewise, Edgewise
<1>4. {Autosave!Request("createEdge", e) : e \in d.edges \ b.edges} \in Batch
  BY SnapshotParts, AutosaveFacts DEF Autosave!Request, Batch, EditorRequest, Nodewise, Edgewise
<1>5. {Autosave!NodeRequest("moveNode", n, d) : n \in {n \in kept : b.place[n] # d.place[n]}} \in Batch
  BY SnapshotParts, AutosaveFacts DEF Autosave!NodeRequest, Batch, EditorRequest, Nodewise, Edgewise
<1>6. {Autosave!NodeRequest("updateNode", n, d) : n \in {n \in kept : b.config[n] # d.config[n]}} \in Batch
  BY SnapshotParts, AutosaveFacts DEF Autosave!NodeRequest, Batch, EditorRequest, Nodewise, Edgewise
<1>7. Autosave!diffCanvas(b, d) \in Seq(Batch) /\ Autosave!diffCanvas(b, d)[1] \in Batch
      /\ Autosave!diffCanvas(b, d) # <<>>
  BY <1>1, <1>2, <1>3, <1>4, <1>5, <1>6 DEF Autosave!diffCanvas
<1> QED BY <1>7

\* What an accepted request makes of the stored graph.
LEMMA AfterSound ==
    ASSUME server \in Autosave!Snapshot, Autosave!StoredGraphSound,
           NEW o \in EditorRequest, Autosave!Accepts(o), server' = Autosave!After(o)
    PROVE  (server \in Autosave!Snapshot /\ Autosave!StoredGraphSound)'
<1>0. /\ server = [nodes |-> server.nodes, edges |-> server.edges, place |-> server.place, config |-> server.config]
      /\ server.nodes \subseteq CanvasNode /\ server.edges \subseteq CanvasEdge
      /\ server.place \in [CanvasNode -> Autosave!Place]
      /\ server.config \in [CanvasNode -> Autosave!Config]
  BY DEF Autosave!Snapshot
<1>00. o.kind \in Nodewise => o.id \in CanvasNode /\ o.place \in Autosave!Place /\ o.config \in Autosave!Config
  BY DEF EditorRequest, Edgewise, Nodewise
<1>a. /\ \A e \in server.edges : {Ends[e][1], Ends[e][2]} \subseteq server.nodes
      /\ \A e, f \in server.edges : Ends[e] = Ends[f] => e = f
      /\ Live \subseteq server.nodes
      /\ \A n \in Live : server.config[n] = Autosave!FirstCanvas.config[n]
  BY DEF Autosave!StoredGraphSound
<1>b. ASSUME NEW N \in SUBSET CanvasNode, NEW E \in SUBSET CanvasEdge,
             NEW pl \in [CanvasNode -> Autosave!Place], NEW cf \in [CanvasNode -> Autosave!Config],
             server' = [nodes |-> N, edges |-> E, place |-> pl, config |-> cf],
             \A e \in E : {Ends[e][1], Ends[e][2]} \subseteq N,
             \A e, f \in E : Ends[e] = Ends[f] => e = f,
             Live \subseteq N,
             \A n \in Live : cf[n] = server.config[n]
      PROVE  (server \in Autosave!Snapshot /\ Autosave!StoredGraphSound)'
  <2>1. server' \in Autosave!Snapshot
    BY <1>b DEF Autosave!Snapshot
  <2>2. Autosave!FirstCanvas' = Autosave!FirstCanvas
    BY DEF Autosave!FirstCanvas
  <2> QED BY <1>a, <1>b, <2>1, <2>2 DEF Autosave!StoredGraphSound, Autosave!Snapshot, Autosave!Place, Autosave!Config
<1>1. CASE o.kind = "deleteEdge"
  <2> DEFINE E == server.edges \ {o.id}
  <2>1. server' = [nodes |-> server.nodes, edges |-> E, place |-> server.place, config |-> server.config]
    BY <1>0, <1>1 DEF Autosave!After
  <2>2. E \in SUBSET CanvasEdge /\ E \subseteq server.edges
    BY <1>0
  <2> HIDE DEF E
  <2> QED BY <1>0, <1>a, <1>b, <2>1, <2>2
<1>2. CASE o.kind = "deleteNode"
  <2> DEFINE E == {e \in server.edges : o.id \notin {Ends[e][1], Ends[e][2]}}
  <2>1. o.id \in server.nodes \ Live
    BY <1>2 DEF Autosave!Accepts
  <2>2. server' = [nodes |-> server.nodes \ {o.id}, edges |-> E, place |-> server.place, config |-> server.config]
    BY <1>0, <1>2 DEF Autosave!After
  <2> QED BY <1>0, <1>a, <1>b, <2>1, <2>2
<1>3. CASE o.kind = "createNode"
  <2> DEFINE pl == [server.place EXCEPT ![o.id] = o.place]
             cf == [server.config EXCEPT ![o.id] = o.config]
  <2>1. o.id \notin server.nodes /\ o.id \in CanvasNode
    BY <1>3, <1>00 DEF Autosave!Accepts, Nodewise
  <2>2. server' = [nodes |-> server.nodes \cup {o.id}, edges |-> server.edges, place |-> pl, config |-> cf]
    BY <1>0, <1>3 DEF Autosave!After
  <2>3. pl \in [CanvasNode -> Autosave!Place] /\ cf \in [CanvasNode -> Autosave!Config]
    BY <1>0, <1>00, <1>3 DEF Nodewise
  <2>4. \A n \in Live : cf[n] = server.config[n]
    BY <1>0, <1>a, <2>1
  <2> DEFINE N == server.nodes \cup {o.id}
  <2>5. /\ N \in SUBSET CanvasNode /\ Live \subseteq N
        /\ \A e \in server.edges : {Ends[e][1], Ends[e][2]} \subseteq N
    BY <1>0, <1>a, <2>1
  <2>6. server' = [nodes |-> N, edges |-> server.edges, place |-> pl, config |-> cf]
    BY <2>2
  <2> HIDE DEF pl, cf, N
  <2> QED BY <1>0, <1>a, <1>b, <2>3, <2>4, <2>5, <2>6
<1>4. CASE o.kind = "createEdge"
  <2>1. /\ {Ends[o.id][1], Ends[o.id][2]} \subseteq server.nodes /\ o.id \in CanvasEdge
        /\ \A f \in server.edges : Ends[f] # Ends[o.id]
    BY <1>4 DEF Autosave!Accepts, EditorRequest, Nodewise, Edgewise
  <2>2. server' = [nodes |-> server.nodes, edges |-> server.edges \cup {o.id},
                   place |-> server.place, config |-> server.config]
    BY <1>0, <1>4 DEF Autosave!After
  <2> DEFINE E == server.edges \cup {o.id}
  <2>3. E \in SUBSET CanvasEdge /\ \A e \in E : {Ends[e][1], Ends[e][2]} \subseteq server.nodes
    BY <1>0, <1>a, <2>1
  <2>4. \A e, f \in E : Ends[e] = Ends[f] => e = f
    BY <1>a, <2>1
  <2>5. server' = [nodes |-> server.nodes, edges |-> E, place |-> server.place, config |-> server.config]
    BY <2>2
  <2> HIDE DEF E
  <2> QED BY <1>0, <1>a, <1>b, <2>3, <2>4, <2>5
<1>5. CASE o.kind = "moveNode"
  <2> DEFINE pl == [server.place EXCEPT ![o.id] = o.place]
  <2>1. server' = [nodes |-> server.nodes, edges |-> server.edges, place |-> pl, config |-> server.config]
    BY <1>0, <1>5 DEF Autosave!After
  <2>2. pl \in [CanvasNode -> Autosave!Place]
    BY <1>0, <1>00, <1>5 DEF Nodewise
  <2> HIDE DEF pl
  <2> QED BY <1>0, <1>a, <1>b, <2>1, <2>2
<1>6. CASE o.kind = "updateNode"
  <2> DEFINE pl == [server.place EXCEPT ![o.id] = o.place]
             new == IF Autosave!SameAsStored(o) THEN server.config[o.id] ELSE Autosave!Kept(o.config)
             cf == [server.config EXCEPT ![o.id] = new]
  <2>0. o.id \in CanvasNode /\ o.place \in Autosave!Place /\ o.config \in Autosave!Config
    BY <1>00, <1>6 DEF Nodewise
  <2>1. o.id \in Live => new = server.config[o.id]
    BY <1>6 DEF Autosave!Accepts
  <2>2. server' = [nodes |-> server.nodes, edges |-> server.edges, place |-> pl, config |-> cf]
    BY <1>0, <1>6 DEF Autosave!After
  <2>3. Autosave!Kept(o.config) \in Autosave!Config
    BY <2>0, AutosaveFacts DEF Autosave!Kept, Autosave!Config
  <2>4. new \in Autosave!Config
    BY <1>0, <2>0, <2>3
  <2> HIDE DEF new
  <2>5. pl \in [CanvasNode -> Autosave!Place] /\ cf \in [CanvasNode -> Autosave!Config]
    BY <1>0, <2>0, <2>4
  <2>6. \A n \in Live : cf[n] = server.config[n]
    BY <1>0, <2>1, AutosaveFacts
  <2> HIDE DEF pl, cf
  <2> QED BY <1>0, <1>a, <1>b, <2>2, <2>5, <2>6
<1>7. o.kind \in {"deleteNode"} \cup Nodewise \cup Edgewise
  BY DEF EditorRequest
<1> QED BY <1>1, <1>2, <1>3, <1>4, <1>5, <1>6, <1>7 DEF Nodewise, Edgewise

\* An answer ends a request of the save that waits for it, or the save.
LEMMA AnswerTyped ==
    ASSUME SavesTyped, NEW o,
           \/ save.active /\ save' = [save EXCEPT !.wait = @ \ {o}]
           \/ save' \in {save, Autosave!NoSave}
    PROVE  save' = Autosave!NoSave \/ save' \in ActiveSave
<1>1. CASE save.active /\ save' = [save EXCEPT !.wait = @ \ {o}]
  <2>1. save \in ActiveSave
    BY <1>1 DEF SavesTyped, Autosave!NoSave
  <2> QED BY <1>1, <2>1 DEF ActiveSave, Batch
<1>2. CASE save' \in {save, Autosave!NoSave}
  BY <1>2 DEF SavesTyped
<1> QED BY <1>1, <1>2

LEMMA SavesInit == Autosave!Init => SavesInv
<1> SUFFICES ASSUME Autosave!Init PROVE SavesInv
  OBVIOUS
<1>1. Autosave!FirstCanvas \in Autosave!Snapshot
  BY AutosaveFacts DEF Autosave!FirstCanvas, Autosave!Snapshot
<1>2. SavesTyped
  BY <1>1 DEF Autosave!Init, SavesTyped, Batch
<1>3. Autosave!FirstCanvas.nodes = FirstNodes /\ Autosave!FirstCanvas.edges = {}
  BY DEF Autosave!FirstCanvas
<1>4. Autosave!StoredGraphSound
  <2> HIDE DEF Autosave!FirstCanvas
  <2> QED BY <1>3, AutosaveFacts DEF Autosave!Init, Autosave!StoredGraphSound
<1> QED BY <1>2, <1>4 DEF SavesInv

\* Edits, saves, handled and lost requests and reloads keep the stored graph sound.
LEMMA SavesNext == SavesInv /\ [Autosave!Next]_autosaveVars => SavesInv'
<1> SUFFICES ASSUME SavesInv, [Autosave!Next]_autosaveVars PROVE SavesInv'
  OBVIOUS
<1>0. SavesTyped /\ Autosave!StoredGraphSound
  BY DEF SavesInv
<1>a. ASSUME server' = server, SavesTyped' PROVE SavesInv'
  BY <1>0, <1>a DEF SavesInv, Autosave!StoredGraphSound, Autosave!FirstCanvas
<1>b. ASSUME NEW c \in Autosave!Snapshot, Autosave!Edit(c) PROVE SavesInv'
  <2>1. SavesTyped'
    BY <1>0, <1>b DEF SavesTyped, Autosave!Edit, Autosave!Shown
  <2> QED BY <1>a, <1>b, <2>1 DEF Autosave!Edit
<1>1. CASE UNCHANGED autosaveVars
  BY <1>0, <1>1, <1>a DEF autosaveVars, SavesTyped
<1>2. CASE Autosave!Editing
  <2> USE <1>b, <1>2, EditsTyped DEF SavesTyped
  <2>1. ASSUME NEW n \in CanvasNode, Autosave!AddNode(n) PROVE SavesInv'
    BY <1>0, <2>1 DEF Autosave!AddNode
  <2>2. ASSUME NEW n \in CanvasNode, Autosave!RemoveNode(n) PROVE SavesInv'
    <3> DEFINE E == {e \in canvas.edges : n \notin {Ends[e][1], Ends[e][2]}}
    <3>1. E \in SUBSET CanvasEdge
      BY <1>0, SnapshotParts
    <3>2. Autosave!Edit([canvas EXCEPT !.nodes = @ \ {n}, !.edges = E, !.config = Autosave!syncEc2Bindings(@, E)])
      BY <2>2 DEF Autosave!RemoveNode
    <3> HIDE DEF E
    <3> QED BY <1>0, <3>1, <3>2
  <2>3. ASSUME NEW n \in CanvasNode, Autosave!Configure(n) \/ Autosave!Move(n) PROVE SavesInv'
    <3>1. CASE Autosave!Configure(n)
      <4>1. PICK v \in Setting : Autosave!Edit([canvas EXCEPT !.config[n][1] = v])
        BY <3>1 DEF Autosave!Configure
      <4> QED BY <1>0, <4>1, ConfigureTyped
    <3>2. CASE Autosave!Move(n)
      BY <1>0, <3>2 DEF Autosave!Move
    <3> QED BY <2>3, <3>1, <3>2
  <2>4. ASSUME NEW e \in CanvasEdge, Autosave!Connect(e) \/ Autosave!Disconnect(e) PROVE SavesInv'
    <3>1. PICK E \in SUBSET CanvasEdge :
              Autosave!Edit([canvas EXCEPT !.edges = E, !.config = Autosave!syncEc2Bindings(@, E)])
      <4>1. canvas.edges \cup {e} \in SUBSET CanvasEdge /\ canvas.edges \ {e} \in SUBSET CanvasEdge
        BY <1>0, SnapshotParts
      <4> QED BY <2>4, <4>1 DEF Autosave!Connect, Autosave!Disconnect
    <3>2. Ends[e][1] \in CanvasNode
      BY AutosaveFacts
    <3> QED BY <1>0, <3>1, <3>2
  <2> QED BY <2>1, <2>2, <2>3, <2>4 DEF Autosave!Editing
<1>3. CASE Autosave!Debounce \/ Autosave!Flush
  <2>1. SavesTyped'
    BY <1>0, <1>3 DEF SavesTyped, Autosave!Debounce, Autosave!Flush, Autosave!Enqueue
  <2> QED BY <1>3, <1>a, <2>1 DEF Autosave!Debounce, Autosave!Flush, Autosave!Enqueue
<1>4. CASE Autosave!SaveStart
  <2> DEFINE d == Head(queue)
  <2>1. d \in Autosave!Snapshot /\ queue' \in Seq(Autosave!Snapshot)
    BY <1>0, <1>4 DEF Autosave!SaveStart, SavesTyped
  <2>2. CASE Autosave!Unchanged(baseline, d)
    <3>1. SavesTyped'
      BY <1>0, <1>4, <2>1, <2>2 DEF Autosave!SaveStart, SavesTyped
    <3> QED BY <1>4, <1>a, <3>1 DEF Autosave!SaveStart
  <2>3. CASE ~Autosave!Unchanged(baseline, d)
    <3> DEFINE b == Autosave!diffCanvas(baseline, d)
    <3>1. /\ save' = [active |-> TRUE, desired |-> d, batches |-> Tail(b), wait |-> b[1]]
          /\ DOMAIN flight' = DOMAIN flight \cup b[1]
      BY <1>4, <2>3 DEF Autosave!SaveStart, Autosave!Sending
    <3>2. b[1] \in Batch /\ Tail(b) \in Seq(Batch)
      BY <1>0, <2>1, DiffTyped DEF SavesTyped
    <3> HIDE DEF b, d
    <3>3. save' \in ActiveSave /\ DOMAIN flight' \in Batch
      BY <1>0, <2>1, <3>1, <3>2 DEF ActiveSave, Batch, SavesTyped
    <3>4. SavesTyped'
      BY <1>0, <1>4, <2>1, <3>3 DEF Autosave!SaveStart, SavesTyped
    <3> QED BY <1>4, <1>a, <3>4 DEF Autosave!SaveStart
  <2> QED BY <2>2, <2>3
<1>5. CASE Autosave!SaveNextBatch
  <2>1. save \in ActiveSave /\ save.batches # <<>>
    BY <1>0, <1>5 DEF Autosave!SaveNextBatch, SavesTyped, Autosave!NoSave
  <2>2. Head(save.batches) \in Batch /\ Tail(save.batches) \in Seq(Batch)
    BY <2>1 DEF ActiveSave
  <2>3. save' \in ActiveSave /\ DOMAIN flight' \in Batch
    BY <1>0, <1>5, <2>1, <2>2 DEF Autosave!SaveNextBatch, Autosave!Sending, SavesTyped, ActiveSave, Batch
  <2>4. SavesTyped'
    BY <1>0, <1>5, <2>3 DEF Autosave!SaveNextBatch, SavesTyped
  <2> QED BY <1>5, <1>a, <2>4 DEF Autosave!SaveNextBatch
<1>6. CASE Autosave!SaveDone
  <2>1. save \in ActiveSave
    BY <1>0, <1>6 DEF Autosave!SaveDone, SavesTyped, Autosave!NoSave
  <2>2. SavesTyped'
    BY <1>0, <1>6, <2>1 DEF Autosave!SaveDone, Autosave!Stored, SavesTyped, ActiveSave
  <2> QED BY <1>6, <1>a, <2>2 DEF Autosave!SaveDone
<1>7. ASSUME NEW o \in DOMAIN flight, NEW awaited \in BOOLEAN,
             Autosave!Handle(o, awaited) \/ Autosave!Lose(o, awaited)
      PROVE  SavesInv'
  <2>1. o \in EditorRequest
    BY <1>0 DEF SavesTyped, Batch
  <2>2. /\ DOMAIN flight' \in Batch /\ UNCHANGED <<canvas, baseline, queue, loading>>
        /\ server' = server \/ (Autosave!Accepts(o) /\ server' = Autosave!After(o))
    BY <1>0, <1>7 DEF SavesTyped, Batch, Autosave!Handle, Autosave!Lose, Autosave!Arrives
  <2>3. save' = Autosave!NoSave \/ save' \in ActiveSave
    <3>1. \/ save.active /\ save' = [save EXCEPT !.wait = @ \ {o}]
          \/ save' \in {save, Autosave!NoSave}
      BY <1>7 DEF Autosave!Handle, Autosave!Lose, Autosave!Answered, Autosave!Arrives, Autosave!Awaited
    <3> QED BY <1>0, <3>1, AnswerTyped
  <2>4. CASE server' = server
    <3>1. SavesTyped'
      BY <1>0, <2>2, <2>3, <2>4 DEF SavesTyped
    <3> QED BY <1>a, <2>4, <3>1
  <2>5. CASE Autosave!Accepts(o) /\ server' = Autosave!After(o)
    <3>1. (server \in Autosave!Snapshot /\ Autosave!StoredGraphSound)'
      BY <1>0, <2>1, <2>5, AfterSound DEF SavesTyped
    <3>2. SavesTyped'
      BY <1>0, <2>2, <2>3, <3>1 DEF SavesTyped
    <3> QED BY <3>1, <3>2 DEF SavesInv
  <2> QED BY <2>2, <2>4, <2>5
<1>8. CASE Autosave!ReloadRead
  <2>1. loading' \in Seq(Autosave!Snapshot)
    BY <1>0, <1>8 DEF Autosave!ReloadRead, SavesTyped
  <2>2. SavesTyped'
    BY <1>0, <1>8, <2>1 DEF Autosave!ReloadRead, SavesTyped
  <2> QED BY <1>8, <1>a, <2>2 DEF Autosave!ReloadRead
<1>9. CASE Autosave!ReloadShow
  <2>1. loading[1] \in Autosave!Snapshot /\ loading' \in Seq(Autosave!Snapshot)
    BY <1>0, <1>9 DEF Autosave!ReloadShow, SavesTyped
  <2>2. SavesTyped'
    BY <1>0, <1>9, <2>1 DEF Autosave!ReloadShow, Autosave!Shown, SavesTyped
  <2> QED BY <1>9, <1>a, <2>2 DEF Autosave!ReloadShow, Autosave!Shown
<1> QED
  BY <1>1, <1>2, <1>3, <1>4, <1>5, <1>6, <1>7, <1>8, <1>9
  DEF Autosave!Next, Autosave!Saving, Autosave!Handling, Autosave!Losing

\* Whatever is sent, lost, repeated or overtaken, the graph that the server stores
\* for an editor is sound (the handlers that autosave calls).
THEOREM StoredGraphStaysSound == RequestsSpec => []StoredGraphSound
<1>1. RequestsInit => SavesInv
  BY SavesInit DEF RequestsInit
<1>2. SavesInv /\ [RequestsNext]_requestsVars => SavesInv'
  BY SavesNext DEF RequestsNext, requestsVars
<1>3. SavesInv => StoredGraphSound
  BY DEF SavesInv, StoredGraphSound
<1> QED BY <1>1, <1>2, <1>3, PTL DEF RequestsSpec

-----------------------------------------------------------------------------
(* The stored graph, which an import fills and a replacement overwrites.    *)

Present == SketchGraphs!Present
Drawn == SketchGraphs!Drawn

\* An edge joins nodes that are stored.
EdgesJoin == \A e \in Drawn : edges[e][1] \in Present /\ edges[e][2] \in Present

\* Requests take turns, what a replacement has deleted in its transaction is all
\* there is, and there is nothing outside a sketch.
GraphInv ==
    /\ SketchGraphs!TypeOK
    /\ EdgesJoin
    /\ ~exists => Present = {} /\ Drawn = {}
    /\ \A r, q \in Slot : req[r] # SketchGraphs!Idle /\ req[q] # SketchGraphs!Idle => r = q
    /\ \A r \in Slot : req[r].op = "deleting" => exists /\ req[r].seen = Present

\* No node, no type and no pair of nodes is NoNode.
LEMMA NoNodeFacts ==
    /\ \A n \in Node : n # NoNode /\ ServiceOf[n] \in SketchGraphs!AwsService
    /\ \A t \in SketchGraphs!AwsService : t # NoNode
    /\ \A p \in Node \X Node : p # SketchGraphs!NoEdge /\ p[1] \in Node /\ p[2] \in Node
    /\ SketchGraphs!NoEdge[1] = NoNode /\ SketchGraphs!NoEdge[2] = NoNode
<1>1. NoNode \notin Node /\ NoNode \notin SketchGraphs!AwsService
      /\ ServiceOf \in [Node -> SketchGraphs!AwsService]
  BY RequestAssumption DEF SketchGraphs!GraphAssumption
<1> QED BY <1>1 DEF SketchGraphs!NoEdge

\* The parts of a graph that is sent.
LEMMA DefinitionParts ==
    ASSUME NEW g \in Definition
    PROVE  /\ \A k \in DOMAIN g.type : g.type[k] \in SketchGraphs!AwsService
           /\ \A k \in DOMAIN g.edges : g.edges[k][1] \in DOMAIN g.type /\ g.edges[k][2] \in DOMAIN g.type
           /\ \A k \in DOMAIN g.type : g.ref[k] = 0 \/ g.ref[k] \in DOMAIN g.type
<1>1. /\ g.type \in Seq(SketchGraphs!AwsService)
      /\ g.edges \in Seq((DOMAIN g.type) \X (DOMAIN g.type))
      /\ g.ref \in [DOMAIN g.type -> {0} \cup DOMAIN g.type]
  BY RequestAssumption DEF SketchGraphs!DefinitionAssumption
<1>2. \A k \in DOMAIN g.type : g.type[k] \in SketchGraphs!AwsService
  BY <1>1
<1>3. \A k \in DOMAIN g.edges : g.edges[k] \in (DOMAIN g.type) \X (DOMAIN g.type)
  BY <1>1
<1> QED BY <1>1, <1>2, <1>3

\* The nodes and edges of g in place of all there were.
LEMMA PersistReplaces ==
    ASSUME SketchGraphs!TypeOK, EdgesJoin, NEW g \in Definition, SketchGraphs!persistPreparedGraph(g, Present)
    PROVE  /\ type' \in [Node -> SketchGraphs!AwsService \cup {NoNode}]
           /\ ref' \in [Node -> Node \cup {NoNode}]
           /\ edges' \in [Edge -> (Node \X Node) \cup {SketchGraphs!NoEdge}]
           /\ EdgesJoin'
           /\ SketchGraphs!Holds(g)'
<1> DEFINE N == DOMAIN g.type
           K == DOMAIN g.edges
<1>1. PICK new \in SketchGraphs!FreshNodes(g), line \in SketchGraphs!FreshEdges(g) :
        LET Old(n) == CHOOSE k \in N : new[k] = n
            Made == {new[k] : k \in N}
            Lines == {line[k] : k \in K} IN
        /\ type' = [n \in Node |-> IF n \in Made THEN g.type[Old(n)]
                                   ELSE IF n \in Present THEN NoNode ELSE type[n]]
        /\ ref' = [n \in Node |-> IF n \in Made THEN SketchGraphs!remapConfigReferences(g.ref[Old(n)], new)
                                  ELSE IF n \in Present THEN NoNode ELSE ref[n]]
        /\ edges' = [e \in Edge |->
              IF e \in Lines
              THEN LET k == CHOOSE k \in K : line[k] = e IN
                   <<new[g.edges[k][1]], new[g.edges[k][2]]>>
              ELSE IF {edges[e][1], edges[e][2]} \cap Present # {} THEN SketchGraphs!NoEdge ELSE edges[e]]
  BY DEF SketchGraphs!persistPreparedGraph
<1> DEFINE Old(n) == CHOOSE k \in N : new[k] = n
           Made == {new[k] : k \in N}
           Lines == {line[k] : k \in K}
           Row(e) == CHOOSE k \in K : line[k] = e
           Ends2(k) == <<new[g.edges[k][1]], new[g.edges[k][2]]>>
<1>2. /\ new \in [N -> Node] /\ \A j, k \in N : new[j] = new[k] => j = k
      /\ line \in [K -> Edge] /\ \A j, k \in K : line[j] = line[k] => j = k
  BY DEF SketchGraphs!FreshNodes, SketchGraphs!FreshEdges
<1>3. \A k \in N : Old(new[k]) = k
  BY <1>2
<1>4. \A k \in K : Row(line[k]) = k
  BY <1>2
<1>5. \A n \in Made : Old(n) \in N /\ new[Old(n)] = n
  BY <1>3
<1>6. \A e \in Lines : Row(e) \in K /\ line[Row(e)] = e
  BY <1>4
<1>7. /\ \A k \in N : g.type[k] \in SketchGraphs!AwsService
      /\ \A k \in K : g.edges[k][1] \in N /\ g.edges[k][2] \in N
      /\ \A k \in N : g.ref[k] = 0 \/ g.ref[k] \in N
  BY DefinitionParts
<1>8. /\ type \in [Node -> SketchGraphs!AwsService \cup {NoNode}] /\ ref \in [Node -> Node \cup {NoNode}]
      /\ edges \in [Edge -> (Node \X Node) \cup {SketchGraphs!NoEdge}]
  BY DEF SketchGraphs!TypeOK
<1>9. \A n \in Node : type'[n] = IF n \in Made THEN g.type[Old(n)] ELSE NoNode
  BY <1>1, <1>8 DEF Present, SketchGraphs!Present
<1>10. \A k \in K : Ends2(k) \in Node \X Node /\ Ends2(k) # SketchGraphs!NoEdge
  BY <1>2, <1>7, NoNodeFacts
<1>11. ASSUME NEW e \in Edge, e \notin Lines PROVE edges'[e] = SketchGraphs!NoEdge
  <2>1. CASE edges[e] = SketchGraphs!NoEdge
    BY <1>1, <1>11, <2>1
  <2>2. CASE edges[e] # SketchGraphs!NoEdge
    BY <1>1, <1>11, <2>2 DEF EdgesJoin, Drawn, SketchGraphs!Drawn
  <2> QED BY <2>1, <2>2
<1>12. \A k \in K : line[k] \in Edge /\ line[k] \in Lines /\ edges'[line[k]] = Ends2(k)
  BY <1>1, <1>2, <1>4
<1>13. \A k \in N : /\ new[k] \in Node /\ new[k] \in Made /\ type'[new[k]] = g.type[k]
                    /\ ref'[new[k]] = IF g.ref[k] = 0 THEN NoNode ELSE new[g.ref[k]]
  BY <1>1, <1>2, <1>3 DEF SketchGraphs!remapConfigReferences
<1>14. (\A n \in Made : \E k \in N : n = new[k]) /\ (\A e \in Lines : \E k \in K : e = line[k])
  OBVIOUS
<1>15. /\ type' = [n \in Node |-> type'[n]] /\ ref' = [n \in Node |-> ref'[n]]
       /\ edges' = [e \in Edge |-> edges'[e]]
       /\ \A n \in Node \ Made : ref'[n] \in {NoNode, ref[n]}
  BY <1>1
<1>16. \A k \in K : Ends2(k)[1] = new[g.edges[k][1]] /\ Ends2(k)[2] = new[g.edges[k][2]]
  OBVIOUS
<1> HIDE DEF Made, Lines, Old, Row, Ends2
<1>17. type' \in [Node -> SketchGraphs!AwsService \cup {NoNode}]
  BY <1>7, <1>9, <1>13, <1>14, <1>15
<1>18. ref' \in [Node -> Node \cup {NoNode}]
  <2>1. \A k \in N : ref'[new[k]] \in Node \cup {NoNode}
    BY <1>7, <1>13
  <2>2. \A n \in Node : ref'[n] \in Node \cup {NoNode}
    BY <1>8, <1>14, <1>15, <2>1
  <2> QED BY <1>15, <2>2
<1>19. edges' \in [Edge -> (Node \X Node) \cup {SketchGraphs!NoEdge}]
  <2>1. \A e \in Edge : edges'[e] \in (Node \X Node) \cup {SketchGraphs!NoEdge}
    BY <1>10, <1>11, <1>12, <1>14
  <2> QED BY <1>15, <2>1
<1>20. SketchGraphs!Present' = Made
  BY <1>7, <1>9, <1>13, <1>14, NoNodeFacts DEF SketchGraphs!Present
<1>21. SketchGraphs!Drawn' = Lines
  <2>1. SketchGraphs!NoEdge' = SketchGraphs!NoEdge
    BY DEF SketchGraphs!NoEdge
  <2> QED BY <1>10, <1>11, <1>12, <1>14, <2>1 DEF SketchGraphs!Drawn
<1>22. EdgesJoin'
  BY <1>7, <1>12, <1>13, <1>14, <1>16, <1>20, <1>21 DEF EdgesJoin, Present, Drawn
<1>23. {edges'[e] : e \in Lines} = {Ends2(k) : k \in K}
  BY <1>12, <1>14
<1>24. {new[k] : k \in N} = Made
  BY <1>13, <1>14
<1>25. SketchGraphs!SameGraph(g, new)'
  BY <1>2, <1>13, <1>20, <1>21, <1>23, <1>24 DEF SketchGraphs!SameGraph, Ends2
<1>26. SketchGraphs!Holds(g)'
  BY <1>2, <1>25 DEF SketchGraphs!Holds
<1> QED BY <1>17, <1>18, <1>19, <1>22, <1>26

\* What a request in progress has read.
LEMMA WorkParts ==
    ASSUME NEW w \in SketchGraphs!Work
    PROVE  /\ w.op = "connect" => w.id \in Edge /\ w.ends \in Node \X Node
           /\ w.op = "update" => w.node \in Node /\ w.type \in SketchGraphs!AwsService /\ w.ref \in Node \cup {NoNode}
           /\ w.op \in {"replace", "deleting"} => w.graph \in Definition
BY DEF SketchGraphs!Work, SketchGraphs!Idle

LEMMA GraphInit == SketchGraphs!Init => GraphInv
<1> SUFFICES ASSUME SketchGraphs!Init PROVE GraphInv
  OBVIOUS
<1>1. Present = {} /\ Drawn = {}
  BY DEF Present, Drawn, SketchGraphs!Present, SketchGraphs!Drawn, SketchGraphs!Init
<1>2. SketchGraphs!TypeOK
  BY DEF SketchGraphs!TypeOK, SketchGraphs!Init, SketchGraphs!Work
<1>3. SketchGraphs!Idle.op # "deleting"
  BY DEF SketchGraphs!Idle
<1> QED BY <1>1, <1>2, <1>3 DEF GraphInv, EdgesJoin, SketchGraphs!Init

\* The requests that begin and end, one after the other, and what they write.
LEMMA GraphNext == GraphInv /\ [SketchGraphs!Next]_graphVars => GraphInv'
<1> SUFFICES ASSUME GraphInv, [SketchGraphs!Next]_graphVars PROVE GraphInv'
  OBVIOUS
<1> DEFINE Typed == /\ exists \in BOOLEAN
                    /\ type \in [Node -> SketchGraphs!AwsService \cup {NoNode}]
                    /\ ref \in [Node -> Node \cup {NoNode}]
                    /\ edges \in [Edge -> (Node \X Node) \cup {SketchGraphs!NoEdge}]
           Sound == EdgesJoin /\ (~exists => Present = {} /\ Drawn = {})
           AllIdle == \A r \in Slot : req[r] = SketchGraphs!Idle
<1>1. Typed /\ Sound /\ req \in [Slot -> SketchGraphs!Work]
  BY DEF GraphInv, SketchGraphs!TypeOK
<1>2. SketchGraphs!Ready => AllIdle
  BY DEF SketchGraphs!Ready
<1>3. SketchGraphs!Idle \in SketchGraphs!Work /\ SketchGraphs!Idle.op = "idle"
  BY DEF SketchGraphs!Work, SketchGraphs!Idle
<1>4. SketchGraphs!Idle' = SketchGraphs!Idle /\ SketchGraphs!NoEdge' = SketchGraphs!NoEdge
      /\ SketchGraphs!Work' = SketchGraphs!Work /\ SketchGraphs!AwsService' = SketchGraphs!AwsService
  BY DEF SketchGraphs!Idle, SketchGraphs!NoEdge, SketchGraphs!Work, SketchGraphs!AwsService
<1>5. \A n \in Node : n \in Present <=> type[n] # NoNode
  BY DEF Present, SketchGraphs!Present
<1>6. \A n \in Node : n \in Present' <=> type'[n] # NoNode
  BY DEF Present, SketchGraphs!Present
<1>7. Present \subseteq Node /\ Present' \subseteq Node /\ Drawn \subseteq Edge /\ Drawn' \subseteq Edge
  BY DEF Present, SketchGraphs!Present, Drawn, SketchGraphs!Drawn
<1>8. \A e \in Edge : (e \in Drawn <=> edges[e] # SketchGraphs!NoEdge)
                      /\ (e \in Drawn' <=> edges'[e] # SketchGraphs!NoEdge)
  BY <1>4 DEF Drawn, SketchGraphs!Drawn
<1>9. ASSUME Typed', Sound', AllIdle', req' \in [Slot -> SketchGraphs!Work] PROVE GraphInv'
  BY <1>3, <1>4, <1>9 DEF GraphInv, SketchGraphs!TypeOK
<1>a. ASSUME AllIdle, req' = req, Typed', Sound' PROVE GraphInv'
  BY <1>1, <1>4, <1>9, <1>a
<1>b. ASSUME AllIdle, NEW r \in Slot, NEW w \in SketchGraphs!Work, w.op # "deleting",
             req' = [req EXCEPT ![r] = w], UNCHANGED <<exists, type, ref, edges>>
      PROVE  GraphInv'
  <2>1. req' \in [Slot -> SketchGraphs!Work] /\ \A q \in Slot : req'[q] = IF q = r THEN w ELSE req[q]
    BY <1>1, <1>b
  <2>2. Typed' /\ Sound'
    BY <1>1, <1>4, <1>b DEF EdgesJoin, Present, Drawn, SketchGraphs!Present, SketchGraphs!Drawn
  <2>3. \A q \in Slot : req'[q].op # "deleting" /\ (req'[q] # SketchGraphs!Idle => q = r)
    BY <1>3, <1>b, <2>1
  <2> QED BY <1>4, <2>1, <2>2, <2>3 DEF GraphInv, SketchGraphs!TypeOK
<1>c. ASSUME NEW r \in Slot, req[r].op # "idle", req' = [req EXCEPT ![r] = SketchGraphs!Idle], Typed', Sound'
      PROVE  GraphInv'
  <2>1. AllIdle' /\ req' \in [Slot -> SketchGraphs!Work]
    BY <1>1, <1>3, <1>4, <1>c DEF GraphInv
  <2> QED BY <1>9, <1>c, <2>1
<1>d. ASSUME UNCHANGED <<exists, type, ref, edges>> PROVE Typed' /\ Sound'
  BY <1>1, <1>4, <1>d DEF EdgesJoin, Present, Drawn, SketchGraphs!Present, SketchGraphs!Drawn
<1> HIDE DEF AllIdle
<1>10. CASE UNCHANGED graphVars
  BY <1>10 DEF graphVars, GraphInv, EdgesJoin, Present, Drawn, SketchGraphs!Present, SketchGraphs!Drawn,
               SketchGraphs!TypeOK
<1>11. CASE SketchGraphs!createSketch
  <2>1. AllIdle /\ req' = req /\ exists' = TRUE /\ UNCHANGED <<type, ref, edges>>
    BY <1>2, <1>11 DEF SketchGraphs!createSketch
  <2>2. Typed' /\ Sound'
    BY <1>1, <1>4, <2>1 DEF EdgesJoin, Present, Drawn, SketchGraphs!Present, SketchGraphs!Drawn
  <2> QED BY <1>a, <2>1, <2>2
<1>12. CASE SketchGraphs!deleteSketch
  <2>1. /\ AllIdle /\ req' = req /\ exists' = FALSE
        /\ type' = [n \in Node |-> NoNode] /\ ref' = [n \in Node |-> NoNode]
        /\ edges' = [e \in Edge |-> SketchGraphs!NoEdge]
    BY <1>2, <1>12 DEF SketchGraphs!deleteSketch
  <2>2. Present' = {} /\ Drawn' = {}
    BY <1>4, <2>1 DEF Present, Drawn, SketchGraphs!Present, SketchGraphs!Drawn
  <2>3. Typed' /\ Sound'
    BY <1>4, <2>1, <2>2 DEF EdgesJoin
  <2> QED BY <1>a, <2>1, <2>3
<1>13. ASSUME NEW g \in Definition, SketchGraphs!importSketchGraph(g) PROVE GraphInv'
  <2>1. AllIdle /\ req' = req /\ ~exists /\ exists' = TRUE /\ SketchGraphs!persistPreparedGraph(g, {})
    BY <1>2, <1>13 DEF SketchGraphs!importSketchGraph
  <2>2. SketchGraphs!persistPreparedGraph(g, Present)
    BY <1>1, <2>1
  <2>3. Typed' /\ Sound'
    BY <1>4, <2>1, <2>2, PersistReplaces DEF GraphInv
  <2> QED BY <1>a, <2>1, <2>3
<1>14. ASSUME NEW r \in Slot, NEW g \in Definition, SketchGraphs!ReplaceCheck(r, g) PROVE GraphInv'
  <2> DEFINE w == [op |-> "replace", graph |-> g]
  <2>1. AllIdle /\ req' = [req EXCEPT ![r] = w] /\ UNCHANGED <<exists, type, ref, edges>>
    BY <1>2, <1>14 DEF SketchGraphs!ReplaceCheck
  <2>2. w \in SketchGraphs!Work /\ w.op # "deleting"
    BY DEF SketchGraphs!Work
  <2> QED BY <1>b, <2>1, <2>2
<1>15. ASSUME NEW r \in Slot, SketchGraphs!ReplaceDelete(r) PROVE GraphInv'
  <2>1. /\ req[r].op = "replace" /\ UNCHANGED <<exists, type, ref, edges>>
        /\ Typed' /\ Sound'
    BY <1>15, <1>d DEF SketchGraphs!ReplaceDelete
  <2>2. CASE ~exists
    BY <1>15, <1>c, <2>1, <2>2 DEF SketchGraphs!ReplaceDelete
  <2>3. CASE exists
    <3> DEFINE w == [op |-> "deleting", graph |-> req[r].graph, seen |-> Present]
    <3>1. req' = [req EXCEPT ![r] = w]
      BY <1>15, <2>3 DEF SketchGraphs!ReplaceDelete, SketchGraphs!Seen, Present
    <3>2. w \in SketchGraphs!Work /\ w.op = "deleting" /\ w.seen = Present
      BY <1>1, <1>7, <2>1, WorkParts DEF SketchGraphs!Work
    <3> HIDE DEF w
    <3>3. \A q \in Slot : req'[q] = IF q = r THEN w ELSE req[q]
      BY <1>1, <3>1
    <3>4. req[r] # SketchGraphs!Idle /\ \A q \in Slot : q # r => req[q] = SketchGraphs!Idle
      BY <1>3, <2>1 DEF GraphInv
    <3>5. \A q \in Slot : q # r => req'[q] = SketchGraphs!Idle
      BY <3>3, <3>4
    <3>6. req' \in [Slot -> SketchGraphs!Work]
      BY <1>1, <3>1, <3>2
    <3>7. Present' = Present
      BY <2>1 DEF Present, SketchGraphs!Present
    <3>8. \A q \in Slot : req'[q].op = "deleting" => exists' /\ req'[q].seen = Present'
      BY <1>3, <2>1, <2>3, <3>2, <3>3, <3>5, <3>7
    <3>9. \A p, q \in Slot : req'[p] # SketchGraphs!Idle /\ req'[q] # SketchGraphs!Idle => p = q
      BY <3>5
    <3> QED BY <1>4, <2>1, <3>6, <3>8, <3>9 DEF GraphInv, SketchGraphs!TypeOK
  <2> QED BY <2>2, <2>3
<1>16. ASSUME NEW r \in Slot, SketchGraphs!ReplaceCommit(r) PROVE GraphInv'
  <2>1. /\ req[r].op = "deleting" /\ exists' = exists /\ exists /\ req[r].seen = Present
        /\ req[r].graph \in Definition /\ req' = [req EXCEPT ![r] = SketchGraphs!Idle]
        /\ SketchGraphs!persistPreparedGraph(req[r].graph, Present)
    BY <1>1, <1>16, WorkParts DEF SketchGraphs!ReplaceCommit, GraphInv
  <2>2. Typed' /\ Sound'
    BY <1>1, <1>4, <2>1, PersistReplaces DEF GraphInv
  <2> QED BY <1>c, <2>1, <2>2
<1>17. ASSUME NEW r \in Slot, SketchGraphs!ReplaceRollback(r) PROVE GraphInv'
  BY <1>17, <1>c, <1>d DEF SketchGraphs!ReplaceRollback
<1>18. ASSUME NEW n \in Node, SketchGraphs!createSketchNode(n) PROVE GraphInv'
  <2>1. /\ AllIdle /\ req' = req /\ exists' = exists /\ exists /\ UNCHANGED <<ref, edges>>
        /\ type' = [type EXCEPT ![n] = ServiceOf[n]]
    BY <1>2, <1>18 DEF SketchGraphs!createSketchNode
  <2>2. \A m \in Node : type'[m] = IF m = n THEN ServiceOf[n] ELSE type[m]
    BY <1>1, <2>1
  <2>3. Present \subseteq Present' /\ Drawn' = Drawn
    BY <1>5, <1>6, <1>7, <2>1, <2>2, NoNodeFacts DEF Drawn, SketchGraphs!Drawn
  <2>4. Typed' /\ Sound'
    BY <1>1, <1>4, <2>1, <2>3, NoNodeFacts DEF EdgesJoin
  <2> QED BY <1>a, <2>1, <2>4
<1>19. ASSUME NEW n \in Node, SketchGraphs!deleteSketchNode(n) PROVE GraphInv'
  <2>1. /\ AllIdle /\ req' = req /\ exists' = exists /\ n \in Present
        /\ type' = [type EXCEPT ![n] = NoNode] /\ ref' = [ref EXCEPT ![n] = NoNode]
        /\ edges' = [e \in Edge |-> IF n \in {edges[e][1], edges[e][2]} THEN SketchGraphs!NoEdge ELSE edges[e]]
    BY <1>2, <1>19 DEF SketchGraphs!deleteSketchNode, SketchGraphs!Cascade, Present
  <2>2. \A m \in Node : type'[m] = IF m = n THEN NoNode ELSE type[m]
    BY <1>1, <2>1
  <2>3. \A e \in Edge : edges'[e] = IF n \in {edges[e][1], edges[e][2]} THEN SketchGraphs!NoEdge ELSE edges[e]
    BY <2>1
  <2>4. \A m \in Present : m # n => m \in Present'
    BY <1>5, <1>6, <1>7, <2>2
  <2>5. \A e \in Drawn' : e \in Drawn /\ edges'[e] = edges[e] /\ edges[e][1] # n /\ edges[e][2] # n
    BY <1>7, <1>8, <2>3
  <2>6. EdgesJoin'
    BY <1>1, <2>4, <2>5 DEF EdgesJoin
  <2>7. exists
    BY <1>1, <2>1
  <2>8. Typed'
    BY <1>1, <1>4, <2>1
  <2> QED BY <1>a, <2>1, <2>6, <2>7, <2>8
<1>20. ASSUME NEW r \in Slot, NEW n \in Node, NEW t \in SketchGraphs!AwsService, NEW m \in Node \cup {NoNode},
              SketchGraphs!UpdateRead(r, n, t, m)
       PROVE  GraphInv'
  <2> DEFINE w == [op |-> "update", node |-> n, type |-> t, ref |-> m]
  <2>1. AllIdle /\ req' = [req EXCEPT ![r] = w] /\ UNCHANGED <<exists, type, ref, edges>>
    BY <1>2, <1>20 DEF SketchGraphs!UpdateRead
  <2>2. w \in SketchGraphs!Work /\ w.op # "deleting"
    BY DEF SketchGraphs!Work
  <2> QED BY <1>b, <2>1, <2>2
<1>21. ASSUME NEW r \in Slot, SketchGraphs!UpdateWrite(r) PROVE GraphInv'
  <2> DEFINE w == req[r]
  <2>1. /\ w.op = "update" /\ req' = [req EXCEPT ![r] = SketchGraphs!Idle] /\ UNCHANGED <<exists, edges>>
        /\ IF w.node \in Present
           THEN type' = [type EXCEPT ![w.node] = w.type] /\ ref' = [ref EXCEPT ![w.node] = w.ref]
           ELSE UNCHANGED <<type, ref>>
    BY <1>21 DEF SketchGraphs!UpdateWrite, Present
  <2>2. w.node \in Node /\ w.type \in SketchGraphs!AwsService /\ w.ref \in Node \cup {NoNode}
    BY <1>1, <2>1, WorkParts
  <2> HIDE DEF w
  <2>3. Typed'
    BY <1>1, <1>4, <2>1, <2>2
  <2>4. \A n \in Node : type'[n] # NoNode <=> type[n] # NoNode
    BY <1>1, <1>5, <2>1, <2>2, NoNodeFacts
  <2>5. Present' = Present
    BY <1>5, <1>6, <1>7, <2>4
  <2>6. Drawn' = Drawn
    BY <2>1 DEF Drawn, SketchGraphs!Drawn
  <2>7. Sound'
    BY <1>1, <2>1, <2>5, <2>6 DEF EdgesJoin
  <2> QED BY <1>c, <2>1, <2>3, <2>7 DEF w
<1>22. ASSUME NEW r \in Slot, NEW e \in Edge, NEW p \in Node \X Node, SketchGraphs!ConnectCheck(r, e, p)
       PROVE  GraphInv'
  <2> DEFINE w == [op |-> "connect", id |-> e, ends |-> p]
  <2>1. AllIdle /\ req' = [req EXCEPT ![r] = w] /\ UNCHANGED <<exists, type, ref, edges>>
    BY <1>2, <1>22 DEF SketchGraphs!ConnectCheck
  <2>2. w \in SketchGraphs!Work /\ w.op # "deleting"
    BY DEF SketchGraphs!Work
  <2> QED BY <1>b, <2>1, <2>2
<1>23. ASSUME NEW r \in Slot, SketchGraphs!ConnectInsert(r) PROVE GraphInv'
  <2> DEFINE w == req[r]
  <2>1. /\ w.op = "connect" /\ req' = [req EXCEPT ![r] = SketchGraphs!Idle] /\ UNCHANGED <<exists, type, ref>>
        /\ edges' = IF w.id \notin Drawn /\ {w.ends[1], w.ends[2]} \subseteq Present
                    THEN [edges EXCEPT ![w.id] = w.ends] ELSE edges
    BY <1>23 DEF SketchGraphs!ConnectInsert, Present, Drawn
  <2>2. w.id \in Edge /\ w.ends \in Node \X Node
    BY <1>1, <2>1, WorkParts
  <2> HIDE DEF w
  <2>3. Present' = Present
    BY <2>1 DEF Present, SketchGraphs!Present
  <2>4. Typed' /\ Sound'
    <3>1. CASE edges' = edges
      BY <1>d, <2>1, <3>1
    <3>2. CASE edges' # edges
      <4>1. edges' = [edges EXCEPT ![w.id] = w.ends] /\ {w.ends[1], w.ends[2]} \subseteq Present
        BY <2>1, <3>2
      <4>2. \A e \in Edge : edges'[e] = IF e = w.id THEN w.ends ELSE edges[e]
        BY <1>1, <2>2, <4>1
      <4>3. Typed'
        BY <1>1, <1>4, <2>1, <2>2, <4>1
      <4>4. EdgesJoin'
        BY <1>1, <1>7, <1>8, <2>3, <4>1, <4>2 DEF EdgesJoin
      <4>5. exists'
        BY <1>1, <2>1, <4>1
      <4> QED BY <4>3, <4>4, <4>5
    <3> QED BY <3>1, <3>2
  <2> QED BY <1>c, <2>1, <2>4 DEF w
<1>24. ASSUME NEW e \in Edge, SketchGraphs!deleteSketchEdge(e) PROVE GraphInv'
  <2>1. /\ AllIdle /\ e \in Drawn /\ edges' = [edges EXCEPT ![e] = SketchGraphs!NoEdge]
        /\ UNCHANGED <<exists, type, ref, req>>
    BY <1>2, <1>24 DEF SketchGraphs!deleteSketchEdge, Drawn
  <2>2. Present' = Present
    BY <2>1 DEF Present, SketchGraphs!Present
  <2>3. \A f \in Drawn' : f \in Drawn /\ edges'[f] = edges[f]
    BY <1>1, <1>7, <1>8, <2>1
  <2>4. EdgesJoin' /\ exists'
    BY <1>1, <2>1, <2>2, <2>3 DEF EdgesJoin
  <2>5. Typed'
    BY <1>1, <1>4, <2>1
  <2> QED BY <1>a, <2>1, <2>4, <2>5
<1> QED
  BY <1>10, <1>11, <1>12, <1>13, <1>14, <1>15, <1>16, <1>17, <1>18, <1>19, <1>20, <1>21, <1>22, <1>23, <1>24
  DEF SketchGraphs!Next

\* Importing or replacing writes the whole graph.
LEMMA WholeGraph == GraphInv => SketchGraphs!Overwrites
<1> SUFFICES ASSUME GraphInv PROVE SketchGraphs!Overwrites
  OBVIOUS
<1>1. ASSUME NEW g \in Definition, SketchGraphs!importSketchGraph(g) PROVE SketchGraphs!Holds(g)'
  <2>1. ~exists /\ SketchGraphs!persistPreparedGraph(g, {})
    BY <1>1 DEF SketchGraphs!importSketchGraph
  <2>2. SketchGraphs!persistPreparedGraph(g, Present)
    BY <2>1 DEF GraphInv
  <2> QED BY <2>2, PersistReplaces DEF GraphInv
<1>2. ASSUME NEW g \in Definition, NEW r \in Slot, SketchGraphs!ReplaceCommit(r), req[r].graph = g
      PROVE  SketchGraphs!Holds(g)'
  <2>1. SketchGraphs!persistPreparedGraph(g, Present)
    BY <1>2 DEF SketchGraphs!ReplaceCommit, GraphInv
  <2> QED BY <2>1, PersistReplaces DEF GraphInv
<1> QED BY <1>1, <1>2 DEF SketchGraphs!Overwrites

\* When requests do not overlap and a graph was imported or has replaced another, the
\* sketch holds this graph and nothing else (importSketchGraph, replaceSketchGraph).
THEOREM ReplacementOverwrites == RequestsSpec => OverwritesGraph
<1>1. RequestsInit => GraphInv
  BY GraphInit DEF RequestsInit
<1>2. GraphInv /\ [RequestsNext]_requestsVars => GraphInv'
  BY GraphNext DEF RequestsNext, requestsVars
<1>3. GraphInv => [part = "graph" => SketchGraphs!Overwrites]_graphVars
  BY WholeGraph
<1> QED BY <1>1, <1>2, <1>3, PTL DEF RequestsSpec, OverwritesGraph
=============================================================================
