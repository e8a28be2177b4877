---------------------------- MODULE AccountProofs ----------------------------
(***************************************************************************)
(* The properties of a user's account, for any number of connections and   *)
(* requests, of parts of a catalog, readers and operations, and of tabs.   *)
(*                                                                         *)
(* That one connection is active needs requests that do not overlap: what  *)
(* a request has read is then still true when it writes.  That a catalog   *)
(* has what was reported needs listings that are not overtaken: what they  *)
(* have listed is then as new as what is reported meanwhile.  That a reply *)
(* has its question needs no such thing: a conversation that was cleared   *)
(* has an identifier of its own, and the reply is stored under it or not.  *)
(***************************************************************************)
EXTENDS Account, Sequences, TLAPS

-----------------------------------------------------------------------------
(* The connections.                                                         *)

\* Activation or deletion ends with a subset of what is stored.
LEMMA ActiveStaysStored ==
    ASSUME TypeOK, NEW c \in Connection
    PROVE  OnlyActive(c) \subseteq stored
BY DEF TypeOK, OnlyActive

LEMMA ConnectionsTypeStep ==
    /\ Init => TypeOK
    /\ TypeOK /\ [Next]_vars => TypeOK'
<1>1. Init => TypeOK
  BY DEF Init, TypeOK
<1>2. TypeOK /\ [Next]_vars => TypeOK'
  <2> SUFFICES ASSUME TypeOK, [Next]_vars PROVE TypeOK'
    OBVIOUS
  <2> USE DEF TypeOK, Starts, Ends
  <2>1. CASE UNCHANGED vars
    BY <2>1 DEF vars
  <2>2. ASSUME NEW r \in Request, CreateCount(r) PROVE TypeOK'
    BY <2>2 DEF CreateCount
  <2>3. ASSUME NEW r \in Request, NEW c \in Connection, CreateInsert(r, c) PROVE TypeOK'
    BY <2>3 DEF CreateInsert, Idle
  <2>4. ASSUME NEW r \in Request, NEW c \in Connection, ActivateRead(r, c) PROVE TypeOK'
    BY <2>4 DEF ActivateRead
  <2>5. ASSUME NEW r \in Request, ActivateCommit(r) PROVE TypeOK'
    <3>1. req[r].id \in Connection
      BY <2>5 DEF ActivateCommit, Idle
    <3> QED BY <2>5, <3>1, ActiveStaysStored DEF ActivateCommit, Idle
  <2>6. ASSUME NEW r \in Request, NEW c \in Connection, DeleteRead(r, c) PROVE TypeOK'
    BY <2>6 DEF DeleteRead
  <2>7. ASSUME NEW r \in Request, DeleteCommit(r) PROVE TypeOK'
    <3>1. CASE Deletable(req[r].id)
      <4>1. PICK h \in Heir(req[r].active, stored') : active' = (active \ {req[r].id}) \cup h
        BY <2>7, <3>1 DEF DeleteCommit
      <4>2. h \subseteq stored'
        BY <4>1 DEF Heir
      <4> QED BY <2>7, <3>1, <4>1, <4>2 DEF DeleteCommit, Idle
    <3>2. CASE ~Deletable(req[r].id)
      BY <2>7, <3>2 DEF DeleteCommit, Idle
    <3> QED BY <3>1, <3>2
  <2>8. ASSUME NEW c \in Connection, Use(c) PROVE TypeOK'
    BY <2>8 DEF Use
  <2>9. ASSUME NEW c \in Connection, Release(c) PROVE TypeOK'
    BY <2>9 DEF Release
  <2> QED BY <2>1, <2>2, <2>3, <2>4, <2>5, <2>6, <2>7, <2>8, <2>9 DEF Next
<1> QED BY <1>1, <1>2

\* Types, for every set of connections, and with requests that overlap: among them
\* that only stored connections are active (the handlers of AwsConnection rows).
THEOREM ConnectionsTypeCorrect == Spec => []TypeOK
BY ConnectionsTypeStep, PTL DEF Spec

\* The connection of a resource or deployment is never deleted, whatever overlaps
\* (deleteAwsConnection, and the foreign keys that restrict it).
THEOREM ConnectionsInUseKept == Spec => []CredentialsKept
<1>1. Init => CredentialsKept
  BY DEF Init, CredentialsKept
<1>2. CredentialsKept /\ [Next]_vars => CredentialsKept'
  <2> SUFFICES ASSUME CredentialsKept, [Next]_vars PROVE CredentialsKept'
    OBVIOUS
  <2> USE DEF CredentialsKept
  <2>1. ASSUME NEW r \in Request, DeleteCommit(r) PROVE CredentialsKept'
    BY <2>1 DEF DeleteCommit, Deletable
  <2>2. ASSUME NEW r \in Request, NEW c \in Connection, CreateInsert(r, c) PROVE CredentialsKept'
    BY <2>2 DEF CreateInsert
  <2>3. ASSUME NEW c \in Connection, Use(c) \/ Release(c) PROVE CredentialsKept'
    BY <2>3 DEF Use, Release
  <2>4. CASE UNCHANGED <<stored, used>>
    BY <2>4
  <2> QED
    BY <2>1, <2>2, <2>3, <2>4
    DEF Next, vars, CreateCount, ActivateCommit, ActivateRead, DeleteRead, Starts
<1> QED BY <1>1, <1>2, PTL DEF Spec

-----------------------------------------------------------------------------
\* A step that begins no request while another is in progress.
StepAlone ==
    /\ Next
    /\ \A p, q \in Request : req[p] = Idle /\ req'[p] # Idle => req[q] = Idle

\* At most one request is in progress, and what it has read still holds.
Alone == \A p, q \in Request : req[p] # Idle /\ req[q] # Idle => p = q
ReadHolds ==
    \A r \in Request :
        /\ req[r].op = "create" => (req[r].first <=> stored = {})
        /\ req[r].op \in {"activate", "delete"} => req[r].id \in stored
        /\ req[r].op = "delete" => (req[r].active <=> req[r].id \in active)

OneInv == TypeOK /\ Alone /\ ReadHolds /\ OneActive

\* A request begins only when none is in progress.
LEMMA StartsAlone ==
    ASSUME TypeOK, StepAlone, NEW r \in Request, NEW w, w # Idle, Starts(r, w)
    PROVE  \A q \in Request : req[q] = Idle
<1>1. req'[r] = w /\ req[r] = Idle
  BY DEF Starts, TypeOK
<1> QED BY <1>1 DEF StepAlone

\* A request starts with what it has read just now.
LEMMA StartKeepsOne ==
    ASSUME OneInv, TypeOK', NEW r \in Request, NEW w, w # Idle, Starts(r, w), StepAlone,
           w.op = "create" => (w.first <=> stored = {}),
           w.op \in {"activate", "delete"} => w.id \in stored,
           w.op = "delete" => (w.active <=> w.id \in active)
    PROVE  OneInv'
<1>1. Alone'
  BY StartsAlone DEF OneInv, TypeOK, Alone, Starts
<1>2. ReadHolds'
  BY DEF OneInv, TypeOK, ReadHolds, Starts
<1>3. OneActive'
  BY DEF OneInv, OneActive, Starts
<1> QED BY <1>1, <1>2, <1>3 DEF OneInv

\* When the only request ends, none is in progress.
LEMMA EndLeavesNone ==
    ASSUME OneInv, NEW r \in Request, NEW op, op # "idle", Ends(r, op)
    PROVE  Alone' /\ ReadHolds'
<1>1. \A q \in Request : req'[q] = Idle
  BY DEF OneInv, TypeOK, Alone, Ends, Idle
<1> QED BY <1>1 DEF Alone, ReadHolds, Idle


\* What one request does alone leaves exactly one connection active, if any is stored.
LEMMA OneStep ==
    /\ Init => OneInv
    /\ OneInv /\ TypeOK' /\ (StepAlone \/ UNCHANGED vars) => OneInv'
<1>1. Init => OneInv
  BY DEF Init, OneInv, TypeOK, Alone, ReadHolds, OneActive, Idle
<1>2. OneInv /\ TypeOK' /\ (StepAlone \/ UNCHANGED vars) => OneInv'
  <2> SUFFICES ASSUME OneInv, TypeOK', StepAlone \/ UNCHANGED vars PROVE OneInv'
    OBVIOUS
  <2>1. CASE UNCHANGED vars
    BY <2>1 DEF vars, OneInv, Alone, ReadHolds, OneActive
  <2>2. ASSUME NEW r \in Request, CreateCount(r), StepAlone PROVE OneInv'
    BY <2>2, StartKeepsOne DEF CreateCount, Idle
  <2>3. ASSUME NEW r \in Request, NEW c \in Connection, CreateInsert(r, c) PROVE OneInv'
    <3>1. Alone' /\ ReadHolds'
      BY <2>3, EndLeavesNone DEF CreateInsert
    <3>2. OneActive'
      BY <2>3 DEF OneInv, TypeOK, ReadHolds, OneActive, CreateInsert, Ends
    <3> QED BY <3>1, <3>2 DEF OneInv
  <2>4. ASSUME NEW r \in Request, NEW c \in Connection, ActivateRead(r, c), StepAlone PROVE OneInv'
    BY <2>4, StartKeepsOne DEF ActivateRead, Idle
  <2>5. ASSUME NEW r \in Request, ActivateCommit(r) PROVE OneInv'
    <3>1. Alone' /\ ReadHolds'
      BY <2>5, EndLeavesNone DEF ActivateCommit
    <3>2. OneActive'
      BY <2>5 DEF OneInv, ReadHolds, OneActive, ActivateCommit, OnlyActive, Ends
    <3> QED BY <3>1, <3>2 DEF OneInv
  <2>6. ASSUME NEW r \in Request, NEW c \in Connection, DeleteRead(r, c), StepAlone PROVE OneInv'
    BY <2>6, StartKeepsOne DEF DeleteRead, Idle
  <2>7. ASSUME NEW r \in Request, DeleteCommit(r) PROVE OneInv'
    <3> DEFINE c == req[r].id
    <3>1. Alone' /\ ReadHolds'
      BY <2>7, EndLeavesNone DEF DeleteCommit
    <3>2. c \in stored /\ (req[r].active <=> c \in active)
      BY <2>7 DEF OneInv, ReadHolds, DeleteCommit, Ends
    <3>3. PICK a \in stored : active = {a}
      BY <3>2 DEF OneInv, OneActive
    <3>4. CASE ~Deletable(c)
      BY <2>7, <3>1, <3>4 DEF OneInv, OneActive, DeleteCommit
    <3>5. CASE Deletable(c)
      <4>1. stored' = stored \ {c}
        BY <2>7, <3>5 DEF DeleteCommit
      <4>2. PICK h \in Heir(req[r].active, stored') : active' = (active \ {c}) \cup h
        BY <2>7, <3>5 DEF DeleteCommit
      <4>3. ASSUME c = a PROVE OneActive'
        BY <3>2, <3>3, <4>1, <4>2, <4>3 DEF Heir, OneActive
      <4>4. ASSUME c # a PROVE OneActive'
        BY <3>2, <3>3, <4>1, <4>2, <4>4 DEF Heir, OneActive
      <4>5. OneActive'
        BY <4>3, <4>4
      <4> QED BY <3>1, <4>5 DEF OneInv
    <3> QED BY <3>4, <3>5
  <2>8. ASSUME NEW c \in Connection, Use(c) \/ Release(c) PROVE OneInv'
    BY <2>8 DEF Use, Release, OneInv, Alone, ReadHolds, OneActive
  <2> QED BY <2>1, <2>2, <2>3, <2>4, <2>5, <2>6, <2>7, <2>8 DEF Next, StepAlone
<1> QED BY <1>1, <1>2

\* If requests do not overlap, every step is one of a request that is alone.
LEMMA NoOverlapAlone == ASSUME ~Overlap, TypeOK PROVE Next => StepAlone
<1> SUFFICES ASSUME Next PROVE StepAlone
  OBVIOUS
<1>1. ASSUME NEW p \in Request, NEW q \in Request, req[p] = Idle, req'[p] # Idle PROVE req[q] = Idle
  <2>1. ASSUME NEW r \in Request, NEW w, Starts(r, w) PROVE req[q] = Idle
    BY <2>1 DEF Starts
  <2>2. ASSUME NEW r \in Request, NEW op, Ends(r, op) PROVE FALSE
    BY <1>1, <2>2 DEF Ends, TypeOK
  <2>3. ASSUME req' = req PROVE FALSE
    BY <1>1, <2>3
  <2> QED
    BY <2>1, <2>2, <2>3
    DEF Next, CreateCount, CreateInsert, ActivateRead, ActivateCommit, DeleteRead, DeleteCommit, Use, Release
<1> QED BY <1>1 DEF StepAlone

\* A user with connections has exactly one active connection, if requests do not
\* overlap (createAwsConnection, setActiveAwsConnection, deleteAwsConnection).
THEOREM OneConnectionActive == ASSUME ~Overlap PROVE Spec => []OneActive
<1>1. TypeOK /\ OneInv /\ TypeOK' /\ [Next]_vars => OneInv'
  BY NoOverlapAlone, OneStep
<1>2. OneInv => OneActive
  BY DEF OneInv
<1> QED BY <1>1, <1>2, OneStep, ConnectionsTypeCorrect, PTL DEF Spec

\* A step of the instance of AwsConnections without overlap is a step of AwsConnections.
LEMMA AloneStep == ASSUME TypeOK PROVE ConnectionsAlone!Next => StepAlone
<1> SUFFICES ASSUME ConnectionsAlone!Next PROVE StepAlone
  OBVIOUS
<1>0. ConnectionsAlone!Idle = Idle
  BY DEF ConnectionsAlone!Idle, Idle
<1>a. ASSUME NEW r, NEW w, ConnectionsAlone!Starts(r, w)
      PROVE  Starts(r, w) /\ \A q \in Request : req[q] = Idle
  BY <1>0, <1>a DEF ConnectionsAlone!Starts, Starts
<1>b. ASSUME NEW r \in Request, NEW op, ConnectionsAlone!Ends(r, op)
      PROVE  Ends(r, op) /\ \A p \in Request : req[p] = Idle => req'[p] = Idle
  BY <1>0, <1>b DEF ConnectionsAlone!Ends, Ends, TypeOK
<1>1. ASSUME NEW r \in Request, ConnectionsAlone!CreateCount(r) PROVE StepAlone
  BY <1>1, <1>a DEF ConnectionsAlone!CreateCount, CreateCount, StepAlone, Next
<1>2. ASSUME NEW r \in Request, NEW c \in Connection, ConnectionsAlone!CreateInsert(r, c) PROVE StepAlone
  BY <1>2, <1>b DEF ConnectionsAlone!CreateInsert, CreateInsert, StepAlone, Next
<1>3. ASSUME NEW r \in Request, NEW c \in Connection, ConnectionsAlone!ActivateRead(r, c) PROVE StepAlone
  BY <1>3, <1>a DEF ConnectionsAlone!ActivateRead, ActivateRead, StepAlone, Next
<1>4. ASSUME NEW r \in Request, ConnectionsAlone!ActivateCommit(r) PROVE StepAlone
  BY <1>4, <1>b DEF ConnectionsAlone!ActivateCommit, ActivateCommit, StepAlone, Next,
                    ConnectionsAlone!OnlyActive, OnlyActive
<1>5. ASSUME NEW r \in Request, NEW c \in Connection, ConnectionsAlone!DeleteRead(r, c) PROVE StepAlone
  BY <1>5, <1>a DEF ConnectionsAlone!DeleteRead, DeleteRead, StepAlone, Next
<1>6. ASSUME NEW r \in Request, ConnectionsAlone!DeleteCommit(r) PROVE StepAlone
  <2>1. DeleteCommit(r)
    BY <1>6, <1>b
    DEF ConnectionsAlone!DeleteCommit, DeleteCommit, ConnectionsAlone!Deletable, Deletable,
        ConnectionsAlone!Heir, Heir
  <2>2. \A p \in Request : req[p] = Idle => req'[p] = Idle
    BY <1>6, <1>b DEF ConnectionsAlone!DeleteCommit
  <2> QED BY <2>1, <2>2 DEF StepAlone, Next
<1>7. ASSUME NEW c \in Connection, ConnectionsAlone!Use(c) \/ ConnectionsAlone!Release(c) PROVE StepAlone
  BY <1>7 DEF ConnectionsAlone!Use, ConnectionsAlone!Release, Use, Release, StepAlone, Next
<1> QED
  BY <1>1, <1>2, <1>3, <1>4, <1>5, <1>6, <1>7 DEF ConnectionsAlone!Next

-----------------------------------------------------------------------------
(* The catalog of a connection.                                             *)

ReaderState ==
    [state : {"idle", "listing", "answered"},
     catalog : [Part -> Catalogs!Listed \cup {Catalogs!Pending}], due : [Part -> Catalogs!Version]]
OperationState == {Catalogs!NoChange} \cup [active : {TRUE}, part : Part, version : Catalogs!Version]

\* What a reader has listed is no older than what publishes and deletions have
\* reported, or have changed so far, for none changes AWS during a listing; what it
\* is answered is no older than what was reported when it asked.
Fits(a) ==
    /\ \A p \in Part : a.due[p] <= known[p]
    /\ a.state = "listing" =>
          /\ \A p \in Part : known[p] <= a.catalog[p]
          /\ \A o \in Operation : operation[o].active => operation[o].version <= a.catalog[operation[o].part]
    /\ a.state = "answered" => \A p \in Part : a.catalog[p] \in a.due[p]..Catalogs!Failed

\* The cached catalog is no older than what was reported.
CacheInv ==
    /\ Catalogs!TypeOK
    /\ \A p \in Part : known[p] <= world[p]
    /\ \A o \in Operation : operation[o].active => operation[o].version <= world[operation[o].part]
    /\ cached # Catalogs!NoCatalog => \A p \in Part : known[p] <= cached[p]
    /\ \A r \in Reader : Fits(reader[r])

\* Versions are numbers, and a refused or unanswered call counts as later than all.
LEMMA CatalogNumbers ==
    /\ MaxVersion \in Nat
    /\ Catalogs!Version \subseteq Nat
    /\ Catalogs!Failed \in Nat /\ Catalogs!Pending \in Nat
    /\ \A v \in Catalogs!Version : v <= Catalogs!Failed /\ v <= Catalogs!Pending /\ v \in Catalogs!Listed
    /\ \A v \in Catalogs!Listed : v \in Nat /\ v <= Catalogs!Failed /\ v # Catalogs!Pending
    /\ Catalogs!Failed \in Catalogs!Listed
    /\ \A v \in Catalogs!Version : v < MaxVersion => v + 1 \in Catalogs!Version
BY AccountAssumption
DEF Catalogs!CatalogAssumption, Catalogs!Version, Catalogs!Listed, Catalogs!Failed, Catalogs!Pending

\* The parts of the type invariant.
LEMMA CatalogParts ==
    Catalogs!TypeOK <=>
        /\ world \in [Part -> Catalogs!Version] /\ known \in [Part -> Catalogs!Version]
        /\ cached \in Catalogs!Catalog
        /\ reader \in [Reader -> ReaderState]
        /\ \A r \in Reader : reader[r].state = "answered" => Catalogs!Complete(reader[r].catalog)
        /\ operation \in [Operation -> OperationState]
BY DEF Catalogs!TypeOK, ReaderState, OperationState

\* An operation in progress has changed a part, to a version.
LEMMA ActiveOperation ==
    ASSUME NEW w \in OperationState, w.active
    PROVE  /\ w.part \in Part
           /\ w.version \in Catalogs!Version /\ w.version \in Nat
           /\ w.version <= Catalogs!Failed /\ w.version <= Catalogs!Pending
<1>1. ~Catalogs!NoChange.active
  BY DEF Catalogs!NoChange
<1>2. w \in [active : {TRUE}, part : Part, version : Catalogs!Version]
  BY <1>1 DEF OperationState
<1>3. w.part \in Part /\ w.version \in Catalogs!Version
  BY <1>2
<1> QED
  BY <1>3, CatalogNumbers

\* What is known and what the world has, part by part.
LEMMA CatalogValues ==
    ASSUME CacheInv, NEW p \in Part
    PROVE  /\ known[p] \in Catalogs!Version /\ world[p] \in Catalogs!Version
           /\ known[p] \in Nat /\ world[p] \in Nat
           /\ known[p] <= Catalogs!Failed /\ known[p] <= Catalogs!Pending
           /\ world[p] <= Catalogs!Failed
<1>1. known[p] \in Catalogs!Version /\ world[p] \in Catalogs!Version
  BY CatalogParts DEF CacheInv
<1> QED
  BY <1>1, CatalogNumbers

\* A step of one reader.
LEMMA ReaderMove ==
    ASSUME CacheInv, NEW r \in Reader, NEW a \in ReaderState, reader' = [reader EXCEPT ![r] = a],
           a.state = "answered" => Catalogs!Complete(a.catalog), Fits(a),
           UNCHANGED <<world, known, operation>>,
           cached' \in Catalogs!Catalog,
           cached' # Catalogs!NoCatalog => \A p \in Part : known[p] <= cached'[p]
    PROVE  CacheInv'
<1>1. reader \in [Reader -> ReaderState]
  BY CatalogParts DEF CacheInv
<1>2. \A q \in Reader : reader'[q] = IF q = r THEN a ELSE reader[q]
  BY <1>1
<1>3. reader' \in [Reader -> ReaderState]
  BY <1>1
<1>4. Catalogs!TypeOK'
  <2>1. \A q \in Reader : reader'[q].state = "answered" => Catalogs!Complete(reader'[q].catalog)
    BY <1>2, CatalogParts DEF CacheInv
  <2>2. /\ world' \in [Part -> Catalogs!Version] /\ known' \in [Part -> Catalogs!Version]
        /\ operation' \in [Operation -> OperationState]
    BY CatalogParts DEF CacheInv
  <2> QED
    BY <1>3, <2>1, <2>2 DEF Catalogs!TypeOK, ReaderState, OperationState, Catalogs!Complete
<1>5. \A b : Fits(b)' <=> Fits(b)
  BY DEF Fits
<1>6. \A q \in Reader : Fits(reader'[q])
  BY <1>2 DEF CacheInv
<1> QED
  BY <1>4, <1>5, <1>6 DEF CacheInv, Fits

\* Before anybody has read or changed anything, nothing is out of date.
LEMMA CacheInit == Catalogs!Init => CacheInv
<1> SUFFICES ASSUME Catalogs!Init PROVE CacheInv
  OBVIOUS
<1>1. 0 \in Catalogs!Version
  BY CatalogNumbers DEF Catalogs!Version
<1>2. Catalogs!NotReading \in ReaderState /\ Catalogs!NotReading.state = "idle"
  BY <1>1 DEF Catalogs!NotReading, ReaderState, Catalogs!NoCatalog
<1>3. Catalogs!TypeOK
  BY <1>1, <1>2, CatalogParts DEF Catalogs!Init, Catalogs!Catalog, OperationState
<1>4. ~Catalogs!NoChange.active
  BY DEF Catalogs!NoChange
<1>5. Fits(Catalogs!NotReading)
  BY <1>1 DEF Fits, Catalogs!NotReading, Catalogs!Init
<1> QED
  BY <1>3, <1>4, <1>5 DEF Catalogs!Init, CacheInv

\* A request is answered from the cache, or begins to list.
LEMMA ReadStep ==
    ASSUME CacheInv, NEW r \in Reader, Catalogs!getCatalog(r)
    PROVE  CacheInv'
<1> DEFINE a == [state |-> IF cached = Catalogs!NoCatalog THEN "listing" ELSE "answered",
                 catalog |-> cached, due |-> known]
<1>1. /\ known \in [Part -> Catalogs!Version] /\ operation \in [Operation -> OperationState]
      /\ cached \in [Part -> Catalogs!Listed] \cup {Catalogs!NoCatalog}
  BY CatalogParts DEF CacheInv, Catalogs!Catalog
<1>2. cached \in [Part -> Catalogs!Listed \cup {Catalogs!Pending}]
  BY <1>1 DEF Catalogs!NoCatalog
<1>3. a \in ReaderState
  BY <1>1, <1>2 DEF ReaderState
<1>4. a.state = "answered" => Catalogs!Complete(a.catalog)
  BY <1>1, CatalogNumbers DEF Catalogs!Complete
<1>5. \A p \in Part : a.due[p] <= known[p]
  BY CatalogValues
<1>6. ASSUME a.state = "listing"
      PROVE  /\ \A p \in Part : known[p] <= a.catalog[p]
             /\ \A o \in Operation : operation[o].active => operation[o].version <= a.catalog[operation[o].part]
  <2>1. \A p \in Part : a.catalog[p] = Catalogs!Pending
    BY <1>6 DEF Catalogs!NoCatalog
  <2>2. ASSUME NEW o \in Operation, operation[o].active
        PROVE  operation[o].part \in Part /\ operation[o].version <= Catalogs!Pending
    BY <1>1, <2>2, ActiveOperation
  <2> QED
    BY <2>1, <2>2, CatalogValues
<1>7. ASSUME a.state = "answered", NEW p \in Part
      PROVE  a.catalog[p] \in a.due[p]..Catalogs!Failed
  <2>1. cached # Catalogs!NoCatalog /\ a.catalog = cached /\ a.due = known
    BY <1>7
  <2>2. cached[p] \in Catalogs!Listed /\ known[p] <= cached[p]
    BY <1>1, <1>7, <2>1 DEF CacheInv
  <2>3. cached[p] \in Nat /\ cached[p] <= Catalogs!Failed
    BY <2>2, CatalogNumbers
  <2> QED
    BY <2>1, <2>2, <2>3, CatalogValues, CatalogNumbers
<1>8. Fits(a)
  BY <1>5, <1>6, <1>7 DEF Fits
<1>9. reader' = [reader EXCEPT ![r] = a] /\ UNCHANGED <<world, known, operation, cached>>
  BY DEF Catalogs!getCatalog
<1> HIDE DEF a
<1> QED
  BY <1>1, <1>3, <1>4, <1>8, <1>9, ReaderMove DEF CacheInv, Catalogs!Catalog

\* A part that is listed is listed as it is now.
LEMMA SettleStep ==
    ASSUME CacheInv, NEW r \in Reader, NEW q \in Part, Catalogs!Settle(r, q)
    PROVE  CacheInv'
<1>1. PICK v \in {world[q], Catalogs!Failed} : reader' = [reader EXCEPT ![r].catalog[q] = v]
  BY DEF Catalogs!Settle
<1> DEFINE a == [reader[r] EXCEPT !.catalog[q] = v]
<1>2. /\ world \in [Part -> Catalogs!Version] /\ known \in [Part -> Catalogs!Version]
      /\ operation \in [Operation -> OperationState] /\ cached \in Catalogs!Catalog
      /\ reader \in [Reader -> ReaderState] /\ reader[r] \in ReaderState
  BY CatalogParts DEF CacheInv
<1>3. reader[r].state = "listing" /\ UNCHANGED <<world, known, operation, cached>>
  BY DEF Catalogs!Settle
<1>4. v \in Catalogs!Listed /\ v \in Nat /\ known[q] <= v /\ v <= Catalogs!Failed
      /\ \A o \in Operation : operation[o].active /\ operation[o].part = q => operation[o].version <= v
  <2>1. ASSUME NEW o \in Operation, operation[o].active, operation[o].part = q
        PROVE  operation[o].version <= world[q] /\ operation[o].version <= Catalogs!Failed
    BY <1>2, <2>1, ActiveOperation DEF CacheInv
  <2>2. known[q] <= world[q] /\ known[q] <= Catalogs!Failed /\ world[q] \in Catalogs!Version
    BY CatalogValues DEF CacheInv
  <2>3. CASE v = world[q]
    BY <2>1, <2>2, <2>3, CatalogNumbers
  <2>4. CASE v = Catalogs!Failed
    BY <2>1, <2>2, <2>4, CatalogNumbers
  <2> QED
    BY <1>1, <2>3, <2>4
<1>5. /\ a \in ReaderState /\ a.state = "listing" /\ a.due = reader[r].due
      /\ \A p \in Part : a.catalog[p] = IF p = q THEN v ELSE reader[r].catalog[p]
  BY <1>2, <1>3, <1>4 DEF ReaderState
<1>6. reader' = [reader EXCEPT ![r] = a]
  BY <1>1, <1>2
<1> HIDE DEF a
<1>7. Fits(reader[r])
  BY DEF CacheInv
<1>8. \A o \in Operation : operation[o].active => operation[o].part \in Part
  BY <1>2, ActiveOperation
<1>9. Fits(a)
  BY <1>3, <1>4, <1>5, <1>7, <1>8 DEF Fits
<1> QED
  BY <1>2, <1>3, <1>5, <1>6, <1>9, ReaderMove DEF CacheInv

\* A complete listing is cached and answered.
LEMMA FinishStep ==
    ASSUME CacheInv, NEW r \in Reader, Catalogs!Finish(r)
    PROVE  CacheInv'
<1> DEFINE a == [reader[r] EXCEPT !.state = "answered"]
<1>1. /\ known \in [Part -> Catalogs!Version]
      /\ reader \in [Reader -> ReaderState] /\ reader[r] \in ReaderState
  BY CatalogParts DEF CacheInv
<1>2. /\ reader[r].state = "listing" /\ Catalogs!Complete(reader[r].catalog)
      /\ cached' = reader[r].catalog /\ UNCHANGED <<world, known, operation>>
      /\ reader' = [reader EXCEPT ![r] = a]
  BY <1>1 DEF Catalogs!Finish
<1>3. a \in ReaderState /\ a.catalog = reader[r].catalog /\ a.due = reader[r].due /\ a.state = "answered"
  BY <1>1 DEF ReaderState
<1> HIDE DEF a
<1>4. reader[r].catalog \in [Part -> Catalogs!Listed] /\ reader[r].due \in [Part -> Catalogs!Version]
  BY <1>1, <1>2 DEF ReaderState, Catalogs!Complete
<1>5. \A p \in Part : reader[r].due[p] <= known[p] /\ known[p] <= reader[r].catalog[p]
  BY <1>2 DEF CacheInv, Fits
<1>6. Fits(a)
  <2>1. \A p \in Part : a.catalog[p] \in a.due[p]..Catalogs!Failed
    <3>1. ASSUME NEW p \in Part PROVE a.catalog[p] \in a.due[p]..Catalogs!Failed
      <4>1. a.catalog[p] \in Nat /\ a.catalog[p] <= Catalogs!Failed /\ a.due[p] \in Nat
        BY <1>3, <1>4, CatalogNumbers
      <4>2. a.due[p] <= known[p] /\ known[p] <= a.catalog[p] /\ known[p] \in Nat
        BY <1>3, <1>5, CatalogValues
      <4> QED
        BY <4>1, <4>2, CatalogNumbers
    <3> QED
      BY <3>1
  <2> QED
    BY <1>3, <1>5, <2>1 DEF Fits
<1> QED
  BY <1>2, <1>3, <1>4, <1>5, <1>6, ReaderMove DEF Catalogs!Catalog

\* A reader is done with its answer.
LEMMA LeaveStep ==
    ASSUME CacheInv, NEW r \in Reader, Catalogs!Leave(r)
    PROVE  CacheInv'
<1>1. 0 \in Catalogs!Version
  BY CatalogNumbers DEF Catalogs!Version
<1>2. Catalogs!NotReading \in ReaderState /\ Catalogs!NotReading.state = "idle"
  BY <1>1 DEF Catalogs!NotReading, ReaderState, Catalogs!NoCatalog
<1>3. known \in [Part -> Catalogs!Version] /\ cached \in Catalogs!Catalog
  BY CatalogParts DEF CacheInv
<1>4. \A p \in Part : 0 <= known[p]
  BY CatalogValues
<1>5. Fits(Catalogs!NotReading)
  BY <1>2, <1>4 DEF Fits, Catalogs!NotReading
<1> QED
  BY <1>2, <1>3, <1>5, ReaderMove DEF Catalogs!Leave, CacheInv

\* Steps that change neither the cache, unless to drop it, nor what readers have.
LEMMA WorldMove ==
    ASSUME CacheInv, reader' = reader, cached' \in {cached, Catalogs!NoCatalog},
           world' \in [Part -> Catalogs!Version], known' \in [Part -> Catalogs!Version],
           operation' \in [Operation -> OperationState],
           \A p \in Part : known[p] <= known'[p] /\ known'[p] <= world'[p],
           known' = known \/ cached' = Catalogs!NoCatalog,
           \A o \in Operation : operation'[o].active => operation'[o].version <= world'[operation'[o].part],
           \A r \in Reader : reader[r].state = "listing" =>
               /\ \A p \in Part : known'[p] <= reader[r].catalog[p]
               /\ \A o \in Operation :
                     operation'[o].active => operation'[o].version <= reader[r].catalog[operation'[o].part]
    PROVE  CacheInv'
<1>1. /\ known \in [Part -> Catalogs!Version] /\ cached \in Catalogs!Catalog
      /\ reader \in [Reader -> ReaderState]
      /\ \A r \in Reader : reader[r].state = "answered" => Catalogs!Complete(reader[r].catalog)
  BY CatalogParts DEF CacheInv
<1>2. Catalogs!TypeOK'
  BY <1>1 DEF Catalogs!TypeOK, ReaderState, OperationState, Catalogs!Complete, Catalogs!Catalog
<1>3. ASSUME NEW r \in Reader PROVE Fits(reader[r])'
  <2>1. reader[r] \in ReaderState /\ Fits(reader[r])
    BY <1>1 DEF CacheInv
  <2>2. \A p \in Part : reader[r].due[p] \in Nat /\ known[p] \in Nat /\ known'[p] \in Nat
    BY <1>1, <2>1, CatalogNumbers DEF ReaderState
  <2>3. \A p \in Part : reader[r].due[p] <= known'[p]
    BY <2>1, <2>2 DEF Fits
  <2> QED
    BY <2>1, <2>3 DEF Fits
<1> QED
  BY <1>2, <1>3 DEF CacheInv

\* Every step keeps the catalog up to date with what was reported.
LEMMA CacheNext == CacheInv /\ [Catalogs!Next]_catalogVars => CacheInv'
<1> SUFFICES ASSUME CacheInv, [Catalogs!Next]_catalogVars PROVE CacheInv'
  OBVIOUS
<1>0. /\ world \in [Part -> Catalogs!Version] /\ known \in [Part -> Catalogs!Version]
      /\ operation \in [Operation -> OperationState]
      /\ \A p \in Part : known[p] <= world[p] /\ known[p] \in Nat /\ world[p] \in Nat
      /\ \A o \in Operation : operation[o].active =>
            /\ operation[o].part \in Part /\ operation[o].version \in Catalogs!Version
            /\ operation[o].version \in Nat /\ operation[o].version <= world[operation[o].part]
  <2>1. /\ world \in [Part -> Catalogs!Version] /\ known \in [Part -> Catalogs!Version]
        /\ operation \in [Operation -> OperationState]
    BY CatalogParts DEF CacheInv
  <2>2. \A o \in Operation : operation[o].active => operation[o].part \in Part /\ operation[o].version \in Catalogs!Version
    BY <2>1, ActiveOperation
  <2> QED
    BY <2>1, <2>2, CatalogNumbers DEF CacheInv
<1>a. \A r \in Reader : reader[r].state = "listing" =>
          /\ \A p \in Part : known[p] <= reader[r].catalog[p]
          /\ \A o \in Operation : operation[o].active => operation[o].version <= reader[r].catalog[operation[o].part]
  BY DEF CacheInv, Fits
<1>b. Catalogs!NoChange \in OperationState /\ ~Catalogs!NoChange.active
  BY DEF OperationState, Catalogs!NoChange
<1>1. CASE UNCHANGED catalogVars
  BY <1>0, <1>1, <1>a, WorldMove DEF catalogVars
<1>2. CASE Catalogs!Expire
  BY <1>0, <1>2, <1>a, WorldMove DEF Catalogs!Expire
<1>3. ASSUME NEW o \in Operation, NEW q \in Part, Catalogs!Change(o, q) PROVE CacheInv'
  <2> DEFINE w == [active |-> TRUE, part |-> q, version |-> world[q] + 1]
  <2>1. /\ world' = [world EXCEPT ![q] = @ + 1] /\ operation' = [operation EXCEPT ![o] = w]
        /\ UNCHANGED <<known, cached, reader>> /\ world[q] < MaxVersion
        /\ \A r \in Reader : reader[r].state # "listing"
    BY <1>3 DEF Catalogs!Change, Catalogs!Listing
  <2>2. world[q] + 1 \in Catalogs!Version /\ w \in OperationState
    BY <1>0, <2>1, CatalogNumbers DEF OperationState
  <2>3. /\ world' \in [Part -> Catalogs!Version] /\ operation' \in [Operation -> OperationState]
        /\ \A p \in Part : world[p] <= world'[p] /\ world'[p] \in Nat
        /\ world'[q] = world[q] + 1
    BY <1>0, <2>1, <2>2
  <2>4. \A k \in Operation : operation'[k].active => operation'[k].version <= world'[operation'[k].part]
    <3>1. ASSUME NEW k \in Operation, operation'[k].active
          PROVE  operation'[k].version <= world'[operation'[k].part]
      <4>1. CASE k = o
        BY <1>0, <2>1, <2>3, <4>1
      <4>2. CASE k # o
        <5>1. operation'[k] = operation[k]
          BY <1>0, <2>1, <4>2
        <5> QED
          BY <1>0, <2>3, <3>1, <5>1
      <4> QED
        BY <4>1, <4>2
    <3> QED
      BY <3>1
  <2>5. \A p \in Part : known[p] <= known'[p] /\ known'[p] <= world'[p]
    BY <1>0, <2>1, <2>3
  <2> QED
    BY <1>0, <2>1, <2>3, <2>4, <2>5, WorldMove
<1>4. ASSUME NEW o \in Operation, Catalogs!Changed(o) PROVE CacheInv'
  <2> DEFINE w == operation[o]
  <2>1. /\ w.active /\ cached' = Catalogs!NoCatalog /\ UNCHANGED <<world, reader>>
        /\ known' = [known EXCEPT ![w.part] = IF @ < w.version THEN w.version ELSE @]
        /\ operation' = [operation EXCEPT ![o] = Catalogs!NoChange]
    BY <1>4 DEF Catalogs!Changed, Catalogs!invalidateCatalog
  <2>2. \A p \in Part : known'[p] = IF p = w.part /\ known[p] < w.version THEN w.version ELSE known[p]
    BY <1>0, <2>1
  <2>3. known' \in [Part -> Catalogs!Version] /\ operation' \in [Operation -> OperationState]
    BY <1>0, <1>b, <2>1
  <2>4. \A k \in Operation : operation'[k].active => operation'[k] = operation[k]
    BY <1>0, <1>b, <2>1
  <2>5. \A p \in Part : known[p] <= known'[p] /\ known'[p] <= world'[p]
    BY <1>0, <2>1, <2>2
  <2>6. \A r \in Reader : reader[r].state = "listing" => \A p \in Part : known'[p] <= reader[r].catalog[p]
    BY <1>a, <2>1, <2>2
  <2>7. \A k \in Operation : operation'[k].active => operation'[k].version <= world'[operation'[k].part]
    BY <1>0, <2>1, <2>4
  <2> QED
    BY <1>0, <1>a, <2>1, <2>3, <2>4, <2>5, <2>6, <2>7, WorldMove
<1>5. ASSUME NEW o \in Operation, Catalogs!ChangeFailed(o) PROVE CacheInv'
  <2>1. operation' = [operation EXCEPT ![o] = Catalogs!NoChange] /\ UNCHANGED <<world, known, cached, reader>>
    BY <1>5 DEF Catalogs!ChangeFailed
  <2>2. operation' \in [Operation -> OperationState]
    BY <1>0, <1>b, <2>1
  <2>3. \A k \in Operation : operation'[k].active => operation'[k] = operation[k]
    BY <1>0, <1>b, <2>1
  <2> QED
    BY <1>0, <1>a, <2>1, <2>2, <2>3, WorldMove
<1>6. ASSUME NEW q \in Part, Catalogs!OutsideChange(q) PROVE CacheInv'
  <2>1. /\ world' = [world EXCEPT ![q] = @ + 1] /\ world[q] < MaxVersion
        /\ UNCHANGED <<known, cached, reader, operation>>
    BY <1>6 DEF Catalogs!OutsideChange
  <2>2. world[q] + 1 \in Catalogs!Version
    BY <1>0, <2>1, CatalogNumbers
  <2>3. world' \in [Part -> Catalogs!Version] /\ \A p \in Part : world[p] <= world'[p] /\ world'[p] \in Nat
    BY <1>0, <2>1, <2>2
  <2> QED
    BY <1>0, <1>a, <2>1, <2>3, WorldMove
<1> QED
  BY <1>1, <1>2, <1>3, <1>4, <1>5, <1>6, ReadStep, SettleStep, FinishStep, LeaveStep
  DEF Catalogs!Next, Catalogs!Settling, Catalogs!Finishing

-----------------------------------------------------------------------------
(* The conversation of a sketch.                                            *)

StoredMessage == [role : {"USER", "ASSISTANT"}, number : Nat]
SentMessage ==
    [tab : Tab, waits : BOOLEAN, conversation : Nat,
     state : {"sent", "asked", "replied", "failed", "done"}]

HasQuestion(n) == \E i \in DOMAIN messages : messages[i] = Tabs!User(n)

\* A question for which the AI service is asked is stored, unless its conversation
\* is gone; identifiers of conversations do not come back.
TabsInv ==
    /\ conversation \in Nat /\ made \in Nat /\ conversation <= made
    /\ messages \in Seq(StoredMessage)
    /\ sent \in Seq(SentMessage)
    /\ \A n \in DOMAIN sent : sent[n].state = "asked" =>
          /\ sent[n].conversation \in 1..made
          /\ sent[n].conversation = conversation => HasQuestion(n)
    /\ Tabs!RepliesFollowQuestions

\* One message is stored after the others.
LEMMA MessageAppended ==
    ASSUME messages \in Seq(StoredMessage), NEW m \in StoredMessage, messages' = Append(messages, m)
    PROVE  /\ messages' \in Seq(StoredMessage)
           /\ DOMAIN messages = 1..Len(messages) /\ Len(messages) \in Nat
           /\ DOMAIN messages' = 1..(Len(messages) + 1)
           /\ \A i \in DOMAIN messages : i \in DOMAIN messages' /\ messages'[i] = messages[i]
           /\ Len(messages) + 1 \in DOMAIN messages' /\ messages'[Len(messages) + 1] = m
           /\ \A n : HasQuestion(n) => HasQuestion(n)'
<1>1. /\ messages' \in Seq(StoredMessage)
      /\ DOMAIN messages = 1..Len(messages) /\ Len(messages) \in Nat
      /\ DOMAIN messages' = 1..(Len(messages) + 1)
  OBVIOUS
<1>2. \A i \in DOMAIN messages : i \in DOMAIN messages' /\ messages'[i] = messages[i]
  BY <1>1
<1>3. Len(messages) + 1 \in DOMAIN messages' /\ messages'[Len(messages) + 1] = m
  BY <1>1
<1>4. \A n : Tabs!User(n)' = Tabs!User(n)
  BY DEF Tabs!User
<1> QED BY <1>1, <1>2, <1>3, <1>4 DEF HasQuestion

\* A question may always be stored, and a reply when its question is.
LEMMA MessageFollows ==
    ASSUME messages \in Seq(StoredMessage), NEW m \in StoredMessage, messages' = Append(messages, m),
           m.role = "ASSISTANT" => HasQuestion(m.number), Tabs!RepliesFollowQuestions
    PROVE  Tabs!RepliesFollowQuestions'
<1> DEFINE L == Len(messages)
<1>1. /\ DOMAIN messages = 1..L /\ L \in Nat /\ DOMAIN messages' = 1..(L + 1)
      /\ \A i \in 1..L : messages'[i] = messages[i]
      /\ messages'[L + 1] = m
  BY MessageAppended
<1> HIDE DEF L
<1>2. \A n : Tabs!User(n)' = Tabs!User(n)
  BY DEF Tabs!User
<1>3. ASSUME NEW j \in DOMAIN messages', messages'[j].role = "ASSISTANT"
      PROVE  \E i \in 1..(j - 1) : messages'[i] = Tabs!User(messages'[j].number)
  <2>1. CASE j = L + 1
    <3>1. PICK i \in 1..L : messages[i] = Tabs!User(m.number)
      BY <1>1, <1>3, <2>1 DEF HasQuestion
    <3> QED BY <1>1, <2>1, <3>1
  <2>2. CASE j # L + 1
    <3>1. j \in 1..L /\ messages'[j] = messages[j]
      BY <1>1, <1>3, <2>2
    <3>2. PICK i \in 1..(j - 1) : messages[i] = Tabs!User(messages[j].number)
      BY <1>1, <1>3, <3>1 DEF Tabs!RepliesFollowQuestions
    <3>3. messages'[i] = messages[i]
      BY <1>1, <3>1, <3>2
    <3> QED BY <3>1, <3>2, <3>3
  <2> QED BY <2>1, <2>2
<1> QED BY <1>2, <1>3 DEF Tabs!RepliesFollowQuestions

\* A step that stores no message and asks nothing.
LEMMA SentMove ==
    ASSUME TabsInv, UNCHANGED <<conversation, made, messages>>, NEW n \in DOMAIN sent, NEW r \in SentMessage,
           sent' = [sent EXCEPT ![n] = r],
           r.state = "asked" => sent[n].state = "asked" /\ r.conversation = sent[n].conversation
    PROVE  TabsInv'
<1>1. DOMAIN sent' = DOMAIN sent /\ \A k \in DOMAIN sent : sent'[k] = IF k = n THEN r ELSE sent[k]
  BY DEF TabsInv
<1>2. sent' \in Seq(SentMessage)
  BY DEF TabsInv
<1>3. \A k : HasQuestion(k)' <=> HasQuestion(k)
  BY DEF HasQuestion, Tabs!User
<1>4. Tabs!RepliesFollowQuestions'
  BY DEF TabsInv, Tabs!RepliesFollowQuestions, Tabs!User
<1> QED BY <1>1, <1>2, <1>3, <1>4 DEF TabsInv

\* A load that finds no conversation makes one, that no question belongs to.
LEMMA LoadStep ==
    ASSUME TabsInv, Tabs!Upsert, UNCHANGED <<messages, sent>>
    PROVE  TabsInv'
<1>1. conversation' \in Nat /\ made' \in Nat /\ conversation' <= made' /\ made <= made'
  BY DEF TabsInv, Tabs!Upsert
<1>2. \A k : HasQuestion(k)' <=> HasQuestion(k)
  BY DEF HasQuestion, Tabs!User
<1>3. ASSUME NEW n \in DOMAIN sent, sent[n].state = "asked"
      PROVE  /\ sent[n].conversation \in 1..made'
             /\ sent[n].conversation = conversation' => HasQuestion(n)
  <2>1. sent[n].conversation \in 1..made /\ made \in Nat /\ conversation \in Nat
    BY <1>3 DEF TabsInv
  <2>2. CASE conversation = 0
    BY <1>1, <2>1, <2>2 DEF Tabs!Upsert
  <2>3. CASE conversation # 0
    BY <1>1, <1>3, <2>1, <2>3 DEF TabsInv, Tabs!Upsert
  <2> QED BY <2>2, <2>3
<1>4. Tabs!RepliesFollowQuestions'
  BY DEF TabsInv, Tabs!RepliesFollowQuestions, Tabs!User
<1> QED BY <1>1, <1>2, <1>3, <1>4 DEF TabsInv

\* A question is stored in the conversation that it is asked in.
LEMMA QuestionStep ==
    ASSUME TabsInv, NEW n \in DOMAIN sent, Tabs!Question(n)
    PROVE  TabsInv'
<1> DEFINE r == [sent[n] EXCEPT !.state = "asked", !.conversation = conversation']
           m == Tabs!User(n)
<1>1. /\ conversation \in Nat /\ made \in Nat /\ conversation <= made
      /\ messages \in Seq(StoredMessage) /\ sent \in Seq(SentMessage)
      /\ sent[n] \in SentMessage /\ n \in Nat
  BY DEF TabsInv
<1>2. Tabs!Upsert /\ messages' = Append(messages, m) /\ sent' = [sent EXCEPT ![n] = r]
  BY <1>1 DEF Tabs!Question
<1>3. conversation' \in 1..made' /\ made' \in Nat /\ conversation' <= made' /\ made <= made'
  BY <1>1, <1>2 DEF Tabs!Upsert
<1>4. r \in SentMessage /\ r.state = "asked" /\ r.conversation = conversation'
  <2>1. conversation' \in Nat
    BY <1>3
  <2> QED BY <1>1, <2>1 DEF SentMessage
<1>5. m \in StoredMessage /\ m.role = "USER"
  BY <1>1 DEF StoredMessage, Tabs!User
<1> HIDE DEF r
<1>6. /\ sent' \in Seq(SentMessage) /\ DOMAIN sent' = DOMAIN sent
      /\ \A k \in DOMAIN sent : sent'[k] = IF k = n THEN r ELSE sent[k]
  BY <1>1, <1>2, <1>4
<1>7. /\ messages' \in Seq(StoredMessage)
      /\ Len(messages) + 1 \in DOMAIN messages' /\ messages'[Len(messages) + 1] = m
      /\ \A k : HasQuestion(k) => HasQuestion(k)'
  <2> HIDE DEF m
  <2> QED BY <1>1, <1>2, <1>5, MessageAppended
<1>8. HasQuestion(n)'
  BY <1>7 DEF HasQuestion, Tabs!User
<1>9. ASSUME NEW k \in DOMAIN sent, k # n, sent[k].state = "asked", sent[k].conversation = conversation'
      PROVE  HasQuestion(k)'
  <2>1. sent[k].conversation \in 1..made
    BY <1>9 DEF TabsInv
  <2>2. conversation' = conversation
    BY <1>1, <1>2, <1>9, <2>1 DEF Tabs!Upsert
  <2> QED BY <1>7, <1>9, <2>2 DEF TabsInv
<1>10. \A k \in DOMAIN sent : sent[k].state = "asked" => sent[k].conversation \in 1..made'
  BY <1>1, <1>3 DEF TabsInv
<1>11. Tabs!RepliesFollowQuestions'
  <2> HIDE DEF m
  <2> QED BY <1>1, <1>2, <1>5, MessageFollows DEF TabsInv
<1> QED BY <1>3, <1>4, <1>6, <1>7, <1>8, <1>9, <1>10, <1>11 DEF TabsInv

\* A reply is stored after its question or not at all.
LEMMA ReplyStep ==
    ASSUME TabsInv, NEW n \in DOMAIN sent, Tabs!Reply(n)
    PROVE  TabsInv'
<1> DEFINE r == [sent[n] EXCEPT !.state = IF Tabs!StillThere(n) THEN "replied" ELSE "failed"]
           m == Tabs!Assistant(n)
<1>1. /\ messages \in Seq(StoredMessage) /\ sent \in Seq(SentMessage)
      /\ sent[n] \in SentMessage /\ n \in Nat
  BY DEF TabsInv
<1>2. /\ sent[n].state = "asked" /\ sent' = [sent EXCEPT ![n] = r] /\ UNCHANGED <<conversation, made>>
      /\ messages' = IF Tabs!StillThere(n) THEN Append(messages, m) ELSE messages
  BY <1>1 DEF Tabs!Reply
<1>3. r \in SentMessage /\ r.state # "asked"
  BY <1>1 DEF SentMessage
<1> HIDE DEF r
<1>4. CASE ~Tabs!StillThere(n)
  BY <1>2, <1>3, <1>4, SentMove
<1>5. CASE Tabs!StillThere(n)
  <2>1. m \in StoredMessage /\ m.number = n
    BY <1>1 DEF StoredMessage, Tabs!Assistant
  <2>2. HasQuestion(n)
    BY <1>2, <1>5 DEF TabsInv, Tabs!StillThere
  <2> HIDE DEF m
  <2>3. /\ sent' \in Seq(SentMessage) /\ DOMAIN sent' = DOMAIN sent
        /\ \A k \in DOMAIN sent : sent'[k] = IF k = n THEN r ELSE sent[k]
    BY <1>1, <1>2, <1>3
  <2>4. messages' = Append(messages, m)
    BY <1>2, <1>5
  <2>5. messages' \in Seq(StoredMessage) /\ \A k : HasQuestion(k) => HasQuestion(k)'
    BY <1>1, <2>1, <2>4, MessageAppended
  <2>6. Tabs!RepliesFollowQuestions'
    BY <1>1, <2>1, <2>2, <2>4, MessageFollows DEF TabsInv
  <2> QED BY <1>2, <1>3, <2>3, <2>5, <2>6 DEF TabsInv
<1> QED BY <1>4, <1>5

\* No step stores a reply without its question.
LEMMA TabsNext == TabsInv /\ [Tabs!Next]_tabsVars => TabsInv'
<1> SUFFICES ASSUME TabsInv, [Tabs!Next]_tabsVars PROVE TabsInv'
  OBVIOUS
<1>0. \A n \in DOMAIN sent : sent[n] \in SentMessage
  BY DEF TabsInv
<1>1. CASE UNCHANGED <<conversation, made, messages, sent>>
  BY <1>1 DEF TabsInv, HasQuestion, Tabs!RepliesFollowQuestions, Tabs!User
<1>2. ASSUME NEW t \in Tab, Tabs!Submit(t) PROVE TabsInv'
  <2> DEFINE s == [tab |-> t, waits |-> TRUE, conversation |-> 0, state |-> "sent"]
  <2>1. s \in SentMessage /\ s.state = "sent" /\ sent \in Seq(SentMessage)
    BY DEF SentMessage, TabsInv
  <2>2. sent' = Append(sent, s) /\ UNCHANGED <<conversation, made, messages>>
    BY <1>2 DEF Tabs!Submit
  <2> HIDE DEF s
  <2>3. /\ sent' \in Seq(SentMessage) /\ DOMAIN sent' = DOMAIN sent \cup {Len(sent) + 1}
        /\ \A n \in DOMAIN sent : sent'[n] = sent[n]
        /\ sent'[Len(sent) + 1] = s
    BY <2>1, <2>2
  <2>4. \A k : HasQuestion(k)' <=> HasQuestion(k)
    BY <2>2 DEF HasQuestion, Tabs!User
  <2>5. Tabs!RepliesFollowQuestions'
    BY <2>2 DEF TabsInv, Tabs!RepliesFollowQuestions, Tabs!User
  <2> QED BY <2>1, <2>2, <2>3, <2>4, <2>5 DEF TabsInv
<1>3. ASSUME NEW t \in Tab, Tabs!clearSketchConversation(t) PROVE TabsInv'
  <2>1. conversation' = 0 /\ messages' = <<>> /\ UNCHANGED <<made, sent>>
    BY <1>3 DEF Tabs!clearSketchConversation
  <2>2. messages' \in Seq(StoredMessage) /\ DOMAIN messages' = {}
    BY <2>1
  <2>3. Tabs!RepliesFollowQuestions'
    BY <2>2 DEF Tabs!RepliesFollowQuestions
  <2>4. \A n \in DOMAIN sent : sent[n].state = "asked" => sent[n].conversation \in 1..made /\ sent[n].conversation # 0
    BY DEF TabsInv
  <2> QED BY <2>1, <2>2, <2>3, <2>4 DEF TabsInv
<1>4. ASSUME NEW t \in Tab, Tabs!Clear(t) \/ Tabs!Cleared(t) PROVE TabsInv'
  BY <1>1, <1>4 DEF Tabs!Clear, Tabs!Cleared
<1>5. ASSUME NEW t \in Tab, NEW k \in DOMAIN loads[t], Tabs!getSketchConversation(t, k) PROVE TabsInv'
  BY <1>5, LoadStep DEF Tabs!getSketchConversation
<1>6. ASSUME NEW t \in Tab, NEW k \in DOMAIN loads[t], Tabs!Loaded(t, k) PROVE TabsInv'
  BY <1>1, <1>6 DEF Tabs!Loaded
<1>7. ASSUME NEW n \in DOMAIN sent, Tabs!AiFails(n) PROVE TabsInv'
  <2> DEFINE r == [sent[n] EXCEPT !.state = "failed"]
  <2>1. sent' = [sent EXCEPT ![n] = r] /\ UNCHANGED <<conversation, made, messages>>
    BY <1>7 DEF Tabs!AiFails, Tabs!server
  <2>2. r \in SentMessage /\ r.state = "failed"
    BY <1>0 DEF SentMessage
  <2> HIDE DEF r
  <2> QED BY <2>1, <2>2, SentMove
<1>8. ASSUME NEW n \in DOMAIN sent, Tabs!Answered(n) PROVE TabsInv'
  <2> DEFINE r == [sent[n] EXCEPT !.waits = FALSE, !.state = "done"]
  <2>1. sent' = [sent EXCEPT ![n] = r] /\ UNCHANGED <<conversation, made, messages>>
    BY <1>0, <1>8 DEF Tabs!Answered, Tabs!server, TabsInv
  <2>2. r \in SentMessage /\ r.state = "done"
    BY <1>0 DEF SentMessage
  <2> HIDE DEF r
  <2> QED BY <2>1, <2>2, SentMove
<1>9. ASSUME NEW n \in DOMAIN sent, Tabs!Refused(n) PROVE TabsInv'
  <2> DEFINE r == [sent[n] EXCEPT !.waits = FALSE]
  <2>1. sent' = [sent EXCEPT ![n] = r] /\ UNCHANGED <<conversation, made, messages>>
    BY <1>9 DEF Tabs!Refused, Tabs!server
  <2>2. r \in SentMessage /\ r.state = sent[n].state /\ r.conversation = sent[n].conversation
    BY <1>0 DEF SentMessage
  <2> HIDE DEF r
  <2> QED BY <2>1, <2>2, SentMove
<1> QED
  BY <1>1, <1>2, <1>3, <1>4, <1>5, <1>6, <1>7, <1>8, <1>9, QuestionStep, ReplyStep
  DEF Tabs!Next, tabsVars

-----------------------------------------------------------------------------
(* All of them.                                                             *)

\* Requests that do not overlap leave exactly one active connection, if there is one
\* (createAwsConnection, setActiveAwsConnection, deleteAwsConnection).
THEOREM AccountOneActive == AccountSpec => []OneActiveAlone
<1> DEFINE I == TypeOK /\ (part = "connections alone" => OneInv)
<1>1. AccountInit => I
  BY ConnectionsTypeStep, OneStep DEF AccountInit
<1>2. I /\ [AccountNext]_accountVars => I'
  <2> SUFFICES ASSUME I, [AccountNext]_accountVars PROVE I'
    OBVIOUS
  <2>1. [Next]_vars /\ part' = part /\ (part = "connections alone" => StepAlone \/ UNCHANGED vars)
    BY AloneStep DEF AccountNext, accountVars, StepAlone
  <2>2. TypeOK'
    BY <2>1, ConnectionsTypeStep
  <2> QED BY <2>1, <2>2, OneStep
<1>3. I => OneActiveAlone
  BY DEF OneInv, OneActiveAlone
<1> QED BY <1>1, <1>2, <1>3, PTL DEF AccountSpec

\* A catalog that is asked for after a publish or deletion was reported has what it
\* left, or a part that AWS refused to list, if nothing of CloudCanvas changes AWS
\* during a listing (getCatalog, invalidateCatalog).
THEOREM CatalogUpToDate == AccountSpec => []ReportedIsListed
<1>1. AccountInit => CacheInv
  BY CacheInit DEF AccountInit
<1>2. CacheInv /\ [AccountNext]_accountVars => CacheInv'
  BY CacheNext DEF AccountNext, accountVars
<1>3. CacheInv => ReportedIsListed
  BY DEF CacheInv, Fits, ReportedIsListed, Catalogs!ReportedIsListed
<1> QED BY <1>1, <1>2, <1>3, PTL DEF AccountSpec

\* For any number of tabs and questions, a stored reply has its question before it
\* (sendSketchConversationMessage, clearSketchConversation).
THEOREM RepliesHaveQuestions == AccountSpec => []RepliesFollowQuestions
<1>1. AccountInit => TabsInv
  <2> SUFFICES ASSUME Tabs!Init PROVE TabsInv
    BY DEF AccountInit
  <2>1. conversation = 0 /\ made = 0 /\ messages = <<>> /\ sent = <<>>
    BY DEF Tabs!Init
  <2>2. messages \in Seq(StoredMessage) /\ sent \in Seq(SentMessage) /\ DOMAIN messages = {} /\ DOMAIN sent = {}
    BY <2>1
  <2> QED BY <2>1, <2>2 DEF TabsInv, Tabs!RepliesFollowQuestions
<1>2. TabsInv /\ [AccountNext]_accountVars => TabsInv'
  BY TabsNext DEF AccountNext, accountVars
<1>3. TabsInv => RepliesFollowQuestions
  BY DEF TabsInv, RepliesFollowQuestions
<1> QED BY <1>1, <1>2, <1>3, PTL DEF AccountSpec
=============================================================================
