---------------------------- MODULE CatalogCache ----------------------------
(***************************************************************************)
(* getCatalog and invalidateCatalog for one connection: a listing of the   *)
(* account, part by part, kept for two minutes.  Publishes and deletions   *)
(* invalidate it; changes behind CloudCanvas and partial failures do not.  *)
(***************************************************************************)
EXTENDS Naturals

CONSTANTS
    Part,       \* what is listed by a call of its own: groups, instances, ...
    Reader,     \* requests that need the catalog
    Operation,  \* publishes and deletions in progress
    Overlap,    \* whether they may change AWS during a listing
    MaxVersion  \* bound on the changes of each part

CatalogAssumption == Overlap \in BOOLEAN /\ MaxVersion \in Nat

VARIABLES
    world,      \* AWS: the version of each part
    known,      \* the version that the last finished publish or deletion left
    cached,     \* the stored catalog
    reader,     \* what each reader has listed or been answered
    operation   \* the change each operation has made

vars == <<world, known, cached, reader, operation>>

Version == 0..MaxVersion
Failed == MaxVersion + 1    \* the call was refused: an empty list and a warning
Listed == 0..Failed
Pending == MaxVersion + 2
NoCatalog == [p \in Part |-> Pending]

Catalog == [Part -> Listed] \cup {NoCatalog}
Complete(c) == \A p \in Part : c[p] # Pending

NotReading == [state |-> "idle", catalog |-> NoCatalog, due |-> [p \in Part |-> 0]]
NoChange == [active |-> FALSE]

TypeOK ==
    /\ world \in [Part -> Version] /\ known \in [Part -> Version]
    /\ cached \in Catalog
    /\ reader \in [Reader -> [state : {"idle", "listing", "answered"},
                              catalog : [Part -> Listed \cup {Pending}], due : [Part -> Version]]]
    /\ \A r \in Reader : reader[r].state = "answered" => Complete(reader[r].catalog)
    /\ operation \in [Operation -> {NoChange} \cup [active : {TRUE}, part : Part, version : Version]]

Init ==
    /\ world = [p \in Part |-> 0] /\ known = [p \in Part |-> 0]
    /\ cached = NoCatalog
    /\ reader = [r \in Reader |-> NotReading]
    /\ operation = [o \in Operation |-> NoChange]

-----------------------------------------------------------------------------
(* Readers.  due remembers what was known when the request came.            *)

getCatalog(r) ==
    /\ reader[r].state = "idle"
    /\ reader' = [reader EXCEPT ![r] =
          [state |-> IF cached = NoCatalog THEN "listing" ELSE "answered",
           catalog |-> cached, due |-> known]]
    /\ UNCHANGED <<world, known, cached, operation>>

\* One of the calls of AwsCatalogService.list is answered, or refused.
Settle(r, p) ==
    /\ reader[r].state = "listing"
    /\ reader[r].catalog[p] = Pending
    /\ \E v \in {world[p], Failed} : reader' = [reader EXCEPT ![r].catalog[p] = v]
    /\ UNCHANGED <<world, known, cached, operation>>

Finish(r) ==
    /\ reader[r].state = "listing"
    /\ Complete(reader[r].catalog)
    /\ cached' = reader[r].catalog
    /\ reader' = [reader EXCEPT ![r].state = "answered"]
    /\ UNCHANGED <<world, known, operation>>

Leave(r) ==
    /\ reader[r].state = "answered"
    /\ reader' = [reader EXCEPT ![r] = NotReading]
    /\ UNCHANGED <<world, known, cached, operation>>

\* Two minutes after it was stored, however often it was read.
Expire ==
    /\ cached # NoCatalog
    /\ cached' = NoCatalog
    /\ UNCHANGED <<world, known, reader, operation>>

-----------------------------------------------------------------------------
(* Publishes and deletions, and everybody else.                             *)

Listing == \E r \in Reader : reader[r].state = "listing"

\* createResource, updateResource or deleteResource takes effect in AWS ...
Change(o, p) ==
    /\ ~operation[o].active
    /\ Overlap \/ ~Listing
    /\ world[p] < MaxVersion
    /\ world' = [world EXCEPT ![p] = @ + 1]
    /\ operation' = [operation EXCEPT ![o] = [active |-> TRUE, part |-> p, version |-> world[p] + 1]]
    /\ UNCHANGED <<known, cached, reader>>

\* ... and the handler removes the catalog before it records and answers success.
\* Mutant: it keeps the catalog.
Keep == cached
invalidateCatalog == NoCatalog
Changed(o) ==
    LET w == operation[o] IN
    /\ w.active
    /\ cached' = invalidateCatalog
    /\ known' = [known EXCEPT ![w.part] = IF @ < w.version THEN w.version ELSE @]
    /\ operation' = [operation EXCEPT ![o] = NoChange]
    /\ UNCHANGED <<world, reader>>

\* A later call of the same operation failed; the catalog stays.
ChangeFailed(o) ==
    /\ operation[o].active
    /\ operation' = [operation EXCEPT ![o] = NoChange]
    /\ UNCHANGED <<world, known, cached, reader>>

\* A change made outside, or by AWS, as when an instance comes up.
OutsideChange(p) ==
    /\ world[p] < MaxVersion
    /\ world' = [world EXCEPT ![p] = @ + 1]
    /\ UNCHANGED <<known, cached, reader, operation>>

Settling == \E r \in Reader, p \in Part : Settle(r, p)
Finishing == \E r \in Reader : Finish(r)

Next ==
    \/ \E r \in Reader : getCatalog(r) \/ Leave(r)
    \/ Settling \/ Finishing
    \/ Expire
    \/ \E o \in Operation, p \in Part : Change(o, p)
    \/ \E o \in Operation : Changed(o) \/ ChangeFailed(o)
    \/ \E p \in Part : OutsideChange(p)

Spec == Init /\ [][Next]_vars

-----------------------------------------------------------------------------
(* Properties.                                                              *)

\* What a publish or deletion has reported is in every catalog asked for later,
\* unless AWS refused to list that part.
ReportedIsListed ==
    \A r \in Reader : reader[r].state = "answered" =>
        \A p \in Part : reader[r].catalog[p] \in reader[r].due[p]..Failed

=============================================================================
