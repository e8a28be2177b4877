--------------------------- MODULE ResourceContract ---------------------------
(***************************************************************************)
(* What a user may rely on for one resource, whatever requests, failures   *)
(* and polls it takes: what its record says, and what there is of it in    *)
(* AWS and on the bill.  SketchLifecycle implements it for every resource  *)
(* while its handlers take turns.                                          *)
(***************************************************************************)
CONSTANTS
    Made,       \* the instances CloudCanvas may create for the resource
    Outside     \* whether somebody else may delete instances

VARIABLES
    status,     \* what the record says
    live,       \* the instances made that exist
    adopted     \* whether the record names an instance the user had before

vars == <<status, live, adopted>>

Init == status = "NONE" /\ live = {} /\ ~adopted

\* A publish takes the resource up when nothing is left of an earlier one, and
\* makes one instance or adopts the user's.
Begin ==
    /\ status \in {"NONE", "TERMINATED", "FAILED"} /\ live = {}
    /\ status' = "PROVISIONING" /\ live' = live /\ ~adopted'

Create ==
    /\ status = "PROVISIONING" /\ live = {} /\ ~adopted
    /\ \E i \in Made : live' = {i}
    /\ UNCHANGED <<status, adopted>>

Adopt ==
    /\ status = "PROVISIONING" /\ live = {} /\ ~adopted
    /\ status' = "RUNNING" /\ live' = live /\ adopted'

\* What AWS reports is recorded, RUNNING only of something there is, and never in
\* place of a deletion in progress.
Report ==
    /\ status \in {"PROVISIONING", "RUNNING", "FAILED"}
    /\ \/ status' = "PROVISIONING"
       \/ status' = "RUNNING" /\ (live # {} \/ adopted \/ Outside)
       \/ status' = "DELETING" /\ Outside
    /\ UNCHANGED <<live, adopted>>

\* Setting up or taking down may fail, and that is recorded.
Fail == status \in {"PROVISIONING", "DELETING"} /\ status' = "FAILED" /\ UNCHANGED <<live, adopted>>

\* Only what was made is deleted, only what is being deleted is removed, and only
\* what does not exist is closed.
Delete ==
    /\ status \in {"PROVISIONING", "RUNNING", "FAILED"} /\ ~adopted
    /\ status' = "DELETING" /\ UNCHANGED <<live, adopted>>
Remove == status = "DELETING" /\ live # {} /\ live' = {} /\ UNCHANGED <<status, adopted>>
Close == status # "NONE" /\ live = {} /\ status' = "TERMINATED" /\ UNCHANGED <<live, adopted>>

\* The record goes with its sketch.
Forget == status \in {"NONE", "TERMINATED"} /\ live = {} /\ status' = "NONE" /\ live' = live /\ ~adopted'

Vanish == Outside /\ live # {} /\ live' = {} /\ UNCHANGED <<status, adopted>>

Next ==
    \/ Begin \/ Create \/ Adopt \/ Report \/ Fail \/ Delete \/ Remove \/ Close \/ Forget
    \/ Vanish

Spec == Init /\ [][Next]_vars

-----------------------------------------------------------------------------
\* There are never two instances at once, nor one beside an adopted one; what is
\* recorded as terminated is gone, and what is recorded as running is there.
Promised ==
    /\ \A i, j \in live : i = j
    /\ adopted => live = {}
    /\ status \in {"NONE", "TERMINATED"} => live = {}
    /\ status = "RUNNING" => live # {} \/ adopted \/ Outside
=============================================================================
