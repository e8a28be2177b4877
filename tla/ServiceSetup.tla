---------------------------- MODULE ServiceSetup ----------------------------
(***************************************************************************)
(* Creation and deletion of the services whose handlers make several AWS   *)
(* calls: a bucket and its settings, a security group and its rules, an    *)
(* IAM role and its policies.  One resource, one request at a time; every  *)
(* AWS call may fail.                                                      *)
(***************************************************************************)
EXTENDS Naturals, FiniteSets, FiniteSetsExt

CONSTANTS
    Kinds,      \* the services looked at
    Parts,      \* how many settings, rules or policies a config may ask for
    PageSize,   \* how many policies one ListAttachedRolePolicies call returns
    Meddling    \* whether somebody else may detach policies

Part == 1..Parts

SetupAssumption ==
    /\ Kinds \subseteq {"S3_BUCKET", "SECURITY_GROUP", "IAM_ROLE"}
    /\ Parts \in Nat /\ PageSize \in Nat \ {0}
    /\ Meddling \in BOOLEAN

VARIABLES
    kind,       \* the service of the resource
    exists,     \* whether AWS has the bucket, group or role
    applied,    \* the parts it has in AWS
    row,        \* its AwsResource row
    at,         \* where the request in flight is
    todo,       \* the parts still to be put on, or detached
    marker      \* the Marker of the next page, 0 when there is none

vars == <<kind, exists, applied, row, at, todo, marker>>

Row == [status : {"NONE", "PROVISIONING", "RUNNING", "DELETING", "FAILED", "TERMINATED"},
        known : BOOLEAN,                \* externalId is set
        wanted : SUBSET Part]           \* the parts of desiredConfig

TypeOK ==
    /\ kind \in Kinds /\ exists \in BOOLEAN
    /\ applied \subseteq Part /\ (applied # {} => exists)
    /\ row \in Row
    /\ at \in {"idle", "create", "checkpoint", "configure", "store", "fail",
               "list", "detach", "delete", "gone", "refused"}
    /\ todo \subseteq Part /\ marker \in 0..Parts

Init ==
    /\ kind \in Kinds /\ exists = FALSE /\ applied = {}
    /\ row = [status |-> "NONE", known |-> FALSE, wanted |-> {}]
    /\ at = "idle" /\ todo = {} /\ marker = 0

-----------------------------------------------------------------------------
(* create, createRole and createBucket, called by deploySketch.             *)

Publish(wanted) ==
    /\ at = "idle"
    /\ \/ row.status \in {"NONE", "TERMINATED"}
       \/ row.status = "FAILED" /\ ~row.known
    /\ row' = [status |-> "PROVISIONING", known |-> FALSE, wanted |-> wanted]
    /\ at' = "create" /\ todo' = wanted
    /\ UNCHANGED <<kind, exists, applied, marker>>

\* Only the bucket's handler is given the callback that saves the identifier.
AfterCreate == IF kind = "S3_BUCKET" THEN "checkpoint" ELSE "configure"

\* A name that is taken, as by what an earlier publish left, is an error.
CreateCall ==
    /\ at = "create" /\ ~exists
    /\ exists' = TRUE /\ at' = AfterCreate
    /\ UNCHANGED <<kind, applied, row, todo, marker>>

onCreated ==
    /\ at = "checkpoint"
    /\ row' = [row EXCEPT !.known = TRUE] /\ at' = "configure"
    /\ UNCHANGED <<kind, exists, applied, todo, marker>>

\* configureBucket, authorizeIngress and attach: one part after another.
Configure ==
    /\ at = "configure" /\ todo # {}
    /\ applied' = applied \cup {Min(todo)} /\ todo' = todo \ {Min(todo)}
    /\ UNCHANGED <<kind, exists, row, at, marker>>
\* Mutant: the result is returned once the first part is on.
ConfiguredSome == todo # row.wanted \/ todo = {}
Configured == todo = {}
ConfigureDone ==
    /\ at = "configure" /\ Configured /\ at' = "store"
    /\ todo' = {} /\ UNCHANGED <<kind, exists, applied, row, marker>>

Store ==
    /\ at = "store"
    /\ row' = [row EXCEPT !.status = "RUNNING", !.known = TRUE] /\ at' = "idle"
    /\ UNCHANGED <<kind, exists, applied, todo, marker>>

CreateError ==
    /\ at \in {"create", "configure"} /\ at' = "fail" /\ todo' = {}
    /\ UNCHANGED <<kind, exists, applied, row, marker>>
Fail ==
    /\ at = "fail"
    /\ row' = [row EXCEPT !.status = "FAILED"] /\ at' = "idle"
    /\ UNCHANGED <<kind, exists, applied, todo, marker>>

-----------------------------------------------------------------------------
(* deleteResourceRecord, with deleteRole's loop.                            *)

Detach ==
    /\ at = "idle" /\ row.status \notin {"NONE", "TERMINATED"} /\ ~row.known
    /\ row' = [row EXCEPT !.status = "TERMINATED"]
    /\ UNCHANGED <<kind, exists, applied, at, todo, marker>>

Delete ==
    /\ at = "idle" /\ row.status \notin {"NONE", "TERMINATED"} /\ row.known
    /\ row' = [row EXCEPT !.status = "DELETING"]
    /\ at' = (IF kind = "IAM_ROLE" THEN "list" ELSE "delete")
    /\ todo' = {} /\ marker' = 0
    /\ UNCHANGED <<kind, exists, applied>>

\* A page is what is attached beyond the marker; a Marker comes back with a
\* page that is not the last one.
Beyond == {p \in applied : p > marker}
Page == {p \in Beyond : Cardinality({q \in Beyond : q < p}) < PageSize}
\* Mutant: IsTruncated is not looked at.
OnePage == 0
NextMarker == IF Page = Beyond THEN 0 ELSE Max(Page)

ListPolicies ==
    /\ at = "list" /\ exists
    /\ todo' = Page /\ marker' = NextMarker
    /\ at' = "detach"
    /\ UNCHANGED <<kind, exists, applied, row>>

\* A policy that somebody else has detached is "not found".
DetachPolicy ==
    /\ at = "detach" /\ todo # {} /\ Min(todo) \in applied
    /\ applied' = applied \ {Min(todo)} /\ todo' = todo \ {Min(todo)}
    /\ UNCHANGED <<kind, exists, row, at, marker>>
PolicyNotFound ==
    /\ at = "detach" /\ todo # {} /\ Min(todo) \notin applied
    /\ at' = "gone" /\ todo' = {} /\ marker' = 0
    /\ UNCHANGED <<kind, exists, applied, row>>
PageDone ==
    /\ at = "detach" /\ todo = {}
    /\ at' = (IF marker = 0 THEN "delete" ELSE "list")
    /\ UNCHANGED <<kind, exists, applied, row, todo, marker>>

\* A role with policies attached is not deleted.
Deletable == kind = "IAM_ROLE" => applied = {}
DeleteCall ==
    /\ at = "delete" /\ exists /\ Deletable
    /\ exists' = FALSE /\ applied' = {} /\ at' = "gone"
    /\ UNCHANGED <<kind, row, todo, marker>>

DeleteError ==
    /\ at \in {"list", "detach", "delete"}
    /\ at' = "refused" /\ todo' = {} /\ marker' = 0
    /\ UNCHANGED <<kind, exists, applied, row>>

\* Deleted, or found missing.
Terminated ==
    /\ at = "gone"
    /\ row' = [row EXCEPT !.status = "TERMINATED"] /\ at' = "idle"
    /\ UNCHANGED <<kind, exists, applied, todo, marker>>
Refused ==
    /\ at = "refused"
    /\ row' = [row EXCEPT !.status = "FAILED"] /\ at' = "idle"
    /\ UNCHANGED <<kind, exists, applied, todo, marker>>

\* Somebody detaches a policy of the role in the AWS console.
Meddle(p) ==
    /\ Meddling /\ kind = "IAM_ROLE" /\ p \in applied
    /\ applied' = applied \ {p}
    /\ UNCHANGED <<kind, exists, row, at, todo, marker>>

Next ==
    \/ \E wanted \in SUBSET Part : Publish(wanted)
    \/ CreateCall \/ onCreated \/ Configure \/ ConfigureDone \/ Store \/ CreateError \/ Fail
    \/ Detach \/ Delete \/ ListPolicies \/ DetachPolicy \/ PolicyNotFound \/ PageDone
    \/ DeleteCall \/ DeleteError \/ Terminated \/ Refused
    \/ \E p \in Part : Meddle(p)

Spec == Init /\ [][Next]_vars

-----------------------------------------------------------------------------
(* Properties.                                                              *)

\* RUNNING says that AWS has everything the config asked for, TERMINATED that
\* the resource is deleted or was missing, whichever call failed on the way.
StatusTellsAws ==
    /\ row.status = "RUNNING" => exists /\ applied = row.wanted
    /\ row.status = "TERMINATED" /\ row.known => ~exists

\* DeleteRole is called when the loop over the pages has left no policy, so a
\* role CloudCanvas made is not refused for policies CloudCanvas attached.
PoliciesGoFirst == at = "delete" => Deletable
=============================================================================
