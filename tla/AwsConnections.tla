--------------------------- MODULE AwsConnections ---------------------------
(***************************************************************************)
(* The AWS connections of one user: which of them is active, that is, taken*)
(* where none is chosen (catalog, conversation, publish dialog), and which *)
(* may be deleted.  The handlers read first and write later; the writes of *)
(* setActiveAwsConnection and of deleteAwsConnection are transactions.     *)
(***************************************************************************)

CONSTANTS
    Connection, \* identifiers of connections
    Request,    \* requests handled at the same time
    Overlap     \* whether a request may come while another is in progress

ASSUME ConnectionsAssumption == Overlap \in BOOLEAN

VARIABLES
    stored,     \* the connections of the user
    active,     \* those with isActive
    used,       \* those of resources or deployments
    req         \* what each request in progress has read

vars == <<stored, active, used, req>>

Idle == [op |-> "idle"]

TypeOK ==
    /\ stored \subseteq Connection
    /\ active \subseteq stored
    /\ used \subseteq Connection
    /\ req \in [Request -> {Idle} \cup [op : {"create"}, first : BOOLEAN]
                                  \cup [op : {"activate"}, id : Connection]
                                  \cup [op : {"delete"}, id : Connection, active : BOOLEAN]]

Init ==
    /\ stored = {} /\ active = {} /\ used = {}
    /\ req = [r \in Request |-> Idle]

Starts(r, work) ==
    /\ req[r] = Idle
    /\ Overlap \/ \A q \in Request : req[q] = Idle
    /\ req' = [req EXCEPT ![r] = work]
    /\ UNCHANGED <<stored, active, used>>

Ends(r, op) == req[r].op = op /\ req' = [req EXCEPT ![r] = Idle]

-----------------------------------------------------------------------------
CreateCount(r) == Starts(r, [op |-> "create", first |-> stored = {}])

CreateInsert(r, c) ==
    /\ Ends(r, "create")
    /\ c \notin stored
    /\ \A q \in Request : req[q].op \in {"activate", "delete"} => req[q].id # c
    /\ stored' = stored \cup {c}
    /\ active' = IF req[r].first THEN active \cup {c} ELSE active
    /\ UNCHANGED used

ActivateRead(r, c) == c \in stored /\ Starts(r, [op |-> "activate", id |-> c])

\* All are cleared and one is set; if that one is gone, all of it is undone.
OnlyActive(c) == IF c \in stored THEN {c} ELSE active
ActivateCommit(r) ==
    /\ Ends(r, "activate")
    /\ active' = OnlyActive(req[r].id)
    /\ UNCHANGED <<stored, used>>

DeleteRead(r, c) == c \in stored /\ Starts(r, [op |-> "delete", id |-> c, active |-> c \in active])

\* Resources and deployments restrict the deletion of their connection.
\* Mutant: they do not.
AnyDeletable(c) == c \in stored
Deletable(c) == c \in stored \ used

\* One of the others (the one updated last) takes over from an active connection.
\* Mutant: none does.
NoHeir(wasActive, others) == {{}}
Heir(wasActive, others) ==
    IF wasActive /\ others # {} THEN {{h} : h \in others} ELSE {{}}

DeleteCommit(r) ==
    LET c == req[r].id IN
    /\ Ends(r, "delete")
    /\ IF Deletable(c)
       THEN /\ stored' = stored \ {c}
            /\ \E h \in Heir(req[r].active, stored') : active' = (active \ {c}) \cup h
       ELSE UNCHANGED <<stored, active>>
    /\ UNCHANGED used

\* A publish records its connection, in the sketch, a deployment and resources;
\* the records go with the sketch.
Use(c) ==
    /\ c \in stored
    /\ used' = used \cup {c}
    /\ UNCHANGED <<stored, active, req>>
Release(c) ==
    /\ c \in used
    /\ used' = used \ {c}
    /\ UNCHANGED <<stored, active, req>>

Next ==
    \/ \E r \in Request : CreateCount(r) \/ ActivateCommit(r) \/ DeleteCommit(r)
    \/ \E r \in Request, c \in Connection : CreateInsert(r, c) \/ ActivateRead(r, c) \/ DeleteRead(r, c)
    \/ \E c \in Connection : Use(c) \/ Release(c)

Spec == Init /\ [][Next]_vars

-----------------------------------------------------------------------------
(* Properties.                                                              *)

\* A user who has connections has exactly one active connection.
OneActive == stored # {} => \E c \in stored : active = {c}

\* The credentials that resources were created with, and are deleted with, are kept.
CredentialsKept == used \subseteq stored
=============================================================================
