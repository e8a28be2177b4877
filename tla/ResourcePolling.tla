--------------------------- MODULE ResourcePolling ---------------------------
(***************************************************************************)
(* What an open editor shows of the resources of its sketch.  It polls the *)
(* server for refreshed resources, at intervals and whether or not earlier *)
(* polls were answered, and reloads the sketch after a publish or deletion *)
(* that succeeded.  The server handles each request in one step here; how  *)
(* requests overlap there is the subject of SketchLifecycle.               *)
(***************************************************************************)
EXTENDS Naturals, Sequences, SequencesExt

CONSTANTS
    Resource, Order,    \* the resources of the sketch, in publish order
    Frontend,           \* the CloudFront distributions among them
    FailPublish, FailDelete,    \* those whose creation or deletion may fail
    InOrder,            \* whether a poll is answered before anything else is asked
    MaxPolls, MaxActs   \* bounds on polls in flight, and on publishes and deletions

PollingAssumption ==
    /\ Order \in Seq(Resource) /\ {Order[k] : k \in DOMAIN Order} = Resource
    /\ InOrder \in BOOLEAN
    /\ MaxPolls \in Nat /\ MaxActs \in Nat

VARIABLES
    aws,        \* the instance of each resource
    row,        \* status of each row, and whether its setup is complete
    shown,      \* the status that the editor shows
    polls,      \* polls in flight: the refreshed resources, once handled
    act,        \* the publish or deletion in progress
    acts        \* how many there were

vars == <<aws, row, shown, polls, act, acts>>

Status == {"none", "PROVISIONING", "RUNNING", "DELETING", "FAILED", "TERMINATED"}
Rows == [Resource -> [status : Status, setup : BOOLEAN]]
Unhandled == [handled |-> FALSE, answer |-> [r \in Resource |-> "none"]]
Resting == [op |-> "none", target |-> {}, stage |-> "sent", rows |-> [r \in Resource |-> "none"]]

TypeOK ==
    /\ aws \in [Resource -> {"absent", "coming", "up", "disabling", "disabled"}]
    /\ row \in Rows
    /\ shown \in [Resource -> Status]
    /\ polls \in Seq([handled : BOOLEAN, answer : [Resource -> Status]]) /\ Len(polls) <= MaxPolls
    /\ act \in [op : {"none", "publish", "delete"}, target : SUBSET Resource,
                stage : {"sent", "done", "loaded"}, rows : [Resource -> Status]]
    /\ acts \in 0..MaxActs
    /\ \A r \in Resource : row[r].status = "TERMINATED" => aws[r] = "absent"

Init ==
    /\ aws = [r \in Resource |-> "absent"]
    /\ row = [r \in Resource |-> [status |-> "none", setup |-> TRUE]]
    /\ shown = [r \in Resource |-> "none"]
    /\ polls = <<>>
    /\ act = Resting
    /\ acts = 0

-----------------------------------------------------------------------------
(* AWS.                                                                     *)

Settle(r) ==
    /\ \/ aws[r] = "coming" /\ aws' = [aws EXCEPT ![r] = "up"]
       \/ aws[r] = "disabling" /\ aws' = [aws EXCEPT ![r] = "disabled"]
    /\ UNCHANGED <<row, shown, polls, act, acts>>

-----------------------------------------------------------------------------
(* Polls.                                                                   *)

\* A distribution is deleted by the next refresh once it is disabled.
Finishes(r) == row[r].status = "DELETING" /\ r \in Frontend /\ aws[r] \in {"absent", "disabled"}

\* refreshResourceRecord: what it does not skip, it describes, or it retries the
\* deletion of a distribution; only these rows are in the answer.
Refreshed(r) ==
    \/ row[r].status \in {"PROVISIONING", "RUNNING"}
    \/ row[r].status = "FAILED" /\ row[r].setup /\ r \notin Frontend
    \/ Finishes(r)

Described(r) ==
    CASE aws[r] = "absent" \/ Finishes(r) -> "TERMINATED"
      [] aws[r] \in {"coming", "disabling"} -> "PROVISIONING"
      [] OTHER -> "RUNNING"

Poll ==
    /\ Len(polls) < MaxPolls
    /\ InOrder => polls = <<>> /\ act = Resting
    /\ polls' = Append(polls, Unhandled)
    /\ UNCHANGED <<aws, row, shown, act, acts>>

refreshSketchResources(k) ==
    /\ ~polls[k].handled
    /\ polls' = [polls EXCEPT ![k] = [handled |-> TRUE,
                    answer |-> [r \in Resource |-> IF Refreshed(r) THEN Described(r) ELSE "none"]]]
    /\ row' = [r \in Resource |-> IF Refreshed(r) THEN [status |-> Described(r), setup |-> TRUE] ELSE row[r]]
    /\ aws' = [r \in Resource |-> IF Finishes(r) THEN "absent" ELSE aws[r]]
    /\ UNCHANGED <<shown, act, acts>>

\* applyResourceSnapshots: what the answer has is shown, the rest is kept.
\* Mutant: the answer takes the place of everything.
ReplaceShown(s, a) == a
Merge(s, a) == [r \in Resource |-> IF a[r] = "none" THEN s[r] ELSE a[r]]
Polled(k) ==
    /\ polls[k].handled
    /\ shown' = Merge(shown, polls[k].answer)
    /\ polls' = RemoveAt(polls, k)
    /\ UNCHANGED <<aws, row, act, acts>>

-----------------------------------------------------------------------------
(* Publishes and deletions from this editor.                                *)

Act(op, target) ==
    /\ act = Resting /\ acts < MaxActs
    /\ InOrder => polls = <<>>
    /\ acts' = acts + 1
    /\ act' = [Resting EXCEPT !.op = op, !.target = target]
    /\ UNCHANGED <<aws, row, shown, polls>>

Publish == Act("publish", {})
\* The editor offers the deletion of what it shows as not terminated.
DeleteOne(r) == shown[r] \notin {"none", "TERMINATED"} /\ Act("delete", {r})
DeleteAll == (\E r \in Resource : shown[r] \notin {"none", "TERMINATED"}) /\ Act("delete", Resource)

Create(r) == row[r].status \in {"none", "TERMINATED"} \/ (row[r].status = "FAILED" /\ aws[r] = "absent")
Blocked ==
    \E r \in Resource : row[r].status \in {"PROVISIONING", "DELETING"}
                        \/ (row[r].status = "FAILED" /\ aws[r] # "absent")

Answer(ok) == act' = IF ok THEN [act EXCEPT !.stage = "done"] ELSE Resting

\* deploySketch creates, in order, what is not running.  The creation of Order[k]
\* may fail, before or after AWS has made the resource.
Created(r) ==
    IF r \in Frontend THEN [aws |-> "coming", status |-> "PROVISIONING"]
                      ELSE [aws |-> "up", status |-> "RUNNING"]

deploySketch ==
    /\ act.op = "publish" /\ act.stage = "sent"
    /\ \/ Blocked /\ Answer(FALSE) /\ UNCHANGED <<aws, row>>
       \/ ~Blocked /\ \E k \in 1..(Len(Order) + 1), left \in BOOLEAN :
             LET New == {r \in Resource : Create(r) /\ \E j \in 1..(k - 1) : r = Order[j]}
                 Failed == {r \in Resource : k <= Len(Order) /\ r = Order[k]} IN
             /\ \A r \in Failed : r \in FailPublish /\ Create(r)
             /\ aws' = [r \in Resource |-> IF r \in New \/ (r \in Failed /\ left) THEN Created(r).aws ELSE aws[r]]
             /\ row' = [r \in Resource |->
                           IF r \in New THEN [status |-> Created(r).status, setup |-> TRUE]
                           ELSE IF r \in Failed THEN [status |-> "FAILED", setup |-> FALSE] ELSE row[r]]
             /\ Answer(Failed = {})
    /\ UNCHANGED <<shown, polls, acts>>

\* deleteResourceRecord for the targets in reverse order, up to the first that is
\* pending, which answers success, or that fails.
Deletes(r) == r \in act.target /\ row[r].status \notin {"none", "TERMINATED"}
Pends(r) == r \in Frontend /\ aws[r] \in {"coming", "up", "disabling"}

deleteResources ==
    /\ act.op = "delete" /\ act.stage = "sent"
    /\ \E k \in 0..Len(Order), fails \in BOOLEAN :
          LET Gone == {r \in Resource : Deletes(r) /\ \E j \in (k + 1)..Len(Order) : r = Order[j]}
              Stop == {r \in Resource : k > 0 /\ r = Order[k]} IN
          /\ \A r \in Gone : ~Pends(r)
          /\ \A r \in Stop : Deletes(r) /\ IF fails THEN r \in FailDelete /\ aws[r] # "absent" ELSE Pends(r)
          /\ aws' = [r \in Resource |-> IF r \in Gone THEN "absent"
                                        ELSE IF r \in Stop /\ ~fails THEN "disabling" ELSE aws[r]]
          /\ row' = [r \in Resource |->
                        IF r \in Gone THEN [row[r] EXCEPT !.status = "TERMINATED"]
                        ELSE IF r \in Stop THEN [row[r] EXCEPT !.status = IF fails THEN "FAILED" ELSE "DELETING"]
                        ELSE row[r]]
          /\ Answer(Stop = {} \/ ~fails)
    /\ UNCHANGED <<shown, polls, acts>>

\* After success the sketch is loaded again, and all its resources are replaced.
getSketch ==
    /\ act.stage = "done"
    /\ act' = [act EXCEPT !.stage = "loaded", !.rows = [r \in Resource |-> row[r].status]]
    /\ UNCHANGED <<aws, row, shown, polls, acts>>

loadSketch ==
    /\ act.stage = "loaded"
    /\ shown' = act.rows
    /\ act' = Resting
    /\ UNCHANGED <<aws, row, polls, acts>>

Handling == deploySketch \/ deleteResources \/ getSketch \/ loadSketch
Refreshing == \E k \in DOMAIN polls : refreshSketchResources(k)
Showing == \E k \in DOMAIN polls : Polled(k)
Settling == \E r \in Resource : Settle(r)

Next ==
    \/ Settling \/ Poll \/ Refreshing \/ Showing
    \/ Publish \/ DeleteAll \/ (\E r \in Resource : DeleteOne(r))
    \/ Handling

Spec == Init /\ [][Next]_vars

-----------------------------------------------------------------------------
(* Properties.                                                              *)

\* In the end the editor shows each resource as the server has it.
EventuallyShown == <>[](\A r \in Resource : shown[r] = row[r].status)

=============================================================================
