------------------------------ MODULE Readiness ------------------------------
(***************************************************************************)
(* waitForResourceReady: before a node is published, each of its sources   *)
(* is described again and again until it is RUNNING, with a deadline.      *)
(* Time is discrete and starts at 0 with the call.                         *)
(***************************************************************************)
EXTENDS Naturals

CONSTANTS
    Timeout, Interval,  \* AWS_DEPENDENCY_READY_TIMEOUT_MS and _INTERVAL_MS
    MaxRead,            \* how long one description takes at most
    MaxLag              \* how late a timer fires at most

ASSUME ReadinessAssumption ==
    /\ Timeout \in Nat /\ Interval \in Nat
    /\ MaxRead \in Nat /\ MaxLag \in Nat

VARIABLES
    now,
    resource,   \* AWS: "missing", "PROVISIONING", "RUNNING" or "FAILED"
    since,      \* when it became RUNNING
    phase,      \* "reading", "sleeping", or how the wait ended
    from,       \* when the reading or the sleep began
    until,      \* when the sleep is to end
    got         \* what AWS found for this reading, "nothing" so far

vars == <<now, resource, since, phase, from, until, got>>

Ended == {"ready", "dead", "timeout", "error"}

TypeOK ==
    /\ now \in Nat /\ since \in Nat /\ from \in Nat /\ until \in 0..Timeout
    /\ resource \in {"missing", "PROVISIONING", "RUNNING", "FAILED"}
    /\ phase \in {"reading", "sleeping"} \cup Ended
    /\ got \in {"nothing", "missing", "PROVISIONING", "RUNNING", "FAILED"}

Init ==
    /\ now = 0 /\ since = 0 /\ from = 0 /\ until = 0
    /\ resource \in {"missing", "PROVISIONING", "RUNNING", "FAILED"}
    /\ phase = "reading" /\ got = "nothing"

-----------------------------------------------------------------------------
(* Time passes while AWS or the timer keeps the wait waiting.               *)
Tick ==
    /\ \/ phase = "reading" /\ now < from + MaxRead
       \/ phase = "sleeping" /\ now < until + MaxLag
    /\ now' = now + 1
    /\ UNCHANGED <<resource, since, phase, from, until, got>>

\* The resource turns up, and runs in the end or fails.
Settle ==
    /\ phase \notin Ended
    /\ \/ resource = "missing" /\ resource' = "PROVISIONING" /\ since' = since
       \/ resource = "PROVISIONING" /\ resource' = "RUNNING" /\ since' = now
       \/ resource = "PROVISIONING" /\ resource' = "FAILED" /\ since' = since
    /\ UNCHANGED <<now, phase, from, until, got>>

\* AWS looks at the resource, some time between the request and the answer.
Describe ==
    /\ phase = "reading" /\ got = "nothing"
    /\ got' = resource
    /\ UNCHANGED <<now, resource, since, phase, from, until>>

\* Any other error of the call is thrown.
ReadError ==
    /\ phase = "reading"
    /\ phase' = "error"
    /\ UNCHANGED <<now, resource, since, from, until, got>>

Ready ==
    /\ phase = "reading" /\ got = "RUNNING"
    /\ phase' = "ready"
    /\ UNCHANGED <<now, resource, since, from, until, got>>

Dead ==
    /\ phase = "reading" /\ got = "FAILED"
    /\ phase' = "dead"
    /\ UNCHANGED <<now, resource, since, from, until, got>>

\* The deadline is looked at when the answer is there.
\* Mutant: a wait that would end after the deadline is not begun.
WithoutLastSleep == now + Interval >= Timeout
Late == now >= Timeout
GiveUp ==
    /\ phase = "reading" /\ got \in {"missing", "PROVISIONING"} /\ Late
    /\ phase' = "timeout"
    /\ UNCHANGED <<now, resource, since, from, until, got>>

\* The last sleep ends at the deadline, so that there is one more reading.
Pause == IF Interval < Timeout - now THEN Interval ELSE Timeout - now
Sleep ==
    /\ phase = "reading" /\ got \in {"missing", "PROVISIONING"} /\ ~Late
    /\ phase' = "sleeping" /\ from' = now /\ until' = now + Pause
    /\ UNCHANGED <<now, resource, since, got>>

Unread == "nothing"
Wake ==
    /\ phase = "sleeping" /\ now >= until
    /\ phase' = "reading" /\ from' = now /\ got' = Unread
    /\ UNCHANGED <<now, resource, since, until>>

Next ==
    \/ Tick \/ Settle
    \/ Describe \/ ReadError \/ Ready \/ Dead \/ GiveUp \/ Sleep \/ Wake

Spec == Init /\ [][Next]_vars

-----------------------------------------------------------------------------
\* A dependency that has been running for the time of one reading when the
\* deadline comes does not make the publish time out.
ReadyIsUsed ==
    phase = "timeout" => ~(resource = "RUNNING" /\ since + MaxRead < Timeout)

\* The wait is over when the deadline has passed and one last reading is done.
EndsInTime == now <= Timeout + MaxLag + MaxRead
=============================================================================
