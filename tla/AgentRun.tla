------------------------------ MODULE AgentRun ------------------------------
(***************************************************************************)
(* A question on its way through the agent service: the Express adapter    *)
(* with its timeout, the FastAPI route, which runs one graph at a time, and*)
(* the graph: a router, the AWS builder with its retry, and the general    *)
(* model with its tools under LangGraph's recursion limit.                 *)
(***************************************************************************)
EXTENDS Naturals, Sequences, SequencesExt

CONSTANTS
    Query,      \* the questions asked
    Limit       \* MAX_RECURSION_LIMIT: the steps a run may take

AgentAssumption == Limit \in Nat

VARIABLES
    asked,      \* what the adapter has made of each question
    queue,      \* the requests FastAPI has not begun, in order
    running,    \* the request whose graph is invoked, or "none"
    node,       \* the node of the graph that is next
    steps,      \* the nodes that have run
    state       \* AgentState: the route, the last message's tool calls, the final response

vars == <<asked, queue, running, node, steps, state>>

Fresh == [route |-> "none", tool_calls |-> FALSE, final_response |-> "none"]

TypeOK ==
    /\ asked \in [Query -> {"new", "waiting", "text", "build", "invalid", "upstream", "timeout"}]
    /\ Range(queue) \subseteq Query /\ IsInjective(queue)
    /\ running \in Query \cup {"none"} /\ running \notin Range(queue)
    /\ node \in {"none", "router", "aws_router", "aws_retry", "nvidia", "tools", "END"}
    /\ (running = "none") = (node = "none")
    /\ steps \in 0..Limit
    /\ state \in [route : {"none", "AWS", "GENERAL"}, tool_calls : BOOLEAN,
                  final_response : {"none", "text", "build"}]

Init ==
    /\ asked = [q \in Query |-> "new"]
    /\ queue = <<>> /\ running = "none" /\ node = "none" /\ steps = 0 /\ state = Fresh

-----------------------------------------------------------------------------
(* AIService.query.                                                         *)

query(q) ==
    /\ asked[q] = "new"
    /\ asked' = [asked EXCEPT ![q] = "waiting"] /\ queue' = Append(queue, q)
    /\ UNCHANGED <<running, node, steps, state>>

\* The adapter gives up; the service is not told.
Timeout(q) ==
    /\ asked[q] = "waiting"
    /\ asked' = [asked EXCEPT ![q] = "timeout"]
    /\ UNCHANGED <<queue, running, node, steps, state>>

\* parseSuccessResponse may still reject what the model has built.
Received(result) ==
    IF result = "build" THEN {"build", "invalid"} ELSE {result}

-----------------------------------------------------------------------------
(* execute_query: the graph is invoked synchronously.                       *)

Begin ==
    /\ running = "none" /\ queue # <<>>
    /\ running' = Head(queue) /\ queue' = Tail(queue)
    /\ node' = "router" /\ steps' = 0 /\ state' = Fresh
    /\ UNCHANGED asked

\* The answer goes to whoever is still waiting for it.
Reply(result) ==
    /\ \E r \in Received(result) :
        asked' = IF asked[running] = "waiting" THEN [asked EXCEPT ![running] = r] ELSE asked
    /\ running' = "none" /\ node' = "none" /\ steps' = 0 /\ state' = Fresh
    /\ UNCHANGED queue

\* Mutant: a question is passed to the model again and again.
NotCounted == steps
Counted == steps + 1
Step(at, next) ==
    /\ node = at /\ steps < Limit
    /\ node' = next /\ steps' = Counted
    /\ UNCHANGED <<asked, queue, running>>

Route ==
    \E r \in {"AWS", "GENERAL"} :
        /\ Step("router", IF r = "AWS" THEN "aws_router" ELSE "nvidia")
        /\ state' = [state EXCEPT !.route = r]

AwsRouter ==
    /\ Step("aws_router", "END")
    /\ state' = [state EXCEPT !.final_response = "build"]

\* Too long a request (413) is made once more, without catalog and history.
TooLarge ==
    /\ node = "aws_router" /\ steps < Limit
    /\ node' = "aws_retry"
    /\ UNCHANGED <<asked, queue, running, steps, state>>
AwsRetry ==
    /\ Step("aws_retry", "END")
    /\ state' = [state EXCEPT !.final_response = "build"]

\* A message without tool calls is the final response.
IsFinal(calls) == ~calls
NvidiaNode ==
    \E calls \in BOOLEAN :
        /\ Step("nvidia", IF calls THEN "tools" ELSE "END")
        /\ state' = [state EXCEPT !.tool_calls = calls,
                        !.final_response = IF IsFinal(calls) THEN "text" ELSE @]

\* What goes wrong in a tool is told to the model.
Tools == Step("tools", "nvidia") /\ UNCHANGED state

\* An error or a timeout of a model call, or the limit, ends the run.
Fails ==
    /\ node \in {"router", "aws_router", "aws_retry", "nvidia"}
    /\ Reply("upstream")
LimitReached ==
    /\ node \notin {"none", "END"} /\ steps = Limit
    /\ Reply("upstream")

Respond ==
    /\ node = "END"
    /\ Reply(IF state.final_response = "none" THEN "upstream" ELSE state.final_response)

Run ==
    \/ Begin \/ Route \/ AwsRouter \/ TooLarge \/ AwsRetry \/ NvidiaNode \/ Tools
    \/ LimitReached \/ Respond
Next == Run \/ Fails \/ \E q \in Query : query(q) \/ Timeout(q)

Spec == Init /\ [][Next]_vars

-----------------------------------------------------------------------------

\* However long a model goes on asking for tools, each run ends and the next
\* question gets its turn.
EveryTurnComes == \A q \in Query : asked[q] = "waiting" ~> q \notin Range(queue) /\ running # q
=============================================================================
