------------------------------- MODULE Editor -------------------------------
(***************************************************************************)
(* The open editor without lost requests, and the AI service behind it: the *)
(* history of the canvas, the saves of one tab, the polls of resources     *)
(* answered in order, the panel of a bucket, questions on their way        *)
(* through the agent service, and what the agent is told of the account.   *)
(* They share no state, so a behaviour is one of part, chosen at its       *)
(* start; Requests and Account have the faults.                            *)
(***************************************************************************)
EXTENDS CanvasHistory

CONSTANTS
    Node, Edge, Ends, FirstNodes, Setting, Refused,             \* CanvasAutosave
    Normal, FirstSetting, MaxEdits, MaxQueue, MaxCopies,
    Resource, Order, Frontend, MaxPolls, MaxActs,               \* ResourcePolling
    Prefix, Root, LastPage, MaxListings,                        \* BucketPanel
    Query, RecursionLimit,                                      \* AgentRun
    Collections, Lengths, MaxItems, Base, MaxCharacters         \* CatalogContext

VARIABLES
    part,
    canvas, baseline, server, timer, queue, save, flight, answer, loading, edits,   \* CanvasAutosave
    stray,              \* the nodes and edges that a failed save had sent
    aws, row, status, polls, act, acts,                                             \* ResourcePolling
    prefix, effect, requestId, listings, objects, awaited, upload,                  \* BucketPanel
    asked, waiting, running, node, steps, state,                                    \* AgentRun
    items, indexes, active, turn                                                    \* CatalogContext

\* Nothing is deployed, no request is lost, and the sketch is loaded once; a config
\* that is not complete is refused.
Autosave == INSTANCE CanvasAutosave WITH Live <- {}, Faulty <- FALSE, Reloads <- FALSE

Polling == INSTANCE ResourcePolling WITH
    FailPublish <- {}, FailDelete <- {}, InOrder <- TRUE, shown <- status

\* The user stays in a folder while uploading to it.
Panel == INSTANCE BucketPanel WITH StayPut <- TRUE, shown <- objects, loading <- awaited

Agent == INSTANCE AgentRun WITH Limit <- RecursionLimit, queue <- waiting

Context == INSTANCE CatalogContext

ASSUME EditorAssumption ==
    /\ Autosave!AutosaveAssumption /\ Polling!PollingAssumption /\ Panel!PanelAssumption
    /\ Agent!AgentAssumption /\ Context!ContextAssumption

autosaveVars == <<canvas, baseline, server, timer, queue, save, flight, answer, loading, edits>>
pollingVars == <<aws, row, status, polls, act, acts>>
panelVars == <<prefix, effect, requestId, listings, objects, awaited, upload>>
agentVars == <<asked, waiting, running, node, steps, state>>
contextVars == <<items, indexes, active, turn>>
editorVars == <<part, vars, autosaveVars, stray, pollingVars, panelVars, agentVars, contextVars>>

EditorInit ==
    /\ part \in {"history", "autosave", "polling", "panel", "agent", "context"}
    /\ Init /\ (part # "history" => shown = CHOOSE c \in Canvas : TRUE)
    /\ Autosave!Init /\ stray = {} /\ Polling!Init /\ Panel!Init /\ Agent!Init
    /\ Context!Init /\ (part # "context" => \A k \in DOMAIN items : items[k] = <<>>)

EditorNext ==
    \/ /\ part = "history" /\ Next
       /\ UNCHANGED <<part, autosaveVars, stray, pollingVars, panelVars, agentVars, contextVars>>
    \/ /\ part = "autosave" /\ Autosave!Next
       /\ stray' = IF Autosave!SaveFails THEN stray \cup Autosave!Sent ELSE stray
       /\ UNCHANGED <<part, vars, pollingVars, panelVars, agentVars, contextVars>>
    \/ /\ part = "polling" /\ Polling!Next
       /\ UNCHANGED <<part, vars, autosaveVars, stray, panelVars, agentVars, contextVars>>
    \/ /\ part = "panel" /\ Panel!Next
       /\ UNCHANGED <<part, vars, autosaveVars, stray, pollingVars, agentVars, contextVars>>
    \/ /\ part = "agent" /\ Agent!Next
       /\ UNCHANGED <<part, vars, autosaveVars, stray, pollingVars, panelVars, contextVars>>
    \/ /\ part = "context" /\ Context!Next
       /\ UNCHANGED <<part, vars, autosaveVars, stray, pollingVars, panelVars, agentVars>>

EditorSpec == EditorInit /\ [][EditorNext]_editorVars

\* Timers fire, the server answers, and the promises of the queue settle; the
\* editor stays open and polls, and AWS gets done with what it has begun; the
\* agent service keeps working, its models and tools answer or time out.
FairEditor ==
    /\ EditorSpec
    /\ WF_autosaveVars(part = "autosave" /\ Autosave!Debounce)
    /\ WF_autosaveVars(part = "autosave" /\ Autosave!Saving)
    /\ WF_autosaveVars(part = "autosave" /\ Autosave!Handling)
    /\ SF_pollingVars(part = "polling" /\ Polling!Poll)
    /\ WF_pollingVars(part = "polling" /\ Polling!Refreshing)
    /\ WF_pollingVars(part = "polling" /\ Polling!Showing)
    /\ WF_pollingVars(part = "polling" /\ Polling!Handling)
    /\ WF_pollingVars(part = "polling" /\ Polling!Settling)
    /\ WF_agentVars(part = "agent" /\ Agent!Run)

-----------------------------------------------------------------------------
\* When persistCanvas answers that a snapshot is saved, and a publish waiting
\* for it goes on, the server holds exactly that snapshot, but for what a failed
\* save had sent before: of that a later answer says nothing.
SavedMeansStored == [][/\ Autosave!SaveStart /\ ~save'.active => Autosave!MatchesBut(Head(queue), stray)
                       /\ Autosave!SaveDone => Autosave!MatchesBut(save.desired, stray)]_autosaveVars

\* Once the user stops editing, the server gets the canvas and keeps it, if no
\* config is ever sent that updateSketchNode refuses.
EventuallyStored == Autosave!EventuallyStored

\* In the end the editor shows each resource as the server has it.
EventuallyShown == Polling!EventuallyShown

\* Once nothing is awaited the panel shows objects of the folder it is in, with no
\* page missing or repeated.
ShowsItsFolder == Panel!ShowsItsFolder

\* However long a model goes on asking for tools, each run ends and the next
\* question gets its turn.
EveryTurnComes == Agent!EveryTurnComes

\* Nothing that fits is left out of what the agent is told: in the end each
\* collection is complete or its next item does not fit beside the others'.
NothingFitsAnyMore == Context!NothingFitsAnyMore
=============================================================================
