------------------------------ MODULE Requests ------------------------------
(***************************************************************************)
(* Requests that fail, overlap or get lost: sign-up and sign-in, the       *)
(* stored graph of a sketch whose requests do not overlap, and the saves   *)
(* of an editor whose requests are lost.  They share no state, so a        *)
(* behaviour is one of part, chosen at its start.                          *)
(***************************************************************************)
EXTENDS SignIn

CONSTANTS
    Node, ServiceOf, Edge, Definition, NoNode, Slot,            \* SketchGraph
    CanvasNode, CanvasEdge, Ends, Live, FirstNodes,             \* CanvasAutosave
    Setting, Refused, Normal, FirstSetting,
    Faulty, Reloads, MaxEdits, MaxQueue, MaxCopies

VARIABLES
    part,
    exists, type, ref, edges, req,                                                  \* SketchGraph
    canvas, baseline, server, timer, queue, save, flight, answer, loading, edits    \* CanvasAutosave

SketchGraphs == INSTANCE SketchGraph WITH Request <- Slot, Retype <- FALSE, Overlap <- FALSE

Autosave == INSTANCE CanvasAutosave WITH Node <- CanvasNode, Edge <- CanvasEdge

ASSUME RequestAssumption ==
    /\ SketchGraphs!GraphAssumption /\ SketchGraphs!DefinitionAssumption
    /\ Autosave!AutosaveAssumption

graphVars == <<exists, type, ref, edges, req>>
autosaveVars == <<canvas, baseline, server, timer, queue, save, flight, answer, loading, edits>>

RequestsInit ==
    /\ part \in {"sign-in", "graph", "autosave"}
    /\ Init /\ SketchGraphs!Init /\ Autosave!Init

RequestsNext ==
    \/ part = "sign-in" /\ Next /\ UNCHANGED <<part, graphVars, autosaveVars>>
    \/ part = "graph" /\ SketchGraphs!Next /\ UNCHANGED <<part, vars, autosaveVars>>
    \/ part = "autosave" /\ Autosave!Next /\ UNCHANGED <<part, vars, graphVars>>

requestsVars == <<part, vars, graphVars, autosaveVars>>
RequestsSpec == RequestsInit /\ [][RequestsNext]_requestsVars

-----------------------------------------------------------------------------
\* When requests do not overlap and a graph was imported or has replaced another,
\* the sketch holds this graph and nothing else, its references leading to its
\* own nodes.
OverwritesGraph == [][part = "graph" => SketchGraphs!Overwrites]_graphVars

\* Whatever is sent, lost, repeated or overtaken, stored edges join stored nodes,
\* no two of them the same ones, and a deployed node keeps its config.
StoredGraphSound == Autosave!StoredGraphSound
=============================================================================
