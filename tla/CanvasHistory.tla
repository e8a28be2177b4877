---------------------------- MODULE CanvasHistory ----------------------------
(***************************************************************************)
(* Undo and redo in the graph editor.  The editor records the canvas before*)
(* it adds or removes nodes and edges; moves and forms change the canvas   *)
(* without a record.  Two records may be made of one canvas: the removal of*)
(* a node with edges comes as two changes.                                 *)
(***************************************************************************)
EXTENDS Naturals, Sequences

CONSTANTS
    Canvas,     \* what a canvas may look like
    Limit       \* how many records are kept

ASSUME HistoryAssumption == Limit \in Nat \ {0}

VARIABLES
    shown,      \* the canvas
    past,       \* records that undo goes back to
    future      \* canvases that were undone, the last one on top

vars == <<shown, past, future>>

TypeOK ==
    /\ shown \in Canvas
    /\ past \in Seq(Canvas) /\ future \in Seq(Canvas)
    /\ Len(past) + Len(future) <= Limit

Init == shown \in Canvas /\ past = <<>> /\ future = <<>>

Top(s) == s[Len(s)]
Pop(s) == SubSeq(s, 1, Len(s) - 1)

\* The oldest record is given up beyond the limit.
Pushed(c) == LET p == Append(past, c) IN IF Len(p) > Limit THEN Tail(p) ELSE p

NoFuture == <<>>

\* addNode, onConnect, deleteNode, and changes of React Flow that add or remove.
Record(c) ==
    /\ past' = Pushed(shown)
    /\ future' = NoFuture
    /\ shown' = c

\* updateSelectedResource, and changes of React Flow that move or select.
Edit(c) == shown' = c /\ UNCHANGED <<past, future>>

\* Mutant: undo keeps for redo what it goes back to.
Restored == Top(past)
Current == shown

Undo ==
    /\ past # <<>>
    /\ past' = Pop(past)
    /\ future' = Append(future, Current)
    /\ shown' = Top(past)

Redo ==
    /\ future # <<>>
    /\ future' = Pop(future)
    /\ past' = Append(past, shown)
    /\ shown' = Top(future)

loadSketch(c) == shown' = c /\ past' = <<>> /\ future' = <<>>

Next ==
    \/ \E c \in Canvas : Record(c) \/ Edit(c) \/ loadSketch(c)
    \/ Undo \/ Redo

Spec == Init /\ [][Next]_vars

-----------------------------------------------------------------------------
(* Properties.                                                              *)

\* The records, the canvas and what was undone, in the order of the visit.
LineOf(p, c, f) ==
    [i \in 1..(Len(p) + 1 + Len(f)) |->
        IF i <= Len(p) THEN p[i]
        ELSE IF i = Len(p) + 1 THEN c
        ELSE f[Len(p) + Len(f) + 2 - i]]
line == LineOf(past, shown, future)

Timeline == INSTANCE CanvasTimeline WITH line <- line, place <- Len(past) + 1

\* Two stacks implement a line of canvases that undo and redo walk along.
WalksALine == Timeline!Spec
=============================================================================
