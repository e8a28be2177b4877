--------------------------- MODULE CanvasTimeline ---------------------------
(***************************************************************************)
(* What undo and redo promise: the canvases of a visit form a line, and    *)
(* the user stands at one of them.                                         *)
(***************************************************************************)
EXTENDS Naturals, Sequences

CONSTANTS Canvas, Limit

VARIABLES line, place

vars == <<line, place>>

Init == \E c \in Canvas : line = <<c>> /\ place = 1

\* A change ends the line; the oldest canvas is given up beyond the limit.
Extended(c) == Append(SubSeq(line, 1, place), c)
Change ==
    \E c \in Canvas :
        /\ line' = IF place <= Limit THEN Extended(c) ELSE Tail(Extended(c))
        /\ place' = IF place <= Limit THEN place + 1 ELSE place

\* What is not worth a step of its own changes the canvas in its place.
Retouch == \E c \in Canvas : line' = [line EXCEPT ![place] = c] /\ place' = place

Undo == place > 1 /\ place' = place - 1 /\ line' = line
Redo == place < Len(line) /\ place' = place + 1 /\ line' = line

Load == \E c \in Canvas : line' = <<c>> /\ place' = 1

Next == Change \/ Retouch \/ Undo \/ Redo \/ Load

Spec == Init /\ [][Next]_vars
=============================================================================
