--------------------------- MODULE CatalogContext ---------------------------
(***************************************************************************)
(* compact_catalog_context: how the agent service cuts a connection's      *)
(* catalog down to the characters the model is given.  The collections of  *)
(* the catalog take turns, one item at a time, and a collection drops out  *)
(* when its next item does not fit.  Items are their encoded lengths.      *)
(***************************************************************************)
EXTENDS Naturals, Sequences, FiniteSetsExt, SequencesExt

CONSTANTS
    Collections,        \* the catalog's lists, in the order of its keys
    Lengths, MaxItems,  \* lengths an item may have, and bound on the items of a list
    Base,               \* characters of the catalog with every list empty
    MaxCharacters       \* MAX_CONTEXT_CHARACTERS

ContextAssumption ==
    /\ Collections \in Seq(Range(Collections))
    /\ \A i, j \in DOMAIN Collections : Collections[i] = Collections[j] => i = j
    /\ Lengths \subseteq Nat /\ MaxItems \in Nat
    /\ Base \in Nat /\ MaxCharacters \in Nat

VARIABLES
    items,      \* the catalog: the lengths of each collection's items
    indexes,    \* how many items of each have been taken
    active,     \* the collections that are still taking turns
    turn        \* what is left of the copy the inner loop runs over

vars == <<items, indexes, active, turn>>

Key == Range(Collections)

TypeOK ==
    /\ items \in [Key -> SeqOf(Lengths, MaxItems)]
    /\ indexes \in [Key -> 0..MaxItems]
    /\ Range(active) \subseteq Key /\ Range(turn) \subseteq Range(active)

\* Encoded, items of a list are separated by one character each.
Separators(n) == IF n = 0 THEN 0 ELSE n - 1
Taken(k, n) == MapThenSumSet(LAMBDA i : items[k][i], 1..n) + Separators(n)
Encoded(taken) == Base + MapThenSumSet(LAMBDA k : Taken(k, taken[k]), Key)

Init ==
    /\ items \in [Key -> SeqOf(Lengths, MaxItems)]
    /\ indexes = [k \in Key |-> 0]
    /\ active = Collections /\ turn = <<>>

\* active.copy()
Round ==
    /\ turn = <<>> /\ active # <<>>
    /\ turn' = active
    /\ UNCHANGED <<items, indexes, active>>

Done(k) == indexes[k] >= Len(items[k])
WithNext(k) == Encoded([indexes EXCEPT ![k] = @ + 1])

\* Mutant: the text has to be shorter than the budget.
FitsWithRoom(k) == WithNext(k) < MaxCharacters
Fits(k) == WithNext(k) <= MaxCharacters
Takes(k) == ~Done(k) /\ Fits(k)

Drop ==
    /\ turn # <<>> /\ ~Takes(Head(turn))
    /\ \E i \in DOMAIN active : active[i] = Head(turn) /\ active' = RemoveAt(active, i)
    /\ turn' = Tail(turn)
    /\ UNCHANGED <<items, indexes>>

Take ==
    /\ turn # <<>> /\ Takes(Head(turn))
    /\ indexes' = [indexes EXCEPT ![Head(turn)] = @ + 1]
    /\ turn' = Tail(turn)
    /\ UNCHANGED <<items, active>>

Next == Round \/ Drop \/ Take
Spec == Init /\ [][Next]_vars

Finished == active = <<>> /\ turn = <<>>

-----------------------------------------------------------------------------

\* Nothing that fits is left out: in the end each collection is complete or its
\* next item does not fit beside what the others have taken.
NothingFitsAnyMore == Finished => \A k \in Key : Done(k) \/ WithNext(k) > MaxCharacters

=============================================================================
