----------------------------- MODULE BucketPanel -----------------------------
(***************************************************************************)
(* The list of objects that the panel of a bucket shows: one folder at a   *)
(* time, page after page.  Listings are numbered, and only the answer to   *)
(* the latest is taken.  An upload lists the folder again when it is done. *)
(***************************************************************************)
EXTENDS Naturals, Sequences, SequencesExt

CONSTANTS
    Prefix, Root,   \* folders, and the one shown first
    LastPage,       \* number of pages of a folder
    StayPut,        \* whether the user stays in a folder while uploading to it
    MaxListings     \* bound on the listings asked for

PanelAssumption ==
    /\ Root \in Prefix
    /\ LastPage \in Nat \ {0} /\ MaxListings \in Nat
    /\ StayPut \in BOOLEAN

VARIABLES
    prefix,     \* the folder that the panel is in
    effect,     \* whether a load for a new folder is queued
    requestId,  \* number of the latest listing
    listings,   \* listings on their way
    shown,      \* the folder whose objects are shown, and the pages
    loading,    \* whether one is awaited
    upload      \* the folder of an upload in progress, in a set

vars == <<prefix, effect, requestId, listings, shown, loading, upload>>

Listing == [id : Nat, prefix : Prefix, page : 1..LastPage]

TypeOK ==
    /\ prefix \in Prefix /\ effect \in BOOLEAN /\ loading \in BOOLEAN
    /\ requestId \in Nat /\ listings \subseteq Listing
    /\ shown.prefix \in Prefix /\ shown.pages \in Seq(1..LastPage)
    /\ upload \in {{}} \cup {{p} : p \in Prefix}
    /\ ~effect => (loading <=> \E l \in listings : l.id = requestId)

Init ==
    /\ prefix = Root /\ effect = TRUE
    /\ requestId = 0 /\ listings = {} /\ loading = FALSE
    /\ shown = [prefix |-> Root, pages |-> <<>>]
    /\ upload = {}

\* load(nextToken), for the folder of the render that it was made in; the first
\* page clears the list.
Load(p, page) ==
    /\ requestId' = requestId + 1
    /\ loading' = TRUE
    /\ listings' = listings \cup {[id |-> requestId + 1, prefix |-> p, page |-> page]}
    /\ shown' = IF page = 1 THEN [prefix |-> p, pages |-> <<>>] ELSE shown

\* The user acts on what is rendered: a queued load goes first.
MayAct == ~effect /\ requestId < MaxListings

\* A listing on its way when another folder is entered counts no more.
Enter(p) ==
    /\ MayAct /\ p # prefix
    /\ StayPut => upload = {}
    /\ prefix' = p /\ effect' = TRUE
    /\ requestId' = requestId + 1
    /\ UNCHANGED <<listings, shown, loading, upload>>

Effect ==
    /\ effect
    /\ effect' = FALSE
    /\ Load(prefix, 1)
    /\ UNCHANGED <<prefix, upload>>

Refresh ==
    /\ ~loading /\ upload = {} /\ MayAct
    /\ Load(prefix, 1)
    /\ UNCHANGED <<prefix, effect, upload>>

More ==
    /\ ~loading /\ MayAct
    /\ shown.pages # <<>> /\ Last(shown.pages) < LastPage
    /\ Load(prefix, Last(shown.pages) + 1)
    /\ UNCHANGED <<prefix, effect, upload>>

\* Mutant: every answer is taken.
AnyListing(l) == TRUE
Latest(l) == l.id = requestId

Answer(l) ==
    /\ listings' = listings \ {l}
    /\ shown' = IF ~Latest(l) THEN shown
                ELSE IF l.page = 1 THEN [prefix |-> l.prefix, pages |-> <<1>>]
                ELSE [shown EXCEPT !.pages = Append(@, l.page)]
    /\ loading' = (loading /\ ~Latest(l))
    /\ UNCHANGED <<prefix, effect, requestId, upload>>

Fail(l) ==
    /\ listings' = listings \ {l}
    /\ loading' = (loading /\ ~Latest(l))
    /\ UNCHANGED <<prefix, effect, requestId, shown, upload>>

Upload ==
    /\ upload = {} /\ MayAct
    /\ upload' = {prefix}
    /\ UNCHANGED <<prefix, effect, requestId, listings, shown, loading>>

\* The load that the upload calls in the end is the one of the folder it began in.
Uploaded ==
    \E p \in upload :
        /\ upload' = {}
        /\ Load(p, 1)
        /\ UNCHANGED <<prefix, effect>>

Next ==
    \/ \E p \in Prefix : Enter(p)
    \/ Effect \/ Refresh \/ More \/ Upload \/ Uploaded
    \/ \E l \in listings : Answer(l) \/ Fail(l)

Spec == Init /\ [][Next]_vars

-----------------------------------------------------------------------------
(* Properties.                                                              *)

\* Once nothing is awaited the panel shows objects of the folder it is in, with no
\* page missing or repeated.
ShowsItsFolder ==
    ~effect /\ ~loading => /\ shown.prefix = prefix
                           /\ \A i \in DOMAIN shown.pages : shown.pages[i] = i
=============================================================================
