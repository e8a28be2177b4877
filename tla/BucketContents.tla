--------------------------- MODULE BucketContents ---------------------------
(***************************************************************************)
(* The contents of a deployed bucket: browsers upload with forms that were *)
(* signed earlier, the object panel deletes files and folders, and the     *)
(* deletion of the bucket empties it first, page by page.  Nothing keeps   *)
(* these apart.  S3 keeps, where versioning is on, every version of a key, *)
(* and a delete marker for a key that was deleted without naming a version.*)
(***************************************************************************)
EXTENDS Integers, FiniteSets

CONSTANTS
    Key, Folder, Sibling,   \* keys; those in the folder; those whose folder has a name it begins with
    Origin,                 \* origins of browsers
    Versioned,              \* whether versioning is enabled
    MayFail,                \* whether S3 may refuse to delete some of the objects asked for
    OneSigner,              \* whether signings come one at a time
    PageSize,               \* how much a listing gives at once
    MaxVersion              \* bound: once reached, nobody writes or deletes a file any more

BucketAssumption ==
    /\ Key \subseteq Int /\ IsFiniteSet(Key)
    /\ Folder \subseteq Key /\ Sibling \subseteq Key \ Folder
    /\ Versioned \in BOOLEAN /\ MayFail \in BOOLEAN /\ OneSigner \in BOOLEAN
    /\ PageSize \in Nat \ {0} /\ MaxVersion \in Nat

VARIABLES
    exists,     \* whether the bucket is there
    entries,    \* its versions and delete markers
    version,    \* the last version given
    removal,    \* a deletion by the object panel, and the keys it must clear
    teardown,   \* deleteBucket: what it does next, where its listing goes on, the page
    cors,       \* origins that may upload from a browser
    signing     \* the origin of a signing, and the rules it has read

vars == <<exists, entries, version, removal, teardown, cors, signing>>

Entry == [key : Key, version : Nat, marker : BOOLEAN]
Start == [key |-> -1, version |-> 0]
NoRemoval == [stage |-> "none", target |-> {}, old |-> {}, page |-> {}]
NoTeardown == [stage |-> "none", from |-> Start, page |-> {}, more |-> FALSE]

TypeOK ==
    /\ exists \in BOOLEAN
    /\ entries \subseteq Entry /\ (~exists => entries = {})
    /\ version \in Nat
    /\ removal \in [stage : {"none", "list", "delete", "done", "failed"},
                    target : {{}, Folder} \cup {{k} : k \in Key}, old : SUBSET Key, page : SUBSET Key]
    /\ removal.old \cup removal.page \subseteq removal.target
    /\ teardown.stage \in {"none", "versions", "purge", "objects", "clear", "drop", "failed"}
    /\ cors \subseteq Origin
    /\ signing \in [Origin -> [stage : {"none", "read", "signed"}, rules : SUBSET Origin]]
    /\ \A e, f \in entries : e.key = f.key /\ (e.version = f.version \/ ~Versioned) => e = f

Init ==
    /\ exists = TRUE /\ entries = {} /\ version = 0
    /\ removal = NoRemoval /\ teardown = NoTeardown
    /\ cors = {} /\ signing = [o \in Origin |-> [stage |-> "none", rules |-> {}]]

-----------------------------------------------------------------------------
(* S3.                                                                      *)

Latest(e) == \A f \in entries : f.key = e.key => f.version <= e.version
Current == {e.key : e \in {f \in entries : Latest(f) /\ ~f.marker}}

\* Listings are sorted: keys, and the versions of a key from the latest to the oldest.
EarlierEntry(e, f) == e.key < f.key \/ (e.key = f.key /\ e.version > f.version)
FirstEntries(S) == {e \in S : Cardinality({f \in S : EarlierEntry(f, e)}) < PageSize}
FirstKeys(S) == {k \in S : Cardinality({j \in S : j < k}) < PageSize}

Added(k, marker) ==
    {e \in entries : Versioned \/ e.key # k} \cup {[key |-> k, version |-> version + 1, marker |-> marker]}

\* Deletion of current objects: with versions, each gets a delete marker on top.
\* (One new version number marks all of them.)
Deleted(keys) ==
    IF Versioned
    THEN entries \cup {[key |-> k, version |-> version + 1, marker |-> TRUE] : k \in keys}
    ELSE {e \in entries : e.key \notin keys}

DeleteObjects(keys) ==
    /\ entries' = Deleted(keys)
    /\ version' = IF Versioned /\ keys # {} THEN version + 1 ELSE version

\* A form that was signed earlier, or the panel's createFolder, writes an object.
Write(k) ==
    /\ exists /\ version < MaxVersion
    /\ entries' = Added(k, FALSE)
    /\ version' = version + 1
    /\ removal' = [removal EXCEPT !.old = @ \ {k}]
    /\ UNCHANGED <<exists, teardown, cors, signing>>

-----------------------------------------------------------------------------
(* BucketObjects.delete, for a file or for the folder.                      *)

\* ownedBucket: the row is RUNNING, as it may be again when a deletion has failed.
Deployed == exists /\ teardown.stage \in {"none", "failed"}

InFolder == Folder

Remove(target) ==
    /\ Deployed /\ version < MaxVersion
    /\ removal.stage \in {"none", "done", "failed"}
    /\ removal' = [stage |-> IF target = InFolder THEN "list" ELSE "delete", target |-> target,
                   old |-> target \cap Current, page |-> IF target = InFolder THEN {} ELSE target]
    /\ UNCHANGED <<exists, entries, version, teardown, cors, signing>>

RemoveFile(k) == k \notin Folder /\ Remove({k})
RemoveFolder == Remove(InFolder)

RemoveList ==
    LET page == FirstKeys(Current \cap InFolder) IN
    /\ removal.stage = "list"
    /\ removal' = [removal EXCEPT !.page = page,
                       !.stage = IF ~exists THEN "failed" ELSE IF page = {} THEN "done" ELSE "delete"]
    /\ UNCHANGED <<exists, entries, version, teardown, cors, signing>>

\* After a page of the folder it is listed again, from the start.
\* Mutant: one page is all.
OnePage(target) == "done"
AfterPage(target) == IF target = InFolder THEN "list" ELSE "done"

RemoveDelete ==
    /\ removal.stage = "delete"
    /\ \E gone \in SUBSET removal.page :
          /\ (exists /\ ~MayFail) => gone = removal.page
          /\ ~exists => gone = {}
          /\ DeleteObjects(gone)
          /\ removal' = [removal EXCEPT !.page = {},
                             !.stage = IF gone = removal.page THEN AfterPage(removal.target) ELSE "failed"]
    /\ UNCHANGED <<exists, teardown, cors, signing>>

-----------------------------------------------------------------------------
(* S3Service.deleteBucket.  What deleteObjects could not delete is ignored. *)

Teardown ==
    /\ exists /\ teardown.stage \in {"none", "failed"}
    /\ teardown' = [NoTeardown EXCEPT !.stage = "versions"]
    /\ UNCHANGED <<exists, entries, version, removal, cors, signing>>

ListVersions ==
    LET rest == {e \in entries : EarlierEntry(teardown.from, e)}
        page == FirstEntries(rest) IN
    /\ teardown.stage = "versions"
    /\ teardown' = [stage |-> "purge", page |-> page, more |-> page # rest,
                    from |-> IF page = {} THEN teardown.from
                             ELSE LET last == CHOOSE e \in page : \A f \in page : ~EarlierEntry(e, f) IN
                                  [key |-> last.key, version |-> last.version]]
    /\ UNCHANGED <<exists, entries, version, removal, cors, signing>>

\* Without versioning the version of an object is "null", whatever was written since.
SameVersion(e, f) == e.key = f.key /\ (Versioned => e.version = f.version)

Purge ==
    /\ teardown.stage = "purge"
    /\ \E gone \in SUBSET teardown.page :
          /\ MayFail \/ gone = teardown.page
          /\ entries' = {e \in entries : \A f \in gone : ~SameVersion(e, f)}
    /\ teardown' = IF teardown.more THEN [teardown EXCEPT !.stage = "versions", !.page = {}]
                                    ELSE [NoTeardown EXCEPT !.stage = "objects"]
    /\ UNCHANGED <<exists, version, removal, cors, signing>>

ListObjects ==
    LET rest == {k \in Current : k > teardown.from.key}
        page == FirstKeys(rest) IN
    /\ teardown.stage = "objects"
    /\ teardown' = [stage |-> "clear", page |-> page, more |-> page # rest,
                    from |-> IF page = {} THEN teardown.from
                             ELSE [key |-> CHOOSE k \in page : \A j \in page : j <= k, version |-> 0]]
    /\ UNCHANGED <<exists, entries, version, removal, cors, signing>>

Clear ==
    /\ teardown.stage = "clear"
    /\ \E gone \in SUBSET teardown.page : (MayFail \/ gone = teardown.page) /\ DeleteObjects(gone)
    /\ teardown' = [teardown EXCEPT !.stage = IF teardown.more THEN "objects" ELSE "drop", !.page = {}]
    /\ UNCHANGED <<exists, removal, cors, signing>>

\* S3 deletes an empty bucket only; otherwise the deletion has failed, and may be retried.
Drop ==
    /\ teardown.stage = "drop"
    /\ exists' = (entries # {})
    /\ teardown' = [NoTeardown EXCEPT !.stage = IF entries = {} THEN "none" ELSE "failed"]
    /\ UNCHANGED <<entries, version, removal, cors, signing>>

-----------------------------------------------------------------------------
(* allowBrowserUpload: the rules are read, and written with one more.       *)

ReadCors(o) ==
    /\ Deployed /\ signing[o].stage # "read"
    /\ OneSigner => \A p \in Origin : signing[p].stage # "read"
    /\ signing' = [signing EXCEPT ![o] = [stage |-> IF o \in cors THEN "signed" ELSE "read", rules |-> cors]]
    /\ UNCHANGED <<exists, entries, version, removal, teardown, cors>>

\* Mutant: the rules that were there are not written.
OwnRule(rules, o) == {o}
Rules(rules, o) == rules \cup {o}
PutCors(o) ==
    /\ exists /\ signing[o].stage = "read"
    /\ cors' = Rules(signing[o].rules, o)
    /\ signing' = [signing EXCEPT ![o].stage = "signed"]
    /\ UNCHANGED <<exists, entries, version, removal, teardown>>

Removing == RemoveList \/ RemoveDelete
TearingDown == ListVersions \/ Purge \/ ListObjects \/ Clear \/ Drop

Next ==
    \/ \E k \in Key : Write(k) \/ RemoveFile(k)
    \/ RemoveFolder \/ Removing
    \/ Teardown \/ TearingDown
    \/ \E o \in Origin : ReadCors(o) \/ PutCors(o)

Spec == Init /\ [][Next]_vars

-----------------------------------------------------------------------------
(* Properties.                                                              *)

\* A deletion that is reported to have succeeded has left nothing that was there
\* when it began and was not written again.  (Tearing down a bucket with versions
\* may delete a marker first, and what it hid shows again until its turn comes.)
RemovedIsGone ==
    removal.stage = "done" /\ (Versioned => teardown.stage = "none") =>
        removal.old \cap Current = {}

\* Every origin that was given a form may use it: its rule is there and stays.
SignedMayUpload == \A o \in Origin : signing[o].stage = "signed" => o \in cors
=============================================================================
