------------------------------- MODULE SignIn -------------------------------
(***************************************************************************)
(* Accounts: sign-up and sign-in with a password, sign-in with Google, from*)
(* several browsers at once, over the User table and its unique index.     *)
(***************************************************************************)
EXTENDS Naturals

CONSTANTS
    Person,     \* people, each with one email address
    Spelling,   \* the ways to write an address; "lower" is the one kept
    Password,
    Browser     \* where requests come from; each has one at a time

ASSUME SignInAssumption == "lower" \in Spelling

VARIABLES
    user,       \* the User rows, a set of records
    request,    \* the request each browser is waiting for
    reply,      \* what it was answered last
    made        \* the number of rows created, which numbers them

vars == <<user, request, reply, made>>

NoPassword == "null"
Address == Person \X Spelling
User == [id : Nat, email : Address, password : Password \cup {NoPassword},
         provider : {"CREDENTIALS", "GOOGLE"}]
Idle == [kind |-> "none"]
\* A request carries the row that findFirst has found.
TypeOK ==
    /\ user \subseteq User /\ made \in Nat
    /\ \A u \in user : u.id < made
    /\ \A b \in Browser :
        /\ request[b].kind \in {"none", "signup", "google"}
        /\ request[b].kind # "none" =>
            /\ request[b].found \in {"unread", "nobody", "somebody"}
            /\ request[b].found = "somebody" => request[b].existing.id \in {u.id : u \in user}
    /\ reply \in [Browser -> {"none", "created", "confirmed", "conflict", "error", "in", "refused", "no hash"}]

Init ==
    /\ user = {} /\ made = 0
    /\ request = [b \in Browser |-> Idle]
    /\ reply = [b \in Browser |-> "none"]

-----------------------------------------------------------------------------

\* trim().toLowerCase()
Normalized(e) == <<e[1], "lower">>

\* The find is case-insensitive, the unique index is not.
Equals(e, f) == e[1] = f[1]
Existing(e) == {u \in user : Equals(u.email, e)}
Taken(e) == \E u \in user : u.email = e

Answer(b, r) ==
    /\ reply' = [reply EXCEPT ![b] = r]
    /\ request' = [request EXCEPT ![b] = Idle]

Ask(b, kind, e, p) ==
    /\ request[b] = Idle
    /\ request' = [request EXCEPT ![b] =
        [kind |-> kind, email |-> Normalized(e), password |-> p, found |-> "unread", existing |-> Idle]]
    /\ UNCHANGED <<user, reply, made>>
signUp(b, e, p) == Ask(b, "signup", e, p)
googleAuth(b, e) == Ask(b, "google", e, NoPassword)

\* user.findFirst
Find(b) ==
    /\ request[b] # Idle /\ request[b].found = "unread"
    /\ LET rows == Existing(request[b].email) IN
        IF rows = {}
        THEN request' = [request EXCEPT ![b].found = "nobody"]
        ELSE \E u \in rows :
            request' = [request EXCEPT ![b].found = "somebody", ![b].existing = u]
    /\ UNCHANGED <<user, reply, made>>

SignUpConflict(b) ==
    /\ request[b].kind = "signup" /\ request[b].found = "somebody"
    /\ Answer(b, "conflict") /\ UNCHANGED <<user, made>>

\* user.create, after the password is hashed.
Provider(kind) == IF kind = "signup" THEN "CREDENTIALS" ELSE "GOOGLE"
Create(b) ==
    LET r == request[b] IN
    /\ r # Idle /\ r.found = "nobody" /\ ~Taken(r.email)
    /\ user' = user \cup
        {[id |-> made, email |-> r.email, password |-> r.password, provider |-> Provider(r.kind)]}
    /\ made' = made + 1
    /\ Answer(b, "created")

\* The unique index refuses the row: the handler answers 500.
CreateError(b) ==
    /\ request[b] # Idle /\ request[b].found = "nobody" /\ Taken(request[b].email)
    /\ Answer(b, "error") /\ UNCHANGED <<user, made>>

\* user.update by what findFirst returned.
\* Mutant: as in the row of a new account.
PasswordOfNew(r) == NoPassword
KeptPassword(r) == r.existing.password
Confirm(b) ==
    LET r == request[b] IN
    /\ r.kind = "google" /\ r.found = "somebody"
    /\ user' = {IF u.id = r.existing.id
                THEN [u EXCEPT !.provider = "GOOGLE", !.password = KeptPassword(r)] ELSE u : u \in user}
    /\ Answer(b, "confirmed") /\ UNCHANGED made

\* signInHandler reads and writes nothing else, so it is one step.
Known(e) == Existing(Normalized(e))
signIn(b, e, p) ==
    /\ request[b] = Idle
    /\ reply' = [reply EXCEPT ![b] =
        IF \E u \in Known(e) : u.provider = "CREDENTIALS" /\ u.password = NoPassword THEN "no hash"
        ELSE IF \E u \in Known(e) : u.provider = "CREDENTIALS" /\ u.password = p THEN "in"
        ELSE "refused"]
    /\ UNCHANGED <<user, request, made>>

Next ==
    \E b \in Browser :
        \/ Find(b) \/ SignUpConflict(b) \/ Create(b) \/ CreateError(b) \/ Confirm(b)
        \/ \E e \in Address :
            \/ googleAuth(b, e)
            \/ \E p \in Password : signUp(b, e, p) \/ signIn(b, e, p)

Spec == Init /\ [][Next]_vars

-----------------------------------------------------------------------------
\* However sign-ups and Google sign-ins overlap and however the address is
\* written, a person ends up with one account.
OneAccountEach == \A u, v \in user : Equals(u.email, v.email) => u = v

\* A password once chosen is never lost or replaced: Google sign-in takes the
\* account over, with the hash it had.
PasswordKept ==
    [][\A u \in user : \E v \in user' : v.id = u.id /\ v.password = u.password]_vars

=============================================================================
