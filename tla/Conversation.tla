---------------------------- MODULE Conversation ----------------------------
(***************************************************************************)
(* The AI conversation of one sketch: the messages that the server stores, *)
(* around a call of the AI service that takes its time, and what the       *)
(* composer of each open editor shows of them.  Messages are numbered in   *)
(* the order in which users send them.                                     *)
(***************************************************************************)
EXTENDS Naturals, Sequences, SequencesExt

CONSTANTS
    Tab,        \* editors in which the sketch is open
    Patient,    \* whether users wait for the conversation to load
    GiveUp,     \* whether an answer may get lost on its way to the editor
    MaxSent, MaxClears, MaxLoads    \* bounds

ConversationAssumption ==
    /\ Patient \in BOOLEAN /\ GiveUp \in BOOLEAN
    /\ {MaxSent, MaxClears, MaxLoads} \subseteq Nat

VARIABLES
    conversation,   \* identifier of the stored conversation, or 0
    made,           \* number of conversations created
    messages,       \* the stored messages, in the order of createdAt
    sent,           \* what became of each message sent
    shown,          \* the messages in each composer
    loads,          \* the loads of the conversation that each composer waits for
    clearing,       \* the progress of a clear in each composer
    clears          \* number of clears

vars == <<conversation, made, messages, sent, shown, loads, clearing, clears>>

Message == [role : {"USER", "ASSISTANT", "pending"}, number : 1..MaxSent]
User(n) == [role |-> "USER", number |-> n]
Assistant(n) == [role |-> "ASSISTANT", number |-> n]
Unconfirmed(n) == [role |-> "pending", number |-> n]

Conversations == 0..(MaxSent + MaxLoads + MaxClears)
Sent == [tab : Tab, waits : BOOLEAN, conversation : Conversations,
         state : {"sent", "asked", "replied", "failed", "done"}]
Load == [read : BOOLEAN, messages : Seq(Message)]
Asked == [read |-> FALSE, messages |-> <<>>]

TypeOK ==
    /\ conversation \in Nat /\ made \in Nat /\ conversation <= made
    /\ messages \in Seq(Message)
    /\ sent \in Seq(Sent) /\ Len(sent) <= MaxSent
    /\ shown \in [Tab -> Seq(Message)]
    /\ loads \in [Tab -> Seq(Load)]
    /\ \A t \in Tab : Len(loads[t]) <= MaxLoads
    /\ clearing \in [Tab -> {"no", "sent", "done"}]
    /\ clears \in 0..MaxClears
    /\ conversation = 0 => messages = <<>>

\* Each composer loads the conversation when it is opened.
Init ==
    /\ conversation = 0 /\ made = 0
    /\ messages = <<>> /\ sent = <<>>
    /\ shown = [t \in Tab |-> <<>>]
    /\ loads = [t \in Tab |-> <<Asked>>]
    /\ clearing = [t \in Tab |-> "no"]
    /\ clears = 0

server == <<conversation, made, messages>>
composer == <<shown, loads, clearing, clears>>

\* getConversation, and the upsert of a send: the one there is, or a new one.
Upsert ==
    /\ conversation' = IF conversation = 0 THEN made + 1 ELSE conversation
    /\ made' = IF conversation = 0 THEN made + 1 ELSE made

Loading(t) == \E n \in DOMAIN sent : sent[n].tab = t /\ sent[n].waits
Free(t) ==
    /\ ~Loading(t)
    /\ clearing[t] = "no"
    /\ Patient => loads[t] = <<>>

-----------------------------------------------------------------------------
(* Loading and clearing.                                                    *)

getSketchConversation(t, k) ==
    /\ ~loads[t][k].read
    /\ Upsert
    /\ loads' = [loads EXCEPT ![t][k] = [read |-> TRUE, messages |-> messages]]
    /\ UNCHANGED <<messages, sent, shown, clearing, clears>>

\* The answer replaces what the composer shows.
Loaded(t, k) ==
    /\ loads[t][k].read
    /\ shown' = [shown EXCEPT ![t] = loads[t][k].messages]
    /\ loads' = [loads EXCEPT ![t] = RemoveAt(@, k)]
    /\ UNCHANGED <<conversation, made, messages, sent, clearing, clears>>

Clear(t) ==
    /\ Free(t)
    /\ shown[t] # <<>>
    /\ clears < MaxClears
    /\ clears' = clears + 1
    /\ clearing' = [clearing EXCEPT ![t] = "sent"]
    /\ UNCHANGED <<conversation, made, messages, sent, shown, loads>>

\* The messages go with the conversation.
clearSketchConversation(t) ==
    /\ clearing[t] = "sent"
    /\ clearing' = [clearing EXCEPT ![t] = "done"]
    /\ conversation' = 0 /\ messages' = <<>>
    /\ UNCHANGED <<made, sent, shown, loads, clears>>

Cleared(t) ==
    /\ clearing[t] = "done"
    /\ clearing' = [clearing EXCEPT ![t] = "no"]
    /\ shown' = [shown EXCEPT ![t] = <<>>]
    /\ UNCHANGED <<conversation, made, messages, sent, loads, clears>>

-----------------------------------------------------------------------------
(* Sending.                                                                 *)

Submit(t) ==
    /\ Free(t)
    /\ Len(sent) < MaxSent
    /\ sent' = Append(sent, [tab |-> t, waits |-> TRUE, conversation |-> 0, state |-> "sent"])
    /\ shown' = [shown EXCEPT ![t] = Append(@, Unconfirmed(Len(sent) + 1))]
    /\ UNCHANGED <<conversation, made, messages, loads, clearing, clears>>

\* sendSketchConversationMessage stores the question before it asks the AI service.
Question(n) ==
    /\ sent[n].state = "sent"
    /\ Upsert
    /\ messages' = Append(messages, User(n))
    /\ sent' = [sent EXCEPT ![n].state = "asked", ![n].conversation = conversation']
    /\ UNCHANGED composer

\* The AI service has answered; the conversation may be gone meanwhile, or be
\* another one, and then the reply cannot be stored.
\* Mutant: the reply goes to the conversation that the sketch has now.
StillThereForSketch(n) == conversation # 0

StillThere(n) == conversation = sent[n].conversation
Reply(n) ==
    /\ sent[n].state = "asked"
    /\ messages' = IF StillThere(n) THEN Append(messages, Assistant(n)) ELSE messages
    /\ sent' = [sent EXCEPT ![n].state = IF StillThere(n) THEN "replied" ELSE "failed"]
    /\ UNCHANGED <<conversation, made, composer>>

AiFails(n) ==
    /\ sent[n].state = "asked"
    /\ sent' = [sent EXCEPT ![n].state = "failed"]
    /\ UNCHANGED <<server, composer>>

Confirm(s, n) ==
    Append([k \in DOMAIN s |-> IF s[k] = Unconfirmed(n) THEN User(n) ELSE s[k]], Assistant(n))
Answered(n) ==
    LET t == sent[n].tab IN
    /\ sent[n].waits /\ sent[n].state = "replied"
    /\ sent' = [sent EXCEPT ![n].waits = FALSE, ![n].state = "done"]
    /\ shown' = [shown EXCEPT ![t] = Confirm(@, n)]
    /\ UNCHANGED <<server, loads, clearing, clears>>

\* The composer shows the error and loads the conversation again.
Refused(n) ==
    LET t == sent[n].tab IN
    /\ sent[n].waits
    /\ sent[n].state = "failed" \/ GiveUp
    /\ Len(loads[t]) < MaxLoads
    /\ sent' = [sent EXCEPT ![n].waits = FALSE]
    /\ loads' = [loads EXCEPT ![t] = Append(@, Asked)]
    /\ UNCHANGED <<server, shown, clearing, clears>>

Next ==
    \/ \E t \in Tab : Submit(t) \/ Clear(t) \/ clearSketchConversation(t) \/ Cleared(t)
    \/ \E t \in Tab : \E k \in DOMAIN loads[t] : getSketchConversation(t, k) \/ Loaded(t, k)
    \/ \E n \in DOMAIN sent : Question(n) \/ Reply(n) \/ AiFails(n) \/ Answered(n) \/ Refused(n)

Spec == Init /\ [][Next]_vars

-----------------------------------------------------------------------------
(* Properties.                                                              *)

\* Whoever sends, clears and gives up in whatever order, a stored reply has its
\* question before it: what was cleared does not come back with a late reply.
RepliesFollowQuestions ==
    \A j \in DOMAIN messages : messages[j].role = "ASSISTANT" =>
        \E i \in 1..(j - 1) : messages[i] = User(messages[j].number)

\* When nothing is on its way, the only composer shows what is stored.
Rest(t) == loads[t] = <<>> /\ ~Loading(t) /\ clearing[t] = "no"
ShownIsStored == \A t \in Tab : Rest(t) => shown[t] = messages
=============================================================================
