------------------------------- MODULE Account -------------------------------
(***************************************************************************)
(* What a user keeps on the server besides the graphs, for TLC: the AWS    *)
(* connections with overlapping requests and without, the catalog of a     *)
(* connection, and the conversation of a sketch open in two tabs.  They    *)
(* share no state, so a behaviour is one of part, chosen at its start.     *)
(***************************************************************************)
EXTENDS AwsConnections, Naturals

CONSTANTS
    Part, Reader, Operation, MaxVersion,    \* CatalogCache
    Tab, MaxSent, MaxClears, MaxLoads       \* Conversation

VARIABLES
    part,
    world, known, cached, reader, operation,                                \* CatalogCache
    conversation, made, messages, sent, shown, loads, clearing, clears      \* Conversation

ConnectionsAlone == INSTANCE AwsConnections WITH Overlap <- FALSE

Catalogs == INSTANCE CatalogCache WITH Overlap <- FALSE

Tabs == INSTANCE Conversation WITH Patient <- FALSE, GiveUp <- TRUE

ASSUME AccountAssumption == Catalogs!CatalogAssumption /\ Tabs!ConversationAssumption

catalogVars == <<world, known, cached, reader, operation>>
tabsVars == <<conversation, made, messages, sent, shown, loads, clearing, clears>>

AccountInit ==
    /\ part \in {"connections", "connections alone", "catalog", "tabs"}
    /\ Init /\ Catalogs!Init /\ Tabs!Init

AccountNext ==
    \/ part = "connections" /\ Next /\ UNCHANGED <<part, catalogVars, tabsVars>>
    \/ part = "connections alone" /\ ConnectionsAlone!Next /\ UNCHANGED <<part, catalogVars, tabsVars>>
    \/ part = "catalog" /\ Catalogs!Next /\ UNCHANGED <<part, vars, tabsVars>>
    \/ part = "tabs" /\ Tabs!Next /\ UNCHANGED <<part, vars, catalogVars>>

accountVars == <<part, vars, catalogVars, tabsVars>>
AccountSpec == AccountInit /\ [][AccountNext]_accountVars

-----------------------------------------------------------------------------
\* When requests do not overlap, a user who has connections has exactly one
\* active connection.
OneActiveAlone == part = "connections alone" => OneActive

\* What a publish or deletion has reported is in every catalog asked for later,
\* unless AWS refused to list that part.
ReportedIsListed == Catalogs!ReportedIsListed

\* Whoever sends, clears and gives up in whatever order, a stored reply has its
\* question before it: what was cleared does not come back with a late reply.
RepliesFollowQuestions == Tabs!RepliesFollowQuestions
=============================================================================
