--------------------------- MODULE AdaptersProofs ---------------------------
(***************************************************************************)
(* The promises of the adapters hold for every number of instances, calls, *)
(* settings, objects and distributions.  Each part has an invariant of its *)
(* own; what the lemmas say of one part, the theorems say of Adapters.     *)
(***************************************************************************)
EXTENDS Adapters, Integers, Sequences, FiniteSets, FiniteSetTheorems, WellFoundedInduction, TLAPS

\* A finite set of numbers has a least and a greatest member.
LEMMA LeastMember ==
    ASSUME NEW S \in SUBSET Int, IsFiniteSet(S), S # {}
    PROVE  \E x \in S : \A y \in S : x <= y
<1> DEFINE Below(x) == {y \in S : y < x}
           T == {Below(x) : x \in S}
<1>1. IsWellFoundedOn(StrictSubsetOrdering(S), SUBSET S)
  BY FS_StrictSubsetOrderingWellFounded, FS_FiniteSubsetsOfFinite
<1>2. T \subseteq SUBSET S /\ T # {}
  OBVIOUS
<1> HIDE DEF T
<1>3. PICK B \in T : \A C \in T : ~(<<C, B>> \in StrictSubsetOrdering(S))
  BY <1>1, <1>2, WFMin
<1>4. PICK x \in S : B = Below(x)
  BY <1>3 DEF T
<1>5. ASSUME NEW y \in S, y < x PROVE FALSE
  <2>1. Below(y) \in T
    BY DEF T
  <2>2. x \in Int /\ \A z \in S : z \in Int
    OBVIOUS
  <2>3. Below(y) \subseteq Below(x)
    <3>1. \A z \in S : z < y => z < x
      BY <1>5, <2>2
    <3> QED BY <3>1
  <2>4. y \in Below(x) /\ y \notin Below(y)
    BY <1>5, <2>2
  <2> QED BY <1>2, <1>3, <1>4, <2>1, <2>3, <2>4 DEF StrictSubsetOrdering
<1> QED BY <1>5

LEMMA GreatestMember ==
    ASSUME NEW S \in SUBSET Int, IsFiniteSet(S), S # {}
    PROVE  \E x \in S : \A y \in S : x >= y
<1> DEFINE Above(x) == {y \in S : y > x}
           T == {Above(x) : x \in S}
<1>1. IsWellFoundedOn(StrictSubsetOrdering(S), SUBSET S)
  BY FS_StrictSubsetOrderingWellFounded, FS_FiniteSubsetsOfFinite
<1>2. T \subseteq SUBSET S /\ T # {}
  OBVIOUS
<1> HIDE DEF T
<1>3. PICK B \in T : \A C \in T : ~(<<C, B>> \in StrictSubsetOrdering(S))
  BY <1>1, <1>2, WFMin
<1>4. PICK x \in S : B = Above(x)
  BY <1>3 DEF T
<1>5. ASSUME NEW y \in S, y > x PROVE FALSE
  <2>1. Above(y) \in T
    BY DEF T
  <2>2. x \in Int /\ \A z \in S : z \in Int
    OBVIOUS
  <2>3. Above(y) \subseteq Above(x)
    <3>1. \A z \in S : z > y => z > x
      BY <1>5, <2>2
    <3> QED BY <3>1
  <2>4. y \in Above(x) /\ y \notin Above(y)
    BY <1>5, <2>2
  <2> QED BY <1>2, <1>3, <1>4, <2>1, <2>3, <2>4 DEF StrictSubsetOrdering
<1> QED BY <1>5

-----------------------------------------------------------------------------
(* The wait for a dependency: an unfinished reading began at most MaxRead   *)
(* ago and not after the deadline plus the lag; if it found the resource    *)
(* not running, the resource was not running when the reading began.        *)

\* Where the clock may be in each phase, and what an answer says.
Clock ==
    /\ phase = "reading" => /\ from <= now /\ now <= from + MaxRead
                            /\ from <= Timeout + MaxLag
    /\ phase = "sleeping" => from <= now /\ now <= until + MaxLag
    /\ phase \in Ended => now <= Timeout + MaxLag + MaxRead
    /\ phase = "reading" /\ got \in {"missing", "PROVISIONING"} /\ resource = "RUNNING" =>
           since >= from
IInv == TypeOK /\ Clock /\ ReadyIsUsed

LEMMA InitClock == Init => IInv
  BY ReadinessAssumption DEF Init, IInv, TypeOK, Clock, ReadyIsUsed, Ended

LEMMA NextClock == IInv /\ [Next]_vars => IInv'
<1> SUFFICES ASSUME IInv, [Next]_vars PROVE IInv'
  OBVIOUS
<1> USE ReadinessAssumption DEF IInv, TypeOK, Clock, ReadyIsUsed, Ended
<1>1. CASE Tick
  BY <1>1 DEF Tick
<1>2. CASE Settle
  BY <1>2 DEF Settle
<1>3. CASE Describe
  BY <1>3 DEF Describe
<1>4. CASE ReadError
  BY <1>4 DEF ReadError
<1>5. CASE Ready
  BY <1>5 DEF Ready
<1>6. CASE Dead
  BY <1>6 DEF Dead
<1>7. CASE GiveUp
  BY <1>7 DEF GiveUp, Late
<1>8. CASE Sleep
  BY <1>8 DEF Sleep, Late, Pause
<1>9. CASE Wake
  BY <1>9 DEF Wake, Unread
<1>10. CASE UNCHANGED vars
  BY <1>10 DEF vars
<1> QED
  BY <1>1, <1>2, <1>3, <1>4, <1>5, <1>6, <1>7, <1>8, <1>9, <1>10 DEF Next

LEMMA ClockInvariant == Spec => []IInv
  BY InitClock, NextClock, PTL DEF Spec

\* The other parts leave the wait alone.
LEMMA WaitsAlone == AdaptersSpec => Spec
<1>1. AdaptersInit => Init
  BY DEF AdaptersInit
<1>2. [AdaptersNext]_adapterVars => [Next]_vars
  BY DEF AdaptersNext, adapterVars
<1> QED
  BY <1>1, <1>2, PTL DEF AdaptersSpec, Spec

\* The variables keep their types, and no sleep is planned beyond the deadline.
THEOREM WaitTypeCorrect == Spec => []TypeOK
<1>1. IInv => TypeOK
  BY DEF IInv
<1> QED
  BY <1>1, ClockInvariant, PTL

\* A dependency that is running in time is never reported as timed out.
THEOREM ReadyIsAlwaysUsed == AdaptersSpec => []ReadyIsUsed
<1>1. IInv => ReadyIsUsed
  BY DEF IInv
<1> QED
  BY <1>1, ClockInvariant, WaitsAlone, PTL

\* The wait is never longer than the timeout, one timer's lag and one reading.
THEOREM WaitIsBounded == Spec => []EndsInTime
<1>1. IInv => EndsInTime
  BY ReadinessAssumption DEF IInv, TypeOK, Clock, EndsInTime, Ended
<1> QED
  BY <1>1, ClockInvariant, PTL

-----------------------------------------------------------------------------
(* Requests and their references.                                           *)

\* Every reference along an edge to a key pair, a role or a bucket is resolved: the
\* outputs of the source are described again before its turn.
THEOREM ReferencesAlwaysResolve == AdaptersSpec => []ReferencesResolve
<1>1. AdaptersInit => ReferencesResolve
  BY DEF AdaptersInit, Sketch!Init, ReferencesResolve, Sketch!ReferencesResolve
<1>2. ASSUME NEW n \in Node, Sketch!PublishUnresolved(n) PROVE FALSE
  <2>1. PICK s \in Sketch!Sources(n) : Sketch!RefOutput[Service[s]] \notin DOMAIN Sketch!Known(n)[s]
    BY <1>2 DEF Sketch!PublishUnresolved, Sketch!Resolvable
  <2>2. s \in Node /\ <<s, n>> \in Edge
    BY DEF Sketch!Sources
  <2>3. Service[s] \in {"KEY_PAIR", "IAM_ROLE", "S3_BUCKET"}
    BY <2>2, AdapterAssumption DEF Sketch!RequestsAssumption, Sketch!RefOutput
  <2>4. Sketch!RefOutput[Service[s]] \in Sketch!DetailOutputs[Service[s]]
    BY <2>3 DEF Sketch!RefOutput, Sketch!DetailOutputs
  <2>5. Sketch!DetailOutputs[Service[s]] \subseteq DOMAIN Sketch!Known(n)[s]
    BY <2>2 DEF Sketch!Known, Sketch!Merge, Sketch!Details, Sketch!Valued
  <2> QED BY <2>1, <2>4, <2>5
<1>3. ReferencesResolve /\ [AdaptersNext]_adapterVars => ReferencesResolve'
  <2> SUFFICES ASSUME ReferencesResolve, [AdaptersNext]_adapterVars, part' = "sketch" PROVE outcome' # "unresolved"
    BY DEF ReferencesResolve, Sketch!ReferencesResolve
  <2>1. part = "sketch" /\ outcome # "unresolved" /\ (Sketch!Next \/ UNCHANGED requestVars)
    BY DEF AdaptersNext, adapterVars, ReferencesResolve, Sketch!ReferencesResolve
  <2>2. CASE UNCHANGED requestVars
    BY <2>1, <2>2 DEF requestVars
  <2>3. CASE Sketch!PublishStart \/ Sketch!PublishDone
    BY <2>1, <2>3 DEF Sketch!PublishStart, Sketch!PublishDone, Sketch!End
  <2>4. ASSUME NEW n \in Node,
               \/ Sketch!PublishSkip(n) \/ Sketch!PublishUpdate(n) \/ Sketch!PublishConflict(n) \/ Sketch!PublishCreate(n)
               \/ Sketch!Refresh(n) \/ Sketch!Delete(n) \/ Sketch!Rename(n)
        PROVE  outcome' # "unresolved"
    BY <2>1, <2>4 DEF Sketch!PublishSkip, Sketch!PublishUpdate, Sketch!PublishConflict, Sketch!PublishCreate,
       Sketch!Refresh, Sketch!Delete, Sketch!Rename, Sketch!End
  <2> QED BY <1>2, <2>1, <2>2, <2>3, <2>4 DEF Sketch!Next
<1> QED BY <1>1, <1>3, PTL DEF AdaptersSpec

\* After a publish that succeeded, every running resource is configured with what its
\* sources are now (deploySketch), also with a security group that was made anew.
THEOREM AppliedAlwaysCurrent == AdaptersSpec => AppliedCurrent
<1> DEFINE I == /\ part = "sketch" => Sketch!RequestsInv
                /\ part = "grouped" => Grouped!RequestsInv
           A == /\ part = "sketch" => Sketch!AppliesCurrent
                /\ part = "grouped" => Grouped!AppliesCurrent
<1>1. AdaptersInit => I
  BY Sketch!Starts, Grouped!Starts DEF AdaptersInit
<1>2. I /\ [AdaptersNext]_adapterVars => I' /\ [A]_requestVars
  <2> SUFFICES ASSUME I, [AdaptersNext]_adapterVars PROVE I' /\ [A]_requestVars
    OBVIOUS
  <2>1. /\ part' = part
        /\ part = "sketch" => [Sketch!Next]_requestVars
        /\ part = "grouped" => [Grouped!Next]_requestVars
    BY DEF AdaptersNext, adapterVars
  <2>2. Sketch!vars = requestVars /\ Grouped!vars = requestVars /\ Sketch!vars' = requestVars' /\ Grouped!vars' = requestVars'
    BY DEF Sketch!vars, Grouped!vars, requestVars
  <2>3. CASE part = "sketch"
    <3>1. Sketch!RequestsAssumption /\ Sketch!RequestsInv /\ [Sketch!Next]_Sketch!vars
      BY <2>1, <2>2, <2>3, AdapterAssumption
    <3> QED BY <2>1, <2>3, <3>1, Sketch!RequestsStep
  <2>4. CASE part = "grouped"
    <3>1. Grouped!RequestsAssumption /\ Grouped!RequestsInv /\ [Grouped!Next]_Grouped!vars
      BY <2>1, <2>2, <2>4, AdapterAssumption
    <3> QED BY <2>1, <2>4, <3>1, Grouped!RequestsStep
  <2> QED BY <2>1, <2>3, <2>4
<1> HIDE DEF I
<1> QED BY <1>1, <1>2, PTL DEF AdaptersSpec, AppliedCurrent

-----------------------------------------------------------------------------
(* Updates of deployed resources.                                           *)

UpdateSetting == Updates!Setting(service)
UpdateCalls == Updates!Calls[service]
StandsFor(c, f) == Updates!Given(c, f, "std")

Asked == Updates!Resolved(config)
Has(c, f) == live[f] = StandsFor(c, f) \/ Updates!Unsent(c, f)

IsConfig(c) == DOMAIN c \subseteq UpdateSetting /\ \A f \in DOMAIN c : c[f] \in {"low", "std", "high", "ref"}

\* What AWS has is what the row or the node stands for, setting by setting.  An
\* update that runs sends the node's config, and what it has sent is there; or it
\* began before the edit, and sends what is there already.
UpdatesInv ==
    /\ service \in Services /\ edits \in Nat
    /\ IsConfig(config) /\ IsConfig(desired) /\ DOMAIN desired \subseteq DOMAIN config
    /\ \A f \in DOMAIN desired : desired[f] # "ref"
    /\ live = [f \in UpdateSetting |-> live[f]]
    /\ \A f \in UpdateSetting : Has(desired, f) \/ Has(Asked, f)
    /\ edits = 0 => desired = Asked
    /\ step \in 0..(1 + Len(UpdateCalls)) /\ (step = 0 => edits = 0)
    /\ step > 1 => \/ sent = Asked /\ \A i \in 1..(step - 2) : \A f \in UpdateCalls[i] : Has(sent, f)
                   \/ sent = desired /\ \A f \in UpdateSetting : Has(desired, f)

\* Resolving changes no field that is not a reference, and leaves none.
LEMMA AskedHasNoReference ==
    ASSUME IsConfig(config)
    PROVE  /\ IsConfig(Asked) /\ DOMAIN Asked = DOMAIN config
           /\ \A f \in DOMAIN Asked : Asked[f] # "ref" /\ (config[f] # "ref" => Asked[f] = config[f])
BY DEF IsConfig, Asked, Updates!Resolved

\* A service without tables has no capacities.
LEMMA CallsAreSequences ==
    ASSUME NEW s \in Services
    PROVE  /\ Len(Updates!Calls[s]) \in Nat \ {0} /\ DOMAIN Updates!Calls[s] = 1..Len(Updates!Calls[s])
           /\ Updates!Setting(s) = UNION {Updates!Calls[s][i] : i \in 1..Len(Updates!Calls[s])}
           /\ Updates!Setting(s) \cap Updates!Capacity = {}
<1> DEFINE Known(calls) ==
               /\ Len(calls) \in Nat \ {0} /\ DOMAIN calls = 1..Len(calls)
               /\ \A i \in 1..Len(calls) : calls[i] \cap Updates!Capacity = {}
<1>1. s \in {"LAMBDA_FUNCTION", "ECR_REPOSITORY", "SNS_TOPIC", "SQS_QUEUE", "EC2_INSTANCE", "S3_BUCKET"}
  BY AdapterAssumption DEF Updates!UpdatesAssumption, Updates!Calls
<1>2. ASSUME s = "LAMBDA_FUNCTION" PROVE Known(Updates!Calls[s])
  <2> DEFINE calls == <<{"memorySize", "timeout"}, {"codeZipBase64"}>>
  <2>1. Updates!Calls[s] = calls
    BY <1>2 DEF Updates!Calls
  <2>2. Len(calls) = 2 /\ DOMAIN calls = 1..2
    OBVIOUS
  <2>3. calls[1] \cap Updates!Capacity = {} /\ calls[2] \cap Updates!Capacity = {}
    BY DEF Updates!Capacity
  <2> HIDE DEF calls
  <2> QED BY <2>1, <2>2, <2>3
<1>3. ASSUME s = "ECR_REPOSITORY" PROVE Known(Updates!Calls[s])
  <2> DEFINE calls == <<{"imageTagMutability"}, {"scanOnPush"}>>
  <2>1. Updates!Calls[s] = calls
    BY <1>3 DEF Updates!Calls
  <2>2. Len(calls) = 2 /\ DOMAIN calls = 1..2
    OBVIOUS
  <2>3. calls[1] \cap Updates!Capacity = {} /\ calls[2] \cap Updates!Capacity = {}
    BY DEF Updates!Capacity
  <2> HIDE DEF calls
  <2> QED BY <2>1, <2>2, <2>3
<1>4. ASSUME s = "SNS_TOPIC" PROVE Known(Updates!Calls[s])
  <2> DEFINE calls == <<{"displayName"}, {"contentBasedDeduplication"}>>
  <2>1. Updates!Calls[s] = calls
    BY <1>4 DEF Updates!Calls
  <2>2. Len(calls) = 2 /\ DOMAIN calls = 1..2
    OBVIOUS
  <2>3. calls[1] \cap Updates!Capacity = {} /\ calls[2] \cap Updates!Capacity = {}
    BY DEF Updates!Capacity
  <2> HIDE DEF calls
  <2> QED BY <2>1, <2>2, <2>3
<1>5. ASSUME s = "SQS_QUEUE" PROVE Known(Updates!Calls[s])
  <2> DEFINE calls == <<{"visibilityTimeoutSeconds", "messageRetentionPeriodSeconds"}>>
  <2>1. Updates!Calls[s] = calls
    BY <1>5 DEF Updates!Calls
  <2>2. Len(calls) = 1 /\ DOMAIN calls = 1..1
    OBVIOUS
  <2>3. calls[1] \cap Updates!Capacity = {}
    BY DEF Updates!Capacity
  <2> HIDE DEF calls
  <2> QED BY <2>1, <2>2, <2>3
<1>6. ASSUME s = "EC2_INSTANCE" PROVE Known(Updates!Calls[s])
  <2> DEFINE calls == <<{"securityGroupIds"}, {"shutdownBehavior"}, {"disableApiTermination"}, {"monitoring"}>>
  <2>1. Updates!Calls[s] = calls
    BY <1>6 DEF Updates!Calls
  <2>2. Len(calls) = 4 /\ DOMAIN calls = 1..4
    OBVIOUS
  <2>3. /\ calls[1] \cap Updates!Capacity = {}
        /\ calls[2] \cap Updates!Capacity = {}
        /\ calls[3] \cap Updates!Capacity = {}
        /\ calls[4] \cap Updates!Capacity = {}
    BY DEF Updates!Capacity
  <2> HIDE DEF calls
  <2> QED BY <2>1, <2>2, <2>3
<1>7. ASSUME s = "S3_BUCKET" PROVE Known(Updates!Calls[s])
  <2> DEFINE calls == <<{"versioning"}, {"blockPublicAccess"}, {"encryption"}, {"enforceHttps"}>>
  <2>1. Updates!Calls[s] = calls
    BY <1>7 DEF Updates!Calls
  <2>2. Len(calls) = 4 /\ DOMAIN calls = 1..4
    OBVIOUS
  <2>3. /\ calls[1] \cap Updates!Capacity = {}
        /\ calls[2] \cap Updates!Capacity = {}
        /\ calls[3] \cap Updates!Capacity = {}
        /\ calls[4] \cap Updates!Capacity = {}
    BY DEF Updates!Capacity
  <2> HIDE DEF calls
  <2> QED BY <2>1, <2>2, <2>3
<1>8. Known(Updates!Calls[s])
  BY <1>1, <1>2, <1>3, <1>4, <1>5, <1>6, <1>7
<1>9. Updates!Setting(s) = UNION {Updates!Calls[s][i] : i \in 1..Len(Updates!Calls[s])}
  BY <1>8 DEF Updates!Setting, Updates!Range
<1> QED BY <1>8, <1>9

LEMMA UpdatesStep == UpdatesInv /\ [Updates!Next]_updateVars => (edits' <= 1 => UpdatesInv')
<1> SUFFICES ASSUME UpdatesInv, [Updates!Next]_updateVars, edits' <= 1 PROVE UpdatesInv'
  OBVIOUS
<1>s. service' = service
  BY DEF Updates!Next, Updates!Create, Updates!Publish, Updates!Call, Updates!Fail, Updates!Edit, updateVars
<1>l. /\ Len(UpdateCalls) \in Nat \ {0} /\ UpdateSetting = UNION {UpdateCalls[i] : i \in 1..Len(UpdateCalls)}
      /\ UpdateSetting \cap Updates!Capacity = {}
  BY CallsAreSequences DEF UpdatesInv, UpdateCalls, UpdateSetting
<1>u. UpdateCalls' = UpdateCalls /\ UpdateSetting' = UpdateSetting
  BY <1>s DEF UpdateCalls, UpdateSetting
<1>a. \A f \in UpdateSetting : /\ \A c, other : Updates!Applied(c, f, other) = Updates!Given(c, f, other)
                               /\ Updates!Default(f) = "std"
  BY <1>l DEF Updates!Applied, Updates!Default
<1>c. \A c : Updates!Created(c) = [f \in UpdateSetting |-> StandsFor(c, f)]
  BY <1>a DEF Updates!Created, UpdateSetting, StandsFor
<1>q. /\ IsConfig(Asked) /\ DOMAIN Asked = DOMAIN config
      /\ \A f \in DOMAIN Asked : Asked[f] # "ref"
  BY AskedHasNoReference DEF UpdatesInv
<1>1. CASE Updates!Create
  <2>1. /\ live' = [f \in UpdateSetting |-> StandsFor(Asked, f)] /\ desired' = Asked /\ step' = 1 /\ step = 0
        /\ UNCHANGED <<service, config, sent, others, edits>>
    BY <1>1, <1>c DEF Updates!Create, Asked
  <2>2. Asked' = Asked
    BY <2>1 DEF Asked
  <2>3. \A f \in UpdateSetting : Has(desired, f)'
    BY <2>1 DEF Has, StandsFor
  <2> QED BY <1>l, <1>q, <1>u, <2>1, <2>2, <2>3 DEF UpdatesInv, IsConfig
<1>2. CASE Updates!Publish
  <2>1. /\ step = 1 /\ step' = 2 /\ sent' = Asked
        /\ UNCHANGED <<service, config, desired, live, others, edits>>
    BY <1>2 DEF Updates!Publish, Asked
  <2>2. Asked' = Asked /\ \A f \in UpdateSetting : Has(desired, f)' = Has(desired, f) /\ Has(Asked, f)' = Has(Asked, f)
    BY <2>1 DEF Asked, Has, StandsFor, Updates!Unsent
  <2>3. 1..(step' - 2) = {}
    BY <2>1
  <2> QED BY <1>l, <1>u, <2>1, <2>2, <2>3 DEF UpdatesInv, IsConfig
<1>3. CASE Updates!Fail
  <2>1. /\ step' = 1 /\ step > 1 /\ UNCHANGED <<service, config, desired, live, sent, others, edits>>
    BY <1>3 DEF Updates!Fail, Updates!AfterFailure
  <2>2. Asked' = Asked /\ \A f \in UpdateSetting : Has(desired, f)' = Has(desired, f) /\ Has(Asked, f)' = Has(Asked, f)
    BY <2>1 DEF Asked, Has, StandsFor, Updates!Unsent
  <2> QED BY <1>l, <1>u, <2>1, <2>2 DEF UpdatesInv, IsConfig
<1>4. ASSUME NEW f \in UpdateSetting, NEW v \in Updates!Choices(f), Updates!Edit(f, v) PROVE UpdatesInv'
  <2>1. /\ edits = 0 /\ edits' = 1 /\ step > 0 /\ desired = Asked
        /\ UNCHANGED <<service, desired, live, step, sent, others>>
    BY <1>4 DEF Updates!Edit, UpdatesInv
  <2>2. /\ config' = [g \in DOMAIN config \cup {f} |-> IF g = f THEN v ELSE config[g]]
        /\ v \in {"std", "high", "ref"}
    BY <1>4 DEF Updates!Edit, Updates!Updated, Updates!Choices
  <2>3. /\ IsConfig(config)' /\ IsConfig(desired)' /\ DOMAIN desired' \subseteq DOMAIN config'
        /\ \A g \in DOMAIN desired' : desired'[g] # "ref"
    BY <1>u, <2>1, <2>2 DEF UpdatesInv, IsConfig
  <2>4. \A g \in UpdateSetting : Has(desired, g)'
    BY <2>1 DEF UpdatesInv, Has, StandsFor, Updates!Unsent
  <2>5. step' > 1 => sent' = desired'
    BY <2>1 DEF UpdatesInv
  <2> QED BY <1>u, <2>1, <2>3, <2>4, <2>5 DEF UpdatesInv
<1>5. CASE Updates!Call
  <2> DEFINE these == UpdateCalls[step - 1]
  <2>1. /\ step > 1 /\ UNCHANGED <<service, config, sent, others, edits>>
        /\ step' = IF step - 1 = Len(UpdateCalls) THEN 1 ELSE step + 1
        /\ desired' = IF step' = 1 THEN sent ELSE desired
    BY <1>5 DEF Updates!Call, UpdateCalls
  <2>2. live' = [f \in UpdateSetting |-> IF f \in these /\ ~Updates!Unsent(sent, f)
                                         THEN Updates!Given(sent, f, Updates!Otherwise(f)) ELSE live[f]]
    BY <1>5, <1>a DEF Updates!Call, UpdateCalls, UpdateSetting
  <2>3. step - 1 \in 1..Len(UpdateCalls) /\ step \in Nat
    BY <1>l, <2>1 DEF UpdatesInv
  <2>o. Asked' = Asked
    BY <2>1 DEF Asked
  \* A setting that is not sent stands for the standard one, and has it already
  \* where it is left alone.
  <2>4. ASSUME NEW f \in UpdateSetting
        PROVE  Updates!Given(sent, f, Updates!Otherwise(f)) = StandsFor(sent, f)
    <3>1. CASE f \in DOMAIN sent
      BY <3>1 DEF Updates!Given, StandsFor
    <3>2. CASE f \notin DOMAIN sent
      <4>1. f \notin DOMAIN desired
        BY <1>q, <2>1, <3>2 DEF UpdatesInv
      <4>2. f \notin DOMAIN Asked \/ Has(desired, f)
        BY <2>1, <3>2 DEF UpdatesInv
      <4>3. live[f] = "std"
        BY <4>1, <4>2 DEF UpdatesInv, Has, StandsFor, Updates!Given, Updates!Unsent
      <4>4. Updates!Otherwise(f) = "std"
        BY <1>a, <4>3 DEF Updates!Otherwise
      <4> QED BY <3>2, <4>4 DEF Updates!Given, StandsFor
    <3> QED BY <3>1, <3>2
  <2>5. \A f \in UpdateSetting : live'[f] = IF f \in these /\ ~Updates!Unsent(sent, f) THEN StandsFor(sent, f) ELSE live[f]
    BY <2>2, <2>4
  <2>6. live' = [f \in UpdateSetting |-> live'[f]]
    BY <2>2
  <2> HIDE DEF these
  <2>h. /\ \A f \in UpdateSetting : f \in these => Has(sent, f)'
        /\ \A f \in UpdateSetting : Has(sent, f) => Has(sent, f)'
    <3>1. \A f : StandsFor(sent', f) = StandsFor(sent, f) /\ Updates!Unsent(sent, f)' = Updates!Unsent(sent, f)
      BY <2>1 DEF Updates!Unsent, StandsFor
    <3> QED BY <2>5, <3>1 DEF Has
  <2>7. CASE sent = desired /\ \A f \in UpdateSetting : Has(desired, f)
    <3>1. desired' = desired /\ sent' = desired' /\ \A f \in UpdateSetting : Has(sent, f)'
      BY <2>1, <2>h, <2>7
    <3>2. \A f \in UpdateSetting : Has(desired, f)'
      BY <3>1 DEF Has
    <3> QED BY <1>l, <1>u, <2>1, <2>3, <2>6, <2>o, <3>1, <3>2 DEF UpdatesInv, IsConfig
  <2>8. CASE sent = Asked /\ \A i \in 1..(step - 2) : \A f \in UpdateCalls[i] : Has(sent, f)
    <3>1. \A i \in 1..(step - 1) : \A f \in UpdateCalls[i] : Has(sent, f)'
      <4> SUFFICES ASSUME NEW i \in 1..(step - 1), NEW f \in UpdateCalls[i] PROVE Has(sent, f)'
        OBVIOUS
      <4>1. i \in 1..Len(UpdateCalls) /\ f \in UpdateSetting
        BY <1>l, <2>3
      <4>2. CASE f \in these
        BY <2>h, <4>1, <4>2
      <4>3. CASE f \notin these
        <5>1. i \in 1..(step - 2)
          BY <2>3, <4>3 DEF these
        <5> QED BY <2>h, <2>8, <4>1, <5>1
      <4> QED BY <4>2, <4>3
    <3>2. CASE step - 1 = Len(UpdateCalls)
      <4>1. step' = 1 /\ desired' = Asked /\ sent' = desired'
        BY <2>1, <2>8, <3>2
      <4>2. \A f \in UpdateSetting : Has(sent, f)'
        BY <1>l, <3>1, <3>2
      <4>3. \A f \in UpdateSetting : Has(desired, f)'
        BY <4>1, <4>2 DEF Has
      <4> QED BY <1>l, <1>q, <1>u, <2>1, <2>6, <2>o, <4>1, <4>3 DEF UpdatesInv, IsConfig
    <3>3. CASE step - 1 # Len(UpdateCalls)
      <4>1. step' = step + 1 /\ desired' = desired /\ step' \in 0..(1 + Len(UpdateCalls)) /\ step' > 1
        BY <1>l, <2>1, <2>3, <3>3
      <4>2. \A f \in UpdateSetting : Has(desired, f)' \/ Has(Asked, f)'
        <5> SUFFICES ASSUME NEW f \in UpdateSetting PROVE Has(desired, f)' \/ Has(Asked, f)'
          OBVIOUS
        <5>1. Has(sent, f)' => Has(Asked, f)'
          BY <2>1, <2>8, <2>o DEF Has
        <5>2. CASE f \in these
          BY <2>h, <5>1, <5>2
        <5>3. CASE f \notin these
          <6>1. live'[f] = live[f] /\ desired' = desired /\ others' = others
            BY <2>1, <2>5, <4>1, <5>3
          <6>2. (Has(desired, f) => Has(desired, f)') /\ (Has(Asked, f) => Has(Asked, f)')
            BY <2>o, <6>1 DEF Has, StandsFor, Updates!Unsent
          <6> QED BY <6>2 DEF UpdatesInv
        <5> QED BY <5>2, <5>3
      <4>3. \A i \in 1..(step' - 2) : \A f \in UpdateCalls[i] : Has(sent, f)'
        BY <2>3, <3>1, <4>1
      <4>4. /\ IsConfig(config)' /\ IsConfig(desired)' /\ DOMAIN desired' \subseteq DOMAIN config'
            /\ \A f \in DOMAIN desired' : desired'[f] # "ref"
            /\ edits' = 0 => desired' = Asked'
            /\ service' \in Services /\ edits' \in Nat
        BY <1>u, <2>1, <2>o, <4>1 DEF UpdatesInv, IsConfig
      <4>5. sent' = Asked'
        BY <2>1, <2>8, <2>o
      <4> QED BY <1>u, <2>1, <2>6, <4>1, <4>2, <4>3, <4>4, <4>5 DEF UpdatesInv
    <3> QED BY <3>2, <3>3
  <2> QED BY <2>1, <2>7, <2>8 DEF UpdatesInv
<1>6. CASE UNCHANGED updateVars
  <2>1. UNCHANGED <<service, config, desired, live, step, sent, others, edits>>
    BY <1>6 DEF updateVars
  <2>2. /\ Asked' = Asked
        /\ \A f \in UpdateSetting : /\ Has(desired, f)' = Has(desired, f) /\ Has(Asked, f)' = Has(Asked, f)
                                     /\ Has(sent, f)' = Has(sent, f)
    BY <2>1 DEF Asked, Has, StandsFor, Updates!Unsent
  <2>3. CASE step > 1
    <3>1. \A i \in 1..(step - 2) : UpdateCalls[i] \subseteq UpdateSetting
      BY <1>l, <2>3 DEF UpdatesInv
    <3> QED BY <1>u, <2>1, <2>2, <2>3, <3>1 DEF UpdatesInv, IsConfig
  <2>4. CASE ~(step > 1)
    BY <1>u, <2>1, <2>2, <2>4 DEF UpdatesInv, IsConfig
  <2> QED BY <2>3, <2>4
<1> QED BY <1>1, <1>2, <1>3, <1>4, <1>5, <1>6 DEF Updates!Next, UpdateSetting

\* When the canvas shows nothing to publish, AWS has the settings that the config
\* stands for, whichever call of an update was refused (getPendingDeploymentChanges,
\* updateResource): all but HTTPS turned off in a policy with no other statement,
\* and a changed list of groups with a reference in it.
THEOREM NothingPendingAlwaysLive == AdaptersSpec => []NothingPendingMeansLive
<1> DEFINE I == edits \in Nat /\ (edits <= 1 => UpdatesInv)
<1>1. AdaptersInit => I
  <2> SUFFICES ASSUME AdaptersInit PROVE UpdatesInv /\ edits = 0
    BY DEF I
  <2>1. Updates!Init
    BY DEF AdaptersInit
  <2>2. service \in Services /\ edits = 0 /\ step = 0 /\ desired = Asked
    BY <2>1 DEF Updates!Init, Asked
  <2>3. IsConfig(config)
    BY <2>1 DEF Updates!Init, Updates!Config, IsConfig, UpdateSetting
  <2>6. /\ IsConfig(Asked) /\ DOMAIN Asked = DOMAIN config
        /\ \A f \in DOMAIN Asked : Asked[f] # "ref"
    BY <2>3, AskedHasNoReference
  <2>4. Len(UpdateCalls) \in Nat \ {0} /\ UpdateSetting \cap Updates!Capacity = {}
    BY <2>2, CallsAreSequences DEF UpdateCalls, UpdateSetting
  <2>5. live = [f \in UpdateSetting |-> StandsFor(desired, f)]
    BY <2>1, <2>4 DEF Updates!Init, Updates!Created, Updates!Applied, UpdateSetting, StandsFor
  <2>7. \A f \in UpdateSetting : Has(desired, f)
    BY <2>5 DEF Has
  <2> QED BY <2>2, <2>3, <2>4, <2>5, <2>6, <2>7 DEF UpdatesInv
<1>2. I /\ [AdaptersNext]_adapterVars => I'
  <2> SUFFICES ASSUME I, [AdaptersNext]_adapterVars PROVE I'
    OBVIOUS
  <2>1. [Updates!Next]_updateVars
    BY DEF AdaptersNext, adapterVars
  <2>2. edits' \in {edits, edits + 1}
    BY <2>1 DEF Updates!Next, Updates!Create, Updates!Publish, Updates!Call, Updates!Fail, Updates!Edit, updateVars
  <2> QED BY <2>1, <2>2, UpdatesStep
<1>3. I => NothingPendingMeansLive
  <2> SUFFICES ASSUME I, edits <= 1, step = 1, Updates!Pending = {}, NEW f \in UpdateSetting
               PROVE  live[f] = Updates!Created(Asked)[f] \/ Updates!DenyStays(f) \/ Updates!ListHidden(f)
    BY DEF NothingPendingMeansLive, Updates!NothingPendingMeansLive, UpdateSetting, Asked
  <2>1. UpdatesInv
    OBVIOUS
  <2>2. UpdateSetting \cap Updates!Capacity = {}
    BY <2>1, CallsAreSequences DEF UpdatesInv, UpdateSetting
  <2>3. Updates!Created(Asked)[f] = StandsFor(Asked, f)
    BY <2>2 DEF Updates!Created, Updates!Applied, UpdateSetting, StandsFor
  <2>4. Updates!ValuesMatch(f)
    BY DEF Updates!Pending, UpdateSetting
  <2>5. /\ DOMAIN Asked = DOMAIN config
        /\ \A g \in DOMAIN Asked : Asked[g] # "ref" /\ (config[g] # "ref" => Asked[g] = config[g])
    BY <2>1, AskedHasNoReference DEF UpdatesInv
  \* What is not in the list with a reference is the same in the row and in the node.
  <2>6. ASSUME ~Updates!ListHidden(f) PROVE Updates!Given(desired, f, "none") = Updates!Given(Asked, f, "none")
    <3>1. IsConfig(config) /\ IsConfig(desired) /\ \A g \in DOMAIN desired : desired[g] # "ref"
      BY <2>1 DEF UpdatesInv
    <3>2. CASE f \in DOMAIN config /\ config[f] = "ref"
      BY <2>4, <2>5, <2>6, <3>1, <3>2 DEF Updates!ValuesMatch, Updates!ListHidden, Updates!Given, Asked
    <3>3. CASE f \in DOMAIN config /\ config[f] # "ref"
      BY <2>4, <2>5, <3>1, <3>3 DEF Updates!ValuesMatch, Updates!Given
    <3>4. CASE f \notin DOMAIN config
      BY <2>4, <2>5, <3>1, <3>4 DEF Updates!ValuesMatch, Updates!Given
    <3> QED BY <3>2, <3>3, <3>4
  <2>7. ASSUME Updates!Given(desired, f, "none") = Updates!Given(Asked, f, "none")
        PROVE  Has(Asked, f)
    <3>1. IsConfig(desired) /\ IsConfig(Asked)
      BY <2>1, AskedHasNoReference DEF UpdatesInv
    <3>2. StandsFor(desired, f) = StandsFor(Asked, f) /\ Updates!Unsent(desired, f) = Updates!Unsent(Asked, f)
      BY <2>7, <3>1 DEF IsConfig, StandsFor, Updates!Given, Updates!Unsent
    <3> QED BY <2>1, <3>2 DEF UpdatesInv, Has
  <2>8. Updates!Unsent(Asked, f) => Updates!DenyStays(f)
    BY <2>5 DEF Updates!Unsent, Updates!DenyStays, Updates!Given, Asked, Updates!Resolved
  <2> QED BY <2>3, <2>6, <2>7, <2>8 DEF Has
<1> HIDE DEF I
<1> QED BY <1>1, <1>2, <1>3, PTL DEF AdaptersSpec

-----------------------------------------------------------------------------
(* Setup and deletion of buckets, groups and roles.                         *)

SetupParts == 1..Parts

\* What the handler in flight may take for granted of the row and of AWS.
SetupTyped ==
    /\ exists \in BOOLEAN /\ applied \subseteq SetupParts /\ todo \subseteq SetupParts
    /\ (applied # {} => exists) /\ record \in Setup!Row
PublishKnows ==
    /\ at \in {"create", "checkpoint", "configure", "store", "fail"} => record.status = "PROVISIONING"
    /\ at = "create" => todo = record.wanted
    /\ at \in {"checkpoint", "configure"} => exists /\ applied \cup todo = record.wanted
    /\ at = "store" => exists /\ applied = record.wanted
DeletionKnows ==
    /\ at \in {"list", "detach", "delete", "gone", "refused"} => record.status = "DELETING"
    /\ at = "detach" => todo \subseteq applied
    /\ at = "gone" => ~exists
SetupInv == SetupTyped /\ PublishKnows /\ DeletionKnows /\ Setup!StatusTellsAws

LEMMA PartsFinite ==
    /\ Parts \in Nat /\ PageSize \in Nat \ {0}
    /\ SetupParts \subseteq Int
    /\ \A S \in SUBSET SetupParts : IsFiniteSet(S)
<1>1. Parts \in Nat /\ PageSize \in Nat \ {0}
  BY AdapterAssumption DEF Setup!SetupAssumption
<1>2. IsFiniteSet(SetupParts)
  BY <1>1, FS_Interval DEF SetupParts
<1>3. \A S \in SUBSET SetupParts : IsFiniteSet(S)
  BY <1>2, FS_Subset
<1>4. SetupParts \subseteq Int
  BY <1>1 DEF SetupParts
<1> QED BY <1>1, <1>3, <1>4

LEMMA LeastPart == ASSUME NEW S \in SUBSET SetupParts, S # {} PROVE Setup!Min(S) \in S /\ Shared!Min(S) \in S
<1>1. \E x \in S : \A y \in S : x <= y
  BY PartsFinite, LeastMember
<1> QED BY <1>1 DEF Setup!Min, Shared!Min

LEMMA SetupStarts == Setup!Init => SetupInv
<1> SUFFICES ASSUME Setup!Init PROVE SetupInv
  OBVIOUS
<1>1. record \in Setup!Row /\ record.status = "NONE"
  BY DEF Setup!Init, Setup!Row
<1> QED BY <1>1 DEF Setup!Init, SetupInv, SetupTyped, PublishKnows, DeletionKnows, Setup!StatusTellsAws

LEMMA SetupStep == SetupInv /\ [Setup!Next]_setupVars => SetupInv'
<1> SUFFICES ASSUME SetupInv, [Setup!Next]_setupVars PROVE SetupInv'
  OBVIOUS
<1> USE DEF SetupInv, SetupTyped, PublishKnows, DeletionKnows, Setup!StatusTellsAws
<1>0. /\ record.status \in {"NONE", "PROVISIONING", "RUNNING", "DELETING", "FAILED", "TERMINATED"}
      /\ record.known \in BOOLEAN /\ record.wanted \in SUBSET SetupParts
  BY DEF Setup!Row, Setup!Part, SetupParts
<1>r. /\ \A s \in {"NONE", "PROVISIONING", "RUNNING", "DELETING", "FAILED", "TERMINATED"} :
             LET r == [record EXCEPT !.status = s] IN
             r \in Setup!Row /\ r.status = s /\ r.known = record.known /\ r.wanted = record.wanted
      /\ LET r == [record EXCEPT !.known = TRUE] IN
             r \in Setup!Row /\ r.status = record.status /\ r.known /\ r.wanted = record.wanted
  BY DEF Setup!Row
<1>1. ASSUME NEW wanted \in SUBSET Setup!Part, Setup!Publish(wanted) PROVE SetupInv'
  BY <1>1 DEF Setup!Publish, Setup!Row, Setup!Part, SetupParts
<1>2. CASE Setup!CreateCall
  BY <1>2 DEF Setup!CreateCall, Setup!AfterCreate
<1>3. CASE Setup!onCreated
  BY <1>3, <1>r DEF Setup!onCreated
<1>4. CASE Setup!Configure
  BY <1>4, LeastPart DEF Setup!Configure
<1>5. CASE Setup!ConfigureDone
  BY <1>5 DEF Setup!ConfigureDone, Setup!Configured
<1>6. CASE Setup!Store
  <2> DEFINE r == [record EXCEPT !.status = "RUNNING", !.known = TRUE]
  <2>1. r \in Setup!Row /\ r.status = "RUNNING" /\ r.wanted = record.wanted
    BY DEF Setup!Row
  <2> HIDE DEF r
  <2>2. record' = r
    BY <1>6 DEF Setup!Store, r
  <2> QED BY <1>6, <2>1, <2>2 DEF Setup!Store
<1>7. CASE Setup!CreateError
  BY <1>7 DEF Setup!CreateError
<1>8. CASE Setup!Fail
  BY <1>8, <1>r DEF Setup!Fail
<1>9. CASE Setup!Detach
  BY <1>9, <1>r DEF Setup!Detach
<1>10. CASE Setup!Delete
  BY <1>10, <1>r, PartsFinite DEF Setup!Delete
<1>11. CASE Setup!ListPolicies
  <2>1. Setup!Page \subseteq applied
    BY DEF Setup!Page, Setup!Beyond
  <2> QED BY <1>11, <2>1 DEF Setup!ListPolicies
<1>12. CASE Setup!DetachPolicy
  BY <1>12, LeastPart DEF Setup!DetachPolicy
<1>13. CASE Setup!PolicyNotFound
  BY <1>13, LeastPart DEF Setup!PolicyNotFound
<1>14. CASE Setup!PageDone
  BY <1>14 DEF Setup!PageDone
<1>15. CASE Setup!DeleteCall
  BY <1>15 DEF Setup!DeleteCall
<1>16. CASE Setup!DeleteError
  BY <1>16, PartsFinite DEF Setup!DeleteError
<1>17. CASE Setup!Terminated
  BY <1>17, <1>r DEF Setup!Terminated
<1>18. CASE Setup!Refused
  BY <1>18, <1>r DEF Setup!Refused
<1>19. CASE UNCHANGED setupVars
  BY <1>19 DEF setupVars
<1>20. ASSUME NEW p \in Setup!Part, Setup!Meddle(p) PROVE FALSE
  BY <1>20 DEF Setup!Meddle
<1> QED
  BY <1>1, <1>2, <1>3, <1>4, <1>5, <1>6, <1>7, <1>8, <1>9, <1>10, <1>11, <1>12, <1>13, <1>14, <1>15, <1>16,
     <1>17, <1>18, <1>19, <1>20 DEF Setup!Next

-----------------------------------------------------------------------------
(* The pages of a role's policies, also while somebody else detaches some.  *)

\* What is attached lies on the page at hand or beyond it.
PagesInv ==
    /\ applied \subseteq SetupParts /\ todo \subseteq SetupParts /\ marker \in Nat
    /\ kind = "IAM_ROLE" =>
          /\ at = "list" => \A p \in applied : p > marker
          /\ at = "detach" => \A p \in applied : p \in todo \/ (marker # 0 /\ p > marker)
          /\ at = "delete" => applied = {}

\* A page is what comes first of what lies beyond the marker.
LEMMA PageFacts ==
    ASSUME PagesInv
    PROVE  /\ Shared!Page \subseteq applied /\ Shared!NextMarker \in Nat
           /\ \A p \in Shared!Beyond : p \in Shared!Page \/ (Shared!NextMarker # 0 /\ p > Shared!NextMarker)
<1> DEFINE B == Shared!Beyond
           Before(p) == {q \in B : q < p}
           P == Shared!Page
<1>1. B \in SUBSET SetupParts /\ B \subseteq applied /\ B \in SUBSET Int /\ IsFiniteSet(B)
  BY PartsFinite DEF Shared!Beyond, PagesInv
<1>2. \A S : Shared!Cardinality(S) = Cardinality(S)
  BY DEF Shared!Cardinality, Cardinality
<1>3. P = {p \in B : Cardinality(Before(p)) < PageSize}
  BY <1>2 DEF Shared!Page
<1> HIDE DEF B, P
<1>4. P \subseteq B
  BY <1>3
<1>5. CASE P = B
  BY <1>1, <1>4, <1>5 DEF Shared!NextMarker, B, P
<1>6. CASE P # B
  <2>1. PICK least \in B : \A q \in B : least <= q
    BY <1>1, <1>4, <1>6, LeastMember
  <2>2. Before(least) = {}
    <3>1. \A q \in B : ~(q < least)
      BY <1>1, <2>1
    <3> QED BY <3>1
  <2>3. least \in P
    BY <1>3, <2>1, <2>2, FS_EmptySet, PartsFinite
  <2>4. P \in SUBSET Int /\ IsFiniteSet(P)
    BY <1>1, <1>4, FS_Subset
  <2>5. \E x \in P : \A y \in P : x >= y
    BY <2>3, <2>4, GreatestMember
  <2> DEFINE m == Shared!Max(P)
  <2>6. m \in P /\ \A y \in P : m >= y
    BY <2>5 DEF Shared!Max
  <2>7. Shared!NextMarker = m
    BY <1>6 DEF Shared!NextMarker, B, P
  <2> HIDE DEF m
  <2>8. m \in Nat /\ m # 0
    BY <1>1, <1>4, <2>6, PartsFinite DEF SetupParts
  <2>9. ASSUME NEW p \in B, p \notin P, p <= m PROVE FALSE
    <3>1. Before(p) \subseteq Before(m) /\ IsFiniteSet(Before(m))
      <4>1. \A q \in B : q < p => q < m
        BY <1>1, <1>4, <2>6, <2>9
      <4>2. IsFiniteSet(Before(m))
        BY <1>1, FS_Subset
      <4> QED BY <4>1, <4>2
    <3>2. Cardinality(Before(p)) <= Cardinality(Before(m)) /\ IsFiniteSet(Before(p))
      BY <3>1, FS_Subset
    <3>3. Cardinality(Before(m)) < PageSize /\ ~(Cardinality(Before(p)) < PageSize)
      BY <1>3, <2>6, <2>9
    <3>4. Cardinality(Before(m)) \in Nat /\ Cardinality(Before(p)) \in Nat
      BY <3>1, <3>2, FS_CardinalityType
    <3> QED BY <3>2, <3>3, <3>4, PartsFinite
  <2>10. \A p \in B : p \in Int
    BY <1>1
  <2>11. \A p \in B : p \in P \/ p > m
    BY <2>8, <2>9, <2>10
  <2> QED BY <1>1, <1>4, <2>7, <2>8, <2>11 DEF B, P
<1> QED BY <1>5, <1>6

LEMMA PagesStart == Setup!Init => PagesInv
  BY DEF Setup!Init, PagesInv

\* Somebody who meddles may do all that is done without him.
LEMMA SetupIsShared == Setup!Next => Shared!Next
<1> SUFFICES ASSUME Setup!Next PROVE Shared!Next
  OBVIOUS
<1>1. ASSUME NEW wanted \in SUBSET Setup!Part, Setup!Publish(wanted) PROVE Shared!Next
  BY <1>1 DEF Setup!Publish, Shared!Publish, Shared!Next, Setup!Part, Shared!Part
<1>2. CASE Setup!CreateCall \/ Setup!onCreated \/ Setup!Store \/ Setup!CreateError \/ Setup!Fail \/ Setup!Detach
  BY <1>2 DEF Setup!CreateCall, Setup!onCreated, Setup!Store, Setup!CreateError, Setup!Fail, Setup!Detach,
     Setup!AfterCreate, Shared!CreateCall, Shared!onCreated, Shared!Store, Shared!CreateError, Shared!Fail,
     Shared!Detach, Shared!AfterCreate, Shared!Next
<1>3. CASE Setup!Configure \/ Setup!ConfigureDone \/ Setup!DetachPolicy \/ Setup!PolicyNotFound
  <2>1. \A S : Setup!Min(S) = Shared!Min(S)
    BY DEF Setup!Min, Shared!Min
  <2> QED BY <1>3, <2>1 DEF Setup!Configure, Setup!ConfigureDone, Setup!DetachPolicy, Setup!PolicyNotFound,
     Setup!Configured, Shared!Configure, Shared!ConfigureDone, Shared!DetachPolicy, Shared!PolicyNotFound,
     Shared!Configured, Shared!Next
<1>4. CASE Setup!Delete \/ Setup!PageDone \/ Setup!DeleteCall \/ Setup!DeleteError \/ Setup!Terminated \/ Setup!Refused
  BY <1>4 DEF Setup!Delete, Setup!PageDone, Setup!DeleteCall, Setup!DeleteError, Setup!Terminated, Setup!Refused,
     Setup!Deletable, Shared!Delete, Shared!PageDone, Shared!DeleteCall, Shared!DeleteError, Shared!Terminated,
     Shared!Refused, Shared!Deletable, Shared!Next
<1>5. CASE Setup!ListPolicies
  <2>1. Setup!Beyond = Shared!Beyond
    BY DEF Setup!Beyond, Shared!Beyond
  <2>2. \A S : Setup!Cardinality(S) = Shared!Cardinality(S)
    BY DEF Setup!Cardinality, Shared!Cardinality
  <2>3. Setup!Page = Shared!Page
    BY <2>1, <2>2 DEF Setup!Page, Shared!Page
  <2>4. Setup!NextMarker = Shared!NextMarker
    BY <2>1, <2>3 DEF Setup!NextMarker, Shared!NextMarker, Setup!Max, Shared!Max
  <2> QED BY <1>5, <2>3, <2>4 DEF Setup!ListPolicies, Shared!ListPolicies, Shared!Next
<1>6. ASSUME NEW p \in Setup!Part, Setup!Meddle(p) PROVE FALSE
  BY <1>6 DEF Setup!Meddle
<1> QED BY <1>1, <1>2, <1>3, <1>4, <1>5, <1>6 DEF Setup!Next

LEMMA PagesStep == PagesInv /\ [Shared!Next]_setupVars => PagesInv'
<1> SUFFICES ASSUME PagesInv, [Shared!Next]_setupVars PROVE PagesInv'
  OBVIOUS
<1> USE DEF PagesInv
<1>1. ASSUME NEW wanted \in SUBSET Shared!Part, Shared!Publish(wanted) PROVE PagesInv'
  BY <1>1 DEF Shared!Publish, Shared!Part, SetupParts
<1>2. CASE Shared!CreateCall
  BY <1>2 DEF Shared!CreateCall, Shared!AfterCreate
<1>3. CASE Shared!onCreated
  BY <1>3 DEF Shared!onCreated
<1>4. CASE Shared!Configure
  BY <1>4, LeastPart DEF Shared!Configure
<1>5. CASE Shared!ConfigureDone
  BY <1>5 DEF Shared!ConfigureDone
<1>6. CASE Shared!Store
  BY <1>6 DEF Shared!Store
<1>7. CASE Shared!CreateError
  BY <1>7 DEF Shared!CreateError
<1>8. CASE Shared!Fail
  BY <1>8 DEF Shared!Fail
<1>9. CASE Shared!Detach
  BY <1>9 DEF Shared!Detach
<1>10. CASE Shared!Delete
  BY <1>10 DEF Shared!Delete, SetupParts
<1>11. CASE Shared!ListPolicies
  BY <1>11, PageFacts DEF Shared!ListPolicies, Shared!Beyond
<1>12. CASE Shared!DetachPolicy
  BY <1>12 DEF Shared!DetachPolicy
<1>13. CASE Shared!PolicyNotFound
  BY <1>13 DEF Shared!PolicyNotFound
<1>14. CASE Shared!PageDone
  BY <1>14 DEF Shared!PageDone
<1>15. CASE Shared!DeleteCall
  BY <1>15 DEF Shared!DeleteCall
<1>16. CASE Shared!DeleteError
  BY <1>16 DEF Shared!DeleteError
<1>17. CASE Shared!Terminated \/ Shared!Refused
  BY <1>17 DEF Shared!Terminated, Shared!Refused
<1>18. CASE UNCHANGED setupVars
  BY <1>18 DEF setupVars
<1>19. ASSUME NEW p \in Shared!Part, Shared!Meddle(p) PROVE PagesInv'
  BY <1>19 DEF Shared!Meddle
<1> QED
  BY <1>1, <1>2, <1>3, <1>4, <1>5, <1>6, <1>7, <1>8, <1>9, <1>10, <1>11, <1>12, <1>13, <1>14, <1>15, <1>16,
     <1>17, <1>18, <1>19 DEF Shared!Next

\* Whichever call fails, the row of a bucket, group or role says what AWS has (the
\* handlers of s3.ts, securityGroup.ts and iam.ts with those that call them).
THEOREM StatusAlwaysTells == AdaptersSpec => []StatusTellsAws
<1> DEFINE I == part = "setup" => SetupInv
<1>1. AdaptersInit => I
  BY SetupStarts DEF AdaptersInit
<1>2. I /\ [AdaptersNext]_adapterVars => I'
  BY SetupStep DEF AdaptersNext, adapterVars
<1>3. I => StatusTellsAws
  BY DEF SetupInv, StatusTellsAws
<1> HIDE DEF I
<1> QED BY <1>1, <1>2, <1>3, PTL DEF AdaptersSpec

\* The role is deleted once its pages of policies are through, also while somebody
\* detaches policies in the console (deleteRole).
THEOREM PoliciesAlwaysGoFirst == AdaptersSpec => []PoliciesGoFirst
<1>1. AdaptersInit => PagesInv
  BY PagesStart DEF AdaptersInit
<1>2. PagesInv /\ [AdaptersNext]_adapterVars => PagesInv'
  BY PagesStep, SetupIsShared DEF AdaptersNext, adapterVars, setupVars
<1>3. PagesInv => PoliciesGoFirst
  BY DEF PagesInv, PoliciesGoFirst, Shared!PoliciesGoFirst, Shared!Deletable
<1> QED BY <1>1, <1>2, <1>3, PTL DEF AdaptersSpec

-----------------------------------------------------------------------------
(* The contents of a bucket.                                                *)

\* The rules that a signing has read are still the bucket's, as the next signing
\* waits for it.
UploadsInv ==
    /\ signing \in [Origin -> [stage : {"none", "read", "signed"}, rules : SUBSET Origin]]
    /\ cors \subseteq Origin
    /\ \A o \in Origin : /\ signing[o].stage = "signed" => o \in cors
                         /\ signing[o].stage = "read" => signing[o].rules = cors
    /\ \A o, p \in Origin : signing[o].stage = "read" /\ signing[p].stage = "read" => o = p

LEMMA UploadsStep == UploadsInv /\ [Uploads!Next]_bucketVars => UploadsInv'
<1> SUFFICES ASSUME UploadsInv, [Uploads!Next]_bucketVars PROVE UploadsInv'
  OBVIOUS
<1> DEFINE State == [stage : {"none", "read", "signed"}, rules : SUBSET Origin]
<1>1. ASSUME NEW o \in Origin, Uploads!ReadCors(o) PROVE UploadsInv'
  <2> DEFINE s == [stage |-> IF o \in cors THEN "signed" ELSE "read", rules |-> cors]
  <2>1. s \in State /\ s.rules = cors /\ s.stage = (IF o \in cors THEN "signed" ELSE "read")
    BY DEF UploadsInv
  <2>2. signing' = [signing EXCEPT ![o] = s] /\ cors' = cors
    BY <1>1 DEF Uploads!ReadCors
  <2>3. \A p \in Origin : signing[p].stage # "read"
    BY <1>1 DEF Uploads!ReadCors
  <2> HIDE DEF s
  <2>4. signing' \in [Origin -> State] /\ \A p \in Origin : signing'[p] = IF p = o THEN s ELSE signing[p]
    BY <2>1, <2>2 DEF UploadsInv
  <2> QED BY <2>1, <2>2, <2>3, <2>4 DEF UploadsInv
<1>2. ASSUME NEW o \in Origin, Uploads!PutCors(o) PROVE UploadsInv'
  <2> DEFINE s == [signing[o] EXCEPT !.stage = "signed"]
  <2>1. signing[o] \in State /\ signing[o].stage = "read"
    BY <1>2 DEF UploadsInv, Uploads!PutCors
  <2>2. s \in State /\ s.stage = "signed"
    BY <2>1
  <2>3. signing' = [signing EXCEPT ![o] = s] /\ cors' = cors \cup {o}
    BY <1>2, <2>1 DEF Uploads!PutCors, Uploads!Rules, UploadsInv
  <2> HIDE DEF s
  <2>4. signing' \in [Origin -> State] /\ \A p \in Origin : signing'[p] = IF p = o THEN s ELSE signing[p]
    BY <2>2, <2>3 DEF UploadsInv
  <2>5. \A p \in Origin : signing'[p].stage # "read"
    BY <2>1, <2>2, <2>4 DEF UploadsInv
  <2> QED BY <2>3, <2>4, <2>5, <2>2 DEF UploadsInv
<1>3. CASE UNCHANGED <<cors, signing>>
  BY <1>3 DEF UploadsInv
<1>4. ASSUME NEW k \in {}, Uploads!Write(k) \/ Uploads!RemoveFile(k) PROVE UploadsInv'
  BY <1>4
<1>5. Uploads!RemoveFolder \/ Uploads!Removing \/ Uploads!Teardown \/ Uploads!TearingDown => UNCHANGED <<cors, signing>>
  BY DEF Uploads!RemoveFolder, Uploads!Remove, Uploads!Removing, Uploads!RemoveList, Uploads!RemoveDelete,
     Uploads!Teardown, Uploads!TearingDown, Uploads!ListVersions, Uploads!Purge, Uploads!ListObjects,
     Uploads!Clear, Uploads!Drop
<1> QED BY <1>1, <1>2, <1>3, <1>4, <1>5 DEF Uploads!Next, bucketVars

\* An origin that was given a form has its rule in the bucket, if signings come one
\* at a time (allowBrowserUpload).
THEOREM SignedAlwaysMay == AdaptersSpec => []SignedMayUpload
<1> DEFINE I == part = "uploads" => UploadsInv
<1>1. AdaptersInit => I
  BY DEF AdaptersInit, Uploads!Init, UploadsInv
<1>2. I /\ [AdaptersNext]_adapterVars => I'
  BY UploadsStep DEF AdaptersNext, adapterVars
<1>3. I => SignedMayUpload
  BY DEF UploadsInv, SignedMayUpload, Uploads!SignedMayUpload
<1> HIDE DEF I
<1> QED BY <1>1, <1>2, <1>3, PTL DEF AdaptersSpec

\* What a deletion by the object panel is about; without versions a key has one
\* entry.
FolderInv ==
    /\ version \in Nat /\ entries \subseteq Folders!Entry
    /\ \A e, f \in entries : e.key = f.key => e = f
    /\ removal.old \subseteq removal.target
    /\ removal.stage = "list" => removal.target = Folder
    /\ removal.stage = "delete" /\ removal.target # Folder => removal.page = removal.target
    /\ removal.stage = "done" => removal.old \cap Folders!Current = {}
    /\ removal = [stage |-> removal.stage, target |-> removal.target, old |-> removal.old, page |-> removal.page]

\* Fewer entries make fewer current objects.
LEMMA FewerEntries ==
    ASSUME FolderInv, entries' \subseteq entries
    PROVE  /\ entries' \subseteq Folders!Entry /\ (\A e, f \in entries' : e.key = f.key => e = f)
           /\ Folders!Current' \subseteq Folders!Current
<1>1. \A e \in entries' : Folders!Latest(e)' => Folders!Latest(e)
  BY DEF Folders!Latest, FolderInv, Folders!Entry
<1> QED BY <1>1 DEF FolderInv, Folders!Current

LEMMA FolderFinite == \A S \in SUBSET Key : IsFiniteSet(S) /\ S \in SUBSET Int
<1>1. Key \subseteq Int /\ Folders!IsFiniteSet(Key)
  BY AdapterAssumption DEF Folders!BucketAssumption
<1>2. IsFiniteSet(Key)
  BY <1>1 DEF Folders!IsFiniteSet, IsFiniteSet
<1> QED BY <1>1, <1>2, FS_Subset

LEMMA FirstOfFolder == ASSUME NEW S \in SUBSET Key, Folders!FirstKeys(S) = {} PROVE S = {}
<1> SUFFICES ASSUME S # {} PROVE FALSE
  OBVIOUS
<1>1. PICK k \in S : \A j \in S : k <= j
  BY FolderFinite, LeastMember
<1>2. {j \in S : j < k} = {}
  <2>1. \A j \in S : ~(j < k)
    BY <1>1, FolderFinite
  <2> QED BY <2>1
<1>3. \A T : Folders!Cardinality(T) = Cardinality(T)
  BY DEF Folders!Cardinality, Cardinality
<1>4. KeysAtOnce \in Nat \ {0}
  BY AdapterAssumption DEF Folders!BucketAssumption
<1>5. k \in Folders!FirstKeys(S)
  BY <1>1, <1>2, <1>3, <1>4, FS_EmptySet DEF Folders!FirstKeys
<1> QED BY <1>5

LEMMA FolderStep == FolderInv /\ [Folders!Next]_bucketVars => FolderInv'
<1> SUFFICES ASSUME FolderInv, [Folders!Next]_bucketVars PROVE FolderInv'
  OBVIOUS
<1> USE DEF FolderInv
<1>0. Folders!Current \subseteq Key
  BY DEF Folders!Current, Folders!Entry
<1>a. ASSUME entries' \subseteq entries, removal' = removal, version' \in Nat PROVE FolderInv'
  BY <1>a, FewerEntries
<1>1. ASSUME NEW k \in Key, Folders!Write(k) PROVE FolderInv'
  <2> DEFINE new == [key |-> k, version |-> version + 1, marker |-> FALSE]
  <2>1. entries' = {e \in entries : e.key # k} \cup {new} /\ version' = version + 1
    BY <1>1 DEF Folders!Write, Folders!Added
  <2>2. new \in Folders!Entry /\ new.key = k
    BY DEF Folders!Entry
  <2>3. removal' = [removal EXCEPT !.old = @ \ {k}]
    BY <1>1 DEF Folders!Write
  <2> HIDE DEF new
  <2>4. \A e \in entries : Folders!Latest(e)
    BY DEF Folders!Latest, Folders!Entry
  <2>5. Folders!Current' \subseteq Folders!Current \cup {k}
    BY <2>1, <2>2, <2>4 DEF Folders!Current
  <2>6. /\ entries' \subseteq Folders!Entry /\ version' \in Nat
        /\ \A e, f \in entries' : e.key = f.key => e = f
    BY <2>1, <2>2
  <2>7. /\ removal'.stage = removal.stage /\ removal'.target = removal.target
        /\ removal'.page = removal.page /\ removal'.old = removal.old \ {k}
        /\ removal' = [stage |-> removal'.stage, target |-> removal'.target, old |-> removal'.old,
                       page |-> removal'.page]
    BY <2>3
  <2> QED BY <2>5, <2>6, <2>7
<1>2. ASSUME NEW k \in Key, Folders!RemoveFile(k) PROVE FolderInv'
  BY <1>2 DEF Folders!RemoveFile, Folders!Remove, Folders!InFolder
<1>3. CASE Folders!RemoveFolder
  BY <1>3 DEF Folders!RemoveFolder, Folders!Remove, Folders!InFolder
<1>4. CASE Folders!RemoveList
  <2> DEFINE page == Folders!FirstKeys(Folders!Current \cap Folder)
             next == IF ~bucket THEN "failed" ELSE IF page = {} THEN "done" ELSE "delete"
  <2>1. /\ removal.stage = "list" /\ UNCHANGED <<entries, version>>
        /\ removal' = [removal EXCEPT !.page = page, !.stage = next]
    BY <1>4 DEF Folders!RemoveList, Folders!InFolder
  <2>2. page = {} => Folders!Current \cap Folder = {}
    BY <1>0, FirstOfFolder
  <2> HIDE DEF page
  <2>3. /\ removal'.stage = next /\ removal'.target = removal.target
        /\ removal'.page = page /\ removal'.old = removal.old
        /\ removal' = [stage |-> removal'.stage, target |-> removal'.target, old |-> removal'.old,
                       page |-> removal'.page]
    BY <2>1
  <2>4. Folders!Current' = Folders!Current
    BY <2>1 DEF Folders!Current, Folders!Latest
  <2> QED BY <2>1, <2>2, <2>3, <2>4
<1>5. CASE Folders!RemoveDelete
  <2>1. PICK gone \in SUBSET removal.page :
          /\ entries' = {e \in entries : e.key \notin gone} /\ version' = version
          /\ removal' = [removal EXCEPT !.page = {},
                             !.stage = IF gone = removal.page THEN Folders!AfterPage(removal.target) ELSE "failed"]
    BY <1>5 DEF Folders!RemoveDelete, Folders!DeleteObjects, Folders!Deleted
  <2>2. removal.stage = "delete"
    BY <1>5 DEF Folders!RemoveDelete
  <2> DEFINE next == IF gone = removal.page THEN Folders!AfterPage(removal.target) ELSE "failed"
  <2>3. /\ removal'.stage = next /\ removal'.target = removal.target /\ removal'.old = removal.old
        /\ removal' = [stage |-> removal'.stage, target |-> removal'.target, old |-> removal'.old,
                       page |-> removal'.page]
    BY <2>1
  <2>4. /\ entries' \subseteq Folders!Entry /\ (\A e, f \in entries' : e.key = f.key => e = f)
        /\ version' \in Nat
    BY <2>1, FewerEntries
  <2>5. Folders!Current' \cap gone = {}
    BY <2>1 DEF Folders!Current
  <2> QED BY <2>2, <2>3, <2>4, <2>5 DEF Folders!AfterPage, Folders!InFolder
<1>6. CASE Folders!Teardown \/ Folders!ListVersions \/ Folders!ListObjects \/ Folders!Drop
  BY <1>6, <1>a DEF Folders!Teardown, Folders!ListVersions, Folders!ListObjects, Folders!Drop
<1>7. CASE Folders!Purge
  BY <1>7, <1>a DEF Folders!Purge
<1>8. CASE Folders!Clear
  BY <1>8, <1>a DEF Folders!Clear, Folders!DeleteObjects, Folders!Deleted
<1>9. CASE UNCHANGED <<entries, version, removal>>
  BY <1>9, <1>a
<1> QED BY <1>1, <1>2, <1>3, <1>4, <1>5, <1>6, <1>7, <1>8, <1>9
  DEF Folders!Next, Folders!Removing, Folders!TearingDown, bucketVars

\* With versions, a later deletion hides what was there; what a running deletion of
\* the bucket uncovers is no matter.
VersionInv ==
    /\ version \in Nat /\ entries \subseteq Versions!Entry
    /\ \A e \in entries : e.version <= version
    /\ removal.old \subseteq removal.target
    /\ removal.stage = "list" => removal.target = VersionedFolder
    /\ removal.stage = "delete" /\ removal.target # VersionedFolder => removal.page = removal.target
    /\ removal.stage = "done" /\ teardown.stage = "none" => removal.old \cap Versions!Current = {}
    /\ removal = [stage |-> removal.stage, target |-> removal.target, old |-> removal.old, page |-> removal.page]
    /\ removal.page \subseteq VersionedKey
    /\ teardown.stage = "clear" => teardown.page \subseteq VersionedKey
    /\ teardown = [stage |-> teardown.stage, from |-> teardown.from, page |-> teardown.page, more |-> teardown.more]

LEMMA VersionFinite == \A S \in SUBSET VersionedKey : IsFiniteSet(S) /\ S \in SUBSET Int
<1>1. VersionedKey \subseteq Int /\ Versions!IsFiniteSet(VersionedKey)
  BY AdapterAssumption DEF Versions!BucketAssumption
<1>2. IsFiniteSet(VersionedKey)
  BY <1>1 DEF Versions!IsFiniteSet, IsFiniteSet
<1> QED BY <1>1, <1>2, FS_Subset

LEMMA FirstOfVersions ==
    ASSUME NEW S \in SUBSET VersionedKey PROVE Versions!FirstKeys(S) \subseteq S /\ (Versions!FirstKeys(S) = {} => S = {})
<1>0. Versions!FirstKeys(S) \subseteq S
  BY DEF Versions!FirstKeys
<1> SUFFICES ASSUME S # {} PROVE Versions!FirstKeys(S) # {}
  BY <1>0
<1>1. PICK k \in S : \A j \in S : k <= j
  BY VersionFinite, LeastMember
<1>2. {j \in S : j < k} = {}
  <2>1. \A j \in S : ~(j < k)
    BY <1>1, VersionFinite
  <2> QED BY <2>1
<1>3. \A T : Versions!Cardinality(T) = Cardinality(T)
  BY DEF Versions!Cardinality, Cardinality
<1>4. EntriesAtOnce \in Nat \ {0}
  BY AdapterAssumption DEF Versions!BucketAssumption
<1>5. k \in Versions!FirstKeys(S)
  BY <1>1, <1>2, <1>3, <1>4, FS_EmptySet DEF Versions!FirstKeys
<1> QED BY <1>5

\* Delete markers on top: what is deleted is no longer current, and nothing becomes so.
LEMMA MarkersHide ==
    ASSUME VersionInv, NEW gone \in SUBSET VersionedKey, Versions!DeleteObjects(gone)
    PROVE  /\ version' \in Nat /\ entries' \subseteq Versions!Entry
           /\ \A e \in entries' : e.version <= version'
           /\ Versions!Current' \subseteq Versions!Current /\ Versions!Current' \cap gone = {}
<1> DEFINE Mark(k) == [key |-> k, version |-> version + 1, marker |-> TRUE]
           Marks == {Mark(k) : k \in gone}
<1>1. entries' = entries \cup Marks /\ version' = IF gone # {} THEN version + 1 ELSE version
  BY DEF Versions!DeleteObjects, Versions!Deleted
<1>2. \A k \in gone : /\ Mark(k) \in Versions!Entry /\ Mark(k).key = k
                       /\ Mark(k).version = version + 1 /\ Mark(k).marker
  BY DEF VersionInv, Versions!Entry
<1> HIDE DEF Mark
<1>b. \A m \in Marks : m \in Versions!Entry /\ m.key \in gone /\ m.version = version + 1 /\ m.marker
  BY <1>2
<1>3. \A k \in gone : \E m \in Marks : m.key = k
  BY <1>2
<1> HIDE DEF Marks
<1>4. version' \in Nat /\ entries' \subseteq Versions!Entry /\ \A e \in entries' : e.version <= version'
  BY <1>1, <1>b, <1>3 DEF VersionInv, Versions!Entry
<1>5. ASSUME NEW e \in entries, Versions!Latest(e)' PROVE Versions!Latest(e) /\ e.key \notin gone
  <2>1. Versions!Latest(e)
    BY <1>1, <1>5 DEF Versions!Latest
  <2>2. ASSUME e.key \in gone PROVE FALSE
    <3>1. PICK m \in Marks : m.key = e.key
      BY <1>3, <2>2
    <3>2. m.version <= e.version
      BY <1>1, <1>5, <3>1 DEF Versions!Latest
    <3> QED BY <1>b, <3>2 DEF VersionInv, Versions!Entry
  <2> QED BY <2>1, <2>2
<1>6. \A k \in Versions!Current' : k \in Versions!Current /\ k \notin gone
  BY <1>1, <1>b, <1>5 DEF Versions!Current
<1> QED BY <1>4, <1>6

LEMMA VersionStep == VersionInv /\ [Versions!Next]_bucketVars => VersionInv'
<1> SUFFICES ASSUME VersionInv, [Versions!Next]_bucketVars PROVE VersionInv'
  OBVIOUS
<1> USE DEF VersionInv
<1>0. Versions!Current \subseteq VersionedKey
  BY DEF Versions!Current, Versions!Entry
<1>1. ASSUME NEW k \in VersionedKey, Versions!Write(k) PROVE VersionInv'
  <2> DEFINE new == [key |-> k, version |-> version + 1, marker |-> FALSE]
  <2>1. entries' = entries \cup {new} /\ version' = version + 1 /\ UNCHANGED teardown
    BY <1>1 DEF Versions!Write, Versions!Added
  <2>2. new \in Versions!Entry /\ new.key = k /\ new.version = version + 1
    BY DEF Versions!Entry
  <2>3. removal' = [removal EXCEPT !.old = @ \ {k}]
    BY <1>1 DEF Versions!Write
  <2> HIDE DEF new
  <2>4. \A e \in entries : Versions!Latest(e)' => Versions!Latest(e)
    BY <2>1 DEF Versions!Latest
  <2>5. Versions!Current' \subseteq Versions!Current \cup {k}
    BY <2>1, <2>2, <2>4 DEF Versions!Current
  <2>6. entries' \subseteq Versions!Entry /\ version' \in Nat /\ \A e \in entries' : e.version <= version'
    BY <2>1, <2>2 DEF Versions!Entry
  <2>7. /\ removal'.stage = removal.stage /\ removal'.target = removal.target
        /\ removal'.page = removal.page /\ removal'.old = removal.old \ {k}
        /\ removal' = [stage |-> removal'.stage, target |-> removal'.target, old |-> removal'.old,
                       page |-> removal'.page]
    BY <2>3
  <2> QED BY <2>1, <2>5, <2>6, <2>7
<1>2. ASSUME NEW k \in VersionedKey, Versions!RemoveFile(k) PROVE VersionInv'
  BY <1>2 DEF Versions!RemoveFile, Versions!Remove, Versions!InFolder
<1>3. CASE Versions!RemoveFolder
  BY <1>3 DEF Versions!RemoveFolder, Versions!Remove, Versions!InFolder
<1>4. CASE Versions!RemoveList
  <2> DEFINE page == Versions!FirstKeys(Versions!Current \cap VersionedFolder)
             next == IF ~bucket THEN "failed" ELSE IF page = {} THEN "done" ELSE "delete"
  <2>1. /\ removal.stage = "list" /\ UNCHANGED <<entries, version, teardown>>
        /\ removal' = [removal EXCEPT !.page = page, !.stage = next]
    BY <1>4 DEF Versions!RemoveList, Versions!InFolder
  <2>2. page \subseteq VersionedKey /\ (page = {} => Versions!Current \cap VersionedFolder = {})
    BY <1>0, FirstOfVersions
  <2> HIDE DEF page
  <2>3. /\ removal'.stage = next /\ removal'.target = removal.target
        /\ removal'.page = page /\ removal'.old = removal.old
        /\ removal' = [stage |-> removal'.stage, target |-> removal'.target, old |-> removal'.old,
                       page |-> removal'.page]
    BY <2>1
  <2>4. Versions!Current' = Versions!Current
    BY <2>1 DEF Versions!Current, Versions!Latest
  <2> QED BY <2>1, <2>2, <2>3, <2>4
<1>5. CASE Versions!RemoveDelete
  <2>1. PICK gone \in SUBSET removal.page :
          /\ Versions!DeleteObjects(gone)
          /\ removal' = [removal EXCEPT !.page = {},
                             !.stage = IF gone = removal.page THEN Versions!AfterPage(removal.target) ELSE "failed"]
    BY <1>5 DEF Versions!RemoveDelete
  <2>2. removal.stage = "delete" /\ UNCHANGED teardown
    BY <1>5 DEF Versions!RemoveDelete
  <2> DEFINE next == IF gone = removal.page THEN Versions!AfterPage(removal.target) ELSE "failed"
  <2>3. /\ removal'.stage = next /\ removal'.target = removal.target /\ removal'.old = removal.old
        /\ removal'.page = {}
        /\ removal' = [stage |-> removal'.stage, target |-> removal'.target, old |-> removal'.old,
                       page |-> removal'.page]
    BY <2>1
  <2>4. gone \in SUBSET VersionedKey
    OBVIOUS
  <2>5. /\ version' \in Nat /\ entries' \subseteq Versions!Entry
        /\ \A e \in entries' : e.version <= version'
        /\ Versions!Current' \cap gone = {}
    BY <2>1, <2>4, MarkersHide
  <2> QED BY <2>2, <2>3, <2>5 DEF Versions!AfterPage, Versions!InFolder
\* The deletion of the bucket.
<1>a. ASSUME UNCHANGED removal, teardown'.stage # "none", version' \in Nat, entries' \subseteq Versions!Entry,
             \A e \in entries' : e.version <= version',
             teardown' = [stage |-> teardown'.stage, from |-> teardown'.from, page |-> teardown'.page,
                          more |-> teardown'.more],
             teardown'.stage = "clear" => teardown'.page \subseteq VersionedKey
      PROVE  VersionInv'
  BY <1>a
<1>6. CASE Versions!Teardown \/ Versions!ListVersions
  BY <1>6, <1>a DEF Versions!Teardown, Versions!ListVersions, Versions!NoTeardown
<1>7. CASE Versions!Purge
  <2>1. teardown'.stage \in {"versions", "objects"}
        /\ teardown' = [stage |-> teardown'.stage, from |-> teardown'.from, page |-> teardown'.page,
                        more |-> teardown'.more]
    BY <1>7 DEF Versions!Purge, Versions!NoTeardown
  <2> QED BY <1>7, <1>a, <2>1 DEF Versions!Purge
<1>8. CASE Versions!ListObjects
  <2> DEFINE rest == {k \in Versions!Current : k > teardown.from.key}
             page == Versions!FirstKeys(rest)
  <2>1. page \subseteq VersionedKey
    BY <1>0, FirstOfVersions
  <2>2. teardown'.stage = "clear" /\ teardown'.page = page
        /\ teardown' = [stage |-> teardown'.stage, from |-> teardown'.from, page |-> teardown'.page,
                        more |-> teardown'.more]
        /\ UNCHANGED <<entries, version, removal>>
    BY <1>8 DEF Versions!ListObjects
  <2> QED BY <1>a, <2>1, <2>2
<1>9. CASE Versions!Clear
  <2>1. PICK gone \in SUBSET teardown.page : Versions!DeleteObjects(gone)
    BY <1>9 DEF Versions!Clear
  <2>2. teardown.stage = "clear" /\ UNCHANGED removal
        /\ teardown' = [teardown EXCEPT !.stage = IF teardown.more THEN "objects" ELSE "drop", !.page = {}]
    BY <1>9 DEF Versions!Clear
  <2>3. /\ version' \in Nat /\ entries' \subseteq Versions!Entry
        /\ \A e \in entries' : e.version <= version'
    BY <2>1, <2>2, MarkersHide
  <2>4. teardown'.stage \in {"objects", "drop"}
        /\ teardown' = [stage |-> teardown'.stage, from |-> teardown'.from, page |-> teardown'.page,
                        more |-> teardown'.more]
    BY <2>2
  <2> QED BY <1>a, <2>2, <2>3, <2>4
<1>11. CASE Versions!Drop
  <2>1. UNCHANGED <<entries, version, removal>>
    BY <1>11 DEF Versions!Drop
  <2>2. teardown'.stage = (IF entries = {} THEN "none" ELSE "failed")
        /\ teardown' = [stage |-> teardown'.stage, from |-> teardown'.from, page |-> teardown'.page,
                        more |-> teardown'.more]
    BY <1>11 DEF Versions!Drop, Versions!NoTeardown
  <2>3. CASE entries = {}
    BY <2>1, <2>2, <2>3 DEF Versions!Current
  <2>4. CASE entries # {}
    BY <2>1, <2>2, <2>4, <1>a
  <2> QED BY <2>3, <2>4
<1>10. CASE UNCHANGED <<entries, version, removal, teardown>>
  BY <1>10 DEF Versions!Current, Versions!Latest
<1> QED BY <1>1, <1>2, <1>3, <1>4, <1>5, <1>6, <1>7, <1>8, <1>9, <1>10, <1>11
  DEF Versions!Next, Versions!Removing, Versions!TearingDown, bucketVars

\* What a deletion by the object panel was asked for is gone when it succeeds, with
\* and without versions, whatever is uploaded meanwhile (BucketObjects.delete).
THEOREM RemovedStaysGone == AdaptersSpec => []RemovedIsGone
<1> DEFINE I == /\ part = "folders" => FolderInv
                /\ part = "versions" => VersionInv
<1>1. AdaptersInit => I
  BY DEF AdaptersInit, Folders!Init, FolderInv, VersionInv, Folders!NoRemoval, Folders!NoTeardown
<1>2. I /\ [AdaptersNext]_adapterVars => I'
  <2>1. CASE part = "folders"
    BY <2>1, FolderStep DEF AdaptersNext, adapterVars
  <2>2. CASE part = "versions"
    BY <2>2, VersionStep DEF AdaptersNext, adapterVars
  <2>3. [AdaptersNext]_adapterVars => UNCHANGED part
    BY DEF AdaptersNext, adapterVars
  <2> QED BY <2>1, <2>2, <2>3
<1>3. I => RemovedIsGone
  BY DEF FolderInv, VersionInv, RemovedIsGone, Folders!RemovedIsGone, Versions!RemovedIsGone
<1> HIDE DEF I
<1> QED BY <1>1, <1>2, <1>3, PTL DEF AdaptersSpec

-----------------------------------------------------------------------------
(* Distributions in front of a bucket, one request at a time.               *)

Call == req[Slot]

\* What the service made of a distribution: none, though perhaps an access control
\* that could not be taken back, or a distribution that its row knows; and the grant it needs to read the bucket.
Unmade(d) == d \notin policy /\ dist[d].state = "absent" /\ ~front[d].ext
Made(d) == front[d].ext /\ front[d].origins /\ dist[d].state # "absent" /\ (dist[d].state = "gone" => d \notin policy)
Granted(d) == d \in oac /\ (origin => d \in policy)

\* A distribution no request is about.
Waiting(d) ==
    /\ Unmade(d) \/ Made(d)
    /\ front[d].status = "NONE" => Unmade(d)
    /\ front[d].status = "TERMINATED" => d \notin policy /\ (d \in oac => dist[d].state = "absent")
    /\ front[d].status \in {"PROVISIONING", "RUNNING"} => Made(d) /\ Granted(d)

\* And one a request is about, at each place of its handler.
Creating(d) ==
    /\ Call.op = "create" /\ front[d].status = "PROVISIONING"
    /\ \/ Call.at = "oac" /\ Unmade(d)
       \/ /\ Call.at \in {"distribution", "undo"} /\ d \in oac /\ d \notin policy
          /\ dist[d].state = "absent" /\ ~front[d].ext
       \/ /\ Call.at = "checkpoint" /\ d \in oac /\ d \notin policy
          /\ dist[d].state \in {"enabled", "disabled"} /\ ~front[d].ext
       \/ Call.at = "read" /\ Made(d) /\ d \in oac /\ dist[d].state # "gone"
       \/ Call.at = "write" /\ Made(d) /\ d \in oac /\ dist[d].state # "gone" /\ (origin => Call.seen = policy)
       \/ Call.at = "store" /\ Made(d) /\ Granted(d)
       \/ Call.at = "fail" /\ (Unmade(d) \/ Made(d))
Changing(d) ==
    /\ Call.op = "update" /\ front[d].status = "RUNNING" /\ Made(d) /\ Granted(d)
    /\ Call.at \in {"get", "configure", "record"}
Deleting(d) ==
    /\ Call.op \in {"delete", "refresh"} /\ front[d].status = "DELETING" /\ Made(d) /\ Call.origins
    /\ \/ Call.at \in {"get", "fail"}
       \/ Call.at = "disable" /\ dist[d].state = "enabled" /\ Call.fresh
       \/ /\ Call.at \in {"read", "write", "remove"} /\ dist[d].state = "disabled" /\ dist[d].deployed /\ Call.fresh
          /\ Call.at = "write" => (origin => Call.seen = policy)
          /\ Call.at = "remove" => d \notin policy
       \/ Call.at = "collect" /\ dist[d].state = "gone"
       \/ Call.at = "record" /\ dist[d].state = "gone" /\ d \notin oac

CallsTyped ==
    /\ dist \in [Dist -> Calls!Distribution] /\ oac \subseteq Dist
    /\ origin \in BOOLEAN /\ policy \subseteq Calls!Statement /\ (~origin => policy = {})
    /\ front \in [Dist -> Calls!Row]
    /\ req \in [{Slot} -> Calls!Req] /\ (Call.at = "idle" <=> Call.d = NoDist)
CallsInv ==
    /\ CallsTyped
    /\ \A d \in Dist : IF Call.d = d THEN Creating(d) \/ Changing(d) \/ Deleting(d) ELSE Waiting(d)

Places == {"idle", "oac", "distribution", "undo", "checkpoint", "read", "write", "store", "fail",
           "get", "configure", "disable", "remove", "collect", "record"}

LEMMA NoDistribution == NoDist \notin Dist /\ NoDist \notin RacedDist
BY AdapterAssumption DEF Calls!CloudFrontAssumption, Races!CloudFrontAssumption

\* What a handler becomes.
LEMMA CallBecomes ==
    ASSUME CallsTyped PROVE
    /\ Calls!Idle \in Calls!Req /\ Calls!Idle.d = NoDist /\ Calls!Idle.at = "idle"
    /\ Call \in Calls!Req
    /\ \A a \in Places :
          LET r == [Call EXCEPT !.at = a] IN
          /\ r \in Calls!Req /\ r.at = a /\ r.op = Call.op /\ r.d = Call.d
          /\ r.fresh = Call.fresh /\ r.origins = Call.origins /\ r.seen = Call.seen
    /\ \A a \in Places :
          LET r == [Call EXCEPT !.at = a, !.fresh = TRUE] IN
          /\ r \in Calls!Req /\ r.at = a /\ r.op = Call.op /\ r.d = Call.d
          /\ r.fresh /\ r.origins = Call.origins /\ r.seen = Call.seen
    /\ LET r == [Call EXCEPT !.at = "write", !.seen = policy] IN
          /\ r \in Calls!Req /\ r.at = "write" /\ r.op = Call.op /\ r.d = Call.d
          /\ r.fresh = Call.fresh /\ r.origins = Call.origins /\ r.seen = policy
    /\ \A r \in Calls!Req : Calls!Becomes(Slot, r) => req' \in [{Slot} -> Calls!Req] /\ Call' = r
    /\ \A r \in Calls!Req, d \in Dist : Calls!Written(Slot, d, r) => req' \in [{Slot} -> Calls!Req] /\ Call' = r
<1> USE DEF CallsTyped, Call
<1>1. Calls!Idle \in Calls!Req /\ Calls!Idle.d = NoDist /\ Calls!Idle.at = "idle"
  BY DEF Calls!Idle, Calls!Req, Calls!Op
<1>2. Call \in Calls!Req
  OBVIOUS
<1>3. ASSUME NEW a \in Places PROVE
          LET r == [Call EXCEPT !.at = a] IN
          /\ r \in Calls!Req /\ r.at = a /\ r.op = Call.op /\ r.d = Call.d
          /\ r.fresh = Call.fresh /\ r.origins = Call.origins /\ r.seen = Call.seen
  BY <1>2 DEF Calls!Req, Places
<1>4. ASSUME NEW a \in Places PROVE
          LET r == [Call EXCEPT !.at = a, !.fresh = TRUE] IN
          /\ r \in Calls!Req /\ r.at = a /\ r.op = Call.op /\ r.d = Call.d
          /\ r.fresh /\ r.origins = Call.origins /\ r.seen = Call.seen
  BY <1>2 DEF Calls!Req, Places
<1>5. LET r == [Call EXCEPT !.at = "write", !.seen = policy] IN
          /\ r \in Calls!Req /\ r.at = "write" /\ r.op = Call.op /\ r.d = Call.d
          /\ r.fresh = Call.fresh /\ r.origins = Call.origins /\ r.seen = policy
  BY <1>2 DEF Calls!Req
<1>6. ASSUME NEW r \in Calls!Req, Calls!Becomes(Slot, r) PROVE req' \in [{Slot} -> Calls!Req] /\ Call' = r
  BY <1>6 DEF Calls!Becomes
<1>7. ASSUME NEW r \in Calls!Req, NEW d \in Dist, Calls!Written(Slot, d, r)
      PROVE  req' \in [{Slot} -> Calls!Req] /\ Call' = r
  BY <1>7 DEF Calls!Written
<1> QED BY <1>1, <1>2, <1>3, <1>4, <1>5, <1>6, <1>7

\* The writes to a row and to a distribution.
LEMMA RowBecomes ==
    ASSUME CallsTyped, NEW d \in Dist PROVE
    /\ \A s \in Calls!Status :
          Calls!SetStatus(d, s) =>
             /\ front' \in [Dist -> Calls!Row] /\ \A x \in Dist \ {d} : front'[x] = front[x]
             /\ front'[d].status = s /\ front'[d].ext = front[d].ext /\ front'[d].origins = front[d].origins
    /\ \A s \in {"enabled", "disabled"} :
          dist' = [dist EXCEPT ![d] = [state |-> s, deployed |-> FALSE]] =>
             /\ dist' \in [Dist -> Calls!Distribution] /\ \A x \in Dist \ {d} : dist'[x] = dist[x]
             /\ dist'[d].state = s /\ ~dist'[d].deployed
<1> USE DEF CallsTyped
<1>1. ASSUME NEW s \in Calls!Status, Calls!SetStatus(d, s) PROVE
             /\ front' \in [Dist -> Calls!Row] /\ \A x \in Dist \ {d} : front'[x] = front[x]
             /\ front'[d].status = s /\ front'[d].ext = front[d].ext /\ front'[d].origins = front[d].origins
  <2> DEFINE r == [front[d] EXCEPT !.status = s]
  <2>1. front[d] \in Calls!Row
    OBVIOUS
  <2>2. r \in Calls!Row /\ r.status = s /\ r.ext = front[d].ext /\ r.origins = front[d].origins
    BY <2>1 DEF Calls!Row
  <2>3. front' = [front EXCEPT ![d] = r]
    BY <1>1 DEF Calls!SetStatus
  <2> HIDE DEF r
  <2> QED BY <2>2, <2>3
<1>2. ASSUME NEW s \in {"enabled", "disabled"}, dist' = [dist EXCEPT ![d] = [state |-> s, deployed |-> FALSE]] PROVE
             /\ dist' \in [Dist -> Calls!Distribution] /\ \A x \in Dist \ {d} : dist'[x] = dist[x]
             /\ dist'[d].state = s /\ ~dist'[d].deployed
  <2> DEFINE r == [state |-> s, deployed |-> FALSE]
  <2>1. r \in Calls!Distribution /\ r.state = s /\ ~r.deployed
    BY DEF Calls!Distribution
  <2>2. dist' = [dist EXCEPT ![d] = r]
    BY <1>2
  <2> HIDE DEF r
  <2> QED BY <2>1, <2>2
<1> QED BY <1>1, <1>2

\* A step of the handler concerns the distribution it is about.
LEMMA CallsMove ==
    ASSUME CallsInv, CallsTyped', NEW d \in Dist, Call.d \in {d, NoDist}, origin' = origin,
           \A x \in Dist \ {d} : /\ dist'[x] = dist[x] /\ front'[x] = front[x]
                                 /\ x \in oac' <=> x \in oac
                                 /\ x \in policy' <=> x \in policy,
           \/ Call'.d = d /\ (Creating(d)' \/ Changing(d)' \/ Deleting(d)')
           \/ Call'.d = NoDist /\ Waiting(d)'
    PROVE  CallsInv'
<1>1. ASSUME NEW x \in Dist, x # d PROVE Waiting(x)' /\ Call'.d # x
  BY <1>1, NoDistribution DEF CallsInv, Waiting, Unmade, Made, Granted
<1> QED BY <1>1, NoDistribution DEF CallsInv

LEMMA CallsStep == CallsInv /\ [Calls!Next]_frontVars => CallsInv'
<1> SUFFICES ASSUME CallsInv, [Calls!Next]_frontVars PROVE CallsInv'
  OBVIOUS
<1>t. CallsTyped
  BY DEF CallsInv
<1>d. PICK d \in Dist \cup {NoDist} : d = Call.d
  BY <1>t DEF CallsTyped, Call, Calls!Req
<1>h. Call \in Calls!Req /\ (Call.at # "idle" => d \in Dist) /\ (d = NoDist <=> Call.at = "idle")
  BY <1>t, <1>d, NoDistribution DEF CallsTyped, Call, Calls!Req
<1>i. Call.at # "idle" => d \in Dist /\ (Creating(d) \/ Changing(d) \/ Deleting(d))
  BY <1>d, <1>h DEF CallsInv
<1>p. req[Slot] = Call
  BY DEF Call
<1>s. /\ Calls!D(Slot) = d
      /\ \A a : Calls!At(Slot, a) <=> Call.at = a
      /\ Calls!FailPoint(Slot) = IF Call.op \in {"create", "delete"} THEN [Call EXCEPT !.at = "fail"] ELSE Calls!Idle
      /\ \A a : Calls!Goto(Slot, a) <=> Calls!Becomes(Slot, [Call EXCEPT !.at = a])
      /\ Calls!Finish(Slot) <=> Calls!Becomes(Slot, Calls!Idle)
  BY <1>d DEF Call, Calls!D, Calls!At, Calls!FailPoint, Calls!Goto, Calls!Finish
<1>b. /\ Calls!Idle \in Calls!Req /\ Calls!Idle.d = NoDist /\ Calls!Idle.at = "idle"
      /\ \A a \in Places :
            LET r == [Call EXCEPT !.at = a] IN
            /\ r \in Calls!Req /\ r.at = a /\ r.op = Call.op /\ r.d = d
            /\ r.fresh = Call.fresh /\ r.origins = Call.origins /\ r.seen = Call.seen
      /\ \A a \in Places :
            LET r == [Call EXCEPT !.at = a, !.fresh = TRUE] IN
            /\ r \in Calls!Req /\ r.at = a /\ r.op = Call.op /\ r.d = d
            /\ r.fresh /\ r.origins = Call.origins /\ r.seen = Call.seen
      /\ LET r == [Call EXCEPT !.at = "write", !.seen = policy] IN
            /\ r \in Calls!Req /\ r.at = "write" /\ r.op = Call.op /\ r.d = d
            /\ r.fresh = Call.fresh /\ r.origins = Call.origins /\ r.seen = policy
      /\ \A r \in Calls!Req : Calls!Becomes(Slot, r) => req' \in [{Slot} -> Calls!Req] /\ Call' = r
      /\ \A r \in Calls!Req, x \in Dist : Calls!Written(Slot, x, r) => req' \in [{Slot} -> Calls!Req] /\ Call' = r
  BY <1>t, <1>d, CallBecomes
<1>w. Call.at # "idle" =>
      /\ \A s \in Calls!Status :
            Calls!SetStatus(d, s) =>
               /\ front' \in [Dist -> Calls!Row] /\ \A x \in Dist \ {d} : front'[x] = front[x]
               /\ front'[d].status = s /\ front'[d].ext = front[d].ext /\ front'[d].origins = front[d].origins
      /\ \A s \in {"enabled", "disabled"} :
            dist' = [dist EXCEPT ![d] = [state |-> s, deployed |-> FALSE]] =>
               /\ dist' \in [Dist -> Calls!Distribution] /\ \A x \in Dist \ {d} : dist'[x] = dist[x]
               /\ dist'[d].state = s /\ ~dist'[d].deployed
  BY <1>t, <1>i, RowBecomes
\* The handler's step leaves the rest alone.
<1>m. ASSUME CallsTyped', Call.at # "idle", origin' = origin,
             \A x \in Dist \ {d} : /\ dist'[x] = dist[x] /\ front'[x] = front[x]
                                   /\ x \in oac' <=> x \in oac
                                   /\ x \in policy' <=> x \in policy,
             \/ Call'.d = d /\ (Creating(d)' \/ Changing(d)' \/ Deleting(d)')
             \/ Call'.d = NoDist /\ Waiting(d)'
      PROVE  CallsInv'
  <2>1. Call.d \in {d, NoDist} /\ d \in Dist
    BY <1>d, <1>i, <1>m
  <2> QED BY <1>m, <2>1, CallsMove
\* A call that fails leaves everything as it was.
<1>f. ASSUME Call.at # "idle", Calls!Becomes(Slot, Calls!FailPoint(Slot)), UNCHANGED <<dist, oac, origin, policy, front>>,
             Creating(d) => Unmade(d) \/ Made(d)
      PROVE  CallsInv'
  <2> DEFINE r == [Call EXCEPT !.at = "fail"]
  <2>1. r \in Calls!Req /\ r.at = "fail" /\ r.op = Call.op /\ r.d = d /\ r.origins = Call.origins
    BY <1>b DEF Places
  <2> HIDE DEF r
  <2>2. CASE Call.op \in {"create", "delete"}
    <3>1. req' \in [{Slot} -> Calls!Req] /\ Call' = r
      BY <1>b, <1>s, <1>f, <2>1, <2>2 DEF r
    <3>2. CallsTyped'
      BY <1>t, <1>f, <2>1, <3>1, <1>h DEF CallsTyped
    <3>3. Creating(d)' \/ Deleting(d)'
      BY <1>i, <1>f, <2>1, <2>2, <3>1 DEF Creating, Changing, Deleting, Unmade, Made
    <3> QED BY <1>m, <1>f, <2>1, <3>1, <3>2, <3>3
  <2>3. CASE Call.op \notin {"create", "delete"}
    <3>1. req' \in [{Slot} -> Calls!Req] /\ Call' = Calls!Idle
      BY <1>b, <1>s, <1>f, <2>3
    <3>2. CallsTyped'
      BY <1>t, <1>b, <1>f, <3>1 DEF CallsTyped
    <3>3. Waiting(d)'
      BY <1>i, <1>f, <2>3, <3>1 DEF Creating, Changing, Deleting, Unmade, Made, Granted, Waiting
    <3> QED BY <1>m, <1>b, <1>f, <3>1, <3>2, <3>3
  <2> QED BY <2>2, <2>3
\* create.
<1>1. ASSUME NEW x \in Dist, Calls!CreateStart(Slot, x) PROVE CallsInv'
  <2> DEFINE r == [Calls!Idle EXCEPT !.op = "create", !.d = x, !.at = "oac", !.origins = front[x].origins]
  <2>1. r \in Calls!Req /\ r.op = "create" /\ r.d = x /\ r.at = "oac"
    BY <1>t DEF Calls!Idle, Calls!Req, Calls!Op, CallsTyped, Calls!Row
  <2>2. Calls!Becomes(Slot, r) /\ Call.at = "idle" /\ UNCHANGED <<dist, oac, origin, policy>>
    BY <1>1, <1>s DEF Calls!CreateStart, Calls!Begin
  <2> HIDE DEF r
  <2>3. req' \in [{Slot} -> Calls!Req] /\ Call' = r
    BY <1>b, <2>1, <2>2
  <2>4. /\ front' \in [Dist -> Calls!Row] /\ \A y \in Dist \ {x} : front'[y] = front[y]
        /\ front'[x].status = "PROVISIONING" /\ front'[x].ext = front[x].ext
    BY <1>1, <1>t, RowBecomes DEF Calls!CreateStart, Calls!Status
  <2>5. CallsTyped'
    BY <1>t, <2>1, <2>2, <2>3, <2>4, NoDistribution DEF CallsTyped
  <2>6. Unmade(x) /\ Call.d = NoDist
    BY <1>1, <1>d, <1>h, <2>2, NoDistribution DEF CallsInv, Waiting, Calls!CreateStart
  <2>7. Creating(x)'
    BY <2>1, <2>2, <2>3, <2>4, <2>6 DEF Creating, Unmade
  <2> QED BY <2>1, <2>2, <2>3, <2>4, <2>5, <2>6, <2>7, CallsMove
<1>2. CASE Calls!CreateOac(Slot)
  <2> DEFINE r == [Call EXCEPT !.at = "distribution"]
  <2>1. r \in Calls!Req /\ r.at = "distribution" /\ r.op = Call.op /\ r.d = d
    BY <1>b DEF Places
  <2>2. Calls!Becomes(Slot, r) /\ Call.at = "oac" /\ oac' = oac \cup {d} /\ UNCHANGED <<dist, origin, policy, front>>
    BY <1>2, <1>s DEF Calls!CreateOac
  <2> HIDE DEF r
  <2>3. req' \in [{Slot} -> Calls!Req] /\ Call' = r
    BY <1>b, <2>1, <2>2
  <2>4. CallsTyped'
    BY <1>t, <1>h, <2>1, <2>2, <2>3 DEF CallsTyped
  <2>5. Creating(d)'
    BY <1>i, <2>1, <2>2, <2>3 DEF Creating, Changing, Deleting, Unmade
  <2> QED BY <1>m, <2>1, <2>2, <2>3, <2>4, <2>5
<1>3. CASE Calls!CreateDistribution(Slot)
  <2> DEFINE r == [Call EXCEPT !.at = "checkpoint"]
  <2>1. r \in Calls!Req /\ r.at = "checkpoint" /\ r.op = Call.op /\ r.d = d
    BY <1>b DEF Places
  <2>2. Calls!Becomes(Slot, r) /\ Call.at = "distribution" /\ UNCHANGED <<oac, origin, policy, front>>
    BY <1>3, <1>s DEF Calls!CreateDistribution
  <2> HIDE DEF r
  <2>3. req' \in [{Slot} -> Calls!Req] /\ Call' = r
    BY <1>b, <2>1, <2>2
  <2>6. /\ dist' \in [Dist -> Calls!Distribution] /\ \A x \in Dist \ {d} : dist'[x] = dist[x]
        /\ dist'[d].state = "enabled" /\ ~dist'[d].deployed
    BY <1>3, <1>s, <1>w, <2>2 DEF Calls!CreateDistribution
  <2>4. CallsTyped'
    BY <1>t, <1>h, <2>1, <2>2, <2>3, <2>6 DEF CallsTyped
  <2>5. Creating(d)'
    BY <1>i, <2>1, <2>2, <2>3, <2>6 DEF Creating, Changing, Deleting
  <2> QED BY <1>m, <2>1, <2>2, <2>3, <2>4, <2>5, <2>6
<1>4. CASE Calls!CreateRefused(Slot)
  <2> DEFINE r == [Call EXCEPT !.at = "undo"]
  <2>1. r \in Calls!Req /\ r.at = "undo" /\ r.op = Call.op /\ r.d = d
    BY <1>b DEF Places
  <2>2. Calls!Becomes(Slot, r) /\ Call.at = "distribution" /\ UNCHANGED <<dist, oac, origin, policy, front>>
    BY <1>4, <1>s DEF Calls!CreateRefused
  <2> HIDE DEF r
  <2>3. req' \in [{Slot} -> Calls!Req] /\ Call' = r
    BY <1>b, <2>1, <2>2
  <2>4. CallsTyped'
    BY <1>t, <1>h, <2>1, <2>2, <2>3 DEF CallsTyped
  <2>5. Creating(d)'
    BY <1>i, <2>1, <2>2, <2>3 DEF Creating, Changing, Deleting
  <2> QED BY <1>m, <2>1, <2>2, <2>3, <2>4, <2>5
<1>5. CASE Calls!UndoOac(Slot)
  <2> DEFINE r == [Call EXCEPT !.at = "fail"]
  <2>1. r \in Calls!Req /\ r.at = "fail" /\ r.op = Call.op /\ r.d = d
    BY <1>b DEF Places
  <2>2. Calls!Becomes(Slot, r) /\ Call.at = "undo" /\ oac' \in {oac, oac \ {d}} /\ UNCHANGED <<dist, origin, policy, front>>
    BY <1>5, <1>s DEF Calls!UndoOac
  <2> HIDE DEF r
  <2>3. req' \in [{Slot} -> Calls!Req] /\ Call' = r
    BY <1>b, <2>1, <2>2
  <2>4. CallsTyped'
    BY <1>t, <1>h, <2>1, <2>2, <2>3 DEF CallsTyped
  <2>5. Creating(d)'
    BY <1>i, <2>1, <2>2, <2>3 DEF Creating, Changing, Deleting, Unmade
  <2> QED BY <1>m, <2>1, <2>2, <2>3, <2>4, <2>5
<1>6. CASE Calls!Checkpoint(Slot)
  <2> DEFINE r == [Call EXCEPT !.at = "read"]
             n == [front[d] EXCEPT !.ext = TRUE, !.origins = TRUE]
  <2>1. r \in Calls!Req /\ r.at = "read" /\ r.op = Call.op /\ r.d = d
    BY <1>b DEF Places
  <2>2. Calls!Becomes(Slot, r) /\ Call.at = "checkpoint" /\ UNCHANGED <<dist, oac, origin, policy>>
    BY <1>6, <1>s DEF Calls!Checkpoint
  <2> HIDE DEF r
  <2>3. req' \in [{Slot} -> Calls!Req] /\ Call' = r
    BY <1>b, <2>1, <2>2
  <2>7. front[d] \in Calls!Row
    BY <1>i, <1>t, <2>2 DEF CallsTyped
  <2>8. n \in Calls!Row /\ n.status = front[d].status /\ n.ext /\ n.origins
    BY <2>7 DEF Calls!Row
  <2>9. front' = [front EXCEPT ![d] = n]
    BY <1>6, <1>s, <1>t, <1>i, <2>2 DEF Calls!Checkpoint, CallsTyped
  <2> HIDE DEF n
  <2>6. front' \in [Dist -> Calls!Row] /\ front'[d] = n /\ \A x \in Dist \ {d} : front'[x] = front[x]
    BY <1>t, <1>i, <2>2, <2>8, <2>9 DEF CallsTyped
  <2>4. CallsTyped'
    BY <1>t, <1>h, <2>1, <2>2, <2>3, <2>6 DEF CallsTyped
  <2>5. Creating(d)'
    BY <1>i, <2>1, <2>2, <2>3, <2>6, <2>8 DEF Creating, Changing, Deleting, Made
  <2> QED BY <1>m, <2>1, <2>2, <2>3, <2>4, <2>5, <2>6
<1>7. CASE Calls!Store(Slot)
  <2> DEFINE n == [status |-> "PROVISIONING", ext |-> TRUE, origins |-> TRUE]
  <2>2. Calls!Becomes(Slot, Calls!Idle) /\ Call.at = "store" /\ UNCHANGED <<dist, oac, origin, policy>>
    BY <1>7, <1>s DEF Calls!Store
  <2>3. req' \in [{Slot} -> Calls!Req] /\ Call' = Calls!Idle
    BY <1>b, <2>2
  <2>8. n \in Calls!Row /\ n.status = "PROVISIONING" /\ n.ext /\ n.origins
    BY DEF Calls!Row, Calls!Status
  <2>9. front' = [front EXCEPT ![d] = n]
    BY <1>7, <1>s DEF Calls!Store
  <2> HIDE DEF n
  <2>6. front' \in [Dist -> Calls!Row] /\ front'[d] = n /\ \A x \in Dist \ {d} : front'[x] = front[x]
    BY <1>t, <1>i, <2>2, <2>8, <2>9 DEF CallsTyped
  <2>4. CallsTyped'
    BY <1>t, <1>b, <2>2, <2>3, <2>6 DEF CallsTyped
  <2>5. Waiting(d)'
    BY <1>i, <2>2, <2>3, <2>6, <2>8 DEF Creating, Changing, Deleting, Made, Granted, Waiting
  <2> QED BY <1>m, <1>b, <2>2, <2>3, <2>4, <2>5, <2>6
<1>8. CASE Calls!Fail(Slot)
  <2>2. Calls!Becomes(Slot, Calls!Idle) /\ Call.at = "fail" /\ UNCHANGED <<dist, oac, origin, policy>>
    BY <1>8, <1>s DEF Calls!Fail
  <2>3. req' \in [{Slot} -> Calls!Req] /\ Call' = Calls!Idle
    BY <1>b, <2>2
  <2>6. /\ front' \in [Dist -> Calls!Row] /\ \A x \in Dist \ {d} : front'[x] = front[x]
        /\ front'[d].status = "FAILED" /\ front'[d].ext = front[d].ext /\ front'[d].origins = front[d].origins
    BY <1>8, <1>s, <1>w, <2>2 DEF Calls!Fail, Calls!Status
  <2>4. CallsTyped'
    BY <1>t, <1>b, <2>2, <2>3, <2>6 DEF CallsTyped
  <2>5. Waiting(d)'
    BY <1>i, <2>2, <2>3, <2>6 DEF Creating, Changing, Deleting, Made, Unmade, Waiting
  <2> QED BY <1>m, <1>b, <2>2, <2>3, <2>4, <2>5, <2>6
\* The bucket policy.
<1>9. CASE Calls!PolicyRead(Slot)
  <2>1. Call.at = "read" /\ UNCHANGED <<dist, oac, origin, policy, front>>
    BY <1>9, <1>s DEF Calls!PolicyRead
  <2>2. CASE origin
    <3> DEFINE r == [Call EXCEPT !.at = "write", !.seen = policy]
    <3>1. /\ r \in Calls!Req /\ r.at = "write" /\ r.op = Call.op /\ r.d = d
          /\ r.fresh = Call.fresh /\ r.origins = Call.origins /\ r.seen = policy
      BY <1>b
    <3>2. Calls!Becomes(Slot, r)
      BY <1>9, <1>p, <2>2 DEF Calls!PolicyRead
    <3> HIDE DEF r
    <3>3. req' \in [{Slot} -> Calls!Req] /\ Call' = r
      BY <1>b, <3>1, <3>2
    <3>4. CallsTyped'
      BY <1>t, <1>h, <2>1, <3>1, <3>3 DEF CallsTyped
    <3>5. Creating(d)' \/ Deleting(d)'
      BY <1>i, <2>1, <3>1, <3>3 DEF Creating, Changing, Deleting, Made
    <3> QED BY <1>m, <2>1, <3>1, <3>3, <3>4, <3>5
  <2>3. CASE ~origin /\ Call.op = "create"
    <3>1. Calls!Becomes(Slot, Calls!FailPoint(Slot))
      BY <1>9, <1>p, <2>3 DEF Calls!PolicyRead
    <3>2. Made(d)
      BY <1>i, <2>1, <2>3 DEF Creating, Changing, Deleting
    <3> QED BY <1>f, <2>1, <3>1, <3>2
  <2>4. CASE ~origin /\ Call.op # "create"
    <3> DEFINE r == [Call EXCEPT !.at = "remove"]
    <3>1. /\ r \in Calls!Req /\ r.at = "remove" /\ r.op = Call.op /\ r.d = d
          /\ r.fresh = Call.fresh /\ r.origins = Call.origins
      BY <1>b DEF Places
    <3>2. Calls!Becomes(Slot, r)
      BY <1>9, <1>s, <1>p, <2>4 DEF Calls!PolicyRead
    <3> HIDE DEF r
    <3>3. req' \in [{Slot} -> Calls!Req] /\ Call' = r
      BY <1>b, <3>1, <3>2
    <3>4. CallsTyped'
      BY <1>t, <1>h, <2>1, <3>1, <3>3 DEF CallsTyped
    <3>5. Deleting(d)'
      BY <1>i, <1>t, <2>1, <2>4, <3>1, <3>3 DEF Creating, Changing, Deleting, Made, CallsTyped
    <3> QED BY <1>m, <2>1, <3>1, <3>3, <3>4, <3>5
  <2> QED BY <2>2, <2>3, <2>4
<1>10. CASE Calls!PolicyWrite(Slot)
  <2> DEFINE after == IF Call.op = "create" THEN Call.seen \cup {d} ELSE Call.seen \ {d}
             kept == after = {} /\ Call.seen = {}
  <2>1. /\ Call.at = "write" /\ UNCHANGED <<dist, oac, origin, front>>
        /\ Calls!Statements(Slot) = after
    BY <1>10, <1>s, <1>p DEF Calls!PolicyWrite, Calls!Statements
  <2>6. d \in Dist /\ Call.seen \subseteq Calls!Statement
    BY <1>i, <1>h, <2>1 DEF Calls!Req
  <2>2. CASE origin \/ kept
    <3> DEFINE a == IF Call.op = "create" THEN "store" ELSE "remove"
               r == [Call EXCEPT !.at = a]
    <3>1. /\ r \in Calls!Req /\ r.at = a /\ r.op = Call.op /\ r.d = d
          /\ r.fresh = Call.fresh /\ r.origins = Call.origins
      BY <1>b DEF Places
    <3>2. Calls!Becomes(Slot, r) /\ policy' = IF kept THEN policy ELSE after
      BY <1>10, <1>s, <1>p, <2>1, <2>2 DEF Calls!PolicyWrite, Calls!AfterPolicy
    <3> HIDE DEF r
    <3>3. req' \in [{Slot} -> Calls!Req] /\ Call' = r
      BY <1>b, <3>1, <3>2
    <3>6. origin => Call.seen = policy
      BY <1>i, <2>1 DEF Creating, Changing, Deleting
    <3>7. /\ \A x \in Dist \ {d} : x \in policy' <=> x \in policy
          /\ policy' \subseteq Calls!Statement
          /\ ~origin => policy' = {}
          /\ (Call.op = "create") => (origin => d \in policy')
          /\ (Call.op # "create") => d \notin policy'
      BY <1>t, <2>2, <2>6, <3>2, <3>6 DEF CallsTyped, Calls!Statement
    <3>4. CallsTyped'
      BY <1>t, <1>h, <2>1, <3>1, <3>3, <3>7 DEF CallsTyped
    <3>5. Creating(d)' \/ Deleting(d)'
      BY <1>i, <2>1, <3>1, <3>3, <3>7 DEF Creating, Changing, Deleting, Made, Granted
    <3> HIDE DEF after
    <3> QED BY <1>m, <2>1, <3>1, <3>3, <3>4, <3>5, <3>7
  <2>3. CASE ~(origin \/ kept) /\ Call.op = "create"
    <3>1. Calls!Becomes(Slot, Calls!FailPoint(Slot)) /\ UNCHANGED policy
      BY <1>10, <1>p, <2>1, <2>3 DEF Calls!PolicyWrite
    <3>2. Made(d)
      BY <1>i, <2>1, <2>3 DEF Creating, Changing, Deleting
    <3> QED BY <1>f, <2>1, <3>1, <3>2
  <2>4. CASE ~(origin \/ kept) /\ Call.op # "create"
    <3> DEFINE r == [Call EXCEPT !.at = "remove"]
    <3>1. /\ r \in Calls!Req /\ r.at = "remove" /\ r.op = Call.op /\ r.d = d
          /\ r.fresh = Call.fresh /\ r.origins = Call.origins
      BY <1>b DEF Places
    <3>2. Calls!Becomes(Slot, r) /\ UNCHANGED policy
      BY <1>10, <1>s, <1>p, <2>1, <2>4 DEF Calls!PolicyWrite
    <3> HIDE DEF r
    <3>3. req' \in [{Slot} -> Calls!Req] /\ Call' = r
      BY <1>b, <3>1, <3>2
    <3>4. CallsTyped'
      BY <1>t, <1>h, <2>1, <3>1, <3>2, <3>3 DEF CallsTyped
    <3>5. Deleting(d)'
      BY <1>i, <1>t, <2>1, <2>4, <3>1, <3>2, <3>3 DEF Creating, Changing, Deleting, Made, CallsTyped
    <3> QED BY <1>m, <2>1, <3>1, <3>2, <3>3, <3>4, <3>5
  <2> QED BY <2>2, <2>3, <2>4
\* update.
<1>11. ASSUME NEW x \in Dist, Calls!UpdateStart(Slot, x) PROVE CallsInv'
  <2> DEFINE r == [Calls!Idle EXCEPT !.op = "update", !.d = x, !.at = "get", !.origins = front[x].origins]
  <2>1. r \in Calls!Req /\ r.op = "update" /\ r.d = x /\ r.at = "get"
    BY <1>t DEF Calls!Idle, Calls!Req, Calls!Op, CallsTyped, Calls!Row
  <2>2. Calls!Becomes(Slot, r) /\ Call.at = "idle" /\ UNCHANGED <<dist, oac, origin, policy, front>>
    BY <1>11, <1>s DEF Calls!UpdateStart, Calls!Begin
  <2> HIDE DEF r
  <2>3. req' \in [{Slot} -> Calls!Req] /\ Call' = r
    BY <1>b, <2>1, <2>2
  <2>5. CallsTyped'
    BY <1>t, <2>1, <2>2, <2>3, NoDistribution DEF CallsTyped
  <2>6. Waiting(x) /\ front[x].status = "RUNNING" /\ Call.d = NoDist
    BY <1>11, <1>d, <1>h, <2>2, NoDistribution DEF CallsInv, Calls!UpdateStart
  <2>7. Changing(x)'
    BY <2>1, <2>2, <2>3, <2>6 DEF Changing, Made, Granted, Waiting
  <2> QED BY <2>1, <2>2, <2>3, <2>5, <2>6, <2>7, CallsMove
<1>12. CASE Calls!Configure(Slot)
  <2>1. Call.at = "configure" /\ UNCHANGED <<oac, origin, policy, front>>
    BY <1>12, <1>s DEF Calls!Configure
  <2>i. Changing(d) /\ d \in Dist
    BY <1>i, <2>1 DEF Creating, Deleting
  <2>2. CASE Call.fresh
    <3> DEFINE r == [Call EXCEPT !.at = "record"]
    <3>1. r \in Calls!Req /\ r.at = "record" /\ r.op = Call.op /\ r.d = d
      BY <1>b DEF Places
    <3>2. /\ Calls!Written(Slot, d, r)
          /\ dist' = [dist EXCEPT ![d] = [state |-> "enabled", deployed |-> FALSE]]
      BY <1>12, <1>s, <1>p, <2>2 DEF Calls!Configure
    <3> HIDE DEF r
    <3>3. req' \in [{Slot} -> Calls!Req] /\ Call' = r
      BY <1>b, <2>i, <3>1, <3>2
    <3>6. /\ dist' \in [Dist -> Calls!Distribution] /\ \A x \in Dist \ {d} : dist'[x] = dist[x]
          /\ dist'[d].state = "enabled"
      BY <1>w, <2>1, <3>2
    <3>4. CallsTyped'
      BY <1>t, <1>h, <2>1, <3>1, <3>3, <3>6 DEF CallsTyped
    <3>5. Changing(d)'
      BY <2>i, <2>1, <3>1, <3>3, <3>6 DEF Changing, Made, Granted
    <3> QED BY <1>m, <2>1, <3>1, <3>3, <3>4, <3>5, <3>6
  <2>3. CASE ~Call.fresh
    <3>1. req' \in [{Slot} -> Calls!Req] /\ Call' = Calls!Idle /\ dist' = dist
      BY <1>12, <1>s, <1>p, <1>b, <2>3 DEF Calls!Configure
    <3>2. CallsTyped'
      BY <1>t, <1>b, <2>1, <3>1 DEF CallsTyped
    <3>3. Waiting(d)'
      BY <2>i, <2>1, <3>1 DEF Changing, Made, Granted, Waiting
    <3> QED BY <1>m, <1>b, <2>1, <3>1, <3>2, <3>3
  <2> QED BY <2>2, <2>3
\* delete, and the refresh that tries it again.
<1>13. ASSUME NEW x \in Dist, Calls!DeleteStart(Slot, x) PROVE CallsInv'
  <2>w. Call.at = "idle" /\ UNCHANGED <<dist, oac, origin, policy>> /\ front[x].status \notin {"NONE", "TERMINATED"}
    BY <1>13, <1>s DEF Calls!DeleteStart, Calls!Begin
  <2>6. Waiting(x) /\ Call.d = NoDist
    BY <1>d, <1>h, <2>w, NoDistribution DEF CallsInv
  <2>2. CASE front[x].ext
    <3> DEFINE r == [Calls!Idle EXCEPT !.op = "delete", !.d = x, !.at = "get", !.origins = front[x].origins]
    <3>1. r \in Calls!Req /\ r.op = "delete" /\ r.d = x /\ r.at = "get" /\ r.origins = front[x].origins
      BY <1>t DEF Calls!Idle, Calls!Req, Calls!Op, CallsTyped, Calls!Row
    <3>2. Calls!Becomes(Slot, r) /\ Calls!SetStatus(x, "DELETING")
      BY <1>13, <2>2 DEF Calls!DeleteStart, Calls!Begin
    <3> HIDE DEF r
    <3>3. req' \in [{Slot} -> Calls!Req] /\ Call' = r
      BY <1>b, <3>1, <3>2
    <3>4. /\ front' \in [Dist -> Calls!Row] /\ \A y \in Dist \ {x} : front'[y] = front[y]
          /\ front'[x].status = "DELETING" /\ front'[x].ext = front[x].ext /\ front'[x].origins = front[x].origins
      BY <1>t, <3>2, RowBecomes DEF Calls!Status
    <3>5. CallsTyped'
      BY <1>t, <2>w, <3>1, <3>3, <3>4, NoDistribution DEF CallsTyped
    <3>7. Deleting(x)'
      BY <2>2, <2>6, <2>w, <3>1, <3>3, <3>4 DEF Deleting, Made, Unmade, Waiting
    <3> QED BY <2>w, <2>6, <3>1, <3>3, <3>4, <3>5, <3>7, CallsMove
  <2>3. CASE ~front[x].ext
    <3>1. Calls!SetStatus(x, "TERMINATED") /\ req' = req
      BY <1>13, <2>3 DEF Calls!DeleteStart
    <3>4. /\ front' \in [Dist -> Calls!Row] /\ \A y \in Dist \ {x} : front'[y] = front[y]
          /\ front'[x].status = "TERMINATED" /\ front'[x].ext = front[x].ext /\ front'[x].origins = front[x].origins
      BY <1>t, <3>1, RowBecomes DEF Calls!Status
    <3>2. Call' = Call
      BY <3>1 DEF Call
    <3>5. CallsTyped'
      BY <1>t, <2>w, <3>1, <3>2, <3>4 DEF CallsTyped
    <3>7. Waiting(x)'
      BY <2>3, <2>6, <2>w, <3>4 DEF Made, Unmade, Waiting
    <3> QED BY <2>w, <2>6, <3>2, <3>4, <3>5, <3>7, CallsMove
  <2> QED BY <2>2, <2>3
<1>14. ASSUME NEW x \in Dist, Calls!RefreshStart(Slot, x) PROVE CallsInv'
  <2> DEFINE r == [Calls!Idle EXCEPT !.op = "refresh", !.d = x, !.at = "get", !.origins = front[x].origins]
  <2>1. r \in Calls!Req /\ r.op = "refresh" /\ r.d = x /\ r.at = "get" /\ r.origins = front[x].origins
    BY <1>t DEF Calls!Idle, Calls!Req, Calls!Op, CallsTyped, Calls!Row
  <2>2. Calls!Becomes(Slot, r) /\ Call.at = "idle" /\ UNCHANGED <<dist, oac, origin, policy, front>>
    BY <1>14, <1>s DEF Calls!RefreshStart, Calls!Begin
  <2> HIDE DEF r
  <2>3. req' \in [{Slot} -> Calls!Req] /\ Call' = r
    BY <1>b, <2>1, <2>2
  <2>5. CallsTyped'
    BY <1>t, <2>1, <2>2, <2>3, NoDistribution DEF CallsTyped
  <2>6. Waiting(x) /\ front[x].status = "DELETING" /\ front[x].ext /\ Call.d = NoDist
    BY <1>14, <1>d, <1>h, <2>2, NoDistribution DEF CallsInv, Calls!RefreshStart
  <2>7. Deleting(x)'
    BY <2>1, <2>2, <2>3, <2>6 DEF Deleting, Made, Unmade, Waiting
  <2> QED BY <2>1, <2>2, <2>3, <2>5, <2>6, <2>7, CallsMove
<1>15. CASE Calls!Get(Slot)
  <2>1. Call.at = "get" /\ UNCHANGED <<dist, oac, origin, policy, front>>
    BY <1>15, <1>s DEF Calls!Get
  <2>i. d \in Dist /\ (Changing(d) \/ Deleting(d)) /\ dist[d].state # "absent"
    BY <1>i, <2>1 DEF Creating, Changing, Deleting, Made
  <2>e. dist[d] \in Calls!Distribution
    BY <1>t, <2>i DEF CallsTyped
  <2>2. CASE Calls!Becomes(Slot, Calls!Idle)
    <3>1. req' \in [{Slot} -> Calls!Req] /\ Call' = Calls!Idle
      BY <1>b, <2>2
    <3>2. CallsTyped'
      BY <1>t, <1>b, <2>1, <3>1 DEF CallsTyped
    <3>3. Waiting(d)'
      BY <2>i, <2>1, <3>1 DEF Changing, Deleting, Made, Granted, Waiting
    <3> QED BY <1>m, <1>b, <2>1, <3>1, <3>2, <3>3
  <2>3. CASE dist[d].state = "gone" /\ Deleting(d) /\ Calls!Becomes(Slot, [Call EXCEPT !.at = "collect"])
    <3> DEFINE r == [Call EXCEPT !.at = "collect"]
    <3>1. r \in Calls!Req /\ r.at = "collect" /\ r.op = Call.op /\ r.d = d /\ r.origins = Call.origins
      BY <1>b DEF Places
    <3> HIDE DEF r
    <3>2. req' \in [{Slot} -> Calls!Req] /\ Call' = r
      BY <1>b, <2>3, <3>1 DEF r
    <3>3. CallsTyped'
      BY <1>t, <1>h, <2>1, <3>1, <3>2 DEF CallsTyped
    <3>4. Deleting(d)'
      BY <2>1, <2>3, <3>1, <3>2 DEF Deleting, Made
    <3> QED BY <1>m, <2>1, <3>1, <3>2, <3>3, <3>4
  <2>4. ASSUME NEW a \in {"configure", "disable", "read"},
               Calls!Becomes(Slot, [Call EXCEPT !.at = a, !.fresh = TRUE]),
               a = "configure" => Changing(d),
               a = "disable" => Deleting(d) /\ dist[d].state = "enabled",
               a = "read" => Deleting(d) /\ dist[d].state = "disabled" /\ dist[d].deployed
        PROVE  CallsInv'
    <3> DEFINE r == [Call EXCEPT !.at = a, !.fresh = TRUE]
    <3>a. a \in Places
      BY DEF Places
    <3>1. r \in Calls!Req /\ r.at = a /\ r.op = Call.op /\ r.d = d /\ r.origins = Call.origins /\ r.fresh
      BY <1>b, <3>a
    <3> HIDE DEF r
    <3>2. req' \in [{Slot} -> Calls!Req] /\ Call' = r
      BY <1>b, <2>4, <3>1 DEF r
    <3>3. CallsTyped'
      BY <1>t, <1>h, <2>1, <3>1, <3>2 DEF CallsTyped
    <3>4. Changing(d)' \/ Deleting(d)'
      BY <2>1, <2>4, <3>1, <3>2 DEF Changing, Deleting, Made, Granted
    <3> QED BY <1>m, <2>1, <3>1, <3>2, <3>3, <3>4
  <2>g. /\ Changing(d) => Call.op = "update"
        /\ Deleting(d) => Call.op # "update" /\ Call.origins
    BY DEF Changing, Deleting
  <2>5. CASE Changing(d)
    <3>1. CASE dist[d].state = "gone"
      BY <1>15, <1>s, <1>p, <2>2, <2>5, <2>g, <3>1 DEF Calls!Get
    <3>2. CASE dist[d].state # "gone"
      <4>1. Calls!Becomes(Slot, [Call EXCEPT !.at = "configure", !.fresh = TRUE])
        BY <1>15, <1>s, <1>p, <2>i, <2>5, <2>g, <3>2 DEF Calls!Get
      <4> QED BY <2>4, <2>5, <4>1
    <3> QED BY <3>1, <3>2
  <2>6. CASE Deleting(d)
    <3>1. CASE dist[d].state = "gone"
      <4>1. Calls!Becomes(Slot, [Call EXCEPT !.at = "collect"])
        BY <1>15, <1>s, <1>p, <2>6, <2>g, <3>1 DEF Calls!Get, Calls!AfterMissing
      <4> QED BY <2>3, <2>6, <3>1, <4>1
    <3>2. CASE dist[d].state = "enabled"
      <4>1. Calls!Becomes(Slot, [Call EXCEPT !.at = "disable", !.fresh = TRUE])
        BY <1>15, <1>s, <1>p, <2>6, <2>g, <3>2 DEF Calls!Get
      <4> QED BY <2>4, <2>6, <3>2, <4>1
    <3>3. CASE dist[d].state = "disabled" /\ ~dist[d].deployed
      BY <1>15, <1>s, <1>p, <2>2, <2>6, <2>g, <3>3 DEF Calls!Get
    <3>4. CASE dist[d].state = "disabled" /\ dist[d].deployed
      <4>1. Calls!Becomes(Slot, [Call EXCEPT !.at = "read", !.fresh = TRUE])
        BY <1>15, <1>s, <1>p, <2>6, <2>g, <3>4 DEF Calls!Get
      <4> QED BY <2>4, <2>6, <3>4, <4>1
    <3> QED BY <2>i, <2>e, <3>1, <3>2, <3>3, <3>4 DEF Calls!Distribution
  <2> QED BY <2>i, <2>5, <2>6
<1>16. CASE Calls!Disable(Slot)
  <2>1. Call.at = "disable" /\ UNCHANGED <<oac, origin, policy, front>>
    BY <1>16, <1>s DEF Calls!Disable
  <2>i. Deleting(d) /\ d \in Dist /\ Call.fresh
    BY <1>i, <2>1 DEF Creating, Changing, Deleting
  <2>2. /\ Calls!Written(Slot, d, Calls!Idle)
        /\ dist' = [dist EXCEPT ![d] = [state |-> "disabled", deployed |-> FALSE]]
    BY <1>16, <1>s, <1>p, <2>i DEF Calls!Disable
  <2>3. req' \in [{Slot} -> Calls!Req] /\ Call' = Calls!Idle
    BY <1>b, <2>i, <2>2
  <2>4. /\ dist' \in [Dist -> Calls!Distribution] /\ \A x \in Dist \ {d} : dist'[x] = dist[x]
        /\ dist'[d].state = "disabled"
    BY <1>w, <2>1, <2>2
  <2>5. CallsTyped'
    BY <1>t, <1>b, <2>1, <2>3, <2>4 DEF CallsTyped
  <2>6. Waiting(d)'
    BY <2>i, <2>1, <2>3, <2>4 DEF Deleting, Made, Waiting
  <2> QED BY <1>m, <1>b, <2>1, <2>3, <2>4, <2>5, <2>6
<1>17. CASE Calls!Remove(Slot)
  <2> DEFINE r == [Call EXCEPT !.at = "collect"]
             n == [dist[d] EXCEPT !.state = "gone"]
  <2>1. Call.at = "remove" /\ UNCHANGED <<oac, origin, policy, front>>
    BY <1>17, <1>s DEF Calls!Remove
  <2>i. Deleting(d) /\ d \in Dist /\ Call.fresh /\ dist[d].state # "gone"
    BY <1>i, <2>1 DEF Creating, Changing, Deleting
  <2>2. r \in Calls!Req /\ r.at = "collect" /\ r.op = Call.op /\ r.d = d /\ r.origins = Call.origins
    BY <1>b DEF Places
  <2>3. dist[d] \in Calls!Distribution
    BY <1>t, <2>i DEF CallsTyped
  <2>4. n \in Calls!Distribution /\ n.state = "gone"
    BY <2>3 DEF Calls!Distribution
  <2>5. Calls!Written(Slot, d, r) /\ dist' = [dist EXCEPT ![d] = n]
    BY <1>17, <1>s, <1>p, <2>i DEF Calls!Remove
  <2> HIDE DEF r, n
  <2>6. req' \in [{Slot} -> Calls!Req] /\ Call' = r
    BY <1>b, <2>i, <2>2, <2>5
  <2>7. dist' \in [Dist -> Calls!Distribution] /\ dist'[d] = n /\ \A x \in Dist \ {d} : dist'[x] = dist[x]
    BY <1>t, <2>i, <2>4, <2>5 DEF CallsTyped
  <2>8. CallsTyped'
    BY <1>t, <1>h, <2>1, <2>2, <2>6, <2>7 DEF CallsTyped
  <2>9. Deleting(d)'
    BY <2>i, <2>1, <2>2, <2>4, <2>6, <2>7 DEF Deleting, Made
  <2> QED BY <1>m, <2>1, <2>2, <2>6, <2>7, <2>8, <2>9
<1>18. CASE Calls!Collect(Slot)
  <2> DEFINE r == [Call EXCEPT !.at = "record"]
  <2>1. r \in Calls!Req /\ r.at = "record" /\ r.op = Call.op /\ r.d = d /\ r.origins = Call.origins
    BY <1>b DEF Places
  <2>2. Calls!Becomes(Slot, r) /\ Call.at = "collect" /\ oac' = oac \ {d} /\ UNCHANGED <<dist, origin, policy, front>>
    BY <1>18, <1>s DEF Calls!Collect
  <2> HIDE DEF r
  <2>3. req' \in [{Slot} -> Calls!Req] /\ Call' = r
    BY <1>b, <2>1, <2>2
  <2>4. CallsTyped'
    BY <1>t, <1>h, <2>1, <2>2, <2>3 DEF CallsTyped
  <2>5. Deleting(d)'
    BY <1>i, <2>1, <2>2, <2>3 DEF Creating, Changing, Deleting, Made
  <2> QED BY <1>m, <2>1, <2>2, <2>3, <2>4, <2>5
<1>19. CASE Calls!Record(Slot)
  <2> DEFINE s == IF Call.op = "update" THEN "PROVISIONING" ELSE "TERMINATED"
  <2>1. Call.at = "record" /\ UNCHANGED <<dist, oac, origin, policy>> /\ Calls!SetStatus(d, s)
    BY <1>19, <1>s, <1>p DEF Calls!Record
  <2>3. req' \in [{Slot} -> Calls!Req] /\ Call' = Calls!Idle
    BY <1>19, <1>s, <1>b DEF Calls!Record
  <2>4. s \in Calls!Status
    BY DEF Calls!Status
  <2>5. /\ front' \in [Dist -> Calls!Row] /\ \A x \in Dist \ {d} : front'[x] = front[x]
        /\ front'[d].status = s /\ front'[d].ext = front[d].ext /\ front'[d].origins = front[d].origins
    BY <1>w, <2>1, <2>4
  <2>6. CallsTyped'
    BY <1>t, <1>b, <2>1, <2>3, <2>5 DEF CallsTyped
  <2>7. Waiting(d)'
    BY <1>i, <2>1, <2>3, <2>5 DEF Creating, Changing, Deleting, Made, Granted, Waiting
  <2> QED BY <1>m, <1>b, <2>1, <2>3, <2>5, <2>6, <2>7
<1>20. CASE Calls!CallFails(Slot)
  <2>1. /\ Call.at \in {"oac", "read", "write", "get", "configure", "disable", "remove", "collect"}
        /\ Calls!Becomes(Slot, Calls!FailPoint(Slot)) /\ UNCHANGED <<dist, oac, origin, policy, front>>
    BY <1>20, <1>p DEF Calls!CallFails
  <2>2. Creating(d) => Unmade(d) \/ Made(d)
    BY <2>1 DEF Creating
  <2> QED BY <1>f, <2>1, <2>2
\* The rest of the world.
<1>21. ASSUME NEW x \in Dist, Calls!Describe(x) PROVE CallsInv'
  <2> DEFINE s == IF dist[x].deployed THEN "RUNNING" ELSE "PROVISIONING"
  <2>1. /\ UNCHANGED <<dist, oac, origin, policy, req>> /\ Calls!SetStatus(x, s) /\ Call.d # x
        /\ front[x].status \in {"PROVISIONING", "RUNNING"}
    BY <1>21 DEF Calls!Describe, Calls!D, Call
  <2>2. s \in Calls!Status
    BY DEF Calls!Status
  <2>3. /\ front' \in [Dist -> Calls!Row] /\ \A y \in Dist \ {x} : front'[y] = front[y]
        /\ front'[x].status = s /\ front'[x].ext = front[x].ext /\ front'[x].origins = front[x].origins
    BY <1>t, <2>1, <2>2, RowBecomes
  <2>4. Call' = Call
    BY <2>1 DEF Call
  <2>5. CallsTyped'
    BY <1>t, <2>1, <2>3, <2>4 DEF CallsTyped
  <2>6. Waiting(x)'
    BY <2>1, <2>3 DEF CallsInv, Made, Granted, Waiting
  <2>7. ASSUME NEW y \in Dist, y # x
        PROVE  IF Call'.d = y THEN (Creating(y) \/ Changing(y) \/ Deleting(y))' ELSE Waiting(y)'
    <3>1. front'[y] = front[y]
      BY <2>3, <2>7
    <3> QED BY <2>1, <2>4, <3>1 DEF CallsInv, Creating, Changing, Deleting, Waiting, Made, Unmade, Granted
  <2> QED BY <2>1, <2>4, <2>5, <2>6, <2>7 DEF CallsInv
<1>22. ASSUME NEW x \in Dist, Calls!Deploy(x) PROVE CallsInv'
  <2> DEFINE n == [dist[x] EXCEPT !.deployed = TRUE]
  <2>1. UNCHANGED <<oac, origin, policy, front, req>> /\ dist' = [dist EXCEPT ![x] = n]
    BY <1>22 DEF Calls!Deploy
  <2>2. dist[x] \in Calls!Distribution
    BY <1>t DEF CallsTyped
  <2>3. n \in Calls!Distribution /\ n.deployed /\ n.state = dist[x].state
    BY <2>2 DEF Calls!Distribution
  <2>4. Call' = Call
    BY <2>1 DEF Call
  <2> HIDE DEF n
  <2>5. /\ dist' \in [Dist -> Calls!Distribution]
        /\ \A y \in Dist : dist'[y].state = dist[y].state /\ (dist[y].deployed => dist'[y].deployed)
    BY <1>t, <2>1, <2>3 DEF CallsTyped
  <2>6. CallsTyped'
    BY <1>t, <2>1, <2>4, <2>5 DEF CallsTyped
  <2>7. ASSUME NEW y \in Dist
        PROVE  IF Call'.d = y THEN (Creating(y) \/ Changing(y) \/ Deleting(y))' ELSE Waiting(y)'
    BY <2>1, <2>4, <2>5 DEF CallsInv, Creating, Changing, Deleting, Waiting, Made, Unmade, Granted
  <2> QED BY <2>6, <2>7 DEF CallsInv
<1>23. CASE Calls!BucketDeleted
  <2>1. UNCHANGED <<dist, oac, front, req>> /\ ~origin' /\ policy' = {} /\ origin' \in BOOLEAN
    BY <1>23 DEF Calls!BucketDeleted
  <2>4. Call' = Call
    BY <2>1 DEF Call
  <2>6. CallsTyped'
    BY <1>t, <2>1, <2>4 DEF CallsTyped
  <2>7. ASSUME NEW y \in Dist
        PROVE  IF Call'.d = y THEN (Creating(y) \/ Changing(y) \/ Deleting(y))' ELSE Waiting(y)'
    BY <2>1, <2>4 DEF CallsInv, Creating, Changing, Deleting, Waiting, Made, Unmade, Granted
  <2> QED BY <2>6, <2>7 DEF CallsInv
<1>24. CASE UNCHANGED frontVars
  BY <1>24 DEF frontVars, CallsInv, CallsTyped, Call, Creating, Changing, Deleting, Waiting, Made, Unmade, Granted
<1>25. Calls!Step(Slot) => CallsInv'
  BY <1>2, <1>3, <1>4, <1>5, <1>6, <1>7, <1>8, <1>9, <1>10, <1>12, <1>15, <1>16, <1>17, <1>18, <1>19 DEF Calls!Step
<1> QED BY <1>1, <1>11, <1>13, <1>14, <1>20, <1>21, <1>22, <1>23, <1>24, <1>25 DEF Calls!Next

LEMMA CallsStarts == Calls!Init => CallsInv
<1> SUFFICES ASSUME Calls!Init PROVE CallsInv
  OBVIOUS
<1>1. Call = Calls!Idle
  BY DEF Calls!Init, Call
<1>2. CallsTyped
  BY <1>1 DEF Calls!Init, CallsTyped, Calls!Idle, Calls!Req, Calls!Op, Calls!Row, Calls!Status, Calls!Distribution, Calls!Statement
<1>3. \A d \in Dist : Waiting(d) /\ Call.d # d
  BY <1>1, NoDistribution, AdapterAssumption DEF Calls!Init, Waiting, Unmade, Calls!Idle, Calls!CloudFrontAssumption
<1> QED BY <1>2, <1>3 DEF CallsInv

LEMMA CallsAlways == AdaptersSpec => [](part = "calls" => CallsInv)
<1> DEFINE I == part = "calls" => CallsInv
<1>1. AdaptersInit => I
  BY CallsStarts DEF AdaptersInit
<1>2. I /\ [AdaptersNext]_adapterVars => I'
  BY CallsStep DEF AdaptersNext, adapterVars
<1> HIDE DEF I
<1>3. AdaptersSpec => []I
  BY <1>1, <1>2, PTL DEF AdaptersSpec
<1> QED BY <1>3 DEF I

\* Of a distribution that is terminated neither its grant in the bucket policy nor its
\* access control is left, whatever failed on the way, if requests come one at a time
\* (CloudFrontService.create and delete): but for the access control of one that was
\* never made, where the deletion that was to undo it failed as well.
THEOREM NothingIsLeft == AdaptersSpec => []NothingLeft
<1>1. CallsInv => Calls!NothingLeft
  BY DEF CallsInv, Waiting, Calls!NothingLeft, Calls!Busy, Calls!D, Call
<1>2. (part = "calls" => CallsInv) => NothingLeft
  BY <1>1 DEF NothingLeft
<1> QED BY <1>2, CallsAlways, PTL

\* A running distribution has its access control and its grant as long as its bucket
\* exists, if requests come one at a time (setBucketAccess).
THEOREM RunningMayRead == AdaptersSpec => []MayReadBucket
<1>1. CallsInv => Calls!MayReadBucket
  BY DEF CallsInv, Waiting, Creating, Changing, Deleting, Granted, Calls!MayReadBucket
<1>2. (part = "calls" => CallsInv) => MayReadBucket
  BY <1>1 DEF MayReadBucket
<1> QED BY <1>2, CallsAlways, PTL

-----------------------------------------------------------------------------
(* Distributions, several requests at a time.                               *)

CreatePlace == {"oac", "distribution", "undo", "checkpoint", "read", "write", "store", "fail"}

\* A handler whose ETag is still the current one has seen the distribution as it
\* is; a handler that creates has no ETag and, until it creates, nobody else has.
Sees(r) ==
    /\ r.at # "idle" => r.d \in RacedDist
    /\ r.at \in {"oac", "distribution", "undo", "checkpoint", "store"} => r.op = "create"
    /\ r.at \in {"oac", "distribution"} => dist[r.d].state = "absent"
    /\ r.op = "create" => r.d \in RacedDist /\ r.at \in CreatePlace /\ ~r.fresh /\ front[r.d].status # "NONE"
    /\ r.fresh => /\ r.at = "configure" => dist[r.d].state \in {"enabled", "disabled"}
                  /\ r.at = "disable" => dist[r.d].state = "enabled"
                  /\ r.at \in {"read", "write", "remove"} => dist[r.d].state = "disabled" /\ dist[r.d].deployed
RacesTyped ==
    /\ dist \in [RacedDist -> Races!Distribution]
    /\ front \in [RacedDist -> Races!Row]
    /\ req \in [Handler -> Races!Req] /\ policy \subseteq Races!Statement
RacesInv ==
    /\ RacesTyped
    /\ \A p \in Handler : Sees(req[p])
    /\ \A p, q \in Handler : req[p].op = "create" /\ req[q].op = "create" /\ req[p].d = req[q].d => p = q
    /\ \A d \in RacedDist : front[d].status = "NONE" => dist[d].state = "absent"

\* A step that changes no distribution.
LEMMA RacesMove ==
    ASSUME RacesInv, NEW p \in Handler, NEW r \in Races!Req, Races!Becomes(p, r), dist' = dist,
           front' \in [RacedDist -> Races!Row], policy' \subseteq Races!Statement,
           \A x \in RacedDist : front'[x].status = "NONE" => front[x].status = "NONE",
           Sees(r)', r.op = "create" => \A q \in Handler \ {p} : req[q].op = "create" => req[q].d # r.d
    PROVE  RacesInv'
<1>1. /\ req' \in [Handler -> Races!Req] /\ req'[p] = r
      /\ \A q \in Handler : q # p => req'[q] = req[q]
  BY DEF RacesInv, RacesTyped, Races!Becomes
<1>2. ASSUME NEW q \in Handler PROVE Sees(req[q])'
  <2>1. CASE q = p
    BY <1>1, <2>1 DEF Sees
  <2>2. CASE q # p
    BY <1>1, <2>2 DEF RacesInv, Sees
  <2> QED BY <2>1, <2>2
<1>3. \A q, s \in Handler : (req[q].op = "create" /\ req[s].op = "create" /\ req[q].d = req[s].d)' => q = s
  BY <1>1 DEF RacesInv
<1> QED BY <1>1, <1>2, <1>3 DEF RacesInv, RacesTyped

\* A write to a distribution that exists.
LEMMA RacesWrite ==
    ASSUME RacesInv, NEW p \in Handler, NEW r \in Races!Req, NEW d \in RacedDist, Races!Written(p, d, r),
           dist' \in [RacedDist -> Races!Distribution], dist[d].state # "absent",
           \A x \in RacedDist \ {d} : dist'[x] = dist[x], front' = front, policy' = policy,
           r.op # "create", r.at \in {"idle", "record", "collect"}, r.at # "idle" => r.d = d
    PROVE  RacesInv'
<1>0. \A q \in Handler : req[q] \in Races!Req
  BY DEF RacesInv, RacesTyped
<1>1. ASSUME NEW q \in Handler, q # p PROVE
      /\ req'[q] \in Races!Req /\ req'[q].op = req[q].op /\ req'[q].d = req[q].d /\ req'[q].at = req[q].at
      /\ req'[q].fresh => req[q].fresh /\ req[q].d # d
  <2> DEFINE n == [req[q] EXCEPT !.fresh = FALSE]
  <2>1. n \in Races!Req /\ n.op = req[q].op /\ n.d = req[q].d /\ n.at = req[q].at /\ ~n.fresh
    BY <1>0 DEF Races!Req
  <2>2. req'[q] = IF req[q].d = d THEN n ELSE req[q]
    BY <1>1 DEF Races!Written
  <2> HIDE DEF n
  <2> QED BY <1>0, <2>1, <2>2
<1>2. req'[p] = r
  BY DEF Races!Written
<1>3. req' \in [Handler -> Races!Req]
  <2>1. \A q \in Handler : req'[q] \in Races!Req
    BY <1>1, <1>2
  <2> QED BY <2>1 DEF Races!Written
<1>4. ASSUME NEW q \in Handler PROVE Sees(req[q])'
  <2>1. CASE q = p
    BY <1>2, <2>1 DEF Sees
  <2>2. CASE q # p
    <3>1. Sees(req[q])
      BY DEF RacesInv
    <3>2. req[q].at \in {"oac", "distribution"} => req[q].d \in RacedDist \ {d}
      BY <3>1 DEF Sees
    <3>3. req'[q].fresh /\ req[q].at # "idle" => req[q].d \in RacedDist \ {d}
      BY <1>1, <2>2, <3>1 DEF Sees
    <3> QED BY <1>1, <2>2, <3>1, <3>2, <3>3 DEF Sees
  <2> QED BY <2>1, <2>2
<1>5. \A q, s \in Handler : (req[q].op = "create" /\ req[s].op = "create" /\ req[q].d = req[s].d)' => q = s
  BY <1>1, <1>2 DEF RacesInv
<1>6. \A x \in RacedDist : (front[x].status = "NONE" => dist[x].state = "absent")'
  BY DEF RacesInv
<1> QED BY <1>3, <1>4, <1>5, <1>6 DEF RacesInv, RacesTyped

\* What a handler becomes.
MayBecome(p) ==
    /\ Races!Idle \in Races!Req /\ Races!Idle.at = "idle" /\ Races!Idle.op = "none" /\ ~Races!Idle.fresh
    /\ \A a \in Places : \E r \in Races!Req :
          /\ r = [req[p] EXCEPT !.at = a] /\ r.at = a /\ r.op = req[p].op /\ r.d = req[p].d /\ r.fresh = req[p].fresh
    /\ \A a \in Places : \E r \in Races!Req :
          /\ r = [req[p] EXCEPT !.at = a, !.fresh = TRUE]
          /\ r.at = a /\ r.op = req[p].op /\ r.d = req[p].d /\ r.fresh
    /\ \E r \in Races!Req :
          /\ r = [req[p] EXCEPT !.at = "write", !.seen = policy]
          /\ r.at = "write" /\ r.op = req[p].op /\ r.d = req[p].d /\ r.fresh = req[p].fresh

LEMMA RacesBecome == ASSUME RacesTyped, NEW p \in Handler PROVE MayBecome(p)
<1>1. req[p] \in Races!Req
  BY DEF RacesTyped
<1>2. Races!Idle \in Races!Req /\ Races!Idle.at = "idle" /\ Races!Idle.op = "none" /\ ~Races!Idle.fresh
  BY DEF Races!Idle, Races!Req, Races!Op
<1>3. ASSUME NEW a \in Places PROVE \E r \in Races!Req :
          /\ r = [req[p] EXCEPT !.at = a]
          /\ r.at = a /\ r.op = req[p].op /\ r.d = req[p].d /\ r.fresh = req[p].fresh
  <2> DEFINE n == [req[p] EXCEPT !.at = a]
  <2>1. n \in Races!Req /\ n.at = a /\ n.op = req[p].op /\ n.d = req[p].d /\ n.fresh = req[p].fresh
    BY <1>1 DEF Races!Req, Places
  <2>2. n = [req[p] EXCEPT !.at = a]
    OBVIOUS
  <2> HIDE DEF n
  <2> QED BY <2>1, <2>2
<1>4. ASSUME NEW a \in Places PROVE \E r \in Races!Req :
          /\ r = [req[p] EXCEPT !.at = a, !.fresh = TRUE]
          /\ r.at = a /\ r.op = req[p].op /\ r.d = req[p].d /\ r.fresh
  <2> DEFINE n == [req[p] EXCEPT !.at = a, !.fresh = TRUE]
  <2>1. n \in Races!Req /\ n.at = a /\ n.op = req[p].op /\ n.d = req[p].d /\ n.fresh
    BY <1>1 DEF Races!Req, Places
  <2>2. n = [req[p] EXCEPT !.at = a, !.fresh = TRUE]
    OBVIOUS
  <2> HIDE DEF n
  <2> QED BY <2>1, <2>2
<1>5. \E r \in Races!Req :
          /\ r = [req[p] EXCEPT !.at = "write", !.seen = policy]
          /\ r.at = "write" /\ r.op = req[p].op /\ r.d = req[p].d /\ r.fresh = req[p].fresh
  <2> DEFINE n == [req[p] EXCEPT !.at = "write", !.seen = policy]
  <2>1. n \in Races!Req /\ n.at = "write" /\ n.op = req[p].op /\ n.d = req[p].d /\ n.fresh = req[p].fresh
    BY <1>1 DEF Races!Req, RacesTyped
  <2>2. n = [req[p] EXCEPT !.at = "write", !.seen = policy]
    OBVIOUS
  <2> HIDE DEF n
  <2> QED BY <2>1, <2>2
<1> QED BY <1>1, <1>2, <1>3, <1>4, <1>5 DEF MayBecome

LEMMA RacesRow ==
    ASSUME RacesTyped, NEW d \in RacedDist, NEW s \in Races!Status \ {"NONE"}, Races!SetStatus(d, s)
    PROVE  /\ front' \in [RacedDist -> Races!Row] /\ front'[d].status = s
           /\ \A x \in RacedDist : front'[x].status = "NONE" => front[x].status = "NONE"
<1> DEFINE n == [front[d] EXCEPT !.status = s]
<1>1. front[d] \in Races!Row
  BY DEF RacesTyped
<1>2. n \in Races!Row /\ n.status = s
  BY <1>1 DEF Races!Row
<1>3. front' = [front EXCEPT ![d] = n]
  BY DEF Races!SetStatus
<1> HIDE DEF n
<1> QED BY <1>2, <1>3 DEF RacesTyped

LEMMA RacesStep == RacesInv /\ [Races!Next]_frontVars => RacesInv'
<1> SUFFICES ASSUME RacesInv, [Races!Next]_frontVars PROVE RacesInv'
  OBVIOUS
<1>t. RacesTyped
  BY DEF RacesInv
<1> DEFINE RowKept == /\ front' \in [RacedDist -> Races!Row] /\ policy' \subseteq Races!Statement
                      /\ \A x \in RacedDist : front'[x].status = "NONE" => front[x].status = "NONE"
<1>k. UNCHANGED <<front, policy>> => RowKept
  BY <1>t DEF RacesTyped
<1>1. ASSUME NEW p \in Handler, Races!Step(p) \/ Races!CallFails(p) PROVE RacesInv'
  <2>p. Sees(req[p]) /\ req[p] \in Races!Req
    BY <1>t DEF RacesInv, RacesTyped
  <2>i. req[p].at # "idle"
    BY <1>1 DEF Races!Step, Races!CreateOac, Races!CreateDistribution, Races!CreateRefused, Races!UndoOac,
       Races!Checkpoint, Races!Store, Races!Fail, Races!PolicyRead, Races!PolicyWrite, Races!Configure, Races!Get,
       Races!Disable, Races!Remove, Races!Collect, Races!Record, Races!CallFails, Races!At
  <2>d. PICK d \in RacedDist : d = req[p].d
    BY <2>p, <2>i DEF Sees
  <2>b. MayBecome(p)
    BY <1>t, RacesBecome
  <2>w. ASSUME NEW s \in Races!Status \ {"NONE"}, Races!SetStatus(d, s), policy' = policy PROVE RowKept
    BY <1>t, <2>w, RacesRow DEF RacesTyped
  \* The handler goes on, to a place that fits what it has seen.
  <2>m. ASSUME NEW r \in Races!Req, Races!Becomes(p, r), dist' = dist, RowKept,
               r.op = req[p].op, r.d = d, r.at \in Places \ {"oac", "configure", "disable"},
               r.at = "distribution" => req[p].at = "oac",
               r.at \in {"distribution", "undo", "checkpoint", "store"} => r.op = "create",
               r.op = "create" => r.at \in CreatePlace /\ ~r.fresh,
               r.fresh /\ r.at \in {"read", "write", "remove"} => dist[d].state = "disabled" /\ dist[d].deployed
        PROVE  RacesInv'
    <3>1. Sees(r)'
      BY <2>p, <2>d, <2>m DEF Sees
    <3>2. r.op = "create" => \A q \in Handler \ {p} : req[q].op = "create" => req[q].d # r.d
      BY <2>d, <2>m DEF RacesInv
    <3> QED BY <2>m, <3>1, <3>2, RacesMove
  <2>g. ASSUME NEW a \in {"undo", "read", "store", "fail", "remove", "record", "collect", "distribution"}, Races!Goto(p, a),
               dist' = dist, RowKept,
               a = "distribution" => req[p].at = "oac",
               req[p].op = "create" => a \in CreatePlace,
               req[p].fresh /\ a = "remove" => dist[d].state = "disabled" /\ dist[d].deployed,
               a \in {"distribution", "undo", "read", "store"} => req[p].op = "create"
        PROVE  RacesInv'
    <3>a. a \in Places
      BY DEF Places
    <3>1. PICK r \in Races!Req :
              /\ r = [req[p] EXCEPT !.at = a]
              /\ r.at = a /\ r.op = req[p].op /\ r.d = req[p].d /\ r.fresh = req[p].fresh
      BY <2>b, <3>a DEF MayBecome
    <3>2. Races!Becomes(p, r)
      BY <2>g, <3>1 DEF Races!Goto
    <3>3. req[p].op = "create" => ~req[p].fresh
      BY <2>p DEF Sees
    <3> QED BY <2>d, <2>g, <2>m, <3>a, <3>1, <3>2, <3>3
  <2>z. ASSUME Races!Becomes(p, Races!Idle), dist' = dist, RowKept PROVE RacesInv'
    <3>1. \A r \in Races!Req : r = Races!Idle => Sees(r)'
      BY <2>b DEF MayBecome, Sees
    <3>2. PICK r \in Races!Req : r = Races!Idle
      BY <2>b DEF MayBecome
    <3> QED BY <2>b, <2>z, <3>1, <3>2, RacesMove DEF MayBecome
  <2>f. ASSUME Races!Becomes(p, Races!FailPoint(p)), dist' = dist, RowKept PROVE RacesInv'
    <3>1. CASE req[p].op \in {"create", "delete"}
      <4>1. Races!Goto(p, "fail")
        BY <2>f, <3>1 DEF Races!FailPoint, Races!Goto
      <4> QED BY <2>f, <2>g, <4>1 DEF CreatePlace
    <3>2. CASE req[p].op \notin {"create", "delete"}
      BY <2>f, <2>z, <3>2 DEF Races!FailPoint
    <3> QED BY <3>1, <3>2
  \* Creating.
  <2>1. CASE Races!CreateOac(p)
    BY <1>k, <2>p, <2>1, <2>g DEF Races!CreateOac, Races!At, CreatePlace, Sees
  <2>2. CASE Races!CreateDistribution(p)
    <3>1. PICK r \in Races!Req :
              /\ r = [req[p] EXCEPT !.at = "checkpoint"]
              /\ r.at = "checkpoint" /\ r.op = req[p].op /\ r.d = req[p].d /\ r.fresh = req[p].fresh
      BY <2>b DEF MayBecome, Places
    <3>2. /\ req[p].at = "distribution" /\ Races!Becomes(p, r) /\ front' = front /\ policy' = policy
          /\ dist' = [dist EXCEPT ![d] = [state |-> "enabled", deployed |-> FALSE]]
      BY <2>2, <2>d, <3>1 DEF Races!CreateDistribution, Races!At, Races!D, Races!Goto
    <3>3. req[p].op = "create" /\ dist[d].state = "absent" /\ ~req[p].fresh /\ front[d].status # "NONE"
      BY <2>p, <2>d, <3>2 DEF Sees
    <3>4. [state |-> "enabled", deployed |-> FALSE] \in Races!Distribution
      BY DEF Races!Distribution
    <3>5. dist' \in [RacedDist -> Races!Distribution] /\ \A x \in RacedDist \ {d} : dist'[x] = dist[x]
      BY <1>t, <3>2, <3>4 DEF RacesTyped
    <3>6. req' \in [Handler -> Races!Req] /\ req'[p] = r /\ \A q \in Handler : q # p => req'[q] = req[q]
      BY <1>t, <3>1, <3>2 DEF RacesTyped, Races!Becomes
    <3>7. ASSUME NEW q \in Handler PROVE Sees(req[q])'
      <4>1. CASE q = p
        BY <2>d, <3>1, <3>2, <3>3, <3>6, <4>1 DEF Sees, CreatePlace
      <4>2. CASE q # p
        <5>1. Sees(req[q])
          BY DEF RacesInv
        <5>2. req[q].at \in {"oac", "distribution"} => req[q].d \in RacedDist \ {d}
          BY <2>d, <3>3, <4>2, <5>1 DEF Sees, RacesInv
        <5>3. CASE req[q].d = d
          BY <3>2, <3>3, <3>6, <4>2, <5>1, <5>2, <5>3 DEF Sees
        <5>4. CASE req[q].d # d
          BY <3>2, <3>5, <3>6, <4>2, <5>1, <5>4 DEF Sees
        <5> QED BY <5>3, <5>4
      <4> QED BY <4>1, <4>2
    <3>8. \A q, s \in Handler : (req[q].op = "create" /\ req[s].op = "create" /\ req[q].d = req[s].d)' => q = s
      <4>1. \A q \in Handler : req'[q].op = req[q].op /\ req'[q].d = req[q].d
        BY <3>1, <3>6
      <4> QED BY <4>1 DEF RacesInv
    <3>9. \A x \in RacedDist : (front[x].status = "NONE" => dist[x].state = "absent")'
      BY <3>2, <3>3, <3>5 DEF RacesInv
    <3> QED BY <1>t, <3>2, <3>5, <3>6, <3>7, <3>8, <3>9 DEF RacesInv, RacesTyped
  <2>3. CASE Races!CreateRefused(p)
    BY <1>k, <2>p, <2>3, <2>g DEF Races!CreateRefused, Races!At, CreatePlace, Sees
  <2>4. CASE Races!UndoOac(p)
    BY <1>k, <2>4, <2>g DEF Races!UndoOac, CreatePlace
  <2>5. CASE Races!Checkpoint(p)
    <3> DEFINE n == [front[d] EXCEPT !.ext = TRUE, !.origins = TRUE]
    <3>1. front[d] \in Races!Row
      BY <1>t DEF RacesTyped
    <3>2. n \in Races!Row /\ n.status = front[d].status
      BY <3>1 DEF Races!Row
    <3>3. front' = [front EXCEPT ![d] = n] /\ policy' = policy
      BY <1>t, <2>d, <2>5 DEF Races!Checkpoint, Races!D, RacesTyped
    <3> HIDE DEF n
    <3>4. RowKept
      BY <1>t, <3>2, <3>3 DEF RacesTyped
    <3>5. req[p].at = "checkpoint" /\ Races!Goto(p, "read") /\ dist' = dist
      BY <2>5 DEF Races!Checkpoint, Races!At
    <3>6. req[p].op = "create"
      BY <2>p, <3>5 DEF Sees
    <3> QED BY <2>g, <3>4, <3>5, <3>6 DEF CreatePlace
  <2>6. CASE Races!Store(p)
    <3> DEFINE n == [status |-> "PROVISIONING", ext |-> TRUE, origins |-> TRUE]
    <3>1. n \in Races!Row /\ n.status # "NONE"
      BY DEF Races!Row, Races!Status
    <3>2. front' = [front EXCEPT ![d] = n] /\ policy' = policy /\ dist' = dist /\ Races!Becomes(p, Races!Idle)
      BY <2>d, <2>6 DEF Races!Store, Races!D, Races!Finish
    <3> HIDE DEF n
    <3>3. RowKept
      BY <1>t, <3>1, <3>2 DEF RacesTyped
    <3> QED BY <2>z, <3>2, <3>3
  <2>7. CASE Races!Fail(p)
    <3>1. "FAILED" \in Races!Status \ {"NONE"}
      BY DEF Races!Status
    <3> QED BY <2>d, <2>7, <2>w, <2>z, <3>1 DEF Races!Fail, Races!D, Races!Finish
  \* The bucket policy.
  <2>8. CASE Races!PolicyRead(p)
    <3>1. req[p].at = "read" /\ dist' = dist /\ RowKept
      BY <1>k, <2>8 DEF Races!PolicyRead, Races!At
    <3>2. CASE Races!Becomes(p, [req[p] EXCEPT !.at = "write", !.seen = policy])
      <4>1. PICK r \in Races!Req :
              /\ r = [req[p] EXCEPT !.at = "write", !.seen = policy]
              /\ r.at = "write" /\ r.op = req[p].op /\ r.d = req[p].d /\ r.fresh = req[p].fresh
        BY <2>b DEF MayBecome
      <4>2. r.at \in Places \ {"oac", "configure", "disable"} /\ r.at \in CreatePlace
        BY <4>1 DEF Places, CreatePlace
      <4>3. /\ req[p].op = "create" => ~req[p].fresh
            /\ req[p].fresh => dist[d].state = "disabled" /\ dist[d].deployed
        BY <2>p, <2>d, <3>1 DEF Sees
      <4> QED BY <2>d, <2>m, <3>1, <3>2, <4>1, <4>2, <4>3
    <3>3. CASE Races!Goto(p, "remove") /\ req[p].op # "create"
      <4>1. req[p].fresh => dist[d].state = "disabled" /\ dist[d].deployed
        BY <2>p, <2>d, <3>1 DEF Sees
      <4> QED BY <2>g, <3>1, <3>3, <4>1
    <3> QED BY <2>8, <2>f, <3>1, <3>2, <3>3 DEF Races!PolicyRead
  <2>9. CASE Races!PolicyWrite(p)
    <3>1. req[p].at = "write" /\ dist' = dist /\ front' = front
      BY <2>9 DEF Races!PolicyWrite, Races!At
    <3>2. Races!Statements(p) \subseteq Races!Statement
      BY <2>p, <2>d DEF Races!Statements, Races!D, Races!Statement, Races!Req
    <3>3. policy' = policy \/ policy' = Races!Statements(p)
      BY <2>9 DEF Races!PolicyWrite
    <3>4. RowKept
      BY <1>t, <3>1, <3>2, <3>3 DEF RacesTyped
    <3>5. req[p].fresh => dist[d].state = "disabled" /\ dist[d].deployed
      BY <2>p, <2>d, <3>1 DEF Sees
    <3>6. CASE Races!Goto(p, "store") /\ req[p].op = "create"
      BY <2>g, <3>1, <3>4, <3>6 DEF CreatePlace
    <3>7. CASE Races!Goto(p, "remove") /\ req[p].op # "create"
      BY <2>g, <3>1, <3>4, <3>5, <3>7
    <3>8. \/ Races!Goto(p, "store") /\ req[p].op = "create"
          \/ Races!Goto(p, "remove") /\ req[p].op # "create"
          \/ Races!Becomes(p, Races!FailPoint(p))
      BY <2>9 DEF Races!PolicyWrite, Races!AfterPolicy
    <3> QED BY <2>f, <3>1, <3>4, <3>6, <3>7, <3>8
  \* Updating.
  <2>10. CASE Races!Configure(p)
    <3>1. req[p].at = "configure" /\ front' = front /\ policy' = policy /\ req[p].op # "create"
      BY <2>10, <2>p DEF Races!Configure, Races!At, Sees, CreatePlace
    <3>2. CASE req[p].fresh
      <4>1. PICK r \in Races!Req :
              /\ r = [req[p] EXCEPT !.at = "record"]
              /\ r.at = "record" /\ r.op = req[p].op /\ r.d = req[p].d /\ r.fresh = req[p].fresh
        BY <2>b DEF MayBecome, Places
      <4>2. /\ Races!Written(p, d, r) /\ dist' = [dist EXCEPT ![d] = [state |-> "enabled", deployed |-> FALSE]]
            /\ dist[d].state # "absent"
        BY <2>10, <2>p, <2>d, <3>1, <3>2, <4>1 DEF Races!Configure, Races!D, Sees
      <4>3. [state |-> "enabled", deployed |-> FALSE] \in Races!Distribution
        BY DEF Races!Distribution
      <4>4. dist' \in [RacedDist -> Races!Distribution] /\ \A x \in RacedDist \ {d} : dist'[x] = dist[x]
        BY <1>t, <4>2, <4>3 DEF RacesTyped
      <4> QED BY <2>d, <3>1, <4>1, <4>2, <4>4, RacesWrite
    <3>3. CASE ~req[p].fresh
      BY <1>k, <2>10, <2>z, <3>1, <3>3 DEF Races!Configure, Races!Finish
    <3> QED BY <3>2, <3>3
  \* Deleting.
  <2>11. CASE Races!Get(p)
    <3>1. req[p].at = "get" /\ dist' = dist /\ RowKept
      BY <1>k, <2>11 DEF Races!Get, Races!At
    <3>2. req[p].op # "create"
      BY <2>p, <3>1 DEF Sees, CreatePlace
    <3>3. ASSUME NEW a \in {"record", "collect"}, Races!Becomes(p, [req[p] EXCEPT !.at = a]) PROVE RacesInv'
      BY <2>g, <3>1, <3>2, <3>3 DEF Races!Goto
    <3>4. ASSUME NEW a \in {"configure", "disable", "read"}, Races!Becomes(p, [req[p] EXCEPT !.at = a, !.fresh = TRUE]),
                 a = "configure" => dist[d].state \in {"enabled", "disabled"},
                 a = "disable" => dist[d].state = "enabled",
                 a = "read" => dist[d].state = "disabled" /\ dist[d].deployed
          PROVE  RacesInv'
      <4>1. a \in Places
        BY DEF Places
      <4>2. PICK r \in Races!Req :
              /\ r = [req[p] EXCEPT !.at = a, !.fresh = TRUE]
              /\ r.at = a /\ r.op = req[p].op /\ r.d = req[p].d /\ r.fresh
        BY <2>b, <4>1 DEF MayBecome
      <4>3. Sees(r)'
        BY <2>d, <3>1, <3>2, <3>4, <4>2 DEF Sees
      <4> QED BY <3>1, <3>2, <3>4, <4>2, <4>3, RacesMove
    <3>5. dist[d] \in Races!Distribution
      BY <1>t DEF RacesTyped
    <3>6. \/ Races!Becomes(p, Races!Idle)
          \/ \E a \in {"record", "collect"} : Races!Becomes(p, [req[p] EXCEPT !.at = a])
          \/ /\ Races!Becomes(p, [req[p] EXCEPT !.at = "configure", !.fresh = TRUE])
             /\ dist[d].state \in {"enabled", "disabled"}
          \/ /\ Races!Becomes(p, [req[p] EXCEPT !.at = "disable", !.fresh = TRUE])
             /\ dist[d].state = "enabled"
          \/ /\ Races!Becomes(p, [req[p] EXCEPT !.at = "read", !.fresh = TRUE])
             /\ dist[d].state = "disabled" /\ dist[d].deployed
      BY <2>d, <2>11, <3>5 DEF Races!Get, Races!D, Races!AfterMissing, Races!Distribution
    <3> QED BY <2>z, <3>1, <3>3, <3>4, <3>6
  <2>12. CASE Races!Disable(p)
    <3>1. req[p].at = "disable" /\ front' = front /\ policy' = policy
      BY <2>12 DEF Races!Disable, Races!At
    <3>2. CASE req[p].fresh
      <4>1. PICK r \in Races!Req : r = Races!Idle
        BY <2>b DEF MayBecome
      <4>2. /\ Races!Written(p, d, r) /\ dist' = [dist EXCEPT ![d] = [state |-> "disabled", deployed |-> FALSE]]
            /\ dist[d].state # "absent"
        BY <2>12, <2>p, <2>d, <3>1, <3>2, <4>1 DEF Races!Disable, Races!D, Sees
      <4>3. [state |-> "disabled", deployed |-> FALSE] \in Races!Distribution
        BY DEF Races!Distribution
      <4>4. dist' \in [RacedDist -> Races!Distribution] /\ \A x \in RacedDist \ {d} : dist'[x] = dist[x]
        BY <1>t, <4>2, <4>3 DEF RacesTyped
      <4>5. r.at = "idle" /\ r.op # "create"
        BY <2>b, <4>1 DEF MayBecome
      <4> QED BY <3>1, <4>2, <4>4, <4>5, RacesWrite
    <3>3. CASE ~req[p].fresh
      BY <1>k, <2>12, <2>f, <3>1, <3>3 DEF Races!Disable
    <3> QED BY <3>2, <3>3
  <2>13. CASE Races!Remove(p)
    <3>1. req[p].at = "remove" /\ front' = front /\ policy' = policy /\ req[p].op # "create"
      BY <2>13, <2>p DEF Races!Remove, Races!At, Sees, CreatePlace
    <3>2. CASE dist[d].state = "gone"
      BY <1>k, <2>d, <2>g, <2>13, <3>1, <3>2 DEF Races!Remove, Races!D
    <3>3. CASE dist[d].state # "gone" /\ ~req[p].fresh
      BY <1>k, <2>d, <2>f, <2>13, <3>1, <3>3 DEF Races!Remove, Races!D
    <3>4. CASE dist[d].state # "gone" /\ req[p].fresh
      <4> DEFINE n == [dist[d] EXCEPT !.state = "gone"]
      <4>1. PICK r \in Races!Req :
              /\ r = [req[p] EXCEPT !.at = "collect"]
              /\ r.at = "collect" /\ r.op = req[p].op /\ r.d = req[p].d /\ r.fresh = req[p].fresh
        BY <2>b DEF Places, MayBecome
      <4>2. Races!Written(p, d, r) /\ dist' = [dist EXCEPT ![d] = n] /\ dist[d].state # "absent"
        BY <2>13, <2>p, <2>d, <3>1, <3>4, <4>1 DEF Races!Remove, Races!D, Sees
      <4>3. dist[d] \in Races!Distribution
        BY <1>t DEF RacesTyped
      <4>4. n \in Races!Distribution
        BY <4>3 DEF Races!Distribution
      <4> HIDE DEF n
      <4>5. dist' \in [RacedDist -> Races!Distribution] /\ \A x \in RacedDist \ {d} : dist'[x] = dist[x]
        BY <1>t, <4>2, <4>4 DEF RacesTyped
      <4> QED BY <2>d, <3>1, <4>1, <4>2, <4>5, RacesWrite
    <3> QED BY <3>2, <3>3, <3>4
  <2>14. CASE Races!Collect(p)
    <3>1. req[p].op # "create"
      BY <2>14, <2>p DEF Races!Collect, Races!At, Sees, CreatePlace
    <3> QED BY <1>k, <2>14, <2>g, <3>1 DEF Races!Collect
  <2>15. CASE Races!Record(p)
    <3>1. "TERMINATED" \in Races!Status \ {"NONE"} /\ "PROVISIONING" \in Races!Status \ {"NONE"}
      BY DEF Races!Status
    <3>2. RowKept
      BY <2>15, <2>d, <2>w, <3>1 DEF Races!Record, Races!D
    <3> QED BY <2>15, <2>z, <3>2 DEF Races!Record, Races!Finish
  <2>16. CASE Races!CallFails(p)
    BY <1>k, <2>16, <2>f DEF Races!CallFails
  <2> QED BY <1>1, <2>1, <2>2, <2>3, <2>4, <2>5, <2>6, <2>7, <2>8, <2>9, <2>10, <2>11, <2>12, <2>13, <2>14, <2>15,
             <2>16 DEF Races!Step
\* A handler starts.
<1>2. ASSUME NEW p \in Handler, NEW d \in RacedDist, NEW op \in {"create", "update", "delete", "refresh"},
             Races!Begin(p, op, d, IF op = "create" THEN "oac" ELSE "get"), dist' = dist, RowKept,
             op = "create" => front[d].status = "NONE" /\ front'[d].status # "NONE"
      PROVE  RacesInv'
  <2> DEFINE a == IF op = "create" THEN "oac" ELSE "get"
             n == [Races!Idle EXCEPT !.op = op, !.d = d, !.at = a, !.origins = front[d].origins]
  <2>1. front[d] \in Races!Row
    BY <1>t DEF RacesTyped
  <2>2. n \in Races!Req /\ n.op = op /\ n.d = d /\ n.at = a /\ ~n.fresh
    BY <2>1 DEF Races!Idle, Races!Req, Races!Op, Races!Row
  <2>3. Races!Becomes(p, n)
    BY <1>2 DEF Races!Begin
  <2> HIDE DEF n
  <2>4. PICK r \in Races!Req : r = n
    BY <2>2
  <2>5. Sees(r)'
    BY <1>2, <2>2, <2>4 DEF Sees, RacesInv, CreatePlace
  <2>6. op = "create" => \A q \in Handler \ {p} : req[q].op = "create" => req[q].d # d
    BY <1>2 DEF RacesInv, Sees
  <2> QED BY <1>2, <2>2, <2>3, <2>4, <2>5, <2>6, RacesMove
<1>w. ASSUME NEW d \in RacedDist, NEW s \in Races!Status \ {"NONE"}, Races!SetStatus(d, s), policy' = policy
      PROVE  RowKept /\ front'[d].status # "NONE"
  BY <1>t, <1>w, RacesRow DEF RacesTyped
<1>s. /\ "PROVISIONING" \in Races!Status \ {"NONE"} /\ "DELETING" \in Races!Status \ {"NONE"}
      /\ "TERMINATED" \in Races!Status \ {"NONE"} /\ "RUNNING" \in Races!Status \ {"NONE"}
  BY DEF Races!Status
\* A row is written, and nothing else of interest.
<1>r. ASSUME RowKept, dist' = dist, req' = req PROVE RacesInv'
  <2>1. \A p \in Handler : Sees(req[p])'
    BY <1>r DEF RacesInv, Sees
  <2> QED BY <1>r, <2>1 DEF RacesInv, RacesTyped
<1>3. ASSUME NEW p \in Handler, NEW d \in RacedDist,
             \/ Races!CreateStart(p, d) \/ Races!UpdateStart(p, d) \/ Races!DeleteStart(p, d) \/ Races!RefreshStart(p, d)
      PROVE  RacesInv'
  <2>1. CASE Races!CreateStart(p, d)
    BY <1>2, <1>w, <1>s, <2>1 DEF Races!CreateStart
  <2>2. CASE Races!UpdateStart(p, d)
    BY <1>2, <1>k, <2>2 DEF Races!UpdateStart
  <2>3. CASE Races!DeleteStart(p, d) /\ front[d].ext
    BY <1>2, <1>w, <1>s, <2>3 DEF Races!DeleteStart
  <2>4. CASE Races!DeleteStart(p, d) /\ ~front[d].ext
    BY <1>r, <1>w, <1>s, <2>4 DEF Races!DeleteStart
  <2>5. CASE Races!RefreshStart(p, d)
    BY <1>2, <1>k, <2>5 DEF Races!RefreshStart
  <2> QED BY <1>3, <2>1, <2>2, <2>3, <2>4, <2>5
<1>4. ASSUME NEW d \in RacedDist, Races!Describe(d) PROVE RacesInv'
  BY <1>4, <1>r, <1>w, <1>s DEF Races!Describe
<1>5. ASSUME NEW d \in RacedDist, Races!Deploy(d) PROVE RacesInv'
  <2> DEFINE n == [dist[d] EXCEPT !.deployed = TRUE]
  <2>1. dist[d] \in Races!Distribution
    BY <1>t DEF RacesTyped
  <2>2. n \in Races!Distribution /\ n.state = dist[d].state /\ n.deployed
    BY <2>1 DEF Races!Distribution
  <2>3. dist' = [dist EXCEPT ![d] = n] /\ UNCHANGED <<front, policy, req>>
    BY <1>5 DEF Races!Deploy
  <2> HIDE DEF n
  <2>4. /\ dist' \in [RacedDist -> Races!Distribution]
        /\ \A x \in RacedDist : dist'[x].state = dist[x].state /\ (dist[x].deployed => dist'[x].deployed)
    BY <1>t, <2>2, <2>3 DEF RacesTyped
  <2>5. \A p \in Handler : Sees(req[p])'
    BY <2>3, <2>4 DEF RacesInv, Sees
  <2> QED BY <1>t, <2>3, <2>4, <2>5 DEF RacesInv, RacesTyped
<1>6. CASE UNCHANGED frontVars
  BY <1>6, <1>k, <1>r DEF frontVars
<1>7. ~Races!BucketDeleted
  BY DEF Races!BucketDeleted
<1> QED BY <1>1, <1>3, <1>4, <1>5, <1>6, <1>7 DEF Races!Next

\* The stages of the distributions, and of one of them.
RacedStages == [d \in RacedDist |-> IF part = "races" THEN Races!StageOf(d) ELSE "absent"]

LEMMA StageBecomes ==
    ASSUME RacesTyped, part = "races", part' = part, NEW d \in RacedDist,
           \A x \in RacedDist \ {d} : dist'[x] = dist[x]
    PROVE  /\ Stages!Becomes(d, Races!StageOf(d)') /\ RacedStages[d] = Races!StageOf(d)
           /\ dist[d] \in Races!Distribution
<1>1. \A x \in RacedDist \ {d} : Races!StageOf(x)' = Races!StageOf(x)
  BY DEF Races!StageOf
<1>2. RacedStages' = [RacedStages EXCEPT ![d] = Races!StageOf(d)']
  BY <1>1 DEF RacedStages
<1> QED BY <1>2 DEF Stages!Becomes, RacedStages, RacesTyped

\* Every call that changes a distribution is one of the steps DistributionStages
\* allows.
LEMMA RacesRefine ==
    ASSUME RacesInv, part = "races", part' = part, [Races!Next]_frontVars
    PROVE  Stages!Next \/ RacedStages' = RacedStages
<1>t. RacesTyped
  BY DEF RacesInv
<1>a. /\ \A d \in RacedDist : Stages!IsCloudFront(d)
      /\ \A d \in RacedDist : Stages!FirstState(d) = "creating"
  BY DEF Stages!IsCloudFront, Stages!FirstState, Stages!SlowStart
<1>0. dist' = dist => RacedStages' = RacedStages
  BY DEF RacedStages, Races!StageOf
<1>m. ASSUME NEW d \in RacedDist, \A x \in RacedDist \ {d} : dist'[x] = dist[x],
             \/ Races!StageOf(d) = "absent" /\ Races!StageOf(d)' = "creating"
             \/ Races!StageOf(d) \in {"creating", "ready", "disabling", "disabled"} /\ Races!StageOf(d)' = "creating"
             \/ Races!StageOf(d) \in {"creating", "ready"} /\ Races!StageOf(d)' = "disabling"
             \/ Races!StageOf(d) = "disabled" /\ Races!StageOf(d)' = "gone"
             \/ Races!StageOf(d) = "creating" /\ Races!StageOf(d)' = "ready"
             \/ Races!StageOf(d) = "disabling" /\ Races!StageOf(d)' = "disabled"
      PROVE  Stages!Next
  <2> DEFINE s == Races!StageOf(d)'
  <2>1. Stages!Becomes(d, s) /\ RacedStages[d] = Races!StageOf(d)
    BY <1>t, <1>m, StageBecomes
  <2>2. CASE Races!StageOf(d) = "absent" /\ s = "creating"
    <3>1. Stages!Create(d)
      BY <1>a, <2>1, <2>2 DEF Stages!Create, RacedStages
    <3> QED BY <3>1 DEF Stages!Next
  <2>3. CASE Races!StageOf(d) \in {"creating", "ready", "disabling", "disabled"} /\ s = "creating"
    <3>1. Stages!Update(d)
      BY <2>1, <2>3 DEF Stages!Update, Stages!Live, RacedStages
    <3> QED BY <3>1 DEF Stages!Next
  <2>4. CASE \/ Races!StageOf(d) \in {"creating", "ready"} /\ s = "disabling"
             \/ Races!StageOf(d) = "disabled" /\ s = "gone"
    <3>1. RacedStages[d] \in Stages!Live /\ Stages!AfterDelete(d, RacedStages[d]) = s
      BY <1>a, <2>1, <2>4 DEF Stages!AfterDelete, Stages!Live
    <3>2. Stages!Delete(d)
      BY <2>1, <3>1 DEF Stages!Delete, RacedStages
    <3> QED BY <3>2 DEF Stages!Next
  <2>5. CASE \/ Races!StageOf(d) = "creating" /\ s = "ready"
             \/ Races!StageOf(d) = "disabling" /\ s = "disabled"
    <3>1. RacedStages[d] \in Stages!Live /\ Stages!Settled(RacedStages[d]) = s
      BY <2>1, <2>5 DEF Stages!Settled, Stages!Live
    <3>2. Stages!Settle(d)
      BY <2>1, <3>1 DEF Stages!Settle, RacedStages
    <3> QED BY <3>2 DEF Stages!Next
  <2> QED BY <1>m, <2>2, <2>3, <2>4, <2>5
<1>c. \A d \in RacedDist :
         /\ dist[d] \in Races!Distribution
         /\ dist[d].state = "absent" => Races!StageOf(d) = "absent"
         /\ dist[d].state = "enabled" => Races!StageOf(d) \in {"creating", "ready"}
         /\ dist[d].state = "enabled" /\ ~dist[d].deployed => Races!StageOf(d) = "creating"
         /\ dist[d].state = "disabled" => Races!StageOf(d) \in {"disabling", "disabled"}
         /\ dist[d].state = "disabled" /\ ~dist[d].deployed => Races!StageOf(d) = "disabling"
         /\ dist[d].state = "disabled" /\ dist[d].deployed => Races!StageOf(d) = "disabled"
  BY <1>t DEF RacesTyped, Races!StageOf
<1>n. \A d \in RacedDist :
         /\ dist'[d].state = "enabled" => Races!StageOf(d)' = IF dist'[d].deployed THEN "ready" ELSE "creating"
         /\ dist'[d].state = "disabled" => Races!StageOf(d)' = IF dist'[d].deployed THEN "disabled" ELSE "disabling"
         /\ dist'[d].state = "gone" => Races!StageOf(d)' = "gone"
  BY DEF Races!StageOf
<1>w. ASSUME NEW d \in RacedDist, NEW s \in {"enabled", "disabled"},
             dist' = [dist EXCEPT ![d] = [state |-> s, deployed |-> FALSE]]
      PROVE  dist'[d].state = s /\ ~dist'[d].deployed /\ \A x \in RacedDist \ {d} : dist'[x] = dist[x]
  <2> DEFINE n == [state |-> s, deployed |-> FALSE]
  <2>1. n.state = s /\ ~n.deployed
    OBVIOUS
  <2>2. dist' = [dist EXCEPT ![d] = n]
    BY <1>w
  <2> HIDE DEF n
  <2> QED BY <1>t, <2>1, <2>2 DEF RacesTyped
<1>1. ASSUME NEW p \in Handler, Races!Step(p) PROVE Stages!Next \/ RacedStages' = RacedStages
  <2>p. Sees(req[p])
    BY DEF RacesInv
  <2>1. CASE Races!CreateDistribution(p)
    <3>1. PICK d \in RacedDist : d = req[p].d
      BY <2>p, <2>1 DEF Sees, Races!CreateDistribution, Races!At
    <3>2. dist[d].state = "absent" /\ dist' = [dist EXCEPT ![d] = [state |-> "enabled", deployed |-> FALSE]]
      BY <2>p, <2>1, <3>1 DEF Sees, Races!CreateDistribution, Races!At, Races!D
    <3> QED BY <1>c, <1>n, <1>m, <1>w, <3>2
  <2>2. CASE Races!Configure(p) /\ req[p].fresh
    <3>1. PICK d \in RacedDist : d = req[p].d
      BY <2>p, <2>2 DEF Sees, Races!Configure, Races!At
    <3>2. /\ dist[d].state \in {"enabled", "disabled"}
          /\ dist' = [dist EXCEPT ![d] = [state |-> "enabled", deployed |-> FALSE]]
      BY <2>p, <2>2, <3>1 DEF Sees, Races!Configure, Races!At, Races!D
    <3>3. Races!StageOf(d) \in {"creating", "ready", "disabling", "disabled"}
      BY <1>c, <3>2
    <3>4. Races!StageOf(d)' = "creating" /\ \A x \in RacedDist \ {d} : dist'[x] = dist[x]
      BY <1>n, <1>w, <3>2
    <3> QED BY <1>m, <3>3, <3>4
  <2>3. CASE Races!Disable(p) /\ req[p].fresh
    <3>1. PICK d \in RacedDist : d = req[p].d
      BY <2>p, <2>3 DEF Sees, Races!Disable, Races!At
    <3>2. dist[d].state = "enabled" /\ dist' = [dist EXCEPT ![d] = [state |-> "disabled", deployed |-> FALSE]]
      BY <2>p, <2>3, <3>1 DEF Sees, Races!Disable, Races!At, Races!D
    <3> QED BY <1>c, <1>n, <1>m, <1>w, <3>2
  <2>4. CASE Races!Remove(p) /\ req[p].fresh /\ dist[req[p].d].state # "gone"
    <3>1. PICK d \in RacedDist : d = req[p].d
      BY <2>p, <2>4 DEF Sees, Races!Remove, Races!At
    <3> DEFINE n == [dist[d] EXCEPT !.state = "gone"]
    <3>2. dist[d].state = "disabled" /\ dist[d].deployed /\ dist' = [dist EXCEPT ![d] = n]
      BY <1>t, <2>p, <2>4, <3>1 DEF Sees, Races!Remove, Races!At, Races!D, RacesTyped
    <3>3. n.state = "gone"
      BY <1>c DEF Races!Distribution
    <3> HIDE DEF n
    <3>4. dist'[d].state = "gone" /\ \A x \in RacedDist \ {d} : dist'[x] = dist[x]
      BY <1>t, <3>2, <3>3 DEF RacesTyped
    <3> QED BY <1>c, <1>n, <1>m, <3>2, <3>4
  <2>5. \/ dist' = dist
        \/ Races!CreateDistribution(p)
        \/ Races!Configure(p) /\ req[p].fresh
        \/ Races!Disable(p) /\ req[p].fresh
        \/ Races!Remove(p) /\ req[p].fresh /\ dist[req[p].d].state # "gone"
    BY <1>1 DEF Races!Step, Races!CreateOac, Races!CreateRefused, Races!UndoOac, Races!Checkpoint, Races!Store,
       Races!Fail, Races!PolicyRead, Races!PolicyWrite, Races!Configure, Races!Get, Races!Disable, Races!Remove,
       Races!Collect, Races!Record, Races!D
  <2> QED BY <1>0, <2>1, <2>2, <2>3, <2>4, <2>5
<1>2. ASSUME NEW d \in RacedDist, Races!Deploy(d) PROVE Stages!Next
  <2> DEFINE n == [dist[d] EXCEPT !.deployed = TRUE]
  <2>1. n.state = dist[d].state /\ n.deployed
    BY <1>c DEF Races!Distribution
  <2>2. dist' = [dist EXCEPT ![d] = n] /\ dist[d].state \in {"enabled", "disabled"} /\ ~dist[d].deployed
    BY <1>2, <1>t DEF Races!Deploy, RacesTyped
  <2> HIDE DEF n
  <2>3. /\ dist'[d].state = dist[d].state /\ dist'[d].deployed
        /\ \A x \in RacedDist \ {d} : dist'[x] = dist[x]
    BY <1>t, <2>1, <2>2 DEF RacesTyped
  <2> QED BY <1>c, <1>n, <1>m, <2>2, <2>3
<1>3. ASSUME NEW p \in Handler, NEW d \in RacedDist,
             \/ Races!CreateStart(p, d) \/ Races!UpdateStart(p, d) \/ Races!DeleteStart(p, d) \/ Races!RefreshStart(p, d)
      PROVE  dist' = dist
  BY <1>3 DEF Races!CreateStart, Races!UpdateStart, Races!DeleteStart, Races!RefreshStart
<1>4. \A d \in RacedDist : Races!Describe(d) => dist' = dist
  BY DEF Races!Describe
<1>5. \A p \in Handler : Races!CallFails(p) => dist' = dist
  BY DEF Races!CallFails
<1>6. UNCHANGED frontVars \/ Races!BucketDeleted => dist' = dist
  BY DEF frontVars, Races!BucketDeleted
<1> QED BY <1>0, <1>1, <1>2, <1>3, <1>4, <1>5, <1>6 DEF Races!Next

\* Creating, updating, deleting, failing and retrying, by any number of handlers at a
\* time, move a distribution only through the stages SketchLifecycle builds on
\* (the ETag of configure, disable and deleteDistribution).
THEOREM StagesAlways == AdaptersSpec => StagesOnly
<1> DEFINE I == part = "races" => RacesInv
<1>1. AdaptersInit => I
  <2> SUFFICES ASSUME AdaptersInit, part = "races" PROVE RacesInv
    OBVIOUS
  <2>1. Races!Init
    BY DEF AdaptersInit
  <2>2. \A p \in Handler : req[p] = Races!Idle
    BY <2>1 DEF Races!Init
  <2>3. RacesTyped
    BY <2>1 DEF Races!Init, RacesTyped, Races!Idle, Races!Req, Races!Op, Races!Row, Races!Status, Races!Distribution,
       Races!Statement
  <2>4. Races!Idle.at = "idle" /\ Races!Idle.op = "none" /\ ~Races!Idle.fresh
    BY DEF Races!Idle
  <2>5. \A d \in RacedDist : dist[d].state = "absent"
    BY <2>1 DEF Races!Init
  <2> QED BY <2>2, <2>3, <2>4, <2>5 DEF RacesInv, Sees
<1>2. I /\ [AdaptersNext]_adapterVars => I'
  BY RacesStep DEF AdaptersNext, adapterVars
<1>3. AdaptersInit => Stages!Init
  BY DEF AdaptersInit, Races!Init, Races!StageOf, Stages!Init
<1>4. I /\ [AdaptersNext]_adapterVars => [Stages!Next]_RacedStages
  <2> SUFFICES ASSUME I, [AdaptersNext]_adapterVars PROVE Stages!Next \/ RacedStages' = RacedStages
    OBVIOUS
  <2>1. part' = part /\ (part = "races" => [Races!Next]_frontVars)
    BY DEF AdaptersNext, adapterVars
  <2>2. part # "races" => RacedStages' = RacedStages
    BY <2>1 DEF RacedStages
  <2> QED BY <2>1, <2>2, RacesRefine
<1>5. [Stages!Next]_RacedStages <=> [Stages!Next]_[d \in RacedDist |-> IF part = "races" THEN Races!StageOf(d) ELSE "absent"]
  BY DEF RacedStages
<1> HIDE DEF I
<1> QED BY <1>1, <1>2, <1>3, <1>4, <1>5, PTL DEF AdaptersSpec, StagesOnly, Stages!Spec
=============================================================================
