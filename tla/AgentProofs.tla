----------------------------- MODULE AgentProofs -----------------------------
(***************************************************************************)
(* Proofs about what surrounds an agent's model: the spend guard, the      *)
(* recordings and their replay, and the capabilities.                      *)
(***************************************************************************)
EXTENDS HostsProofs, SortingProofs

-----------------------------------------------------------------------------
(* The spend guard under concurrent calls, for any budget, costs, number of *)
(* calls and of calls in flight.                                            *)

\* What is asked of the constants: there is a budget, and costs are numbers.
GuardConstants == Budget \in Nat \ {0} /\ Costs \subseteq Nat /\ Concurrency \in Nat

CallPlaces == {"input", "model", "output", "blocked", "refused", "failed", "returned"}
GuardedCall == [method : Guards!Methods, at : CallPlaces, before : Nat]

\* The tracked calls whose cost is still to come.
Due == {i \in DOMAIN guarded : guarded[i].at = "model" /\ Guards!Tracked(guarded[i].method)}

\* What is spent, with every call that is due at the largest cost c.
Within(s, due) ==
    \A c \in Costs : (\A d \in Costs : d <= c) => s + due * c <= Budget - 1 + Concurrency * c

SpendInv ==
    /\ guarded \in Seq(GuardedCall) /\ spent \in Nat /\ owed = spent
    /\ Cardinality(Guards!InFlight) <= Concurrency
    /\ Within(spent, Cardinality(Due))

\* Products with one factor more, less or smaller.
LEMMA Products ==
    ASSUME NEW m \in Nat, NEW k \in Nat, NEW c \in Nat
    PROVE  /\ (m + 1) * c = m * c + c
           /\ m <= k => m * c <= k * c
           /\ m * c \in Nat
<1>1. (m + 1) * c = m * c + c /\ m * c \in Nat
    OBVIOUS
<1>2. ASSUME m <= k PROVE m * c <= k * c
    <2>1. PICK d \in Nat : k = m + d
        BY <1>2
    <2>2. k * c = m * c + d * c /\ d * c \in Nat /\ m * c \in Nat
        BY <2>1
    <2> QED BY <2>2
<1> QED BY <1>1, <1>2

\* The calls in flight and the calls due are finite sets, and a due call is in flight.
LEMMA CallSets ==
    ASSUME guarded \in Seq(GuardedCall)
    PROVE  /\ IsFiniteSet(Guards!InFlight) /\ IsFiniteSet(Due) /\ Due \subseteq Guards!InFlight
           /\ Cardinality(Guards!InFlight) \in Nat /\ Cardinality(Due) \in Nat
           /\ Cardinality(Due) <= Cardinality(Guards!InFlight)
<1>1. IsFiniteSet(DOMAIN guarded)
    <2>1. DOMAIN guarded = 1 .. Len(guarded) /\ Len(guarded) \in Nat
        OBVIOUS
    <2> QED BY <2>1, FS_Interval
<1>2. Guards!InFlight \subseteq DOMAIN guarded /\ Due \subseteq Guards!InFlight
    BY DEF Guards!InFlight, Due
<1>3. IsFiniteSet(Guards!InFlight)
    BY <1>1, <1>2, FS_Subset
<1> QED BY <1>2, <1>3, FS_Subset, FS_CardinalityType

\* Fewer due calls and no more spent: still within.
LEMMA FewerWithin ==
    ASSUME GuardConstants, NEW s \in Nat, NEW m \in Nat, NEW k \in Nat, m <= k, Within(s, k)
    PROVE  Within(s, m)
<1> SUFFICES ASSUME NEW c \in Costs, \A d \in Costs : d <= c
             PROVE  s + m * c <= Budget - 1 + Concurrency * c
    BY DEF Within
<1>1. c \in Nat /\ Budget \in Nat /\ Concurrency \in Nat
    BY DEF GuardConstants
<1>2. m * c <= k * c /\ m * c \in Nat /\ k * c \in Nat
    BY <1>1, Products
<1>3. s + k * c <= Budget - 1 + Concurrency * c
    BY DEF Within
<1>4. Concurrency * c \in Nat
    BY <1>1
<1> QED BY <1>1, <1>2, <1>3, <1>4

\* A sum below the budget with no more calls due than may be in flight.
LEMMA BelowWithin ==
    ASSUME GuardConstants, NEW s \in Nat, s < Budget, NEW m \in Nat, m <= Concurrency
    PROVE  Within(s, m)
<1> SUFFICES ASSUME NEW c \in Costs, \A d \in Costs : d <= c
             PROVE  s + m * c <= Budget - 1 + Concurrency * c
    BY DEF Within
<1>1. c \in Nat /\ Budget \in Nat /\ Concurrency \in Nat
    BY DEF GuardConstants
<1>2. m * c <= Concurrency * c /\ m * c \in Nat /\ Concurrency * c \in Nat
    BY <1>1, Products
<1> QED BY <1>1, <1>2

\* A due call is answered: its cost is paid out of what was set aside for it.
LEMMA PaidWithin ==
    ASSUME GuardConstants, NEW s \in Nat, NEW m \in Nat, NEW cost \in Costs, Within(s, m + 1)
    PROVE  Within(s + cost, m)
<1> SUFFICES ASSUME NEW c \in Costs, \A d \in Costs : d <= c
             PROVE  s + cost + m * c <= Budget - 1 + Concurrency * c
    BY DEF Within
<1>1. c \in Nat /\ cost \in Nat /\ cost <= c /\ Budget \in Nat /\ Concurrency \in Nat
    BY DEF GuardConstants
<1>2. (m + 1) * c = m * c + c /\ m * c \in Nat /\ Concurrency * c \in Nat
    BY <1>1, Products
<1>3. s + (m + 1) * c <= Budget - 1 + Concurrency * c
    BY DEF Within
<1> QED BY <1>1, <1>2, <1>3

\* Before the first call nothing is spent or due.
LEMMA InitSpend == GuardConstants /\ Guards!GuardsInit => SpendInv
<1> SUFFICES ASSUME GuardConstants, Guards!GuardsInit PROVE SpendInv
    OBVIOUS
<1>1. guarded = << >> /\ spent = 0 /\ owed = 0 /\ guarded \in Seq(GuardedCall)
    BY DEF Guards!GuardsInit
<1>2. Guards!InFlight = {} /\ Due = {}
    BY <1>1 DEF Guards!InFlight, Due
<1>3. Cardinality(Guards!InFlight) = 0 /\ Cardinality(Due) = 0
    BY <1>2, FS_EmptySet
<1>4. Within(spent, 0)
    BY <1>1, BelowWithin DEF GuardConstants
<1> QED BY <1>1, <1>3, <1>4 DEF SpendInv, GuardConstants

\* A step that moves call i to another await, and nothing else.
LEMMA CallMoved ==
    ASSUME guarded \in Seq(GuardedCall), NEW i \in DOMAIN guarded, NEW a \in CallPlaces, NEW b \in Nat,
           guarded' = [guarded EXCEPT ![i].at = a, ![i].before = b]
    PROVE  /\ guarded' \in Seq(GuardedCall)
           /\ Guards!InFlight' = IF a \in {"input", "model", "output"} THEN Guards!InFlight \cup {i} ELSE Guards!InFlight \ {i}
           /\ Due' = IF a = "model" /\ Guards!Tracked(guarded[i].method) THEN Due \cup {i} ELSE Due \ {i}
<1>1. guarded[i] \in GuardedCall
    OBVIOUS
<1>2. guarded' = [guarded EXCEPT ![i] = [guarded[i] EXCEPT !.at = a, !.before = b]]
    OBVIOUS
<1>3. [guarded[i] EXCEPT !.at = a, !.before = b] \in GuardedCall
    BY <1>1 DEF GuardedCall
<1>4. guarded' \in Seq(GuardedCall) /\ DOMAIN guarded' = DOMAIN guarded
    <2> DEFINE e == [guarded[i] EXCEPT !.at = a, !.before = b]
    <2>1. e \in GuardedCall /\ guarded' = [guarded EXCEPT ![i] = e]
        BY <1>2, <1>3
    <2> HIDE DEF e
    <2>2. DOMAIN guarded' = 1 .. Len(guarded) /\ Len(guarded) \in Nat
        BY <2>1
    <2>3. \A j \in 1 .. Len(guarded) : guarded'[j] \in GuardedCall
        BY <2>1, <2>2
    <2>4. guarded' = [j \in 1 .. Len(guarded) |-> guarded'[j]]
        BY <2>1, <2>2
    <2>5. guarded' \in Seq(GuardedCall)
        BY <2>2, <2>3, <2>4
    <2> QED BY <2>2, <2>5
<1>5. guarded'[i].at = a /\ guarded'[i].method = guarded[i].method
    BY <1>1, <1>2 DEF GuardedCall
<1>6. \A j \in DOMAIN guarded : j # i => guarded'[j] = guarded[j]
    BY <1>2
<1>7. Guards!InFlight' = IF a \in {"input", "model", "output"} THEN Guards!InFlight \cup {i} ELSE Guards!InFlight \ {i}
    BY <1>4, <1>5, <1>6 DEF Guards!InFlight
<1>8. Due' = IF a = "model" /\ Guards!Tracked(guarded[i].method) THEN Due \cup {i} ELSE Due \ {i}
    BY <1>4, <1>5, <1>6 DEF Due, Guards!Tracked
<1> QED BY <1>4, <1>7, <1>8

\* A step after which no call is in flight or due that was not before, and the sum is the same.
LEMMA FewerKeepsSpend ==
    ASSUME GuardConstants, SpendInv, guarded' \in Seq(GuardedCall), Guards!InFlight' \subseteq Guards!InFlight, Due' \subseteq Due,
           spent' = spent, owed' = owed
    PROVE  SpendInv'
<1>1. /\ IsFiniteSet(Guards!InFlight) /\ IsFiniteSet(Due)
      /\ Cardinality(Guards!InFlight) \in Nat /\ Cardinality(Due) \in Nat
    BY CallSets DEF SpendInv
<1>2. /\ Cardinality(Guards!InFlight') \in Nat /\ Cardinality(Due') \in Nat
      /\ Cardinality(Guards!InFlight') <= Cardinality(Guards!InFlight) /\ Cardinality(Due') <= Cardinality(Due)
    BY <1>1, FS_Subset, FS_CardinalityType
<1>3. Within(spent, Cardinality(Due'))
    BY <1>1, <1>2, FewerWithin DEF SpendInv
<1>4. Cardinality(Guards!InFlight') <= Concurrency
    BY <1>1, <1>2 DEF SpendInv, GuardConstants
<1>5. Within(spent', Cardinality(Due'))
    BY <1>3
<1> QED BY <1>4, <1>5 DEF SpendInv, Within

\* A new call is in flight and not yet due.
LEMMA CallKeepsSpend ==
    ASSUME GuardConstants, SpendInv, NEW method \in Guards!Methods, Guards!Call(method)
    PROVE  SpendInv'
<1> DEFINE new == [method |-> method, at |-> "input", before |-> 0]
<1>1. new \in GuardedCall
    BY DEF GuardedCall, CallPlaces
<1>2. guarded \in Seq(GuardedCall) /\ guarded' = Append(guarded, new) /\ guarded' \in Seq(GuardedCall)
    BY <1>1 DEF SpendInv, Guards!Call
<1>3. DOMAIN guarded' = DOMAIN guarded \cup {Len(guarded) + 1} /\ Len(guarded) + 1 \notin DOMAIN guarded
    BY <1>2
<1>4. guarded'[Len(guarded) + 1] = new /\ \A j \in DOMAIN guarded : guarded'[j] = guarded[j]
    BY <1>2
<1>5. Guards!InFlight' = Guards!InFlight \cup {Len(guarded) + 1} /\ Len(guarded) + 1 \notin Guards!InFlight
    BY <1>3, <1>4 DEF Guards!InFlight
<1>6. Due' = Due
    BY <1>3, <1>4 DEF Due
<1>7. IsFiniteSet(Guards!InFlight) /\ Cardinality(Guards!InFlight) \in Nat
    BY <1>2, CallSets
<1>8. Cardinality(Guards!InFlight') = Cardinality(Guards!InFlight) + 1
    BY <1>5, <1>7, FS_AddElement
<1>9. Cardinality(Guards!InFlight') <= Concurrency
    <2>1. Guards!Cardinality(Guards!InFlight) = Cardinality(Guards!InFlight)
        BY DEF Guards!Cardinality, Cardinality
    <2>2. Cardinality(Guards!InFlight) < Concurrency
        BY <2>1 DEF Guards!Call
    <2> QED BY <1>7, <1>8, <2>2 DEF GuardConstants
<1>10. Within(spent', Cardinality(Due'))
    BY <1>6 DEF SpendInv, Guards!Call
<1> QED BY <1>2, <1>9, <1>10 DEF SpendInv, Within, Guards!Call

\* A call is let through: it is due only if the sum is below the budget, and then no more
\* calls are due than may be in flight.
LEMMA ForwardKeepsSpend ==
    ASSUME GuardConstants, SpendInv, NEW i \in DOMAIN guarded, Guards!Forward(i)
    PROVE  SpendInv'
<1>1. guarded \in Seq(GuardedCall) /\ guarded[i] \in GuardedCall /\ i \in Guards!InFlight /\ spent \in Nat
    BY DEF SpendInv, Guards!Forward, Guards!InFlight
<1>2. CASE Guards!Tracked(guarded[i].method) /\ spent >= Budget
    <2>1. guarded' = [guarded EXCEPT ![i].at = "refused", ![i].before = guarded[i].before]
        BY <1>1, <1>2 DEF Guards!Forward, GuardedCall
    <2>2. guarded' \in Seq(GuardedCall) /\ Guards!InFlight' \subseteq Guards!InFlight /\ Due' \subseteq Due
        BY <1>1, <2>1, CallMoved, Zenon DEF CallPlaces, GuardedCall
    <2> QED BY <2>2, FewerKeepsSpend DEF Guards!Forward
<1>3. CASE ~(Guards!Tracked(guarded[i].method) /\ spent >= Budget)
    <2>1. guarded' = [guarded EXCEPT ![i].at = "model", ![i].before = spent] /\ spent' = spent /\ owed' = owed
        BY <1>3 DEF Guards!Forward
    <2>2. /\ guarded' \in Seq(GuardedCall) /\ Guards!InFlight' = Guards!InFlight
          /\ Due' = IF Guards!Tracked(guarded[i].method) THEN Due \cup {i} ELSE Due \ {i}
        <3>1. /\ guarded' \in Seq(GuardedCall) /\ Guards!InFlight' = Guards!InFlight \cup {i}
              /\ Due' = IF Guards!Tracked(guarded[i].method) THEN Due \cup {i} ELSE Due \ {i}
            BY <1>1, <2>1, CallMoved, Zenon DEF CallPlaces
        <3> QED BY <1>1, <3>1
    <2>3. CASE ~Guards!Tracked(guarded[i].method)
        BY <2>1, <2>2, <2>3, FewerKeepsSpend
    <2>4. CASE Guards!Tracked(guarded[i].method)
        <3>1. Due' = Due \cup {i} /\ Due \cup {i} \subseteq Guards!InFlight
            BY <1>1, <2>2, <2>4 DEF Due, Guards!InFlight
        <3>2. IsFiniteSet(Guards!InFlight) /\ Cardinality(Guards!InFlight) \in Nat /\ Cardinality(Guards!InFlight) <= Concurrency
            BY <1>1, CallSets DEF SpendInv
        <3>3. Cardinality(Due \cup {i}) \in Nat /\ Cardinality(Due \cup {i}) <= Cardinality(Guards!InFlight)
            BY <3>1, <3>2, FS_Subset, FS_CardinalityType
        <3>4. Cardinality(Due \cup {i}) <= Concurrency /\ spent < Budget
            BY <1>1, <1>3, <2>4, <3>2, <3>3 DEF GuardConstants
        <3>5. Within(spent, Cardinality(Due \cup {i}))
            BY <1>1, <3>3, <3>4, BelowWithin
        <3>6. Within(spent', Cardinality(Due'))
            BY <2>1, <3>1, <3>5
        <3> QED BY <2>1, <2>2, <3>2, <3>6 DEF SpendInv, Within
    <2> QED BY <2>3, <2>4
<1> QED BY <1>2, <1>3

\* An answer pays its own cost: the call is no longer due.
LEMMA AnswerKeepsSpend ==
    ASSUME GuardConstants, SpendInv, NEW i \in DOMAIN guarded, NEW cost \in Costs, Guards!ModelAnswers(i, cost)
    PROVE  SpendInv'
<1>1. guarded \in Seq(GuardedCall) /\ guarded[i] \in GuardedCall /\ i \in Guards!InFlight /\ spent \in Nat /\ cost \in Nat
    BY DEF SpendInv, Guards!ModelAnswers, Guards!InFlight, GuardConstants
<1>2. guarded' = [guarded EXCEPT ![i].at = "output", ![i].before = guarded[i].before]
    BY <1>1 DEF Guards!ModelAnswers, GuardedCall
<1>3. guarded' \in Seq(GuardedCall) /\ Guards!InFlight' = Guards!InFlight /\ Due' = Due \ {i}
    <2>1. guarded[i].before \in Nat
        BY <1>1 DEF GuardedCall
    <2>2. /\ guarded' \in Seq(GuardedCall) /\ Guards!InFlight' = Guards!InFlight \cup {i} /\ Due' = Due \ {i}
        BY <1>1, <1>2, <2>1, CallMoved, Zenon DEF CallPlaces
    <2> QED BY <1>1, <2>2
<1>4. CASE ~Guards!Tracked(guarded[i].method)
    BY <1>3, <1>4, FewerKeepsSpend DEF Guards!ModelAnswers, Guards!TrackResult
<1>5. CASE Guards!Tracked(guarded[i].method)
    <2>1. spent' = spent + cost /\ owed' = owed + cost /\ i \in Due
        BY <1>5 DEF Guards!ModelAnswers, Guards!TrackResult, Due
    <2>2. IsFiniteSet(Due) /\ Cardinality(Due) \in Nat
        BY <1>1, CallSets
    <2>3. Cardinality(Due \ {i}) \in Nat /\ Cardinality(Due) = Cardinality(Due \ {i}) + 1
        <3>1. IsFiniteSet(Due \ {i}) /\ Cardinality(Due \ {i}) = Cardinality(Due) - 1
            BY <2>1, <2>2, FS_RemoveElement
        <3> QED BY <2>2, <3>1, FS_CardinalityType
    <2>4. Within(spent, Cardinality(Due \ {i}) + 1)
        BY <2>3 DEF SpendInv
    <2>5. Within(spent + cost, Cardinality(Due \ {i}))
        BY <1>1, <2>3, <2>4, PaidWithin
    <2>6. Within(spent', Cardinality(Due'))
        BY <1>3, <2>1, <2>5
    <2>7. spent' \in Nat /\ owed' = spent' /\ Cardinality(Guards!InFlight') <= Concurrency
        BY <1>1, <1>3, <2>1 DEF SpendInv
    <2> QED BY <1>3, <2>6, <2>7 DEF SpendInv, Within
<1> QED BY <1>4, <1>5

\* A call that is blocked, fails or returns owes nothing more.
LEMMA EndKeepsSpend ==
    ASSUME GuardConstants, SpendInv, NEW i \in DOMAIN guarded,
           Guards!InputBlocked(i) \/ Guards!ModelFails(i) \/ Guards!Return(i)
    PROVE  SpendInv'
<1>1. guarded \in Seq(GuardedCall) /\ guarded[i] \in GuardedCall
    BY DEF SpendInv
<1>2. /\ \E a \in {"blocked", "failed", "returned"} :
            guarded' = [guarded EXCEPT ![i].at = a, ![i].before = guarded[i].before]
      /\ spent' = spent /\ owed' = owed
    BY <1>1 DEF Guards!InputBlocked, Guards!ModelFails, Guards!Return, GuardedCall
<1>3. PICK a \in {"blocked", "failed", "returned"} :
            guarded' = [guarded EXCEPT ![i].at = a, ![i].before = guarded[i].before]
    BY <1>2
<1>4. guarded' \in Seq(GuardedCall) /\ Guards!InFlight' \subseteq Guards!InFlight /\ Due' \subseteq Due
    BY <1>1, <1>3, CallMoved, Zenon DEF CallPlaces, GuardedCall
<1> QED BY <1>2, <1>4, FewerKeepsSpend

\* A reset starts the sum anew while calls are in flight: what they cost is counted to it.
LEMMA ResetKeepsSpend ==
    ASSUME GuardConstants, SpendInv, Guards!ResetSpendState
    PROVE  SpendInv'
<1>1. guarded' = guarded /\ spent' = 0 /\ owed' = 0 /\ Guards!InFlight' = Guards!InFlight /\ Due' = Due
    BY DEF Guards!ResetSpendState, Guards!InFlight, Due
<1>2. /\ Cardinality(Guards!InFlight) \in Nat /\ Cardinality(Due) \in Nat
      /\ Cardinality(Due) <= Cardinality(Guards!InFlight) /\ Cardinality(Guards!InFlight) <= Concurrency
    BY CallSets DEF SpendInv
<1>3. Within(0, Cardinality(Due))
    BY <1>2, BelowWithin DEF GuardConstants
<1>4. Within(spent', Cardinality(Due'))
    BY <1>1, <1>3
<1> QED BY <1>1, <1>2, <1>4 DEF SpendInv, Within

\* Every step of the guards keeps the invariant.
LEMMA StepSpend == GuardConstants /\ SpendInv /\ [Guards!GuardsNext]_guardState => SpendInv'
<1> SUFFICES ASSUME GuardConstants, SpendInv, [Guards!GuardsNext]_guardState PROVE SpendInv'
    OBVIOUS
<1>1. CASE UNCHANGED guardState
    <2>1. guarded' = guarded /\ spent' = spent /\ owed' = owed /\ Guards!InFlight' = Guards!InFlight /\ Due' = Due
        BY <1>1 DEF guardState, Guards!InFlight, Due
    <2> QED BY <2>1, FewerKeepsSpend DEF SpendInv
<1>2. CASE \E method \in Guards!Methods : Guards!Call(method)
    BY <1>2, CallKeepsSpend
<1>3. CASE \E i \in DOMAIN guarded : Guards!Forward(i)
    BY <1>3, ForwardKeepsSpend
<1>4. CASE \E i \in DOMAIN guarded : Guards!InputBlocked(i) \/ Guards!ModelFails(i) \/ Guards!Return(i)
    BY <1>4, EndKeepsSpend
<1>5. CASE \E i \in DOMAIN guarded, cost \in Costs : Guards!ModelAnswers(i, cost)
    BY <1>5, AnswerKeepsSpend
<1>6. CASE Guards!ResetSpendState
    BY <1>6, ResetKeepsSpend
<1> QED BY <1>1, <1>2, <1>3, <1>4, <1>5, <1>6 DEF Guards!GuardsNext

\* With nothing set aside any more, the sum is within the budget and the calls in flight.
LEMMA InvSpend == GuardConstants /\ SpendInv => Guards!SpendAccounted
<1> SUFFICES ASSUME GuardConstants, SpendInv, NEW c \in Costs, \A d \in Costs : d <= c
             PROVE  spent <= Budget - 1 + Concurrency * c
    BY DEF Guards!SpendAccounted, SpendInv
<1>1. Within(spent, 0)
    BY CallSets, FewerWithin DEF SpendInv
<1>2. c \in Nat /\ spent + 0 * c <= Budget - 1 + Concurrency * c
    BY <1>1 DEF Within, GuardConstants
<1> QED BY <1>2 DEF SpendInv

\* The deployed spend guard loses no answered call's tokens, and its sum passes the budget by
\* no more than the calls in flight can cost (spend-guarded-llm-service.ts).
THEOREM SpendIsAccounted == Spec => []SpendAccounted
<1>1. GuardConstants
    BY GuardAssumption DEF GuardConstants
<1>2. Init => SpendInv
    BY <1>1, InitSpend DEF Init
<1>3. SpendInv /\ [Next]_vars => SpendInv'
    BY <1>1, ComponentSteps, StepSpend
<1>4. SpendInv => SpendAccounted
    BY <1>1, InvSpend DEF SpendAccounted
<1> QED BY <1>2, <1>3, <1>4, PTL DEF Spec

-----------------------------------------------------------------------------
(* Recordings and their replay.                                             *)

StepTypes == {"llm", "tool"}
Step == [type : StepTypes, what : Nat, at : Nat]

\* What a recorder has written by time t: steps of its own type, in the order of their completion.
Recorded(log, type, t) ==
    /\ log \in Seq(Step)
    /\ \A k \in DOMAIN log : log[k].type = type /\ log[k].at <= t
    /\ \A j, k \in DOMAIN log : j <= k => log[j].at <= log[k].at

\* A recorder has written every call but the one that is still going on.
CallsAligned ==
    /\ Len(buffer) <= Len(agentCalls) /\ Len(agentCalls) <= Len(buffer) + 1
    /\ \A k \in DOMAIN buffer : buffer[k].what = k
    /\ \A i \in DOMAIN agentCalls : agentCalls[i].at = IF i <= Len(buffer) THEN "returned" ELSE "model"

ToolsAligned ==
    /\ Len(execs) <= Len(tools) /\ Len(tools) <= Len(execs) + 1
    /\ \A k \in DOMAIN execs : execs[k].what = k
    /\ \A i \in DOMAIN tools : tools[i] = IF i <= Len(execs) THEN "done" ELSE "running"

\* The recording gives the responses of the live run back, in order.
Faithful ==
    \A type \in StepTypes :
        /\ Len(Sandbox!StepsOf(type)) = IF type = "llm" THEN Len(agentCalls) ELSE Len(tools)
        /\ \A k \in 1 .. Len(Sandbox!StepsOf(type)) : Sandbox!StepsOf(type)[k].what = k
        /\ served[type] = [k \in 1 .. cursor[type] |-> k]

ReplayTyped ==
    /\ mode \in {"live", "replay"} /\ now \in Nat /\ faithful \in BOOLEAN
    /\ agentCalls \in Seq([method : Sandbox!Methods, at : {"model", "returned", "failed"}])
    /\ tools \in Seq({"running", "done", "failed"})
    /\ Recorded(buffer, "llm", now) /\ Recorded(execs, "tool", now)

ReplayInv ==
    /\ ReplayTyped
    /\ cursor \in [StepTypes -> Nat] /\ served \in [StepTypes -> Seq(Nat)]
    /\ \A type \in StepTypes : Len(served[type]) = cursor[type]
    /\ faithful => CallsAligned /\ ToolsAligned
    /\ mode = "live" => \A type \in StepTypes : served[type] = << >>
    /\ mode = "replay" => steps \in Seq(Step)
    /\ mode = "replay" /\ faithful => Len(buffer) = Len(agentCalls) /\ Len(execs) = Len(tools) /\ Faithful

\* The sandbox sorts as Sorting does.
LEMMA SandboxSorts ==
    ASSUME NEW I, NEW key
    PROVE  Sandbox!StableSort(I, key) = StableSort(I, key) /\ Sandbox!InOrder(I) = InOrder(I)
<1>1. \A S : Sandbox!Cardinality(S) = Cardinality(S)
    BY DEF Sandbox!Cardinality, Cardinality
<1>2. ASSUME NEW J, NEW k
      PROVE  Sandbox!StableSort(J, k) = StableSort(J, k)
    <2>1. ASSUME NEW i PROVE Cardinality(Sandbox!Ahead(J, k, i)) = Cardinality(Ahead(J, k, i))
        BY DEF Sandbox!Ahead, Ahead, Sandbox!Earlier, Earlier
    <2>2. Sandbox!StableSort(J, k) = [m \in 1 .. Cardinality(J) |->
              CHOOSE i \in J : Cardinality(Sandbox!Ahead(J, k, i)) = m - 1]
        BY <1>1 DEF Sandbox!StableSort
    <2>3. \A m : (CHOOSE i \in J : Cardinality(Sandbox!Ahead(J, k, i)) = m - 1)
               = (CHOOSE i \in J : Cardinality(Ahead(J, k, i)) = m - 1)
        BY <2>1
    <2> HIDE DEF Ahead
    <2> QED BY <2>2, <2>3 DEF StableSort
<1>3. Sandbox!InOrder(I) = InOrder(I)
    BY <1>2 DEF Sandbox!InOrder, InOrder
<1> QED BY <1>2, <1>3

\* In the recording, the steps of one type come in the order its recorder wrote them.
LEMMA OneTypeInOrder ==
    ASSUME NEW added \in Seq(Step), NEW type, NEW lo \in Nat, NEW n \in Nat,
           \A i \in DOMAIN added : added[i].type = type <=> i \in lo + 1 .. lo + n,
           lo + n <= Len(added),
           \A i \in lo + 1 .. lo + n : added[i].what = i - lo,
           \A i, j \in lo + 1 .. lo + n : i <= j => added[i].at <= added[j].at,
           steps' = Sandbox!Chronological(added)
    PROVE  /\ Len(Sandbox!StepsOf(type)') = n
           /\ \A k \in 1 .. n : Sandbox!StepsOf(type)'[k].what = k
<1> DEFINE D == DOMAIN added
           key == [i \in D |-> added[i].at]
           order == StableSort(D, key)
           rank == RankOf(D, key)
<1>1. PICK N \in Nat : D = 1 .. N /\ N = Len(added)
    OBVIOUS
<1>2. IsFiniteSet(D) /\ Cardinality(D) = N /\ D \subseteq Int
    BY <1>1, CountTo
<1>3. Sortable(D, key)
    <2>1. ASSUME NEW i \in D PROVE added[i].at \in Int
        <3>1. added[i] \in Step
            OBVIOUS
        <3> QED BY <3>1 DEF Step
    <2> QED BY <1>1, <1>2, <2>1 DEF Sortable
<1>4. /\ order \in [1 .. N -> D]
      /\ \A k \in 1 .. N : rank[order[k]] = k
      /\ \A i \in D : order[rank[i]] = i /\ rank[i] \in 1 .. N
    <2> HIDE DEF D, key
    <2> QED BY <1>2, <1>3, Sorted, RankIsBijective
<1>5. \A a, b \in 1 .. N : a < b => Earlier(key, order[a], order[b])
    BY <1>2, <1>3, SortedAscends
<1>6. steps' = [k \in D |-> added[order[k]]]
    BY SandboxSorts DEF Sandbox!Chronological
<1> DEFINE I == {i \in D : added[order[i]].type = type}
           zero == [i \in I |-> 0]
           g == [i \in I |-> order[i] - lo]
<1> HIDE DEF order, rank
<1>7. \A i \in I : order[i] \in lo + 1 .. lo + n /\ steps'[i].what = order[i] - lo
    BY <1>1, <1>4, <1>6
<1>8. Sortable(I, zero)
    <2>1. I \in SUBSET D
        OBVIOUS
    <2>2. IsFiniteSet(I)
        BY <1>2, <2>1, FS_Subset
    <2> QED BY <1>1, <2>1, <2>2 DEF Sortable
<1>9. g \in [I -> 1 .. n]
    <2>1. ASSUME NEW i \in I PROVE order[i] - lo \in 1 .. n
        BY <1>7
    <2> QED BY <2>1
<1>10. ASSUME NEW m \in 1 .. n PROVE \E i \in I : g[i] = m
    <2>1. lo + m \in D /\ lo + m \in lo + 1 .. lo + n /\ (lo + m) - lo = m
        BY <1>1
    <2>2. PICK i \in D : i = rank[lo + m] /\ order[i] = lo + m
        BY <1>1, <1>4, <2>1
    <2>3. i \in I
        BY <2>1, <2>2
    <2> QED BY <2>1, <2>2, <2>3
<1>11. ASSUME NEW i \in I, NEW j \in I, Earlier(zero, i, j) PROVE g[i] < g[j]
    <2>1. i \in 1 .. N /\ j \in 1 .. N /\ i < j
        BY <1>1, <1>11 DEF Earlier
    <2>2. PICK p \in D, q \in D : p = order[i] /\ q = order[j]
        BY <1>1, <1>4, <2>1
    <2>3. p \in lo + 1 .. lo + n /\ q \in lo + 1 .. lo + n
        BY <1>7, <2>2
    <2>4. Earlier(key, p, q)
        BY <1>5, <2>1, <2>2
    <2>5. added[p].at < added[q].at \/ (added[p].at = added[q].at /\ p < q)
        BY <2>4 DEF Earlier
    <2>6. q <= p => added[q].at <= added[p].at
        BY <2>3
    <2>7. added[p].at \in Int /\ added[q].at \in Int /\ p \in Int /\ q \in Int
        <3>1. added[p] \in Step /\ added[q] \in Step
            BY <1>1
        <3> QED BY <1>1, <3>1 DEF Step
    <2>8. p < q
        BY <2>5, <2>6, <2>7
    <2> QED BY <2>2, <2>7, <2>8
<1>12. Cardinality(I) = n /\ \A k \in 1 .. n : g[StableSort(I, zero)[k]] = k
    <2> HIDE DEF I, zero, g
    <2> QED BY <1>8, <1>9, <1>10, <1>11, NumberingIsRank
<1>13. StableSort(I, zero) \in [1 .. n -> I]
    <2> HIDE DEF I, zero
    <2> QED BY <1>8, <1>12, Sorted
<1>14. DOMAIN steps' = D /\ \A i \in D : steps'[i] = added[order[i]]
    BY <1>6
<1>15. {i \in DOMAIN steps' : steps'[i].type = type} = I
    BY <1>14
<1>16. Sandbox!StepsOf(type)' = [k \in DOMAIN StableSort(I, zero) |-> steps'[StableSort(I, zero)[k]]]
    <2> HIDE DEF I
    <2> QED BY <1>15, SandboxSorts DEF Sandbox!StepsOf, InOrder
<1> HIDE DEF I, zero, g
<1>17. DOMAIN StableSort(I, zero) = 1 .. n
    BY <1>13
<1>18. Sandbox!StepsOf(type)' = [k \in 1 .. n |-> steps'[StableSort(I, zero)[k]]]
    BY <1>16, <1>17
<1>19. ASSUME NEW k \in 1 .. n PROVE steps'[StableSort(I, zero)[k]].what = k
    <2>1. PICK i \in I : i = StableSort(I, zero)[k] /\ g[i] = k
        BY <1>12, <1>13
    <2> QED BY <1>7, <2>1 DEF g
<1>20. Len([k \in 1 .. n |-> steps'[StableSort(I, zero)[k]]]) = n
    OBVIOUS
<1> QED BY <1>18, <1>19, <1>20

\* The steps of one type of a recording.
LEMMA StepsOfTyped ==
    ASSUME steps \in Seq(Step), NEW type
    PROVE  \E N \in Nat : /\ Len(Sandbox!StepsOf(type)) = N /\ DOMAIN Sandbox!StepsOf(type) = 1 .. N
                          /\ \A k \in 1 .. N : Sandbox!StepsOf(type)[k] \in Step
<1> DEFINE D == DOMAIN steps
           I == {i \in D : steps[i].type = type}
           zero == [i \in I |-> 0]
<1>1. IsFiniteSet(D) /\ D \subseteq Int
    <2>1. PICK n \in Nat : D = 1 .. n
        OBVIOUS
    <2> QED BY <2>1, CountTo
<1>2. I \in SUBSET D
    OBVIOUS
<1>3. Sortable(I, zero)
    <2>1. IsFiniteSet(I)
        BY <1>1, <1>2, FS_Subset
    <2> QED BY <1>1, <1>2, <2>1 DEF Sortable
<1>4. PICK N \in Nat : N = Cardinality(I) /\ StableSort(I, zero) \in [1 .. N -> I]
    <2> HIDE DEF I, zero
    <2> QED BY <1>3, Sorted
<1>5. Sandbox!StepsOf(type) = [k \in DOMAIN StableSort(I, zero) |-> steps[StableSort(I, zero)[k]]]
    BY SandboxSorts DEF Sandbox!StepsOf, InOrder
<1> HIDE DEF zero, I
<1>6. Sandbox!StepsOf(type) = [k \in 1 .. N |-> steps[StableSort(I, zero)[k]]]
    BY <1>4, <1>5
<1>7. \A k \in 1 .. N : steps[StableSort(I, zero)[k]] \in Step
    BY <1>2, <1>4
<1> QED BY <1>6, <1>7

\* One log is the other and one step more.
Longer(new, log, s) ==
    /\ Len(new) = Len(log) + 1 /\ Len(log) \in Nat
    /\ new[Len(new)] = s /\ \A k \in DOMAIN log : new[k] = log[k]

\* A recorder appends a step of its type, completed now.
LEMMA RecorderAppends ==
    ASSUME NEW log, NEW type, NEW t \in Nat, Recorded(log, type, t),
           NEW s \in Step, s.type = type, s.at = t, NEW new, new = Append(log, s)
    PROVE  Recorded(new, type, t) /\ Longer(new, log, s)
<1>1. log \in Seq(Step)
    BY DEF Recorded
<1>2. PICK n \in Nat : n = Len(log) /\ DOMAIN log = 1 .. n
    BY <1>1
<1>3. /\ new \in Seq(Step) /\ Len(new) = n + 1 /\ DOMAIN new = 1 .. n + 1
      /\ new[n + 1] = s /\ \A k \in 1 .. n : new[k] = log[k]
    BY <1>1, <1>2
<1>4. ASSUME NEW k \in DOMAIN new PROVE new[k].type = type /\ new[k].at <= t
    <2>1. CASE k = n + 1
        BY <1>3, <2>1
    <2>2. CASE k \in 1 .. n
        BY <1>2, <1>3, <2>2 DEF Recorded
    <2> QED BY <1>3, <2>1, <2>2
<1>5. ASSUME NEW j \in DOMAIN new, NEW k \in DOMAIN new, j <= k PROVE new[j].at <= new[k].at
    <2>1. CASE k = n + 1
        BY <1>3, <1>4, <2>1
    <2>2. CASE k \in 1 .. n
        <3>1. j \in 1 .. n
            BY <1>3, <1>5, <2>2
        <3> QED BY <1>2, <1>3, <1>5, <2>2, <3>1 DEF Recorded
    <2> QED BY <1>3, <2>1, <2>2
<1> QED BY <1>2, <1>3, <1>4, <1>5 DEF Recorded, Longer

\* A call gets another place.
LEMMA CallMarked ==
    ASSUME NEW cs \in Seq([method : Sandbox!Methods, at : {"model", "returned", "failed"}]),
           NEW i \in DOMAIN cs, NEW place \in {"model", "returned", "failed"}
    PROVE  [cs EXCEPT ![i].at = place] \in Seq([method : Sandbox!Methods, at : {"model", "returned", "failed"}])
<1> DEFINE Calls == [method : Sandbox!Methods, at : {"model", "returned", "failed"}]
<1>1. PICK c \in Calls : c = cs[i]
    <2>1. cs \in Seq(Calls)
        OBVIOUS
    <2> HIDE DEF Calls
    <2> QED BY <2>1
<1>2. PICK d : d = [c EXCEPT !.at = place]
    OBVIOUS
<1>3. d \in Calls
    BY <1>1, <1>2
<1>4. [cs EXCEPT ![i].at = place] = [cs EXCEPT ![i] = d]
    BY <1>1, <1>2
<1>5. [cs EXCEPT ![i] = d] \in Seq(Calls)
    BY <1>3
<1> QED BY <1>4, <1>5

LEMMA InitReplay == Sandbox!SandboxInit => ReplayInv
<1> SUFFICES ASSUME Sandbox!SandboxInit PROVE ReplayInv
    OBVIOUS
<1> USE DEF Sandbox!SandboxInit
<1>1. /\ agentCalls \in Seq([method : Sandbox!Methods, at : {"model", "returned", "failed"}])
      /\ tools \in Seq({"running", "done", "failed"})
    OBVIOUS
<1>2. Recorded(buffer, "llm", now) /\ Recorded(execs, "tool", now)
    BY DEF Recorded
<1>3. \A type \in StepTypes : cursor[type] = 0 /\ served[type] = << >>
    BY DEF StepTypes
<1>4. cursor \in [StepTypes -> Nat] /\ served \in [StepTypes -> Seq(Nat)]
    <2>1. DOMAIN cursor = StepTypes /\ DOMAIN served = StepTypes
          /\ cursor = [t \in DOMAIN cursor |-> cursor[t]] /\ served = [t \in DOMAIN served |-> served[t]]
        BY DEF StepTypes
    <2>2. << >> \in Seq(Nat) /\ 0 \in Nat
        OBVIOUS
    <2>3. /\ \A t \in DOMAIN cursor : cursor[t] \in Nat
          /\ \A t \in DOMAIN served : served[t] \in Seq(Nat)
        BY <1>3, <2>1, <2>2
    <2> HIDE DEF Sandbox!SandboxInit
    <2>4. cursor \in [DOMAIN cursor -> Nat]
        BY <2>1, <2>3
    <2>5. served \in [DOMAIN served -> Seq(Nat)]
        BY <2>1, <2>3
    <2> QED BY <2>1, <2>4, <2>5
<1>5. CallsAligned /\ ToolsAligned
    BY DEF CallsAligned, ToolsAligned
<1>6. \A type \in StepTypes : Len(served[type]) = cursor[type]
    BY <1>3
<1>7. mode = "live" /\ now = 0 /\ faithful \in BOOLEAN
    OBVIOUS
<1> QED BY <1>1, <1>2, <1>3, <1>4, <1>5, <1>6, <1>7 DEF ReplayInv, ReplayTyped

\* What the steps of the live run leave alone.
LEMMA LiveStep ==
    ASSUME ReplayInv, ReplayTyped', UNCHANGED <<steps, cursor, served, mode>>,
           faithful' => CallsAligned' /\ ToolsAligned',
           mode = "replay" /\ faithful' => UNCHANGED <<agentCalls, buffer, execs, tools, faithful>>
    PROVE  ReplayInv'
<1>1. \A type \in StepTypes : Sandbox!StepsOf(type)' = Sandbox!StepsOf(type)
    BY DEF Sandbox!StepsOf
<1>2. mode' = "replay" /\ faithful' => Len(buffer') = Len(agentCalls') /\ Len(execs') = Len(tools') /\ Faithful'
    <2> SUFFICES ASSUME mode' = "replay", faithful'
                 PROVE  Len(buffer') = Len(agentCalls') /\ Len(execs') = Len(tools') /\ Faithful'
        OBVIOUS
    <2>1. Len(buffer) = Len(agentCalls) /\ Len(execs) = Len(tools) /\ Faithful
        BY DEF ReplayInv
    <2>2. Faithful'
        BY <1>1, <2>1 DEF Faithful
    <2> QED BY <2>1, <2>2
<1>3. /\ cursor' \in [StepTypes -> Nat] /\ served' \in [StepTypes -> Seq(Nat)]
      /\ \A type \in StepTypes : Len(served'[type]) = cursor'[type]
      /\ mode' = "live" => \A type \in StepTypes : served'[type] = << >>
      /\ mode' = "replay" => steps' \in Seq(Step)
    BY DEF ReplayInv
<1> HIDE DEF Faithful
<1> QED BY <1>2, <1>3 DEF ReplayInv

\* In the replay of a faithful recording no call is going on.
LEMMA ReplayIsQuiet ==
    ASSUME ReplayInv, mode = "replay", faithful
    PROVE  Sandbox!InFlight = {} /\ Sandbox!Running = {}
<1>1. /\ CallsAligned /\ ToolsAligned /\ Len(buffer) = Len(agentCalls) /\ Len(execs) = Len(tools)
      /\ DOMAIN agentCalls = 1 .. Len(agentCalls) /\ Len(agentCalls) \in Nat
      /\ DOMAIN tools = 1 .. Len(tools) /\ Len(tools) \in Nat
    BY DEF ReplayInv, ReplayTyped
<1>2. \A i \in DOMAIN agentCalls : agentCalls[i].at = "returned"
    BY <1>1 DEF CallsAligned
<1>3. \A i \in DOMAIN tools : tools[i] = "done"
    BY <1>1 DEF ToolsAligned
<1> QED BY <1>2, <1>3 DEF Sandbox!InFlight, Sandbox!Running

\* A call begins when the one before it has ended, or the recording is not faithful.
LEMMA CallKeepsReplay ==
    ASSUME ReplayInv, NEW method \in Sandbox!Methods, Sandbox!Call(method)
    PROVE  ReplayInv'
<1> DEFINE c == [method |-> method, at |-> "model"]
           Calls == [method : Sandbox!Methods, at : {"model", "returned", "failed"}]
<1>1. mode = "live" /\ agentCalls' = Append(agentCalls, c) /\ c \in Calls /\ c.at = "model"
      /\ UNCHANGED <<mode, buffer, execs, tools, now, steps, cursor, served>>
    BY DEF Sandbox!Call
<1>2. agentCalls \in Seq(Calls)
    BY DEF ReplayInv, ReplayTyped
<1> HIDE DEF c
<1>3. agentCalls' \in Seq(Calls)
    BY <1>1, <1>2
<1>4. faithful' = (faithful /\ Sandbox!InFlight = {})
    BY DEF Sandbox!Call
<1>5. ReplayTyped'
    <2>1. faithful' \in BOOLEAN
        BY <1>4, Zenon
    <2>2. Recorded(buffer, "llm", now)' /\ Recorded(execs, "tool", now)'
        BY <1>1 DEF ReplayInv, ReplayTyped, Recorded
    <2> QED BY <1>1, <1>3, <2>1, <2>2 DEF ReplayInv, ReplayTyped
<1>6. ASSUME faithful' PROVE CallsAligned' /\ ToolsAligned'
    <2>1. faithful /\ Sandbox!InFlight = {} /\ CallsAligned /\ ToolsAligned
        BY <1>4, <1>6 DEF ReplayInv
    <2>2. ToolsAligned'
        BY <1>1, <2>1 DEF ToolsAligned
    <2>3. PICK n \in Nat : n = Len(agentCalls) /\ DOMAIN agentCalls = 1 .. n
        BY <1>2
    <2>4. /\ Len(agentCalls') = n + 1 /\ DOMAIN agentCalls' = 1 .. n + 1
          /\ agentCalls'[n + 1] = c /\ \A i \in 1 .. n : agentCalls'[i] = agentCalls[i]
        BY <1>1, <1>2, <2>3
    <2>5. PICK m \in Nat : m = Len(buffer)
        BY DEF ReplayInv, ReplayTyped, Recorded
    <2>6. m = n
        <3>1. \A i \in 1 .. n : agentCalls[i].at # "model"
            BY <2>1, <2>3 DEF Sandbox!InFlight
        <3>2. n > m => agentCalls[n].at = "model"
            BY <2>1, <2>3, <2>5 DEF CallsAligned
        <3>3. m <= n
            BY <2>1, <2>3, <2>5 DEF CallsAligned
        <3> QED BY <3>1, <3>2, <3>3
    <2>7. \A i \in 1 .. n + 1 : agentCalls'[i].at = IF i <= m THEN "returned" ELSE "model"
        <3> SUFFICES ASSUME NEW i \in 1 .. n + 1
                     PROVE  agentCalls'[i].at = IF i <= m THEN "returned" ELSE "model"
            OBVIOUS
        <3>1. CASE i = n + 1
            BY <1>1, <2>4, <2>6, <3>1
        <3>2. CASE i \in 1 .. n
            BY <2>1, <2>3, <2>4, <2>5, <3>2 DEF CallsAligned
        <3> QED BY <3>1, <3>2
    <2>8. CallsAligned'
        BY <1>1, <2>1, <2>4, <2>5, <2>6, <2>7 DEF CallsAligned
    <2> QED BY <2>2, <2>8
<1> QED BY <1>1, <1>5, <1>6, LiveStep

\* A tool call begins likewise.
LEMMA ExecuteKeepsReplay ==
    ASSUME ReplayInv, Sandbox!Execute
    PROVE  ReplayInv'
<1> DEFINE Tools == {"running", "done", "failed"}
<1>1. mode = "live" /\ tools' = Append(tools, "running")
      /\ UNCHANGED <<mode, agentCalls, buffer, execs, now, steps, cursor, served>>
    BY DEF Sandbox!Execute
<1>2. tools \in Seq(Tools)
    BY DEF ReplayInv, ReplayTyped
<1>3. tools' \in Seq(Tools)
    BY <1>1, <1>2
<1>4. faithful' = (faithful /\ Sandbox!Running = {})
    BY DEF Sandbox!Execute
<1>5. ReplayTyped'
    <2>1. faithful' \in BOOLEAN
        BY <1>4, Zenon
    <2>2. Recorded(buffer, "llm", now)' /\ Recorded(execs, "tool", now)'
        BY <1>1 DEF ReplayInv, ReplayTyped, Recorded
    <2> QED BY <1>1, <1>3, <2>1, <2>2 DEF ReplayInv, ReplayTyped
<1>6. ASSUME faithful' PROVE CallsAligned' /\ ToolsAligned'
    <2>1. faithful /\ Sandbox!Running = {} /\ CallsAligned /\ ToolsAligned
        BY <1>4, <1>6 DEF ReplayInv
    <2>2. CallsAligned'
        BY <1>1, <2>1 DEF CallsAligned
    <2>3. PICK n \in Nat : n = Len(tools) /\ DOMAIN tools = 1 .. n
        BY <1>2
    <2>4. /\ Len(tools') = n + 1 /\ DOMAIN tools' = 1 .. n + 1
          /\ tools'[n + 1] = "running" /\ \A i \in 1 .. n : tools'[i] = tools[i]
        BY <1>1, <1>2, <2>3
    <2>5. PICK m \in Nat : m = Len(execs)
        BY DEF ReplayInv, ReplayTyped, Recorded
    <2>6. m = n
        <3>1. \A i \in 1 .. n : tools[i] # "running"
            BY <2>1, <2>3 DEF Sandbox!Running
        <3>2. n > m => tools[n] = "running"
            BY <2>1, <2>3, <2>5 DEF ToolsAligned
        <3>3. m <= n
            BY <2>1, <2>3, <2>5 DEF ToolsAligned
        <3> QED BY <3>1, <3>2, <3>3
    <2>7. \A i \in 1 .. n + 1 : tools'[i] = IF i <= m THEN "done" ELSE "running"
        <3> SUFFICES ASSUME NEW i \in 1 .. n + 1
                     PROVE  tools'[i] = IF i <= m THEN "done" ELSE "running"
            OBVIOUS
        <3>1. CASE i = n + 1
            BY <2>4, <2>6, <3>1
        <3>2. CASE i \in 1 .. n
            BY <2>1, <2>3, <2>4, <2>5, <3>2 DEF ToolsAligned
        <3> QED BY <3>1, <3>2
    <2>8. ToolsAligned'
        BY <1>1, <2>1, <2>4, <2>5, <2>6, <2>7 DEF ToolsAligned
    <2> QED BY <2>2, <2>8
<1> QED BY <1>1, <1>5, <1>6, LiveStep

\* A response is recorded when it is complete: that of the call going on.
LEMMA AnswerKeepsReplay ==
    ASSUME ReplayInv, NEW i \in DOMAIN agentCalls, NEW kind, Sandbox!ModelAnswers(i, kind)
    PROVE  ReplayInv'
<1> DEFINE w == IF agentCalls[i].method = "chatStream" /\ kind = "tool_calls" THEN Sandbox!Empty ELSE i
           Calls == [method : Sandbox!Methods, at : {"model", "returned", "failed"}]
<1>1. /\ agentCalls[i].at = "model"
      /\ agentCalls' = [agentCalls EXCEPT ![i].at = "returned"]
      /\ UNCHANGED <<mode, execs, tools, now, steps, cursor, served>>
      /\ faithful' = (faithful /\ ~(agentCalls[i].method = "chatStream" /\ kind = "tool_calls"))
    BY DEF Sandbox!ModelAnswers
<1>2. buffer' = Append(buffer, [type |-> "llm", what |-> w, at |-> now])
    BY DEF Sandbox!ModelAnswers, Sandbox!RecordCall
<1>3. agentCalls \in Seq(Calls) /\ now \in Nat /\ Recorded(buffer, "llm", now) /\ "llm" \in StepTypes
    BY DEF ReplayInv, ReplayTyped, StepTypes
<1>4. w \in Nat /\ (faithful' => w = i)
    <2>1. i \in Nat
        BY <1>3
    <2> QED BY <1>1, <2>1 DEF Sandbox!Empty
<1> HIDE DEF w
<1>5. /\ Recorded(buffer', "llm", now) /\ Len(buffer') = Len(buffer) + 1 /\ Len(buffer) \in Nat
      /\ buffer'[Len(buffer')].what = w /\ \A k \in DOMAIN buffer : buffer'[k] = buffer[k]
    <2>1. PICK new : new = buffer'
        OBVIOUS
    <2>2. PICK s : s = [type |-> "llm", what |-> w, at |-> now]
        OBVIOUS
    <2>3. s \in Step /\ s.type = "llm" /\ s.what = w /\ s.at = now
        BY <1>2, <1>3, <1>4, <2>2 DEF Step
    <2>4. new = Append(buffer, s)
        BY <1>2, <1>3, <1>4, <2>1, <2>2
    <2>5. Recorded(new, "llm", now) /\ Longer(new, buffer, s)
        BY <1>2, <1>3, <1>4, <2>3, <2>4, RecorderAppends
    <2> QED BY <2>1, <2>3, <2>5 DEF Longer
<1>6. agentCalls' \in Seq(Calls)
    BY <1>1, <1>3, CallMarked
<1>7. ReplayTyped'
    <2>1. faithful' \in BOOLEAN
        BY <1>1, Zenon
    <2>2. Recorded(buffer, "llm", now)' /\ Recorded(execs, "tool", now)'
        BY <1>1, <1>5 DEF ReplayInv, ReplayTyped, Recorded
    <2> QED BY <1>1, <1>6, <2>1, <2>2 DEF ReplayInv, ReplayTyped
<1>8. ASSUME faithful' PROVE CallsAligned' /\ ToolsAligned'
    <2>1. faithful /\ CallsAligned /\ ToolsAligned
        BY <1>1, <1>8 DEF ReplayInv
    <2>2. ToolsAligned'
        BY <1>1, <2>1 DEF ToolsAligned
    <2>3. PICK n \in Nat : n = Len(agentCalls) /\ DOMAIN agentCalls = 1 .. n
        BY <1>3
    <2>4. PICK m \in Nat : m = Len(buffer) /\ DOMAIN buffer = 1 .. m
        BY <1>3 DEF Recorded
    <2>5. i = m + 1 /\ n = m + 1
        <3>1. ~(i <= m)
            BY <1>1, <2>1, <2>4 DEF CallsAligned
        <3>2. m <= n /\ n <= m + 1
            BY <2>1, <2>3, <2>4 DEF CallsAligned
        <3> QED BY <2>3, <3>1, <3>2
    <2>6. DOMAIN agentCalls' = 1 .. n /\ Len(agentCalls') = n /\ Len(buffer') = n /\ DOMAIN buffer' = 1 .. n
        BY <1>1, <1>3, <1>5, <2>3, <2>4, <2>5 DEF Recorded
    <2>7. ASSUME NEW k \in 1 .. n PROVE buffer'[k].what = k
        <3>1. CASE k = n
            BY <1>4, <1>5, <1>8, <2>5, <2>6, <3>1
        <3>2. CASE k \in 1 .. m
            BY <1>5, <2>1, <2>4, <3>2 DEF CallsAligned
        <3> QED BY <2>5, <3>1, <3>2
    <2>8. ASSUME NEW k \in 1 .. n PROVE agentCalls'[k].at = "returned"
        <3>1. CASE k = i
            BY <1>1, <1>3, <2>3, <3>1
        <3>2. CASE k # i
            <4>1. agentCalls'[k] = agentCalls[k]
                BY <1>1, <1>3, <2>3, <3>2
            <4>2. k <= m
                BY <2>5, <3>2
            <4> QED BY <2>1, <2>3, <2>4, <4>1, <4>2 DEF CallsAligned
        <3> QED BY <3>1, <3>2
    <2>9. CallsAligned'
        BY <2>6, <2>7, <2>8 DEF CallsAligned
    <2> QED BY <2>2, <2>9
<1>9. mode = "replay" => ~faithful
    BY <1>1, ReplayIsQuiet DEF Sandbox!InFlight
<1>10. mode = "replay" => ~faithful'
    BY <1>1, <1>9
<1> QED BY <1>1, <1>7, <1>8, <1>10, LiveStep

\* A tool execution is recorded when it is done.
LEMMA ExecutedKeepsReplay ==
    ASSUME ReplayInv, NEW i \in DOMAIN tools, Sandbox!Executed(i)
    PROVE  ReplayInv'
<1> DEFINE Tools == {"running", "done", "failed"}
<1>1. /\ tools[i] = "running" /\ tools' = [tools EXCEPT ![i] = "done"]
      /\ execs' = Append(execs, [type |-> "tool", what |-> i, at |-> now])
      /\ UNCHANGED <<mode, agentCalls, buffer, now, steps, cursor, served, faithful>>
    BY DEF Sandbox!Executed
<1>2. tools \in Seq(Tools) /\ now \in Nat /\ Recorded(execs, "tool", now) /\ "tool" \in StepTypes /\ i \in Nat
    BY DEF ReplayInv, ReplayTyped, StepTypes
<1>3. /\ Recorded(execs', "tool", now) /\ Len(execs') = Len(execs) + 1 /\ Len(execs) \in Nat
      /\ execs'[Len(execs')].what = i /\ \A k \in DOMAIN execs : execs'[k] = execs[k]
    <2>1. PICK new : new = execs'
        OBVIOUS
    <2>2. PICK s : s = [type |-> "tool", what |-> i, at |-> now]
        OBVIOUS
    <2>3. s \in Step /\ s.type = "tool" /\ s.what = i /\ s.at = now
        BY <1>1, <1>2, <2>2 DEF Step
    <2>4. new = Append(execs, s)
        BY <1>1, <1>2, <2>1, <2>2
    <2>5. Recorded(new, "tool", now) /\ Longer(new, execs, s)
        BY <1>1, <1>2, <2>3, <2>4, RecorderAppends
    <2> QED BY <2>1, <2>3, <2>5 DEF Longer
<1>4. tools' \in Seq(Tools)
    BY <1>1, <1>2
<1>5. ReplayTyped'
    <2>1. Recorded(buffer, "llm", now)' /\ Recorded(execs, "tool", now)'
        BY <1>1, <1>3 DEF ReplayInv, ReplayTyped, Recorded
    <2> QED BY <1>1, <1>4, <2>1 DEF ReplayInv, ReplayTyped
<1>6. ASSUME faithful' PROVE CallsAligned' /\ ToolsAligned'
    <2>1. faithful /\ CallsAligned /\ ToolsAligned
        BY <1>1, <1>6 DEF ReplayInv
    <2>2. CallsAligned'
        BY <1>1, <2>1 DEF CallsAligned
    <2>3. PICK n \in Nat : n = Len(tools) /\ DOMAIN tools = 1 .. n
        BY <1>2
    <2>4. PICK m \in Nat : m = Len(execs) /\ DOMAIN execs = 1 .. m
        BY <1>2 DEF Recorded
    <2>5. i = m + 1 /\ n = m + 1
        <3>1. ~(i <= m)
            BY <1>1, <2>1, <2>4 DEF ToolsAligned
        <3>2. m <= n /\ n <= m + 1
            BY <2>1, <2>3, <2>4 DEF ToolsAligned
        <3> QED BY <2>3, <3>1, <3>2
    <2>6. DOMAIN tools' = 1 .. n /\ Len(tools') = n /\ Len(execs') = n /\ DOMAIN execs' = 1 .. n
        BY <1>1, <1>2, <1>3, <2>3, <2>4, <2>5 DEF Recorded
    <2>7. ASSUME NEW k \in 1 .. n PROVE execs'[k].what = k
        <3>1. CASE k = n
            BY <1>3, <2>5, <2>6, <3>1
        <3>2. CASE k \in 1 .. m
            BY <1>3, <2>1, <2>4, <3>2 DEF ToolsAligned
        <3> QED BY <2>5, <3>1, <3>2
    <2>8. ASSUME NEW k \in 1 .. n PROVE tools'[k] = "done"
        <3>1. CASE k = i
            BY <1>1, <1>2, <2>3, <3>1
        <3>2. CASE k # i
            <4>1. tools'[k] = tools[k]
                BY <1>1, <1>2, <2>3, <3>2
            <4>2. k <= m
                BY <2>5, <3>2
            <4> QED BY <2>1, <2>3, <2>4, <4>1, <4>2 DEF ToolsAligned
        <3> QED BY <3>1, <3>2
    <2>9. ToolsAligned'
        BY <2>6, <2>7, <2>8 DEF ToolsAligned
    <2> QED BY <2>2, <2>9
<1>7. mode = "replay" => ~faithful
    BY <1>1, ReplayIsQuiet DEF Sandbox!Running
<1> QED BY <1>1, <1>5, <1>6, <1>7, LiveStep

\* A failure is not recorded, and such a recording promises nothing; neither does the clock matter.
LEMMA OtherKeepsReplay ==
    ASSUME ReplayInv,
           \/ \E i \in DOMAIN agentCalls : Sandbox!ModelFails(i)
           \/ \E i \in DOMAIN tools : Sandbox!ToolThrows(i)
           \/ Sandbox!Tick
    PROVE  ReplayInv'
<1> DEFINE Calls == [method : Sandbox!Methods, at : {"model", "returned", "failed"}]
           Tools == {"running", "done", "failed"}
<1>1. /\ agentCalls \in Seq(Calls) /\ tools \in Seq(Tools) /\ now \in Nat /\ faithful \in BOOLEAN
      /\ mode \in {"live", "replay"}
      /\ Recorded(buffer, "llm", now) /\ Recorded(execs, "tool", now)
    BY DEF ReplayInv, ReplayTyped
<1>2. CASE \E i \in DOMAIN agentCalls : Sandbox!ModelFails(i)
    <2>1. PICK i \in DOMAIN agentCalls : Sandbox!ModelFails(i)
        BY <1>2
    <2>2. /\ agentCalls' = [agentCalls EXCEPT ![i].at = "failed"] /\ faithful' = FALSE
          /\ UNCHANGED <<mode, buffer, execs, tools, now, steps, cursor, served>>
        BY <2>1 DEF Sandbox!ModelFails
    <2>3. agentCalls' \in Seq(Calls)
        BY <1>1, <2>2, CallMarked
    <2>4. ReplayTyped'
        BY <1>1, <2>2, <2>3 DEF ReplayTyped, Recorded
    <2> QED BY <2>2, <2>4, LiveStep
<1>3. CASE \E i \in DOMAIN tools : Sandbox!ToolThrows(i)
    <2>1. PICK i \in DOMAIN tools : Sandbox!ToolThrows(i)
        BY <1>3
    <2>2. /\ tools' = [tools EXCEPT ![i] = "failed"] /\ faithful' = FALSE
          /\ UNCHANGED <<mode, buffer, execs, agentCalls, now, steps, cursor, served>>
        BY <2>1 DEF Sandbox!ToolThrows
    <2>3. tools' \in Seq(Tools)
        BY <1>1, <2>2
    <2>4. ReplayTyped'
        BY <1>1, <2>2, <2>3 DEF ReplayTyped, Recorded
    <2> QED BY <2>2, <2>4, LiveStep
<1>4. CASE Sandbox!Tick
    <2>1. mode = "live" /\ now' = now + 1
          /\ UNCHANGED <<mode, agentCalls, buffer, execs, tools, steps, cursor, served, faithful>>
        BY <1>4 DEF Sandbox!Tick
    <2>2. \A log : \A type : Recorded(log, type, now) => Recorded(log, type, now')
        <3> SUFFICES ASSUME NEW log, NEW type, Recorded(log, type, now) PROVE Recorded(log, type, now')
            OBVIOUS
        <3>1. ASSUME NEW k \in DOMAIN log PROVE log[k].at <= now'
            <4>1. log[k] \in Step /\ log[k].at <= now
                BY DEF Recorded
            <4> QED BY <1>1, <2>1, <4>1 DEF Step
        <3> QED BY <3>1 DEF Recorded
    <2>3. Recorded(buffer', "llm", now') /\ Recorded(execs', "tool", now') /\ now' \in Nat
        BY <1>1, <2>1, <2>2
    <2>4. ReplayTyped'
        BY <1>1, <2>1, <2>3 DEF ReplayTyped
    <2>5. faithful' => CallsAligned' /\ ToolsAligned'
        BY <2>1 DEF ReplayInv, CallsAligned, ToolsAligned
    <2> QED BY <2>1, <2>4, <2>5, LiveStep
<1> QED BY <1>2, <1>3, <1>4

\* The recording is built when no call is going on.
LEMMA BuildKeepsReplay ==
    ASSUME ReplayInv, Sandbox!Build
    PROVE  ReplayInv'
<1> DEFINE added == buffer \o execs
<1>1. /\ mode = "live" /\ mode' = "replay" /\ Sandbox!InFlight = {} /\ Sandbox!Running = {}
      /\ steps' = Sandbox!Chronological(added)
      /\ UNCHANGED <<agentCalls, buffer, execs, tools, now, cursor, served, faithful>>
    BY DEF Sandbox!Build
<1>2. buffer \in Seq(Step) /\ execs \in Seq(Step)
    BY DEF ReplayInv, ReplayTyped, Recorded
<1>3. PICK n \in Nat : n = Len(buffer) /\ DOMAIN buffer = 1 .. n
    BY <1>2
<1>4. PICK m \in Nat : m = Len(execs) /\ DOMAIN execs = 1 .. m
    BY <1>2
<1>5. /\ added \in Seq(Step) /\ Len(added) = n + m /\ DOMAIN added = 1 .. n + m
      /\ \A i \in 1 .. n : added[i] = buffer[i]
      /\ \A i \in n + 1 .. n + m : added[i] = execs[i - n] /\ i - n \in 1 .. m
    BY <1>2, <1>3, <1>4
<1> HIDE DEF added
<1>6. steps' \in Seq(Step)
    <2> DEFINE D == DOMAIN added
               key == [i \in D |-> added[i].at]
    <2>1. IsFiniteSet(D) /\ Cardinality(D) = n + m /\ n + m \in Nat
        BY <1>5, CountTo
    <2>2. Sortable(D, key)
        <3>1. ASSUME NEW i \in D PROVE added[i].at \in Int
            <4>1. added[i] \in Step
                BY <1>5
            <4> QED BY <4>1 DEF Step
        <3> QED BY <1>5, <2>1, <3>1 DEF Sortable
    <2>3. steps' = [k \in D |-> added[StableSort(D, key)[k]]]
        BY <1>1, SandboxSorts DEF Sandbox!Chronological
    <2>4. StableSort(D, key) \in [1 .. n + m -> D]
        <3> HIDE DEF D, key
        <3> QED BY <2>1, <2>2, Sorted
    <2> HIDE DEF key
    <2>5. \A k \in 1 .. n + m : added[StableSort(D, key)[k]] \in Step
        BY <1>5, <2>4
    <2> QED BY <1>5, <2>1, <2>3, <2>5
<1>7. ReplayTyped'
    BY <1>1 DEF ReplayInv, ReplayTyped, Recorded
<1>8. ASSUME faithful PROVE Len(buffer) = Len(agentCalls) /\ Len(execs) = Len(tools) /\ Faithful'
    <2>1. CallsAligned /\ ToolsAligned
        BY <1>8 DEF ReplayInv
    <2>2. Len(agentCalls) = n
        <3>1. PICK a \in Nat : a = Len(agentCalls) /\ DOMAIN agentCalls = 1 .. a
            BY DEF ReplayInv, ReplayTyped
        <3>2. n <= a /\ a <= n + 1
            BY <1>3, <2>1, <3>1 DEF CallsAligned
        <3>3. a > n => agentCalls[a].at = "model" /\ a \in 1 .. a
            BY <1>3, <2>1, <3>1 DEF CallsAligned
        <3>4. \A i \in 1 .. a : agentCalls[i].at # "model"
            BY <1>1, <3>1 DEF Sandbox!InFlight
        <3> QED BY <3>1, <3>2, <3>3, <3>4
    <2>3. Len(tools) = m
        <3>1. PICK a \in Nat : a = Len(tools) /\ DOMAIN tools = 1 .. a
            BY DEF ReplayInv, ReplayTyped
        <3>2. m <= a /\ a <= m + 1
            BY <1>4, <2>1, <3>1 DEF ToolsAligned
        <3>3. a > m => tools[a] = "running" /\ a \in 1 .. a
            BY <1>4, <2>1, <3>1 DEF ToolsAligned
        <3>4. \A i \in 1 .. a : tools[i] # "running"
            BY <1>1, <3>1 DEF Sandbox!Running
        <3> QED BY <3>1, <3>2, <3>3, <3>4
    <2>4. /\ \A k \in 1 .. n : buffer[k].type = "llm" /\ buffer[k].what = k
          /\ \A j, k \in 1 .. n : j <= k => buffer[j].at <= buffer[k].at
        BY <1>3, <2>1 DEF ReplayInv, ReplayTyped, Recorded, CallsAligned
    <2>5. /\ \A k \in 1 .. m : execs[k].type = "tool" /\ execs[k].what = k
          /\ \A j, k \in 1 .. m : j <= k => execs[j].at <= execs[k].at
        BY <1>4, <2>1 DEF ReplayInv, ReplayTyped, Recorded, ToolsAligned
    <2>6. /\ Len(Sandbox!StepsOf("llm")') = n
          /\ \A k \in 1 .. n : Sandbox!StepsOf("llm")'[k].what = k
        <3>1. \A i \in DOMAIN added : added[i].type = "llm" <=> i \in 0 + 1 .. 0 + n
            <4> SUFFICES ASSUME NEW i \in 1 .. n + m
                         PROVE  added[i].type = "llm" <=> i \in 0 + 1 .. 0 + n
                BY <1>5
            <4>1. CASE i \in 1 .. n
                BY <1>5, <2>4, <4>1
            <4>2. CASE i \in n + 1 .. n + m
                BY <1>5, <2>5, <4>2
            <4> QED BY <4>1, <4>2
        <3>2. \A i \in 0 + 1 .. 0 + n : added[i].what = i - 0
            BY <1>5, <2>4
        <3>3. \A i, j \in 0 + 1 .. 0 + n : i <= j => added[i].at <= added[j].at
            BY <1>5, <2>4
        <3>4. 0 + n <= Len(added) /\ 0 \in Nat
            BY <1>5
        <3> QED BY <1>1, <1>5, <3>1, <3>2, <3>3, <3>4, OneTypeInOrder
    <2>7. /\ Len(Sandbox!StepsOf("tool")') = m
          /\ \A k \in 1 .. m : Sandbox!StepsOf("tool")'[k].what = k
        <3>1. \A i \in DOMAIN added : added[i].type = "tool" <=> i \in n + 1 .. n + m
            <4> SUFFICES ASSUME NEW i \in 1 .. n + m
                         PROVE  added[i].type = "tool" <=> i \in n + 1 .. n + m
                BY <1>5
            <4>1. CASE i \in 1 .. n
                BY <1>5, <2>4, <4>1
            <4>2. CASE i \in n + 1 .. n + m
                BY <1>5, <2>5, <4>2
            <4> QED BY <4>1, <4>2
        <3>2. \A i \in n + 1 .. n + m : added[i].what = i - n
            BY <1>5, <2>5
        <3>3. ASSUME NEW i \in n + 1 .. n + m, NEW j \in n + 1 .. n + m, i <= j
              PROVE  added[i].at <= added[j].at
            <4>1. i - n \in 1 .. m /\ j - n \in 1 .. m /\ i - n <= j - n
                BY <1>5, <3>3
            <4>2. execs[i - n].at <= execs[j - n].at
                BY <2>5, <4>1
            <4> QED BY <1>5, <4>2
        <3>4. n + m <= Len(added)
            BY <1>5
        <3> QED BY <1>1, <1>5, <3>1, <3>2, <3>3, <3>4, OneTypeInOrder
    <2>8. \A type \in StepTypes : served'[type] = [k \in 1 .. cursor'[type] |-> k]
        <3> SUFFICES ASSUME NEW type \in StepTypes PROVE served[type] = [k \in 1 .. cursor[type] |-> k]
            BY <1>1
        <3>1. served[type] = << >> /\ cursor[type] = 0
            BY <1>1 DEF ReplayInv
        <3> QED BY <3>1
    <2>9. Faithful'
        BY <1>1, <1>3, <1>4, <2>2, <2>3, <2>6, <2>7, <2>8 DEF Faithful, StepTypes
    <2> QED BY <1>3, <1>4, <2>2, <2>3, <2>9
<1>9. faithful => CallsAligned' /\ ToolsAligned'
    BY <1>1 DEF ReplayInv, CallsAligned, ToolsAligned
<1>10. /\ cursor' \in [StepTypes -> Nat] /\ served' \in [StepTypes -> Seq(Nat)]
       /\ \A type \in StepTypes : Len(served'[type]) = cursor'[type]
    BY <1>1 DEF ReplayInv
<1> HIDE DEF Faithful
<1> QED BY <1>1, <1>6, <1>7, <1>8, <1>9, <1>10 DEF ReplayInv

\* The replay serves the next response.
LEMMA ServeKeepsReplay ==
    ASSUME ReplayInv, NEW type \in StepTypes, Sandbox!Serve(type)
    PROVE  ReplayInv'
<1> DEFINE w == Sandbox!StepsOf(type)[cursor[type] + 1].what
<1>1. /\ mode = "replay" /\ cursor[type] < Len(Sandbox!StepsOf(type))
      /\ cursor' = [cursor EXCEPT ![type] = @ + 1]
      /\ served' = [served EXCEPT ![type] = Append(@, w)]
      /\ UNCHANGED <<mode, agentCalls, buffer, execs, tools, now, steps, faithful>>
    BY DEF Sandbox!Serve
<1>2. /\ cursor \in [StepTypes -> Nat] /\ served \in [StepTypes -> Seq(Nat)]
      /\ \A t \in StepTypes : Len(served[t]) = cursor[t]
      /\ steps \in Seq(Step)
    BY <1>1 DEF ReplayInv
<1>3. w \in Nat
    <2>1. PICK N \in Nat : Len(Sandbox!StepsOf(type)) = N /\ DOMAIN Sandbox!StepsOf(type) = 1 .. N
                           /\ \A k \in 1 .. N : Sandbox!StepsOf(type)[k] \in Step
        BY <1>2, StepsOfTyped
    <2>2. cursor[type] + 1 \in 1 .. N
        BY <1>1, <1>2, <2>1
    <2>3. Sandbox!StepsOf(type)[cursor[type] + 1] \in Step
        BY <2>1, <2>2
    <2> QED BY <2>3 DEF Step
<1> HIDE DEF w
<1>4. /\ cursor' \in [StepTypes -> Nat] /\ served' \in [StepTypes -> Seq(Nat)]
      /\ cursor'[type] = cursor[type] + 1 /\ served'[type] = Append(served[type], w)
      /\ \A t \in StepTypes : t # type => cursor'[t] = cursor[t] /\ served'[t] = served[t]
    BY <1>1, <1>2, <1>3
<1>5. ASSUME NEW t \in StepTypes PROVE Len(served'[t]) = cursor'[t]
    <2>1. PICK s \in Seq(Nat) : s = served[type] /\ Len(s) = cursor[type]
        BY <1>2
    <2>2. Len(Append(s, w)) = Len(s) + 1
        BY <1>3, <2>1
    <2>3. served'[type] = Append(s, w)
        BY <1>4, <2>1
    <2> QED BY <1>2, <1>4, <2>1, <2>2, <2>3
<1>6. \A t \in StepTypes : Sandbox!StepsOf(t)' = Sandbox!StepsOf(t)
    BY <1>1 DEF Sandbox!StepsOf
<1>7. ASSUME faithful PROVE Faithful'
    <2>1. Faithful
        BY <1>1, <1>7 DEF ReplayInv
    <2>2. PICK c \in Nat : c = cursor[type]
        BY <1>2
    <2>3. served[type] = [k \in 1 .. c |-> k] /\ w = c + 1
        <3>1. PICK N \in Nat : Len(Sandbox!StepsOf(type)) = N
            BY <1>2, StepsOfTyped
        <3>2. \A k \in 1 .. N : Sandbox!StepsOf(type)[k].what = k
            BY <2>1, <3>1 DEF Faithful
        <3>3. c + 1 \in 1 .. N
            BY <1>1, <2>2, <3>1
        <3> QED BY <2>1, <2>2, <3>2, <3>3 DEF Faithful, w
    <2>4. Append([k \in 1 .. c |-> k], c + 1) = [k \in 1 .. c + 1 |-> k]
        OBVIOUS
    <2>5. \A t \in StepTypes : served'[t] = [k \in 1 .. cursor'[t] |-> k]
        BY <1>4, <2>1, <2>2, <2>3, <2>4 DEF Faithful
    <2> QED BY <1>1, <1>6, <2>1, <2>5 DEF Faithful
<1>8. ReplayTyped'
    BY <1>1 DEF ReplayInv, ReplayTyped, Recorded
<1>9. faithful => CallsAligned' /\ ToolsAligned' /\ Len(buffer) = Len(agentCalls) /\ Len(execs) = Len(tools)
    BY <1>1 DEF ReplayInv, CallsAligned, ToolsAligned
<1> HIDE DEF Faithful
<1> QED BY <1>1, <1>2, <1>4, <1>5, <1>7, <1>8, <1>9 DEF ReplayInv

LEMMA StepReplay == ReplayInv /\ [Sandbox!SandboxNext]_sandboxState => ReplayInv'
<1> SUFFICES ASSUME ReplayInv, [Sandbox!SandboxNext]_sandboxState PROVE ReplayInv'
    OBVIOUS
<1>1. CASE UNCHANGED sandboxState
    <2>1. ReplayTyped'
        BY <1>1 DEF ReplayInv, ReplayTyped, Recorded, sandboxState
    <2>2. faithful' => CallsAligned' /\ ToolsAligned'
        BY <1>1 DEF ReplayInv, CallsAligned, ToolsAligned, sandboxState
    <2> QED BY <1>1, <2>1, <2>2, LiveStep DEF sandboxState
<1>2. CASE \E method \in Sandbox!Methods : Sandbox!Call(method)
    BY <1>2, CallKeepsReplay
<1>3. CASE \E i \in DOMAIN agentCalls, kind \in {"content", "tool_calls"} : Sandbox!ModelAnswers(i, kind)
    BY <1>3, AnswerKeepsReplay
<1>4. CASE Sandbox!Execute
    BY <1>4, ExecuteKeepsReplay
<1>5. CASE \E i \in DOMAIN tools : Sandbox!Executed(i)
    BY <1>5, ExecutedKeepsReplay
<1>6. CASE \/ \E i \in DOMAIN agentCalls : Sandbox!ModelFails(i)
           \/ \E i \in DOMAIN tools : Sandbox!ToolThrows(i)
           \/ Sandbox!Tick
    BY <1>6, OtherKeepsReplay
<1>7. CASE Sandbox!Build
    BY <1>7, BuildKeepsReplay
<1>8. CASE Sandbox!ReplayModel \/ Sandbox!ReplayTool
    BY <1>8, ServeKeepsReplay DEF Sandbox!ReplayModel, Sandbox!ReplayTool, StepTypes
<1> QED BY <1>1, <1>2, <1>3, <1>4, <1>5, <1>6, <1>7, <1>8 DEF Sandbox!SandboxNext

\* The replay of a recording whose calls neither overlapped nor failed gives the k-th call the
\* response of the live run's k-th call (src/src/ai/sandbox).
THEOREM ReplaysAreFaithful == Spec => []ReplayIsFaithful
<1>1. Init => ReplayInv
    BY InitReplay DEF Init
<1>2. ReplayInv /\ [Next]_vars => ReplayInv'
    BY ComponentSteps, StepReplay
<1>3. ReplayInv => ReplayIsFaithful
    BY DEF ReplayInv, Faithful, StepTypes, ReplayIsFaithful, Sandbox!ReplayIsFaithful
<1> QED BY <1>1, <1>2, <1>3, PTL DEF Spec

-----------------------------------------------------------------------------
(* Capabilities: the evidence, and how far contents stay apart.             *)

Store == UNION {[D -> Capable!Capability] : D \in SUBSET Ids}
Busy == [at : {"decide", "noop", "add", "strengthen", "revise"}, text : Contents, scope : Scopes,
         source : Capable!Sources, similar : Store, target : Ids \cup {"none"}]

\* A call holds ids of capabilities that are stored, and the evidence is accounted for.
EvidenceInv ==
    /\ caps \in Store /\ overwritten \in BOOLEAN /\ strengthened \in [Ids -> Nat]
    /\ observations \in [Callers -> {Capable!Idle} \cup Busy]
    /\ \A o \in Callers : observations[o].at = "decide" => DOMAIN observations[o].similar \subseteq DOMAIN caps
    /\ \A o \in Callers : observations[o].at \in {"strengthen", "revise"} => observations[o].target \in DOMAIN caps
    /\ Capable!EvidenceAccounted

\* What a store is.
LEMMA Stored ==
    ASSUME NEW C
    PROVE  C \in Store <=> /\ C = [id \in DOMAIN C |-> C[id]] /\ DOMAIN C \subseteq Ids
                           /\ \A id \in DOMAIN C : C[id] \in Capable!Capability
BY DEF Store

LEMMA InitEvidence == Init => EvidenceInv
<1> SUFFICES ASSUME Capable!CapabilitiesInit PROVE EvidenceInv
    BY DEF Init
<1>1. caps = << >> /\ DOMAIN caps = {} /\ caps = [id \in DOMAIN caps |-> caps[id]]
    BY DEF Capable!CapabilitiesInit
<1>2. caps \in Store
    BY <1>1, Stored
<1>3. Capable!EvidenceAccounted
    BY <1>1 DEF Capable!EvidenceAccounted, Capable!CapabilitiesInit
<1> QED BY <1>2, <1>3 DEF EvidenceInv, Capable!CapabilitiesInit, Capable!Idle

\* The call of one caller ends or changes, and the capabilities stored may grow.
LEMMA OtherCall ==
    ASSUME EvidenceInv, NEW o \in Callers, NEW q \in {Capable!Idle} \cup Busy, observations' = [observations EXCEPT ![o] = q],
           DOMAIN caps \subseteq DOMAIN caps', q.at = "decide" => DOMAIN q.similar \subseteq DOMAIN caps',
           q.at \in {"strengthen", "revise"} => q.target \in DOMAIN caps'
    PROVE  /\ observations' \in [Callers -> {Capable!Idle} \cup Busy] /\ observations'[o] = q
           /\ \A p \in Callers : p # o => observations'[p] = observations[p]
           /\ \A p \in Callers : observations'[p].at = "decide" => DOMAIN observations'[p].similar \subseteq DOMAIN caps'
           /\ \A p \in Callers : observations'[p].at \in {"strengthen", "revise"} => observations'[p].target \in DOMAIN caps'
<1>1. /\ observations' \in [Callers -> {Capable!Idle} \cup Busy] /\ observations'[o] = q
      /\ \A p \in Callers : p # o => observations'[p] = observations[p]
    BY DEF EvidenceInv
<1> QED BY <1>1 DEF EvidenceInv

\* Evidence and maturity of one capability.
Mature(c) ==
    ~c.byHand => c.maturity = CASE c.evidence < 2 -> "observed"
                                [] c.evidence \in 2 .. 3 -> "recurring"
                                [] OTHER -> "reliable"

LEMMA PromotedIsMature ==
    ASSUME NEW c \in Capable!Capability
    PROVE  LET d == Capable!AutoPromote([c EXCEPT !.evidence = @ + 1])
           IN  /\ d \in Capable!Capability /\ (Mature(c) => Mature(d)) /\ d.evidence = c.evidence + 1 /\ d.content = c.content
               /\ d.scope = c.scope /\ d.retired = c.retired /\ d.source = c.source
<1>1. PICK e : e = [c EXCEPT !.evidence = c.evidence + 1]
    OBVIOUS
<1>2. /\ e \in Capable!Capability /\ e.evidence = c.evidence + 1 /\ e.maturity = c.maturity /\ e.byHand = c.byHand
      /\ e.content = c.content /\ e.scope = c.scope /\ e.retired = c.retired /\ e.source = c.source
    BY <1>1 DEF Capable!Capability
<1>3. PICK d : d = Capable!AutoPromote(e)
    OBVIOUS
<1>4. \E m \in {"recurring", "reliable"} : d = [e EXCEPT !.maturity = m] \/ d = e
    BY <1>3 DEF Capable!AutoPromote
<1>5. /\ d \in Capable!Capability /\ d.evidence = e.evidence /\ d.byHand = e.byHand
      /\ d.content = e.content /\ d.scope = e.scope /\ d.retired = e.retired /\ d.source = e.source
    BY <1>2, <1>4 DEF Capable!Capability, Capable!Maturities
<1>6. c.evidence \in Nat
    BY DEF Capable!Capability
<1>7. d.maturity = CASE c.maturity = "observed" /\ e.evidence >= 2  -> "recurring"
                     [] c.maturity = "recurring" /\ e.evidence >= 4 -> "reliable"
                     [] OTHER -> c.maturity
    BY <1>2, <1>3 DEF Capable!AutoPromote, Capable!Capability
<1>8. Mature(c) => Mature(d)
    <2> SUFFICES ASSUME Mature(c), ~c.byHand
                 PROVE  d.maturity = CASE c.evidence + 1 < 2 -> "observed"
                                       [] c.evidence + 1 \in 2 .. 3 -> "recurring"
                                       [] OTHER -> "reliable"
        BY <1>2, <1>5 DEF Mature
    <2>1. c.maturity = CASE c.evidence < 2 -> "observed" [] c.evidence \in 2 .. 3 -> "recurring" [] OTHER -> "reliable"
        BY DEF Mature
    <2> QED BY <1>2, <1>6, <1>7, <2>1
<1>9. Capable!AutoPromote([c EXCEPT !.evidence = @ + 1]) = d
    BY <1>1, <1>3
<1> QED BY <1>2, <1>5, <1>8, <1>9

\* One capability is replaced, its evidence by what was reported.
LEMMA ReplacedIsAccounted ==
    ASSUME EvidenceInv, NEW id \in DOMAIN caps, NEW c \in Capable!Capability, caps' = [caps EXCEPT ![id] = c],
           Mature(caps[id]) => Mature(c), overwritten' = overwritten,
           \/ c.evidence = caps[id].evidence /\ strengthened' = strengthened
           \/ c.evidence = caps[id].evidence + 1 /\ strengthened' = [strengthened EXCEPT ![id] = @ + 1]
    PROVE  /\ caps' \in Store /\ DOMAIN caps' = DOMAIN caps /\ strengthened' \in [Ids -> Nat] /\ Capable!EvidenceAccounted'
           /\ caps'[id] = c /\ \A k \in DOMAIN caps : k # id => caps'[k] = caps[k]
<1>1. /\ caps = [k \in DOMAIN caps |-> caps[k]] /\ DOMAIN caps \subseteq Ids
      /\ \A k \in DOMAIN caps : caps[k] \in Capable!Capability
    BY Stored DEF EvidenceInv
<1>2. /\ DOMAIN caps' = DOMAIN caps /\ caps'[id] = c /\ caps' = [k \in DOMAIN caps' |-> caps'[k]]
      /\ \A k \in DOMAIN caps : k # id => caps'[k] = caps[k]
    BY <1>1
<1>3. caps' \in Store
    BY <1>1, <1>2, Stored
<1>4. id \in Ids /\ strengthened \in [Ids -> Nat] /\ strengthened' \in [Ids -> Nat]
    BY <1>1 DEF EvidenceInv
<1>5. ASSUME ~overwritten
      PROVE  /\ \A k \in Ids : strengthened'[k] = IF k \in DOMAIN caps' THEN caps'[k].evidence ELSE 0
             /\ \A k \in DOMAIN caps' : Mature(caps'[k])
    <2>1. \A k \in Ids : strengthened[k] = IF k \in DOMAIN caps THEN caps[k].evidence ELSE 0
        BY <1>5 DEF EvidenceInv, Capable!EvidenceAccounted
    <2>2. \A k \in DOMAIN caps : Mature(caps[k])
        BY <1>5 DEF EvidenceInv, Capable!EvidenceAccounted, Mature
    <2>3. strengthened'[id] = c.evidence
        BY <1>4, <2>1
    <2>4. \A k \in Ids : k # id => strengthened'[k] = strengthened[k]
        BY <1>4
    <2> QED BY <1>2, <2>1, <2>2, <2>3, <2>4
<1>6. Capable!EvidenceAccounted'
    BY <1>5 DEF Capable!EvidenceAccounted, Mature
<1> QED BY <1>2, <1>3, <1>4, <1>6

\* processObservation up to its first await.
LEMMA ObserveCalls ==
    ASSUME EvidenceInv, NEW o \in Callers, NEW text \in Contents, NEW scope \in Scopes, NEW source \in Capable!Sources,
           Capable!Observe(o, text, scope, source)
    PROVE  EvidenceInv' /\ \E q \in Busy :
              /\ observations' = [observations EXCEPT ![o] = q] /\ q.at = "decide" /\ q.text = text /\ q.scope = scope
              /\ DOMAIN q.similar = Capable!FindSimilar(text, scope)
              /\ \A id \in DOMAIN q.similar : q.similar[id] = caps[id]
              /\ observations[o] = Capable!Idle /\ UNCHANGED caps
              /\ overlapped' = (overlapped \/ \E p \in Callers : observations[p] # Capable!Idle)
<1>1. PICK sim : sim = Capable!Restrict(caps, Capable!FindSimilar(text, scope))
    OBVIOUS
<1>2. Capable!FindSimilar(text, scope) \subseteq DOMAIN caps
    BY DEF Capable!FindSimilar
<1>3. DOMAIN sim = Capable!FindSimilar(text, scope) /\ (\A id \in DOMAIN sim : sim[id] = caps[id]) /\ sim = [id \in DOMAIN sim |-> sim[id]]
    BY <1>1 DEF Capable!Restrict
<1>4. sim \in Store
    BY <1>2, <1>3, Stored DEF EvidenceInv
<1>5. PICK q : q = [at |-> "decide", text |-> text, scope |-> scope, source |-> source, similar |-> sim, target |-> "none"]
    OBVIOUS
<1>6. q \in Busy /\ q.at = "decide" /\ q.text = text /\ q.scope = scope /\ q.similar = sim
    BY <1>4, <1>5 DEF Busy
<1>7. /\ observations' = [observations EXCEPT ![o] = q] /\ observations[o] = Capable!Idle
      /\ overlapped' = (overlapped \/ \E p \in Callers : observations[p] # Capable!Idle)
      /\ UNCHANGED <<caps, strengthened, overwritten>>
    BY <1>1, <1>5 DEF Capable!Observe
<1>8. EvidenceInv'
    <2>1. Capable!EvidenceAccounted'
        BY <1>7 DEF EvidenceInv, Capable!EvidenceAccounted
    <2>2. q.at = "decide" => DOMAIN q.similar \subseteq DOMAIN caps'
        BY <1>2, <1>3, <1>6, <1>7
    <2>3. /\ observations' \in [Callers -> {Capable!Idle} \cup Busy]
          /\ \A p \in Callers : observations'[p].at = "decide" => DOMAIN observations'[p].similar \subseteq DOMAIN caps'
          /\ \A p \in Callers : observations'[p].at \in {"strengthen", "revise"} => observations'[p].target \in DOMAIN caps'
        BY <1>6, <1>7, <2>2, OtherCall
    <2> QED BY <1>7, <2>1, <2>3 DEF EvidenceInv
<1> QED BY <1>3, <1>6, <1>7, <1>8

\* The call of a caller after decide: to add, or the verdict on one that is likeliest.
Decided(q, r) ==
    /\ r \in Busy /\ r.text = q.text /\ r.scope = q.scope
    /\ \/ DOMAIN q.similar = {} /\ r.at = "add"
       \/ /\ r.target \in Capable!Top(q.text, q.similar) /\ r.at = Capable!Verdict(q.text, q.similar[r.target])

LEMMA DecideCalls ==
    ASSUME EvidenceInv, NEW o \in Callers, Capable!Decide(o)
    PROVE  /\ EvidenceInv' /\ UNCHANGED <<caps, overlapped>> /\ observations[o] \in Busy /\ observations[o].at = "decide"
           /\ \E r : Decided(observations[o], r) /\ observations' = [observations EXCEPT ![o] = r]
<1>1. PICK q : q = observations[o]
    OBVIOUS
<1>2. q.at = "decide" /\ UNCHANGED <<caps, overlapped, strengthened, overwritten>>
    BY <1>1 DEF Capable!Decide
<1>3. q \in Busy
    BY <1>1, <1>2 DEF EvidenceInv, Capable!Idle
<1>4. DOMAIN q.similar \subseteq DOMAIN caps /\ DOMAIN q.similar \subseteq Ids
    BY <1>1, <1>2, Stored DEF EvidenceInv
<1>5. \E r : /\ Decided(q, r) /\ observations' = [observations EXCEPT ![o] = r]
             /\ r.at \in {"strengthen", "revise"} => r.target \in DOMAIN caps
             /\ r.at # "decide"
    <2>1. CASE DOMAIN q.similar = {} /\ observations' = [observations EXCEPT ![o].at = "add"]
        <3>1. PICK r : r = [q EXCEPT !.at = "add"]
            OBVIOUS
        <3>2. r \in Busy /\ r.text = q.text /\ r.scope = q.scope /\ r.at = "add"
            BY <1>3, <3>1 DEF Busy
        <3>3. observations' = [observations EXCEPT ![o] = r]
            BY <1>1, <2>1, <3>1
        <3> QED BY <2>1, <3>2, <3>3 DEF Decided
    <2>2. ASSUME NEW id \in Capable!Top(q.text, q.similar),
                 observations' = [observations EXCEPT ![o].at = Capable!Verdict(q.text, q.similar[id]), ![o].target = id]
          PROVE  \E r : /\ Decided(q, r) /\ observations' = [observations EXCEPT ![o] = r]
                        /\ r.at \in {"strengthen", "revise"} => r.target \in DOMAIN caps
                        /\ r.at # "decide"
        <3>1. PICK v : v = Capable!Verdict(q.text, q.similar[id])
            OBVIOUS
        <3>2. v \in {"strengthen", "noop", "revise", "add"}
            BY <3>1 DEF Capable!Verdict
        <3>3. id \in DOMAIN q.similar
            BY DEF Capable!Top
        <3>4. PICK r : r = [q EXCEPT !.at = v, !.target = id]
            OBVIOUS
        <3>5. r \in Busy /\ r.text = q.text /\ r.scope = q.scope /\ r.at = v /\ r.target = id
            BY <1>3, <1>4, <3>2, <3>3, <3>4, ZenonT(40) DEF Busy
        <3>6. observations' = [observations EXCEPT ![o] = r]
            BY <1>1, <2>2, <3>1, <3>4 DEF EvidenceInv
        <3> QED BY <1>4, <3>1, <3>2, <3>3, <3>5, <3>6 DEF Decided
    <2> QED BY <1>1, <2>1, <2>2 DEF Capable!Decide
<1>6. PICK r : /\ Decided(q, r) /\ observations' = [observations EXCEPT ![o] = r]
               /\ r.at \in {"strengthen", "revise"} => r.target \in DOMAIN caps
               /\ r.at # "decide"
    BY <1>5
<1>7. EvidenceInv'
    <2>1. Capable!EvidenceAccounted'
        BY <1>2 DEF EvidenceInv, Capable!EvidenceAccounted
    <2>2. r \in {Capable!Idle} \cup Busy
        BY <1>6 DEF Decided
    <2>3. /\ observations' \in [Callers -> {Capable!Idle} \cup Busy]
          /\ \A p \in Callers : observations'[p].at = "decide" => DOMAIN observations'[p].similar \subseteq DOMAIN caps'
          /\ \A p \in Callers : observations'[p].at \in {"strengthen", "revise"} => observations'[p].target \in DOMAIN caps'
        BY <1>2, <1>6, <2>2, OtherCall
    <2> QED BY <1>2, <2>1, <2>3 DEF EvidenceInv
<1> QED BY <1>1, <1>2, <1>3, <1>6, <1>7

\* A call ends.
LEMMA FinishCalls ==
    ASSUME EvidenceInv, NEW o \in Callers, Capable!Finish(o), DOMAIN caps \subseteq DOMAIN caps',
           caps' \in Store, overwritten' \in BOOLEAN, strengthened' \in [Ids -> Nat], Capable!EvidenceAccounted'
    PROVE  EvidenceInv' /\ observations' = [observations EXCEPT ![o] = Capable!Idle]
<1>1. observations' = [observations EXCEPT ![o] = Capable!Idle] /\ Capable!Idle.at = "idle"
    BY DEF Capable!Finish, Capable!Idle
<1>2. /\ observations' \in [Callers -> {Capable!Idle} \cup Busy]
      /\ \A p \in Callers : observations'[p].at = "decide" => DOMAIN observations'[p].similar \subseteq DOMAIN caps'
      /\ \A p \in Callers : observations'[p].at \in {"strengthen", "revise"} => observations'[p].target \in DOMAIN caps'
    BY <1>1, OtherCall
<1> QED BY <1>1, <1>2 DEF EvidenceInv

\* save: a new capability under a drawn id.
LEMMA AddCalls ==
    ASSUME EvidenceInv, NEW o \in Callers, Capable!Add(o)
    PROVE  EvidenceInv' /\ \E id \in Ids :
              /\ observations[o] \in Busy /\ observations[o].at = "add"
              /\ observations' = [observations EXCEPT ![o] = Capable!Idle] /\ UNCHANGED overlapped
              /\ DOMAIN caps' = DOMAIN caps \cup {id}
              /\ caps'[id].scope = observations[o].scope /\ caps'[id].content = observations[o].text
              /\ \A k \in DOMAIN caps : k # id => caps'[k] = caps[k]
<1>1. PICK q : q = observations[o]
    OBVIOUS
<1>2. PICK id, c :
         /\ id \in Ids
         /\ c = [scope |-> q.scope, content |-> q.text, source |-> q.source,
                 maturity |-> "observed", evidence |-> 0, retired |-> FALSE, byHand |-> FALSE]
         /\ caps' = [k \in DOMAIN caps \cup {id} |-> IF k = id THEN c ELSE caps[k]]
         /\ overwritten' = (overwritten \/ id \in DOMAIN caps)
         /\ q.at = "add" /\ Capable!Finish(o) /\ UNCHANGED <<strengthened, overlapped>>
    BY <1>1 DEF Capable!Add
<1>3. q \in Busy
    BY <1>1, <1>2 DEF EvidenceInv, Capable!Idle
<1>4. c \in Capable!Capability /\ Mature(c) /\ c.scope = q.scope /\ c.content = q.text /\ c.evidence = 0
    BY <1>2, <1>3 DEF Busy, Capable!Capability, Capable!Maturities, Mature
<1>5. /\ DOMAIN caps' = DOMAIN caps \cup {id} /\ caps'[id] = c /\ caps' = [k \in DOMAIN caps' |-> caps'[k]]
      /\ \A k \in DOMAIN caps : k # id => caps'[k] = caps[k]
    BY <1>2
<1>6. caps \in Store /\ overwritten \in BOOLEAN /\ strengthened \in [Ids -> Nat] /\ id \in Ids
    BY <1>2 DEF EvidenceInv
<1>7. caps' \in Store
    BY <1>4, <1>5, <1>6, Stored
<1>8. overwritten' \in BOOLEAN
    BY <1>2, <1>6, Zenon
<1>9. ASSUME ~overwritten'
      PROVE  /\ \A k \in Ids : strengthened'[k] = IF k \in DOMAIN caps' THEN caps'[k].evidence ELSE 0
             /\ \A k \in DOMAIN caps' : Mature(caps'[k])
    <2>1. ~overwritten /\ id \notin DOMAIN caps
        BY <1>2, <1>9, Zenon
    <2>2. \A k \in Ids : strengthened[k] = IF k \in DOMAIN caps THEN caps[k].evidence ELSE 0
        BY <2>1 DEF EvidenceInv, Capable!EvidenceAccounted
    <2>3. \A k \in DOMAIN caps : Mature(caps[k])
        BY <2>1 DEF EvidenceInv, Capable!EvidenceAccounted, Mature
    <2> QED BY <1>2, <1>4, <1>5, <2>1, <2>2, <2>3
<1>10. Capable!EvidenceAccounted'
    BY <1>9 DEF Capable!EvidenceAccounted, Mature
<1>11. EvidenceInv' /\ observations' = [observations EXCEPT ![o] = Capable!Idle]
    <2>1. DOMAIN caps \subseteq DOMAIN caps' /\ Capable!Finish(o) /\ strengthened' \in [Ids -> Nat]
        BY <1>2, <1>5, <1>6
    <2> QED BY <1>7, <1>8, <1>10, <2>1, FinishCalls
<1> QED BY <1>1, <1>2, <1>3, <1>4, <1>5, <1>11

\* strengthen and revise change one stored capability: strengthen leaves its content, revise
\* its rest.
Updates(o, id, c) ==
    /\ id = observations[o].target /\ id \in DOMAIN caps /\ DOMAIN caps' = DOMAIN caps /\ caps'[id] = c
    /\ \A k \in DOMAIN caps : k # id => caps'[k] = caps[k]
    /\ c.scope = caps[id].scope /\ c.retired = caps[id].retired
    /\ observations[o].at = "strengthen" => c.content = caps[id].content
    /\ observations[o].at = "revise" => c.content \in {caps[id].content, observations[o].text}

LEMMA UpdateCalls ==
    ASSUME EvidenceInv, NEW o \in Callers, Capable!Strengthen(o) \/ Capable!Revise(o)
    PROVE  /\ EvidenceInv' /\ UNCHANGED overlapped /\ observations[o] \in Busy /\ observations[o].at \in {"strengthen", "revise"}
           /\ observations' = [observations EXCEPT ![o] = Capable!Idle]
           /\ \E id, c : Updates(o, id, c)
<1>1. PICK q, id : q = observations[o] /\ id = q.target
    OBVIOUS
<1>2. q.at \in {"strengthen", "revise"} /\ UNCHANGED <<overlapped, overwritten>> /\ Capable!Finish(o)
    BY <1>1 DEF Capable!Strengthen, Capable!Revise
<1>3. q \in Busy
    BY <1>1, <1>2 DEF EvidenceInv, Capable!Idle
<1>4. id \in DOMAIN caps /\ caps \in Store /\ overwritten \in BOOLEAN
    BY <1>1, <1>2 DEF EvidenceInv
<1>5. caps[id] \in Capable!Capability /\ caps = [k \in DOMAIN caps |-> caps[k]]
    BY <1>4, Stored
<1>6. CASE q.at = "strengthen"
    <2>1. PICK d : d = Capable!AutoPromote([caps[id] EXCEPT !.evidence = @ + 1])
        OBVIOUS
    <2>2. /\ d \in Capable!Capability /\ d.evidence = caps[id].evidence + 1 /\ d.content = caps[id].content
          /\ d.scope = caps[id].scope /\ d.retired = caps[id].retired /\ (Mature(caps[id]) => Mature(d))
        BY <1>5, <2>1, PromotedIsMature
    <2>3. caps' = [caps EXCEPT ![id] = d] /\ strengthened' = [strengthened EXCEPT ![id] = @ + 1]
        BY <1>1, <1>6, <2>1 DEF Capable!Strengthen, Capable!Revise, Capable!Current
    <2>4. /\ caps' \in Store /\ DOMAIN caps' = DOMAIN caps /\ strengthened' \in [Ids -> Nat] /\ Capable!EvidenceAccounted'
          /\ caps'[id] = d /\ \A k \in DOMAIN caps : k # id => caps'[k] = caps[k]
        BY <1>2, <1>4, <2>2, <2>3, ReplacedIsAccounted
    <2>5. EvidenceInv' /\ observations' = [observations EXCEPT ![o] = Capable!Idle]
        BY <1>2, <1>4, <2>4, FinishCalls
    <2>6. Updates(o, id, d)
        BY <1>1, <1>4, <1>6, <2>2, <2>4 DEF Updates
    <2> QED BY <1>1, <1>2, <1>3, <2>5, <2>6
<1>7. CASE q.at = "revise"
    <2>1. PICK d : /\ d = caps[id] \/ d = [caps[id] EXCEPT !.content = q.text]
                   /\ caps' = [caps EXCEPT ![id] = d] /\ UNCHANGED strengthened
        BY <1>1, <1>5, <1>7 DEF Capable!Strengthen, Capable!Revise, Capable!Current
    <2>2. /\ d \in Capable!Capability /\ d.evidence = caps[id].evidence /\ d.content \in {caps[id].content, q.text}
          /\ d.scope = caps[id].scope /\ d.retired = caps[id].retired /\ d.byHand = caps[id].byHand
          /\ d.maturity = caps[id].maturity
        BY <1>3, <1>5, <2>1 DEF Busy, Capable!Capability
    <2>3. Mature(caps[id]) => Mature(d)
        BY <2>2 DEF Mature
    <2>4. /\ caps' \in Store /\ DOMAIN caps' = DOMAIN caps /\ strengthened' \in [Ids -> Nat] /\ Capable!EvidenceAccounted'
          /\ caps'[id] = d /\ \A k \in DOMAIN caps : k # id => caps'[k] = caps[k]
        BY <1>2, <1>4, <2>1, <2>2, <2>3, ReplacedIsAccounted
    <2>5. EvidenceInv' /\ observations' = [observations EXCEPT ![o] = Capable!Idle]
        BY <1>2, <1>4, <2>4, FinishCalls
    <2>6. Updates(o, id, d)
        BY <1>1, <1>4, <1>7, <2>2, <2>4 DEF Updates
    <2> QED BY <1>1, <1>2, <1>3, <2>5, <2>6
<1> QED BY <1>2, <1>6, <1>7

\* promote and retire: contents and scopes stay, and what is retired stays so.
Fades ==
    /\ DOMAIN caps' = DOMAIN caps
    /\ \A k \in DOMAIN caps : /\ caps'[k].scope = caps[k].scope /\ caps'[k].content = caps[k].content
                              /\ caps[k].retired => caps'[k].retired

LEMMA EditCalls ==
    ASSUME EvidenceInv, NEW id \in DOMAIN caps, NEW to \in Capable!Maturities, Capable!Retire(id) \/ Capable!Promote(id, to)
    PROVE  EvidenceInv' /\ Fades /\ UNCHANGED <<observations, overlapped>>
<1>1. caps[id] \in Capable!Capability
    BY Stored DEF EvidenceInv
<1>2. PICK d : /\ d = [caps[id] EXCEPT !.retired = TRUE] \/ d = [caps[id] EXCEPT !.maturity = to, !.byHand = TRUE]
               /\ caps' = [caps EXCEPT ![id] = d] /\ UNCHANGED <<strengthened, overwritten, observations, overlapped>>
    BY DEF Capable!Retire, Capable!Promote, Capable!Edit
<1>3. /\ d \in Capable!Capability /\ d.evidence = caps[id].evidence /\ d.content = caps[id].content
      /\ d.scope = caps[id].scope
    BY <1>1, <1>2 DEF Capable!Capability
<1>4. caps[id].retired => d.retired
    BY <1>1, <1>2 DEF Capable!Capability
<1>5. Mature(caps[id]) => Mature(d)
    <2>1. CASE d = [caps[id] EXCEPT !.retired = TRUE]
        <3>1. d.evidence = caps[id].evidence /\ d.maturity = caps[id].maturity /\ d.byHand = caps[id].byHand
            BY <1>1, <2>1 DEF Capable!Capability
        <3> QED BY <3>1 DEF Mature
    <2>2. CASE d = [caps[id] EXCEPT !.maturity = to, !.byHand = TRUE]
        <3>1. d.byHand = TRUE
            BY <1>1, <2>2 DEF Capable!Capability
        <3> QED BY <3>1 DEF Mature
    <2> QED BY <1>2, <2>1, <2>2
<1>6. /\ caps' \in Store /\ DOMAIN caps' = DOMAIN caps /\ strengthened' \in [Ids -> Nat] /\ Capable!EvidenceAccounted'
      /\ caps'[id] = d /\ \A k \in DOMAIN caps : k # id => caps'[k] = caps[k]
    BY <1>2, <1>3, <1>5, ReplacedIsAccounted
<1>7. Fades
    BY <1>3, <1>4, <1>6 DEF Fades
<1> QED BY <1>2, <1>6, <1>7 DEF EvidenceInv

-----------------------------------------------------------------------------
(* Capabilities: near duplicates.                                           *)

LEMMA WordsCounted ==
    ASSUME NEW a \in Contents, NEW b \in Contents
    PROVE  /\ Capable!Shared(a, b) \in Nat /\ Capable!AllWords(a, b) \in Nat
           /\ Capable!Shared(a, b) = Capable!Shared(b, a) /\ Capable!AllWords(a, b) = Capable!AllWords(b, a)
           /\ Capable!Shared(a, b) > 0 => Capable!AllWords(a, b) > 0
<1>1. IsFiniteSet(a) /\ IsFiniteSet(b)
    BY WordAssumption
<1>2. IsFiniteSet(a \cap b) /\ IsFiniteSet(a \cup b)
    BY <1>1, FS_Intersection, FS_Union
<1>3. Cardinality(a \cap b) \in Nat /\ Cardinality(a \cup b) \in Nat /\ Cardinality(a \cap b) <= Cardinality(a \cup b)
    BY <1>2, FS_CardinalityType, FS_Subset
<1>4. \A x : Capable!Cardinality(x) = Cardinality(x)
    BY DEF Capable!Cardinality, Cardinality
<1>5. a \cap b = b \cap a /\ a \cup b = b \cup a
    OBVIOUS
<1> QED BY <1>3, <1>4, <1>5 DEF Capable!Shared, Capable!AllWords

\* Half alike is a symmetric relation.
LEMMA AlikeBothWays ==
    ASSUME NEW a \in Contents, NEW b \in Contents
    PROVE  Capable!AtLeast(a, b, 1, 2) <=> Capable!AtLeast(b, a, 1, 2)
BY WordsCounted DEF Capable!AtLeast

\* A fraction that is at most another one below a half is below a half.
LEMMA BelowHalf ==
    ASSUME NEW s \in Nat, NEW a \in Nat, NEW u \in Nat, NEW b \in Nat, a > 0, 2 * s < a, s * b >= u * a
    PROVE  ~(b > 0 /\ 2 * u >= b)
<1> SUFFICES ASSUME b > 0, 2 * u >= b PROVE FALSE
    OBVIOUS
<1>1. (2 * u) * a >= b * a
    OBVIOUS
<1>2. (2 * s) * b < a * b
    OBVIOUS
<1>3. (2 * u) * a = 2 * (u * a) /\ (2 * s) * b = 2 * (s * b) /\ a * b = b * a
    OBVIOUS
<1>4. u * a \in Nat /\ s * b \in Nat /\ a * b \in Nat
    OBVIOUS
<1> QED BY <1>1, <1>2, <1>3, <1>4

\* What a call found is what is stored, and nothing alike is missing.
Fresh(q) ==
    /\ \A id \in DOMAIN q.similar : /\ id \in DOMAIN caps /\ q.similar[id].content = caps[id].content
                                    /\ caps[id].scope = q.scope /\ Capable!Shared(q.text, caps[id].content) > 0
    /\ \A id \in DOMAIN caps : /\ caps[id].scope = q.scope /\ ~caps[id].retired
                               /\ Capable!Shared(q.text, caps[id].content) > 0
                               => id \in DOMAIN q.similar

\* Nothing valid in the scope of a call is half like its text.
Apart(q) ==
    \A id \in DOMAIN caps : caps[id].scope = q.scope /\ ~caps[id].retired => ~Capable!AtLeast(q.text, caps[id].content, 1, 2)

\* What a call that is under way alone knows of the store.
Knows(q) ==
    /\ q.at = "decide" => Fresh(q)
    /\ q.at \in {"add", "revise"} => Apart(q)
    /\ q.at = "revise" => caps[q.target].scope = q.scope

\* As long as no two calls overlap, the one under way knows the store.
ApartInv ==
    /\ EvidenceInv /\ overlapped \in BOOLEAN
    /\ ~overlapped => /\ \A o, p \in Callers : observations[o].at # "idle" /\ observations[p].at # "idle" => o = p
                      /\ \A o \in Callers : Knows(observations[o])
                      /\ Capable!NoNearDuplicates

LEMMA InitApart == Init => ApartInv
<1> SUFFICES ASSUME Init PROVE ApartInv
    OBVIOUS
<1>1. caps = << >> /\ DOMAIN caps = {} /\ overlapped = FALSE /\ \A o \in Callers : observations[o] = Capable!Idle
    BY DEF Init, Capable!CapabilitiesInit
<1>2. Capable!Idle.at = "idle"
    BY DEF Capable!Idle
<1> QED BY <1>1, <1>2, InitEvidence DEF ApartInv, Knows, Capable!NoNearDuplicates

\* A call is idle, or not.
LEMMA IdleOrBusy ==
    ASSUME EvidenceInv, NEW o \in Callers
    PROVE  observations[o].at = "idle" <=> observations[o] = Capable!Idle
BY DEF EvidenceInv, Capable!Idle, Busy

\* The contents stored and observed are texts.
LEMMA TextsStored ==
    ASSUME EvidenceInv
    PROVE  /\ \A id \in DOMAIN caps : caps[id].content \in Contents /\ caps[id].retired \in BOOLEAN
           /\ \A o \in Callers : observations[o].at # "idle" => observations[o].text \in Contents
<1>1. \A id \in DOMAIN caps : caps[id].content \in Contents /\ caps[id].retired \in BOOLEAN
    BY Stored DEF EvidenceInv, Capable!Capability
<1>2. \A o \in Callers : observations[o].at # "idle" => observations[o] \in Busy
    BY DEF EvidenceInv, Capable!Idle
<1> QED BY <1>1, <1>2 DEF Busy

LEMMA ObserveKeepsApart ==
    ASSUME ApartInv, NEW o \in Callers, NEW text \in Contents, NEW scope \in Scopes, NEW source \in Capable!Sources,
           Capable!Observe(o, text, scope, source)
    PROVE  ApartInv'
<1>1. EvidenceInv
    BY DEF ApartInv
<1>2. EvidenceInv' /\ \E q \in Busy :
         /\ observations' = [observations EXCEPT ![o] = q] /\ q.at = "decide" /\ q.text = text /\ q.scope = scope
         /\ DOMAIN q.similar = Capable!FindSimilar(text, scope)
         /\ \A id \in DOMAIN q.similar : q.similar[id] = caps[id]
         /\ observations[o] = Capable!Idle /\ UNCHANGED caps
         /\ overlapped' = (overlapped \/ \E p \in Callers : observations[p] # Capable!Idle)
    BY <1>1, ObserveCalls
<1>3. PICK q \in Busy :
         /\ observations' = [observations EXCEPT ![o] = q] /\ q.at = "decide" /\ q.text = text /\ q.scope = scope
         /\ DOMAIN q.similar = Capable!FindSimilar(text, scope)
         /\ \A id \in DOMAIN q.similar : q.similar[id] = caps[id]
         /\ observations[o] = Capable!Idle /\ UNCHANGED caps
         /\ overlapped' = (overlapped \/ \E p \in Callers : observations[p] # Capable!Idle)
    BY <1>2
<1>4. overlapped' \in BOOLEAN
    BY <1>3, Zenon DEF ApartInv
<1>5. ASSUME ~overlapped'
      PROVE  /\ \A a, b \in Callers : observations'[a].at # "idle" /\ observations'[b].at # "idle" => a = b
             /\ \A a \in Callers : Knows(observations[a])'
             /\ Capable!NoNearDuplicates'
    <2>1. ~overlapped /\ \A p \in Callers : observations[p] = Capable!Idle
        BY <1>3, <1>5, Zenon
    <2>2. /\ observations'[o] = q /\ \A p \in Callers : p # o => observations'[p] = Capable!Idle
          /\ Capable!Idle.at = "idle"
        BY <1>1, <1>3, <2>1 DEF EvidenceInv, Capable!Idle
    <2>3. Fresh(q)'
        BY <1>3 DEF Fresh, Capable!FindSimilar
    <2>4. ASSUME NEW a \in Callers PROVE Knows(observations[a])'
        BY <1>3, <2>2, <2>3 DEF Knows
    <2>5. Capable!NoNearDuplicates'
        BY <1>3, <2>1 DEF ApartInv, Capable!NoNearDuplicates
    <2> QED BY <2>2, <2>4, <2>5
<1> QED BY <1>2, <1>4, <1>5 DEF ApartInv

\* A verdict below a half says that nothing valid in the scope is half like the text.
LEMMA DecidedApart ==
    ASSUME EvidenceInv, NEW q \in Busy, Fresh(q), NEW r, Decided(q, r)
    PROVE  /\ r.at \in {"add", "revise"} => Apart(r)
           /\ r.at = "revise" => caps[r.target].scope = r.scope
<1>1. r.text = q.text /\ r.scope = q.scope /\ q.text \in Contents
    BY DEF Decided, Busy
<1>2. ASSUME NEW id \in DOMAIN caps, caps[id].scope = q.scope, ~caps[id].retired,
             id \notin DOMAIN q.similar
      PROVE  ~Capable!AtLeast(q.text, caps[id].content, 1, 2)
    <2>1. ~(Capable!Shared(q.text, caps[id].content) > 0)
        BY <1>2 DEF Fresh
    <2>2. Capable!Shared(q.text, caps[id].content) \in Nat /\ Capable!AllWords(q.text, caps[id].content) \in Nat
        BY <1>1, WordsCounted, TextsStored
    <2> QED BY <2>1, <2>2 DEF Capable!AtLeast
<1>3. CASE DOMAIN q.similar = {} /\ r.at = "add"
    BY <1>1, <1>2, <1>3 DEF Apart
<1>4. CASE r.target \in Capable!Top(q.text, q.similar) /\ r.at = Capable!Verdict(q.text, q.similar[r.target])
    <2>1. PICK top : top = r.target
        OBVIOUS
    <2>2. top \in DOMAIN q.similar /\ \A other \in DOMAIN q.similar : Capable!Likelier(q.text, q.similar[top].content, q.similar[other].content)
        BY <1>4, <2>1 DEF Capable!Top
    <2>3. /\ top \in DOMAIN caps /\ q.similar[top].content = caps[top].content /\ caps[top].scope = q.scope
          /\ Capable!Shared(q.text, caps[top].content) > 0
        BY <2>2 DEF Fresh
    <2>4. ASSUME r.at \in {"add", "revise"}, NEW id \in DOMAIN q.similar
          PROVE  ~Capable!AtLeast(q.text, caps[id].content, 1, 2)
        <3>1. ~Capable!AtLeast(q.text, caps[top].content, 1, 2)
            BY <1>4, <2>1, <2>3, <2>4 DEF Capable!Verdict
        <3>2. id \in DOMAIN caps /\ q.similar[id].content = caps[id].content
            BY DEF Fresh
        <3>3. PICK s, a, u, b : /\ s = Capable!Shared(q.text, caps[top].content) /\ a = Capable!AllWords(q.text, caps[top].content)
                                /\ u = Capable!Shared(q.text, caps[id].content) /\ b = Capable!AllWords(q.text, caps[id].content)
            OBVIOUS
        <3>4. s \in Nat /\ a \in Nat /\ u \in Nat /\ b \in Nat /\ a > 0
            BY <1>1, <2>3, <3>2, <3>3, WordsCounted, TextsStored
        <3>5. s * b >= u * a
            BY <2>2, <2>3, <3>2, <3>3 DEF Capable!Likelier
        <3>6. 2 * s < a
            BY <3>1, <3>3, <3>4 DEF Capable!AtLeast
        <3>7. ~(b > 0 /\ 2 * u >= b)
            BY <3>4, <3>5, <3>6, BelowHalf
        <3> QED BY <3>3, <3>4, <3>7 DEF Capable!AtLeast
    <2> QED BY <1>1, <1>2, <2>1, <2>3, <2>4 DEF Apart
<1> QED BY <1>3, <1>4 DEF Decided

LEMMA DecideKeepsApart ==
    ASSUME ApartInv, NEW o \in Callers, Capable!Decide(o)
    PROVE  ApartInv'
<1>1. EvidenceInv
    BY DEF ApartInv
<1>2. /\ EvidenceInv' /\ UNCHANGED <<caps, overlapped>> /\ observations[o] \in Busy /\ observations[o].at = "decide"
      /\ \E r : Decided(observations[o], r) /\ observations' = [observations EXCEPT ![o] = r]
    BY <1>1, DecideCalls
<1>3. PICK q, r : q = observations[o] /\ Decided(q, r) /\ observations' = [observations EXCEPT ![o] = r]
    BY <1>2
<1>4. /\ observations'[o] = r /\ \A p \in Callers : p # o => observations'[p] = observations[p]
    BY <1>1, <1>3 DEF EvidenceInv
<1>5. ASSUME ~overlapped
      PROVE  /\ \A a, b \in Callers : observations'[a].at # "idle" /\ observations'[b].at # "idle" => a = b
             /\ \A a \in Callers : Knows(observations[a])'
             /\ Capable!NoNearDuplicates'
    <2>1. /\ \A a, b \in Callers : observations[a].at # "idle" /\ observations[b].at # "idle" => a = b
          /\ \A a \in Callers : Knows(observations[a])
          /\ Capable!NoNearDuplicates
        BY <1>5 DEF ApartInv
    <2>2. Fresh(q) /\ q \in Busy
        BY <1>2, <1>3, <2>1 DEF Knows
    <2>3. r.at # "decide"
        BY <1>3 DEF Decided, Capable!Verdict
    <2>4. /\ r.at \in {"add", "revise"} => Apart(r)
          /\ r.at = "revise" => caps[r.target].scope = r.scope
        BY <1>1, <1>3, <2>2, DecidedApart
    <2>5. \A p \in Callers : p # o => observations[p].at = "idle"
        BY <1>2, <2>1
    <2>6. Knows(r)'
        BY <1>2, <2>3, <2>4 DEF Knows, Apart
    <2>7. ASSUME NEW a \in Callers PROVE Knows(observations[a])'
        <3>1. CASE a = o
            BY <1>4, <2>6, <3>1 DEF Knows, Fresh, Apart
        <3>2. CASE a # o
            BY <1>4, <2>5, <3>2 DEF Knows
        <3> QED BY <3>1, <3>2
    <2>8. Capable!NoNearDuplicates'
        BY <1>2, <2>1 DEF Capable!NoNearDuplicates
    <2> QED BY <1>4, <2>5, <2>7, <2>8
<1> QED BY <1>2, <1>5 DEF ApartInv

\* The only call under way ends.
LEMMA EndKeepsApart ==
    ASSUME ApartInv, EvidenceInv', NEW o \in Callers, observations' = [observations EXCEPT ![o] = Capable!Idle],
           observations[o].at # "idle", UNCHANGED overlapped, ~overlapped => Capable!NoNearDuplicates'
    PROVE  ApartInv'
<1>1. /\ observations'[o] = Capable!Idle /\ \A p \in Callers : p # o => observations'[p] = observations[p]
      /\ Capable!Idle.at = "idle"
    BY DEF ApartInv, EvidenceInv, Capable!Idle
<1>2. ASSUME ~overlapped, NEW p \in Callers PROVE observations'[p].at = "idle"
    BY <1>1, <1>2 DEF ApartInv
<1>3. ASSUME ~overlapped, NEW p \in Callers PROVE Knows(observations[p])'
    BY <1>2, <1>3 DEF Knows
<1> QED BY <1>2, <1>3 DEF ApartInv

LEMMA AddKeepsApart ==
    ASSUME ApartInv, NEW o \in Callers, Capable!Add(o)
    PROVE  ApartInv'
<1>1. EvidenceInv
    BY DEF ApartInv
<1>2. EvidenceInv' /\ \E id \in Ids :
         /\ observations[o] \in Busy /\ observations[o].at = "add"
         /\ observations' = [observations EXCEPT ![o] = Capable!Idle] /\ UNCHANGED overlapped
         /\ DOMAIN caps' = DOMAIN caps \cup {id}
         /\ caps'[id].scope = observations[o].scope /\ caps'[id].content = observations[o].text
         /\ \A k \in DOMAIN caps : k # id => caps'[k] = caps[k]
    BY <1>1, AddCalls
<1>3. PICK id \in Ids :
         /\ observations[o] \in Busy /\ observations[o].at = "add"
         /\ observations' = [observations EXCEPT ![o] = Capable!Idle] /\ UNCHANGED overlapped
         /\ DOMAIN caps' = DOMAIN caps \cup {id}
         /\ caps'[id].scope = observations[o].scope /\ caps'[id].content = observations[o].text
         /\ \A k \in DOMAIN caps : k # id => caps'[k] = caps[k]
    BY <1>2
<1>4. ASSUME ~overlapped PROVE Capable!NoNearDuplicates'
    <2>1. Apart(observations[o]) /\ Capable!NoNearDuplicates
        BY <1>3, <1>4 DEF ApartInv, Knows
    <2>2. observations[o].text \in Contents /\ \A k \in DOMAIN caps : caps[k].content \in Contents
        BY <1>1, <1>3, TextsStored
    <2>3. ASSUME NEW k \in DOMAIN caps', k # id, caps'[k].scope = caps'[id].scope, ~caps'[k].retired
          PROVE  ~Capable!AtLeast(caps'[id].content, caps'[k].content, 1, 2) /\ ~Capable!AtLeast(caps'[k].content, caps'[id].content, 1, 2)
        <3>1. k \in DOMAIN caps /\ caps'[k] = caps[k]
            BY <1>3, <2>3
        <3>2. ~Capable!AtLeast(observations[o].text, caps[k].content, 1, 2)
            BY <1>3, <2>1, <2>3, <3>1 DEF Apart
        <3>3. ~Capable!AtLeast(caps[k].content, observations[o].text, 1, 2)
            BY <2>2, <3>1, <3>2, AlikeBothWays
        <3> QED BY <1>3, <3>1, <3>2, <3>3
    <2>4. ASSUME NEW a \in DOMAIN caps', NEW b \in DOMAIN caps', a # b, caps'[a].scope = caps'[b].scope,
                 ~caps'[a].retired, ~caps'[b].retired
          PROVE  ~Capable!AtLeast(caps'[a].content, caps'[b].content, 1, 2)
        <3>1. CASE a = id \/ b = id
            BY <2>3, <2>4, <3>1
        <3>2. CASE a # id /\ b # id
            <4>1. a \in DOMAIN caps /\ b \in DOMAIN caps /\ caps'[a] = caps[a] /\ caps'[b] = caps[b]
                BY <1>3, <3>2
            <4> QED BY <1>4, <2>1, <2>4, <4>1 DEF Capable!NoNearDuplicates
        <3> QED BY <3>1, <3>2
    <2> QED BY <2>4 DEF Capable!NoNearDuplicates
<1> QED BY <1>2, <1>3, <1>4, EndKeepsApart

LEMMA UpdateKeepsApart ==
    ASSUME ApartInv, NEW o \in Callers, Capable!Strengthen(o) \/ Capable!Revise(o)
    PROVE  ApartInv'
<1>1. EvidenceInv
    BY DEF ApartInv
<1>2. /\ EvidenceInv' /\ UNCHANGED overlapped /\ observations[o] \in Busy /\ observations[o].at \in {"strengthen", "revise"}
      /\ observations' = [observations EXCEPT ![o] = Capable!Idle]
      /\ \E id, c : Updates(o, id, c)
    BY <1>1, UpdateCalls
<1>3. PICK id, c : Updates(o, id, c)
    BY <1>2
<1>4. /\ id = observations[o].target /\ id \in DOMAIN caps /\ DOMAIN caps' = DOMAIN caps /\ caps'[id] = c
      /\ \A k \in DOMAIN caps : k # id => caps'[k] = caps[k]
      /\ c.scope = caps[id].scope /\ c.retired = caps[id].retired
      /\ observations[o].at = "strengthen" => c.content = caps[id].content
      /\ observations[o].at = "revise" => c.content \in {caps[id].content, observations[o].text}
    BY <1>3 DEF Updates
<1>5. ASSUME ~overlapped PROVE Capable!NoNearDuplicates'
    <2>1. Knows(observations[o]) /\ Capable!NoNearDuplicates
        BY <1>5 DEF ApartInv
    <2>2. observations[o].text \in Contents /\ \A k \in DOMAIN caps : caps[k].content \in Contents
        BY <1>1, <1>2, TextsStored
    <2>3. ASSUME NEW k \in DOMAIN caps, k # id, caps[k].scope = caps[id].scope, ~caps[k].retired, ~caps[id].retired
          PROVE  ~Capable!AtLeast(c.content, caps[k].content, 1, 2) /\ ~Capable!AtLeast(caps[k].content, c.content, 1, 2)
        <3>1. CASE c.content = caps[id].content
            BY <1>4, <1>5, <2>1, <2>3, <3>1 DEF Capable!NoNearDuplicates
        <3>2. CASE observations[o].at = "revise" /\ c.content = observations[o].text
            <4>1. ~Capable!AtLeast(observations[o].text, caps[k].content, 1, 2)
                BY <1>4, <2>1, <2>3, <3>2 DEF Knows, Apart
            <4> QED BY <2>2, <3>2, <4>1, AlikeBothWays
        <3> QED BY <1>2, <1>4, <3>1, <3>2
    <2>4. ASSUME NEW a \in DOMAIN caps', NEW b \in DOMAIN caps', a # b, caps'[a].scope = caps'[b].scope,
                 ~caps'[a].retired, ~caps'[b].retired
          PROVE  ~Capable!AtLeast(caps'[a].content, caps'[b].content, 1, 2)
        <3>0. a \in DOMAIN caps /\ b \in DOMAIN caps
            BY <1>4
        <3>1. CASE a = id
            <4>1. caps'[b] = caps[b] /\ b # id /\ caps'[a] = c
                BY <1>4, <2>4, <3>0, <3>1
            <4>2. caps[b].scope = caps[id].scope /\ ~caps[b].retired /\ ~caps[id].retired
                BY <1>4, <2>4, <3>1, <4>1
            <4> QED BY <2>3, <3>0, <4>1, <4>2
        <3>2. CASE b = id
            <4>1. caps'[a] = caps[a] /\ a # id /\ caps'[b] = c
                BY <1>4, <2>4, <3>0, <3>2
            <4>2. caps[a].scope = caps[id].scope /\ ~caps[a].retired /\ ~caps[id].retired
                BY <1>4, <2>4, <3>2, <4>1
            <4> QED BY <2>3, <3>0, <4>1, <4>2
        <3>3. CASE a # id /\ b # id
            <4>1. caps'[a] = caps[a] /\ caps'[b] = caps[b]
                BY <1>4, <3>0, <3>3
            <4> QED BY <1>5, <2>1, <2>4, <3>0, <4>1 DEF Capable!NoNearDuplicates
        <3> QED BY <3>1, <3>2, <3>3
    <2> QED BY <2>4 DEF Capable!NoNearDuplicates
<1>6. observations[o].at # "idle"
    BY <1>2
<1> QED BY <1>2, <1>5, <1>6, EndKeepsApart

LEMMA EditKeepsApart ==
    ASSUME ApartInv, NEW id \in DOMAIN caps, NEW to \in Capable!Maturities, Capable!Retire(id) \/ Capable!Promote(id, to)
    PROVE  ApartInv'
<1>1. EvidenceInv
    BY DEF ApartInv
<1>2. EvidenceInv' /\ Fades /\ UNCHANGED <<observations, overlapped>>
    BY <1>1, EditCalls
<1>3. /\ DOMAIN caps' = DOMAIN caps
      /\ \A k \in DOMAIN caps : caps'[k].scope = caps[k].scope /\ caps'[k].content = caps[k].content
      /\ \A k \in DOMAIN caps : ~caps'[k].retired => ~caps[k].retired
    BY <1>2 DEF Fades
<1>4. ASSUME NEW q, Fresh(q) PROVE Fresh(q)'
    BY <1>3, <1>4 DEF Fresh
<1>5. ASSUME NEW q, Apart(q) PROVE Apart(q)'
    BY <1>3, <1>5 DEF Apart
<1>6. ASSUME ~overlapped
      PROVE  /\ \A o \in Callers : Knows(observations[o])'
             /\ Capable!NoNearDuplicates'
    <2>1. ASSUME NEW o \in Callers PROVE Knows(observations[o])'
        <3>1. PICK q : q = observations[o]
            OBVIOUS
        <3>2. Knows(q) /\ q = observations'[o]
            BY <1>2, <1>6, <3>1 DEF ApartInv
        <3>3. q.at = "revise" => q.target \in DOMAIN caps
            BY <1>1, <3>1 DEF EvidenceInv
        <3>4. Knows(q)'
            BY <1>3, <1>4, <1>5, <3>2, <3>3 DEF Knows
        <3> QED BY <3>2, <3>4 DEF Knows, Fresh, Apart
    <2>2. Capable!NoNearDuplicates'
        BY <1>2, <1>3, <1>6 DEF ApartInv, Capable!NoNearDuplicates
    <2> QED BY <2>1, <2>2
<1> QED BY <1>2, <1>6 DEF ApartInv

LEMMA StepKeepsApart == ApartInv /\ [Capable!CapabilitiesNext]_capabilityState => ApartInv'
<1> SUFFICES ASSUME ApartInv, [Capable!CapabilitiesNext]_capabilityState PROVE ApartInv'
    OBVIOUS
<1>1. ASSUME NEW o \in Callers, Capable!Noop(o) PROVE ApartInv'
    <2>1. /\ observations[o].at = "noop" /\ Capable!Finish(o) /\ UNCHANGED <<caps, strengthened, overwritten, overlapped>>
        BY <1>1 DEF Capable!Noop
    <2>2. EvidenceInv /\ Capable!EvidenceAccounted'
        BY <2>1 DEF ApartInv, EvidenceInv, Capable!EvidenceAccounted
    <2>3. caps' \in Store /\ overwritten' \in BOOLEAN /\ strengthened' \in [Ids -> Nat] /\ DOMAIN caps \subseteq DOMAIN caps'
        BY <2>1, <2>2 DEF EvidenceInv
    <2>4. EvidenceInv' /\ observations' = [observations EXCEPT ![o] = Capable!Idle]
        BY <2>1, <2>2, <2>3, FinishCalls
    <2>5. ~overlapped => Capable!NoNearDuplicates'
        BY <2>1 DEF ApartInv, Capable!NoNearDuplicates
    <2> QED BY <2>1, <2>4, <2>5, EndKeepsApart
<1>2. CASE UNCHANGED capabilityState
    <2>1. UNCHANGED <<caps, observations, strengthened, overwritten, overlapped>>
        BY <1>2 DEF capabilityState
    <2>2. EvidenceInv'
        BY <2>1 DEF ApartInv, EvidenceInv, Capable!EvidenceAccounted
    <2>3. ~overlapped => Capable!NoNearDuplicates' /\ \A o \in Callers : Knows(observations[o])'
        BY <2>1 DEF ApartInv, Capable!NoNearDuplicates, Knows, Fresh, Apart
    <2> QED BY <2>1, <2>2, <2>3 DEF ApartInv
<1>3. ASSUME NEW id \in DOMAIN caps, Capable!Retire(id) \/ \E to \in Capable!Maturities : Capable!Promote(id, to) PROVE ApartInv'
    <2>1. "observed" \in Capable!Maturities
        BY DEF Capable!Maturities
    <2> QED BY <1>3, <2>1, EditKeepsApart
<1> QED BY <1>1, <1>2, <1>3, ObserveKeepsApart, DecideKeepsApart, AddKeepsApart, UpdateKeepsApart DEF Capable!CapabilitiesNext

\* The deployed capability service: unless an id is drawn twice, every strengthening is in the
\* evidence of its capability and maturity follows evidence however calls overlap; and calls
\* that do not overlap leave no two valid capabilities of a scope half alike or more
\* (service.ts, decider.ts, optics.ts, in-memory-store.ts).
THEOREM CapabilitiesAreSound == Spec => []CapabilitiesSound
<1>1. ApartInv /\ [Next]_vars => ApartInv'
    BY ComponentSteps, StepKeepsApart
<1>2. ApartInv => CapabilitiesSound
    <2> SUFFICES ASSUME ApartInv PROVE Capable!EvidenceAccounted /\ Capable!NoNearDuplicates
        BY DEF CapabilitiesSound
    <2>1. Capable!EvidenceAccounted
        BY DEF ApartInv, EvidenceInv
    <2>2. Capable!NoNearDuplicates
        BY DEF ApartInv, Capable!NoNearDuplicates
    <2> QED BY <2>1, <2>2
<1> QED BY <1>1, <1>2, InitApart, PTL DEF Spec

===============================================================================
