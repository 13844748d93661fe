---------------------------- MODULE HostsProofs ----------------------------
(***************************************************************************)
(* Proofs about the hosts: every step of the composition is a step of the  *)
(* component deployed or leaves its state alone, so what is invariant in   *)
(* each is invariant in all.  Here are the LISTEN connection, the service  *)
(* shell, the two sides of MCP, the PostgreSQL runtime and the node flows; *)
(* what surrounds an agent's model is in AgentProofs.                      *)
(***************************************************************************)
EXTENDS Hosts, SequenceTheorems, FiniteSetTheorems, WellFoundedInduction, TLAPS

\* A step of the host is a step of the component deployed and leaves the others alone.
LEMMA ComponentSteps ==
    ASSUME [Next]_vars
    PROVE  /\ [Petri!Next]_petriState /\ [Node!Next]_nodeState /\ [Pg!Next]_pgState
           /\ [Listen!Next]_listenState /\ [Shell!ShellNext]_shellState
           /\ [McpS!McpServerNext]_mcpServerState /\ [McpC!McpClientNext]_mcpClientState
           /\ [Guards!GuardsNext]_guardState /\ [Sandbox!SandboxNext]_sandboxState
           /\ [Capable!CapabilitiesNext]_capabilityState /\ [Streaming!StreamNext]_streamState
BY DEF Next, vars, PetriRuns, NodesRun, PostgresRuns, ListenRuns, ShellRuns, McpServerRuns,
       McpClientRuns, GuardsRun, SandboxRuns, CapabilitiesRun, StreamRuns

-----------------------------------------------------------------------------
(* The LISTEN consumer, for any number of clients, connections lost and    *)
(* notifications.                                                          *)

ListenAwaits == {"none", "end", "wait", "open", "listen"}

\* What the argument needs of the types: the tasks are records, the flags Boolean.
ListenShape ==
    /\ dialed \in Nat /\ client \in Nat
    /\ reconnecting \in BOOLEAN /\ silence \in BOOLEAN /\ disposed \in BOOLEAN /\ gaveUp \in BOOLEAN
    /\ task \in [Listen!Tasks -> [at : ListenAwaits, c : Nat]]

\* The flag and the task of the reconnect agree, case by case.
FlagAgrees(flag, t) ==
    \/ flag = TRUE /\ t["reconnect"].at # "none"
    \/ flag = FALSE /\ t["reconnect"].at = "none"

\* A started consumer has something that moves it on: the silence timer or a task.
ListenDriven ==
    (dialed > 0 /\ disposed = FALSE /\ gaveUp = FALSE) =>
        silence = TRUE \/ \E f \in Listen!Tasks : task[f].at # "none"

WatchInv == ListenShape /\ FlagAgrees(reconnecting, task) /\ ListenDriven

USE DEF Listen!Tasks, ListenAwaits

\* Before start nothing runs and nothing is promised.
LEMMA InitWatched == Listen!Init => WatchInv
<1> SUFFICES ASSUME Listen!Init PROVE WatchInv
    OBVIOUS
<1>1. task = [f \in Listen!Tasks |-> Listen!Idle]
    BY DEF Listen!Init
<1>2. ListenShape
    <2>1. reconnecting \in BOOLEAN /\ silence \in BOOLEAN /\ disposed \in BOOLEAN /\ gaveUp \in BOOLEAN
        BY Zenon DEF Listen!Init
    <2>2. task \in [Listen!Tasks -> [at : ListenAwaits, c : Nat]]
        BY <1>1 DEF Listen!Idle
    <2>3. dialed \in Nat /\ client \in Nat
        BY DEF Listen!Init
    <2> QED BY <2>1, <2>2, <2>3 DEF ListenShape
<1>3. FlagAgrees(reconnecting, task)
    BY <1>1 DEF Listen!Init, FlagAgrees, Listen!Idle
<1>4. ListenDriven
    BY DEF Listen!Init, ListenDriven
<1> QED BY <1>2, <1>3, <1>4 DEF WatchInv

\* reconnect leaves a consumer in which a reconnect is under way, or which is disposed.
LEMMA ReconnectWatched ==
    ASSUME WatchInv, Listen!Reconnect
    PROVE  /\ reconnecting' \in BOOLEAN /\ task' \in [Listen!Tasks -> [at : ListenAwaits, c : Nat]]
           /\ FlagAgrees(reconnecting', task')
           /\ disposed = TRUE \/ task'["reconnect"].at # "none"
<1>1. CASE disposed \/ reconnecting
    BY <1>1 DEF WatchInv, ListenShape, FlagAgrees, ListenDriven, Listen!Reconnect
<1>2. CASE ~(disposed \/ reconnecting)
    BY <1>2 DEF WatchInv, ListenShape, FlagAgrees, ListenDriven, Listen!Reconnect
<1> QED BY <1>1, <1>2

\* A flow that ends takes its task along, and the flag if it is the reconnect.
LEMMA FinishKeeps ==
    ASSUME WatchInv, NEW f \in Listen!Tasks, Listen!Finish(f)
    PROVE  /\ reconnecting' \in BOOLEAN /\ task' \in [Listen!Tasks -> [at : ListenAwaits, c : Nat]]
           /\ FlagAgrees(reconnecting', task')
<1>1. CASE f = "reconnect" BY <1>1 DEF WatchInv, ListenShape, FlagAgrees, ListenDriven, Listen!Finish, Listen!Idle
<1>2. CASE f = "start" BY <1>2 DEF WatchInv, ListenShape, FlagAgrees, ListenDriven, Listen!Finish, Listen!Idle
<1> QED BY <1>1, <1>2

\* Every step keeps the invariant: the two that disarm the timer or end a task
\* leave a reconnect under way, an armed timer, a failed connect or a disposed consumer.
LEMMA StepWatched == WatchInv /\ [Listen!Next]_listenState => WatchInv'
<1> SUFFICES ASSUME WatchInv, [Listen!Next]_listenState PROVE WatchInv'
    OBVIOUS
<1>1. CASE Listen!Start
    BY <1>1 DEF WatchInv, ListenShape, FlagAgrees, ListenDriven, Listen!Start, Listen!Dial
<1>2. CASE Listen!Notification
    BY <1>2 DEF WatchInv, ListenShape, FlagAgrees, ListenDriven, Listen!Notification, Listen!ResetSilenceTimer
<1>3. CASE Listen!SilenceFires
    BY <1>3, ReconnectWatched DEF WatchInv, ListenShape, FlagAgrees, ListenDriven, Listen!SilenceFires
<1>4. CASE Listen!OldEnded
    BY <1>4 DEF WatchInv, ListenShape, FlagAgrees, ListenDriven, Listen!OldEnded
<1>5. CASE Listen!Waited
    <2>1. CASE disposed
        BY <1>5, <2>1, FinishKeeps DEF WatchInv, ListenShape, FlagAgrees, ListenDriven, Listen!Waited
    <2>2. CASE ~disposed
        BY <1>5, <2>2 DEF WatchInv, ListenShape, FlagAgrees, ListenDriven, Listen!Waited, Listen!Dial
    <2> QED BY <2>1, <2>2
<1>6. CASE Listen!Stop
    BY <1>6 DEF WatchInv, ListenShape, FlagAgrees, ListenDriven, Listen!Stop
<1>7. ASSUME NEW f \in Listen!Tasks, Listen!Opened(f) PROVE WatchInv'
    <2>1. CASE f = "reconnect" BY <1>7, <2>1 DEF WatchInv, ListenShape, FlagAgrees, ListenDriven, Listen!Opened
    <2>2. CASE f = "start" BY <1>7, <2>2 DEF WatchInv, ListenShape, FlagAgrees, ListenDriven, Listen!Opened
    <2> QED BY <2>1, <2>2
<1>8. ASSUME NEW f \in Listen!Tasks, Listen!ListenSet(f) PROVE WatchInv'
    BY <1>8, FinishKeeps DEF WatchInv, ListenShape, FlagAgrees, ListenDriven, Listen!ListenSet, Listen!ResetSilenceTimer
<1>9. ASSUME NEW f \in Listen!Tasks, Listen!ConnectThrows(f) PROVE WatchInv'
    BY <1>9, FinishKeeps DEF WatchInv, ListenShape, FlagAgrees, ListenDriven, Listen!ConnectThrows
<1>10. ASSUME NEW c \in 1 .. MaxClients, Listen!ConnectionLost(c) PROVE WatchInv'
    BY <1>10, ReconnectWatched DEF WatchInv, ListenShape, FlagAgrees, ListenDriven, Listen!ConnectionLost
<1>11. ASSUME NEW c \in 1 .. MaxClients, Listen!EndEvent(c) PROVE WatchInv'
    BY <1>11, ReconnectWatched DEF WatchInv, ListenShape, FlagAgrees, ListenDriven, Listen!EndEvent
<1>12. CASE UNCHANGED listenState
    BY <1>12 DEF WatchInv, ListenShape, FlagAgrees, ListenDriven, listenState
<1> QED
    BY <1>1, <1>2, <1>3, <1>4, <1>5, <1>6, <1>7, <1>8, <1>9, <1>10, <1>11, <1>12 DEF Listen!Next

\* What is promised follows from the invariant.
LEMMA InvWatched == WatchInv => Listen!ListenerWatched
<1> SUFFICES ASSUME WatchInv PROVE Listen!ListenerWatched
    OBVIOUS
<1>1. reconnecting = (task["reconnect"].at # "none")
    BY Zenon DEF WatchInv, ListenShape, FlagAgrees
<1>2. (dialed > 0 /\ ~disposed /\ ~gaveUp) => silence \/ \E f \in Listen!Tasks : task[f].at # "none"
    BY Zenon DEF WatchInv, ListenShape, ListenDriven
<1> QED BY <1>1, <1>2 DEF Listen!ListenerWatched

HIDE DEF Listen!Tasks, ListenAwaits

\* Unless a connect has failed, a deployed LISTEN consumer that was started and not stopped
\* has its silence timer armed or a connect under way (listen.ts).
THEOREM ListenerIsWatched == Spec => []ListenerWatched
<1>1. Init => WatchInv
    BY InitWatched DEF Init
<1>2. WatchInv /\ [Next]_vars => WatchInv'
    BY ComponentSteps, StepWatched
<1>3. WatchInv => ListenerWatched
    BY InvWatched DEF ListenerWatched
<1> QED BY <1>1, <1>2, <1>3, PTL DEF Spec

-----------------------------------------------------------------------------
(* The service shell: the order of the teardowns.                           *)

Parts == {"Infra", "Probe", "Outside", "Entities", "Context", "Http"}

\* What buildService brings up is a beginning of the plan.
BuiltInOrder ==
    /\ Len(built) \in Nat /\ Len(built) <= Len(Shell!Plan) /\ built = [i \in 1 .. Len(built) |-> Shell!Plan[i]]

\* teardowns holds what was built and has one, the later before the earlier.
ListedInReverse ==
    /\ teardowns \in Seq(Parts)
    /\ \A i \in DOMAIN built : Shell!HasTeardown(built[i]) => \E k \in DOMAIN teardowns : teardowns[k] = built[i]
    /\ \A k, m \in DOMAIN teardowns : k <= m =>
          \E i, j \in DOMAIN built : j <= i /\ (k < m => j < i) /\ teardowns[k] = built[i] /\ teardowns[m] = built[j]

\* A call of shutdown passes a teardown only when it is done, or throws.
CallsInOrder ==
    /\ shutdowns \in Seq([at : Nat \ {0}, on : BOOLEAN])
    /\ \A s \in DOMAIN shutdowns :
          /\ shutdowns[s].on => shutdowns[s].at <= Len(teardowns)
          /\ shutdowns[s].at <= Len(teardowns) =>
                \A k \in DOMAIN teardowns : k < shutdowns[s].at => teardowns[k] \in gone
    /\ \A x \in begun : \E k \in DOMAIN teardowns :
          teardowns[k] = x /\ \A m \in DOMAIN teardowns : m < k => teardowns[m] \in gone

\* Nothing is shut down before the service runs, and it is ready before the first call.
UpWhileReady ==
    /\ outcome = "running" => built = Shell!Plan
    /\ outcome # "running" => startup = "Starting" /\ shutdowns = << >>
    /\ startup = "Ready" => shutdowns = << >>
    /\ shutdowns = << >> => begun = {}

TeardownInv == BuiltInOrder /\ ListedInReverse /\ CallsInOrder /\ UpWhileReady

\* The plan names each part once.
LEMMA PlanIsDistinct ==
    /\ Shell!Plan \in Seq(Parts) /\ Len(Shell!Plan) \in Nat /\ DOMAIN Shell!Plan = 1 .. Len(Shell!Plan)
    /\ \A i, j \in DOMAIN Shell!Plan : Shell!Plan[i] = Shell!Plan[j] => i = j
<1> DEFINE P == Shell!Plan
           five == <<"Infra", "Probe", "Outside", "Entities", "Context">>
           last == <<"Http">>
<1>1. five \in Seq(Parts) /\ Len(five) = 5 /\ last \in Seq(Parts) /\ Len(last) = 1 /\ last[1] = "Http"
    <2>1. five \in Seq(Parts) /\ last \in Seq(Parts)
        BY DEF Parts
    <2>2. Len(five) = 5 /\ Len(last) = 1 /\ last[1] = "Http"
        OBVIOUS
    <2> QED BY <2>1, <2>2
<1>2. /\ five[1] = "Infra" /\ five[2] = "Probe" /\ five[3] = "Outside"
      /\ five[4] = "Entities" /\ five[5] = "Context"
    OBVIOUS
<1>3. CASE ~HasHttp
    <2>1. P = five
        <3>1. P = five \o << >>
            BY <1>3 DEF Shell!Plan
        <3> HIDE DEF five
        <3> QED BY <1>1, <3>1, ConcatEmptySeq
    <2> HIDE DEF five, P
    <2>2. P \in Seq(Parts) /\ Len(P) = 5 /\ DOMAIN P = 1 .. 5
        BY <1>1, <2>1
    <2>3. \A i, j \in 1 .. 5 : P[i] = P[j] => i = j
        BY <1>2, <2>1
    <2>4. P \in Seq(Parts) /\ Len(P) \in Nat /\ DOMAIN P = 1 .. Len(P) /\ \A i, j \in DOMAIN P : P[i] = P[j] => i = j
        BY <2>2, <2>3
    <2> QED BY <2>4 DEF P
<1>4. CASE HasHttp
    <2>1. P = five \o last
        BY <1>4 DEF Shell!Plan
    <2> HIDE DEF five, last, P
    <2>2. P \in Seq(Parts) /\ Len(P) = Len(five) + Len(last)
        BY <1>1, <2>1, ConcatProperties
    <2>3. \A i \in 1 .. Len(five) + Len(last) : P[i] = IF i <= Len(five) THEN five[i] ELSE last[i - Len(five)]
        BY <1>1, <2>1, ConcatProperties
    <2>4. DOMAIN P = 1 .. 6 /\ Len(P) = 6
        BY <1>1, <2>2
    <2>5. /\ P[1] = "Infra" /\ P[2] = "Probe" /\ P[3] = "Outside"
          /\ P[4] = "Entities" /\ P[5] = "Context" /\ P[6] = "Http"
        BY <1>1, <1>2, <2>3
    <2>6. \A i, j \in 1 .. 6 : P[i] = P[j] => i = j
        BY <2>5
    <2>7. P \in Seq(Parts) /\ Len(P) \in Nat /\ DOMAIN P = 1 .. Len(P) /\ \A i, j \in DOMAIN P : P[i] = P[j] => i = j
        <3>1. P \in Seq(Parts)
            BY <2>2
        <3>2. Len(P) \in Nat /\ DOMAIN P = 1 .. Len(P)
            BY <2>4
        <3> QED BY <2>4, <2>6, <3>1, <3>2
    <2> QED BY <2>7 DEF P
<1> QED BY <1>3, <1>4

LEMMA InitTeardown == Init => TeardownInv
<1> SUFFICES ASSUME Init PROVE TeardownInv
    OBVIOUS
<1>1. built = << >> /\ teardowns = << >> /\ shutdowns = << >> /\ begun = {} /\ outcome = "building" /\ startup = "Starting"
    BY DEF Init, Shell!ShellInit
<1>2. BuiltInOrder
    BY <1>1, PlanIsDistinct DEF BuiltInOrder
<1>3. ListedInReverse /\ CallsInOrder /\ UpWhileReady
    BY <1>1 DEF ListedInReverse, CallsInOrder, UpWhileReady
<1> QED BY <1>2, <1>3 DEF TeardownInv

\* A part comes up after all others, and its teardown goes before all others.
LEMMA BringKeepsOrder ==
    ASSUME TeardownInv, NEW x, Shell!Bring(x)
    PROVE  TeardownInv'
<1> DEFINE P == Shell!Plan
           n == Len(built)
<1>1. /\ outcome = "building" /\ n < Len(P) /\ P[n + 1] = x
      /\ built' = Append(built, x)
      /\ teardowns' = IF Shell!HasTeardown(x) THEN <<x>> \o teardowns ELSE teardowns
      /\ UNCHANGED <<outcome, startup, shutdowns, begun, gone>>
    BY DEF Shell!Bring, Shell!Unshift
<1>2. /\ P \in Seq(Parts) /\ Len(P) \in Nat /\ DOMAIN P = 1 .. Len(P)
      /\ n \in Nat /\ n <= Len(P) /\ built = [i \in 1 .. n |-> P[i]]
    BY PlanIsDistinct DEF TeardownInv, BuiltInOrder
<1>3. shutdowns = << >> /\ begun = {}
    BY <1>1 DEF TeardownInv, UpWhileReady
<1> HIDE DEF P, n
<1>4. x \in Parts /\ built \in Seq(Parts) /\ Len(built) = n
    <2>1. \A i \in 1 .. Len(P) : P[i] \in Parts
        BY <1>2
    <2> QED BY <1>1, <1>2, <2>1 DEF n
<1>5. /\ built' \in Seq(Parts) /\ Len(built') = n + 1 /\ DOMAIN built' = 1 .. n + 1 /\ DOMAIN built = 1 .. n
      /\ built'[n + 1] = x /\ \A i \in 1 .. n : built'[i] = built[i]
    BY <1>1, <1>2, <1>4
<1>6. BuiltInOrder'
    <2>1. \A i \in 1 .. n + 1 : built'[i] = P[i]
        BY <1>1, <1>2, <1>5
    <2>2. built' = [i \in 1 .. n + 1 |-> P[i]]
        BY <1>2, <1>5, <2>1
    <2>3. Len(built') \in Nat /\ Len(built') <= Len(P)
        BY <1>1, <1>2, <1>5
    <2>4. P' = P
        BY DEF P, Shell!Plan
    <2> QED BY <1>5, <2>2, <2>3, <2>4 DEF BuiltInOrder, P
<1>7. CASE ~Shell!HasTeardown(x)
    <2>1. ListedInReverse'
        <3>1. teardowns' = teardowns
            BY <1>1, <1>7
        <3>2. ASSUME NEW i \in DOMAIN built', Shell!HasTeardown(built'[i])
              PROVE  \E k \in DOMAIN teardowns : teardowns[k] = built'[i]
            <4>1. i \in 1 .. n
                BY <1>2, <1>5, <1>7, <3>2
            <4> QED BY <1>5, <3>2, <4>1 DEF TeardownInv, ListedInReverse
        <3>3. ASSUME NEW k \in DOMAIN teardowns, NEW m \in DOMAIN teardowns, k <= m
              PROVE  \E i, j \in DOMAIN built' : j <= i /\ (k < m => j < i) /\ teardowns[k] = built'[i] /\ teardowns[m] = built'[j]
            <4>1. PICK i \in DOMAIN built, j \in DOMAIN built :
                        j <= i /\ (k < m => j < i) /\ teardowns[k] = built[i] /\ teardowns[m] = built[j]
                BY <3>3 DEF TeardownInv, ListedInReverse
            <4>2. i \in DOMAIN built' /\ j \in DOMAIN built' /\ built'[i] = built[i] /\ built'[j] = built[j]
                BY <1>2, <1>5
            <4> QED BY <4>1, <4>2
        <3>4. teardowns \in Seq(Parts)
            BY DEF TeardownInv, ListedInReverse
        <3> QED BY <3>1, <3>2, <3>3, <3>4 DEF ListedInReverse, Shell!HasTeardown
    <2> QED BY <1>1, <1>3, <1>6, <2>1 DEF TeardownInv, CallsInOrder, UpWhileReady
<1>8. CASE Shell!HasTeardown(x)
    <2> DEFINE t == teardowns
               one == <<x>>
    <2>1. t \in Seq(Parts) /\ one \in Seq(Parts) /\ Len(one) = 1 /\ one[1] = x
        BY <1>4 DEF TeardownInv, ListedInReverse
    <2>2. teardowns' = one \o t
        BY <1>1, <1>8
    <2> HIDE DEF t, one
    <2>3. teardowns' \in Seq(Parts) /\ Len(teardowns') = Len(one) + Len(t)
        BY <2>1, <2>2, ConcatProperties
    <2>4. \A i \in 1 .. Len(one) + Len(t) : teardowns'[i] = IF i <= Len(one) THEN one[i] ELSE t[i - Len(one)]
        BY <2>1, <2>2, ConcatProperties
    <2>5. Len(t) \in Nat /\ DOMAIN t = 1 .. Len(t) /\ DOMAIN teardowns' = 1 .. 1 + Len(t)
        BY <2>1, <2>3
    <2>6. teardowns'[1] = x
        BY <2>1, <2>4, <2>5
    <2>7. ASSUME NEW k \in 2 .. 1 + Len(t)
          PROVE  k - 1 \in DOMAIN t /\ teardowns'[k] = t[k - 1]
        <3>1. k \in 1 .. Len(one) + Len(t) /\ ~(k <= Len(one)) /\ k - 1 \in 1 .. Len(t)
            BY <2>1, <2>5
        <3> QED BY <2>1, <2>4, <2>5, <3>1
    <2>8. ASSUME NEW k \in DOMAIN t
          PROVE  k + 1 \in DOMAIN teardowns' /\ teardowns'[k + 1] = t[k]
        <3>1. k + 1 \in 2 .. 1 + Len(t) /\ (k + 1) - 1 = k
            BY <2>5
        <3> QED BY <2>5, <2>7, <3>1
    <2>9. ASSUME NEW i \in DOMAIN built', Shell!HasTeardown(built'[i])
          PROVE  \E k \in DOMAIN teardowns' : teardowns'[k] = built'[i]
        <3>1. CASE i = n + 1
            BY <1>5, <2>5, <2>6, <3>1
        <3>2. CASE i # n + 1
            <4>1. i \in DOMAIN built /\ built'[i] = built[i]
                BY <1>2, <1>5, <3>2
            <4>2. PICK k \in DOMAIN t : t[k] = built[i]
                BY <2>9, <4>1 DEF TeardownInv, ListedInReverse, t
            <4> QED BY <2>8, <4>1, <4>2
        <3> QED BY <3>1, <3>2
    <2>10. ASSUME NEW k \in DOMAIN teardowns', NEW m \in DOMAIN teardowns', k <= m
           PROVE  \E i, j \in DOMAIN built' :
                      j <= i /\ (k < m => j < i) /\ teardowns'[k] = built'[i] /\ teardowns'[m] = built'[j]
        <3>1. CASE m = 1
            <4>1. k = 1 /\ n + 1 \in DOMAIN built' /\ n + 1 <= n + 1 /\ ~(k < m)
                BY <1>2, <1>5, <2>5, <2>10, <3>1
            <4> QED BY <1>5, <2>6, <3>1, <4>1
        <3>2. CASE m # 1
            <4>1. m \in 2 .. 1 + Len(t)
                BY <2>5, <3>2
            <4>2. m - 1 \in DOMAIN t /\ teardowns'[m] = t[m - 1]
                BY <2>7, <4>1
            <4>3. CASE k = 1
                <5>1. PICK j \in DOMAIN built : t[m - 1] = built[j]
                    BY <4>2, <2>5 DEF TeardownInv, ListedInReverse, t
                <5>2. j \in DOMAIN built' /\ n + 1 \in DOMAIN built' /\ built'[j] = built[j] /\ j < n + 1 /\ j <= n + 1
                    BY <1>2, <1>5
                <5> QED BY <1>5, <2>6, <4>2, <4>3, <5>1, <5>2
            <4>4. CASE k # 1
                <5>1. k \in 2 .. 1 + Len(t)
                    BY <2>5, <4>4
                <5>2. k - 1 \in DOMAIN t /\ teardowns'[k] = t[k - 1] /\ k - 1 <= m - 1 /\ (k < m => k - 1 < m - 1)
                    BY <2>5, <2>7, <2>10, <5>1, <4>1
                <5>3. PICK i \in DOMAIN built, j \in DOMAIN built :
                            j <= i /\ (k - 1 < m - 1 => j < i) /\ t[k - 1] = built[i] /\ t[m - 1] = built[j]
                    BY <4>2, <5>2 DEF TeardownInv, ListedInReverse, t
                <5>4. i \in DOMAIN built' /\ j \in DOMAIN built' /\ built'[i] = built[i] /\ built'[j] = built[j]
                    BY <1>2, <1>5
                <5> QED BY <4>2, <5>2, <5>3, <5>4
            <4> QED BY <4>3, <4>4
        <3> QED BY <3>1, <3>2
    <2>11. ListedInReverse'
        BY <2>3, <2>9, <2>10 DEF ListedInReverse, Shell!HasTeardown
    <2> QED BY <1>1, <1>3, <1>6, <2>11 DEF TeardownInv, CallsInOrder, UpWhileReady
<1> QED BY <1>7, <1>8

\* A step that leaves the list and the calls of shutdown alone.
LEMMA QuietKeepsOrder ==
    ASSUME TeardownInv, UNCHANGED <<built, outcome, teardowns, startup, shutdowns, begun, gone>>
    PROVE  TeardownInv'
BY SMTT(40) DEF TeardownInv, BuiltInOrder, ListedInReverse, CallsInOrder, UpWhileReady, Shell!Plan, Shell!HasTeardown

\* buildService fails, or ends and the service is ready.
LEMMA BuildEndsInOrder ==
    ASSUME TeardownInv, Shell!InitThrows \/ Shell!Ready
    PROVE  TeardownInv'
<1>1. /\ outcome = "building" /\ UNCHANGED <<built, teardowns, shutdowns, begun, gone>>
      /\ \/ outcome' = "failed" /\ startup' = startup
         \/ outcome' = "running" /\ built = Shell!Plan
    BY DEF Shell!InitThrows, Shell!Ready
<1>2. BuiltInOrder' /\ ListedInReverse'
    BY <1>1 DEF TeardownInv, BuiltInOrder, ListedInReverse, Shell!Plan, Shell!HasTeardown
<1>4. CallsInOrder'
    BY <1>1 DEF TeardownInv, CallsInOrder
<1>3. UpWhileReady'
    BY <1>1 DEF TeardownInv, UpWhileReady, Shell!Plan
<1> QED BY <1>2, <1>3, <1>4 DEF TeardownInv

\* A new call of shutdown stands at the head of the list.
LEMMA ShutdownKeepsOrder ==
    ASSUME TeardownInv, Shell!Shutdown
    PROVE  TeardownInv'
<1> DEFINE c == [at |-> 1, on |-> FALSE]
           C == [at : Nat \ {0}, on : BOOLEAN]
<1>1. /\ outcome = "running" /\ startup' = "ShuttingDown" /\ shutdowns' = Append(shutdowns, c)
      /\ UNCHANGED <<built, outcome, teardowns, begun, gone>>
    BY DEF Shell!Shutdown, Shell!MarkShuttingDown
<1>2. shutdowns \in Seq(C) /\ teardowns \in Seq(Parts)
    BY DEF TeardownInv, CallsInOrder, ListedInReverse
<1>3. c \in C /\ c.at = 1 /\ c.on = FALSE
    OBVIOUS
<1> HIDE DEF c, C
<1>4. /\ shutdowns' \in Seq(C) /\ shutdowns' # << >>
      /\ \A s \in DOMAIN shutdowns' : shutdowns'[s] = c \/ (s \in DOMAIN shutdowns /\ shutdowns'[s] = shutdowns[s])
    BY <1>1, <1>2, <1>3
<1>5. ASSUME NEW s \in DOMAIN shutdowns'
      PROVE  /\ shutdowns'[s].on => shutdowns'[s].at <= Len(teardowns)
             /\ shutdowns'[s].at <= Len(teardowns) =>
                   \A k \in DOMAIN teardowns : k < shutdowns'[s].at => teardowns[k] \in gone
    <2>1. CASE shutdowns'[s] = c
        BY <1>2, <1>3, <2>1
    <2>2. CASE s \in DOMAIN shutdowns /\ shutdowns'[s] = shutdowns[s]
        BY <2>2 DEF TeardownInv, CallsInOrder
    <2> QED BY <1>4, <2>1, <2>2
<1>6. CallsInOrder'
    BY <1>1, <1>4, <1>5 DEF TeardownInv, CallsInOrder, C
<1>7. BuiltInOrder' /\ ListedInReverse'
    BY <1>1 DEF TeardownInv, BuiltInOrder, ListedInReverse, Shell!Plan, Shell!HasTeardown
<1>8. UpWhileReady'
    BY <1>1, <1>4 DEF TeardownInv, UpWhileReady, Shell!Plan
<1> QED BY <1>6, <1>7, <1>8 DEF TeardownInv

\* A call of shutdown starts, ends or fails a teardown.
LEMMA TeardownKeepsOrder ==
    ASSUME TeardownInv, NEW s \in DOMAIN shutdowns,
           Shell!StartTeardown(s) \/ Shell!EndTeardown(s) \/ Shell!TeardownThrows(s)
    PROVE  TeardownInv'
<1> DEFINE C == [at : Nat \ {0}, on : BOOLEAN]
           n == Len(teardowns)
<1>1. UNCHANGED <<built, outcome, teardowns, startup>>
    BY DEF Shell!StartTeardown, Shell!EndTeardown, Shell!TeardownThrows
<1>2. BuiltInOrder' /\ ListedInReverse'
    BY <1>1 DEF TeardownInv, BuiltInOrder, ListedInReverse, Shell!Plan, Shell!HasTeardown
<1>3. /\ shutdowns \in Seq(C) /\ teardowns \in Seq(Parts) /\ n \in Nat /\ DOMAIN teardowns = 1 .. n
      /\ shutdowns[s] \in C
    <2>1. shutdowns \in Seq(C) /\ teardowns \in Seq(Parts)
        BY DEF TeardownInv, CallsInOrder, ListedInReverse
    <2> HIDE DEF C
    <2> QED BY <2>1
<1>4. /\ shutdowns[s].at \in Nat \ {0} /\ shutdowns[s].on \in BOOLEAN
      /\ shutdowns[s].on => shutdowns[s].at <= n
      /\ shutdowns[s].at <= n => \A k \in DOMAIN teardowns : k < shutdowns[s].at => teardowns[k] \in gone
    BY <1>3 DEF TeardownInv, CallsInOrder
<1> DEFINE at == shutdowns[s].at
<1>5. /\ DOMAIN shutdowns' = DOMAIN shutdowns /\ shutdowns' \in Seq(C)
      /\ \A u \in DOMAIN shutdowns : u # s => shutdowns'[u] = shutdowns[u]
      /\ \/ shutdowns'[s].at = at /\ at <= n /\ gone' = gone /\ begun' = begun \cup {teardowns[at]}
         \/ shutdowns'[s] = [at |-> at + 1, on |-> FALSE] /\ at <= n /\ gone' = gone \cup {teardowns[at]} /\ begun' = begun
         \/ shutdowns'[s] = [at |-> n + 1, on |-> FALSE] /\ gone' = gone /\ begun' = begun
    <2>1. CASE Shell!StartTeardown(s)
        <3> DEFINE c == [shutdowns[s] EXCEPT !.on = TRUE]
        <3>1. shutdowns' = [shutdowns EXCEPT ![s] = c]
            BY <2>1 DEF Shell!StartTeardown
        <3>2. c \in C /\ c.at = at
            BY <1>3
        <3>3. at <= n /\ gone' = gone /\ begun' = begun \cup {teardowns[at]}
            BY <2>1 DEF Shell!StartTeardown
        <3> HIDE DEF C, at, n, c
        <3> QED BY <1>3, <3>1, <3>2, <3>3
    <2>2. CASE Shell!EndTeardown(s)
        <3>1. shutdowns' = [shutdowns EXCEPT ![s] = [at |-> at + 1, on |-> FALSE]]
            BY <1>3, <2>2 DEF Shell!EndTeardown
        <3>2. [at |-> at + 1, on |-> FALSE] \in C
            BY <1>4
        <3> QED BY <1>3, <1>4, <2>2, <3>1, <3>2 DEF Shell!EndTeardown
    <2>3. CASE Shell!TeardownThrows(s)
        <3>1. shutdowns' = [shutdowns EXCEPT ![s] = [at |-> n + 1, on |-> FALSE]]
            BY <1>3, <2>3 DEF Shell!TeardownThrows
        <3>2. [at |-> n + 1, on |-> FALSE] \in C
            BY <1>3
        <3> QED BY <1>3, <2>3, <3>1, <3>2 DEF Shell!TeardownThrows
    <2> QED BY <2>1, <2>2, <2>3
<1>6. gone \subseteq gone'
    BY <1>5
<1>7. ASSUME NEW u \in DOMAIN shutdowns'
      PROVE  /\ shutdowns'[u].on => shutdowns'[u].at <= n
             /\ shutdowns'[u].at <= n =>
                   \A k \in DOMAIN teardowns : k < shutdowns'[u].at => teardowns[k] \in gone'
    <2>1. CASE u # s
        <3>1. u \in DOMAIN shutdowns /\ shutdowns'[u] = shutdowns[u]
            BY <1>5, <2>1
        <3> QED BY <1>6, <3>1 DEF TeardownInv, CallsInOrder
    <2>2. CASE u = s
        <3>1. CASE shutdowns'[s].at = at /\ at <= n
            BY <1>4, <1>6, <2>2, <3>1
        <3>2. CASE shutdowns'[s] = [at |-> at + 1, on |-> FALSE] /\ at <= n /\ gone' = gone \cup {teardowns[at]}
            <4>1. ASSUME NEW k \in DOMAIN teardowns, k < at + 1 PROVE teardowns[k] \in gone'
                <5>1. k = at \/ k < at
                    BY <1>3, <1>4, <4>1
                <5> QED BY <1>4, <3>2, <5>1
            <4> QED BY <2>2, <3>2, <4>1
        <3>3. CASE shutdowns'[s] = [at |-> n + 1, on |-> FALSE]
            BY <1>3, <2>2, <3>3
        <3> QED BY <1>5, <3>1, <3>2, <3>3
    <2> QED BY <2>1, <2>2
<1>8. ASSUME NEW x \in begun'
      PROVE  \E k \in DOMAIN teardowns :
                teardowns[k] = x /\ \A m \in DOMAIN teardowns : m < k => teardowns[m] \in gone'
    <2>1. CASE x \in begun
        BY <1>6, <2>1 DEF TeardownInv, CallsInOrder
    <2>2. CASE x \notin begun
        <3>1. x = teardowns[at] /\ at <= n
            BY <1>5, <2>2
        <3>2. at \in DOMAIN teardowns
            BY <1>3, <1>4, <3>1
        <3> QED BY <1>4, <1>6, <3>1, <3>2
    <2> QED BY <2>1, <2>2
<1>9. CallsInOrder'
    BY <1>1, <1>5, <1>7, <1>8 DEF CallsInOrder
<1>10. UpWhileReady'
    <2>1. shutdowns # << >> /\ shutdowns' # << >>
        BY <1>3, <1>5
    <2> QED BY <1>1, <2>1 DEF TeardownInv, UpWhileReady, Shell!Plan
<1> QED BY <1>2, <1>9, <1>10 DEF TeardownInv

LEMMA StepKeepsOrder == TeardownInv /\ [Next]_vars => TeardownInv'
<1> SUFFICES ASSUME TeardownInv, [Next]_vars PROVE TeardownInv'
    OBVIOUS
<1>1. [Shell!ShellNext]_shellState
    BY ComponentSteps
<1>2. ASSUME NEW x, Shell!Bring(x) PROVE TeardownInv'
    BY <1>2, BringKeepsOrder
<1>3. CASE Shell!InitThrows \/ Shell!Ready
    BY <1>3, BuildEndsInOrder
<1>4. CASE Shell!Shutdown
    BY <1>4, ShutdownKeepsOrder
<1>5. ASSUME NEW s \in DOMAIN shutdowns,
             Shell!StartTeardown(s) \/ Shell!EndTeardown(s) \/ Shell!TeardownThrows(s)
      PROVE  TeardownInv'
    BY <1>5, TeardownKeepsOrder
<1>6. ASSUME NEW c, NEW turned,
             \/ Shell!HealthTurns(c, turned) \/ Shell!ProbeArrives \/ Shell!CheckReports(c)
             \/ Shell!CheckThrows \/ Shell!ProbeAnswers \/ UNCHANGED shellState
      PROVE  TeardownInv'
    <2>1. UNCHANGED <<built, outcome, teardowns, startup, shutdowns, begun, gone>>
        BY <1>6 DEF Shell!HealthTurns, Shell!ProbeArrives, Shell!CheckReports, Shell!CheckThrows, Shell!ProbeAnswers, shellState
    <2> QED BY <2>1, QuietKeepsOrder
<1> QED BY <1>1, <1>2, <1>3, <1>4, <1>5, <1>6 DEF Shell!ShellNext

\* In the list, what was built later stands earlier, and is gone when an earlier begins.
LEMMA InvTornDown == TeardownInv => Shell!TornDownInOrder
<1> SUFFICES ASSUME TeardownInv PROVE Shell!TornDownInOrder
    OBVIOUS
<1>1. /\ Len(built) \in Nat /\ DOMAIN built = 1 .. Len(built)
      /\ \A i, j \in DOMAIN built : built[i] = built[j] => i = j
    BY PlanIsDistinct DEF TeardownInv, BuiltInOrder
<1>2. ASSUME NEW i \in DOMAIN built, built[i] \in begun, NEW j \in (i + 1) .. Len(built),
             Shell!HasTeardown(built[j])
      PROVE  built[j] \in gone
    <2>1. j \in DOMAIN built /\ i < j
        BY <1>1
    <2>2. PICK m \in DOMAIN teardowns :
                teardowns[m] = built[i] /\ \A l \in DOMAIN teardowns : l < m => teardowns[l] \in gone
        BY <1>2 DEF TeardownInv, CallsInOrder
    <2>3. PICK k \in DOMAIN teardowns : teardowns[k] = built[j]
        BY <1>2, <2>1 DEF TeardownInv, ListedInReverse
    <2>4. k \in Nat /\ m \in Nat
        BY DEF TeardownInv, ListedInReverse
    <2>5. ~(m <= k)
        <3> SUFFICES ASSUME m <= k PROVE FALSE
            OBVIOUS
        <3>1. PICK a \in DOMAIN built, b \in DOMAIN built :
                    b <= a /\ teardowns[m] = built[a] /\ teardowns[k] = built[b]
            BY <2>2, <2>3 DEF TeardownInv, ListedInReverse
        <3>2. a = i /\ b = j
            BY <1>1, <2>1, <2>2, <2>3, <3>1
        <3> QED BY <1>1, <2>1, <3>1, <3>2
    <2>6. k < m
        BY <2>4, <2>5
    <2> QED BY <2>2, <2>3, <2>6
<1>3. startup = "Ready" => built = Shell!Plan /\ begun = {}
    BY DEF TeardownInv, UpWhileReady
<1> QED BY <1>2, <1>3 DEF Shell!TornDownInOrder

-----------------------------------------------------------------------------
(* The service shell: what a probe sees.                                    *)

Status == {"Healthy", "Degraded", "Unknown", "Unhealthy"}
Bad == {"Unknown", "Unhealthy"}

\* The checks of the infra layer are watched before the probes let anybody in, and a
\* failing one is still to be asked or has spoiled the result.
ProbeInv ==
    /\ outcome \in {"building", "running", "failed"}
    /\ startup = "Ready" => outcome = "running"
    /\ (\E i \in DOMAIN built : built[i] = "Probe") => watched = InfraChecks
    /\ health \in [Shell!Checks -> Status]
    /\ probe.left \subseteq Shell!Checks /\ probe.failing \subseteq Shell!Checks
    /\ probe = [left |-> probe.left, worst |-> probe.worst, failing |-> probe.failing]
    /\ probe.left # {} => probe.worst \in Status
    /\ probe.failing # {} => probe.worst \in Status
    /\ \A c \in probe.failing : health[c] \in Bad
    /\ \A c \in probe.failing \cap InfraChecks : c \in probe.left \/ probe.worst \in Bad
    /\ hidden \cap InfraChecks = {}

\* The ranks, and that the worse of two statuses wins.
LEMMA WorseWins ==
    /\ \A a, b \in Status : Shell!Combine(a, b) \in Status
    /\ \A a, b \in Status : a \in Bad \/ b \in Bad => Shell!Combine(a, b) \in Bad
    /\ \A a \in Status : Shell!IsReady(a) <=> a \notin Bad
<1> DEFINE S == Shell!Statuses
<1>1. S[1] = "Healthy" /\ S[2] = "Degraded" /\ S[3] = "Unknown" /\ S[4] = "Unhealthy"
    BY DEF Shell!Statuses
<1>2. \A a : Shell!Rank(a) = CHOOSE i \in 1 .. 4 : S[i] = a
    BY DEF Shell!Rank
<1> HIDE DEF S
<1>3. /\ Shell!Rank("Healthy") = 1 /\ Shell!Rank("Degraded") = 2
      /\ Shell!Rank("Unknown") = 3 /\ Shell!Rank("Unhealthy") = 4
    <2>1. (CHOOSE i \in 1 .. 4 : S[i] = "Healthy") = 1
        BY <1>1
    <2>2. (CHOOSE i \in 1 .. 4 : S[i] = "Degraded") = 2
        BY <1>1
    <2>3. (CHOOSE i \in 1 .. 4 : S[i] = "Unknown") = 3
        BY <1>1
    <2>4. (CHOOSE i \in 1 .. 4 : S[i] = "Unhealthy") = 4
        BY <1>1
    <2> QED BY <1>2, <2>1, <2>2, <2>3, <2>4
<1> QED BY <1>3 DEF Shell!Combine, Shell!IsReady, Status, Bad

LEMMA InitProbe == Init => ProbeInv
<1> SUFFICES ASSUME Init PROVE ProbeInv
    OBVIOUS
<1>1. /\ built = << >> /\ outcome = "building" /\ startup = "Starting" /\ hidden = {}
      /\ health = [c \in Shell!Checks |-> "Healthy"]
      /\ probe = [left |-> {}, worst |-> "none", failing |-> {}]
    BY DEF Init, Shell!ShellInit, Shell!NoProbe
<1> QED BY <1>1 DEF ProbeInv, Status

LEMMA StepKeepsProbe == TeardownInv /\ ProbeInv /\ [Next]_vars => ProbeInv'
<1> SUFFICES ASSUME TeardownInv, ProbeInv, [Next]_vars PROVE ProbeInv'
    OBVIOUS
<1>0. [Shell!ShellNext]_shellState
    BY ComponentSteps
<1>1. ASSUME NEW x, Shell!Bring(x) PROVE ProbeInv'
    <2>1. /\ outcome = "building" /\ built' = Append(built, x)
          /\ watched' = IF x = "Probe" THEN InfraChecks ELSE watched
          /\ UNCHANGED <<outcome, startup, health, probe, hidden>>
        BY <1>1 DEF Shell!Bring
    <2>2. (\E i \in DOMAIN built' : built'[i] = "Probe") => watched' = InfraChecks
        <3>1. \E X : built \in Seq(X) /\ x \in X
            <4>1. built = [i \in 1 .. Len(built) |-> built[i]] /\ Len(built) \in Nat
                BY DEF TeardownInv, BuiltInOrder
            <4>2. built \in Seq({built[i] : i \in 1 .. Len(built)} \cup {x})
                BY <4>1
            <4> QED BY <4>2
        <3>2. PICK X : built \in Seq(X) /\ x \in X
            BY <3>1
        <3>3. \A i \in DOMAIN built' : built'[i] = x \/ (i \in DOMAIN built /\ built'[i] = built[i])
            BY <2>1, <3>2
        <3> QED BY <2>1, <3>3 DEF ProbeInv
    <2> QED BY <2>1, <2>2 DEF ProbeInv, Shell!Checks
<1>2. CASE Shell!InitThrows \/ Shell!Ready
    BY <1>2 DEF Shell!InitThrows, Shell!Ready, Shell!CollectExports, ProbeInv, TeardownInv, UpWhileReady, Shell!Checks
<1>3. CASE Shell!Shutdown
    BY <1>3 DEF Shell!Shutdown, Shell!MarkShuttingDown, ProbeInv, Shell!Checks
<1>4. ASSUME UNCHANGED <<built, outcome, startup, watched, health, probe, hidden>> PROVE ProbeInv'
    BY <1>4 DEF ProbeInv, Shell!Checks
<1>5. ASSUME NEW s, Shell!StartTeardown(s) \/ Shell!EndTeardown(s) \/ Shell!TeardownThrows(s) PROVE ProbeInv'
    BY <1>4, <1>5 DEF Shell!StartTeardown, Shell!EndTeardown, Shell!TeardownThrows
<1>6. ASSUME NEW c \in Shell!Checks, NEW turned \in Status, Shell!HealthTurns(c, turned) PROVE ProbeInv'
    <2>1. /\ health' = [health EXCEPT ![c] = turned]
          /\ probe' = [probe EXCEPT !.failing = IF Shell!IsReady(turned) THEN @ \ {c} ELSE @]
          /\ UNCHANGED <<built, outcome, startup, watched, hidden>>
        BY <1>6 DEF Shell!HealthTurns
    <2>2. Shell!IsReady(turned) <=> turned \notin Bad
        BY <1>6, WorseWins, Zenon
    <2>3. PICK fresh : fresh = IF turned \notin Bad THEN probe.failing \ {c} ELSE probe.failing
        OBVIOUS
    <2>4. probe' = [probe EXCEPT !.failing = fresh]
        <3>1. CASE Shell!IsReady(turned)
            BY <2>1, <2>2, <2>3, <3>1
        <3>2. CASE ~Shell!IsReady(turned)
            BY <2>1, <2>2, <2>3, <3>2
        <3> QED BY <3>1, <3>2
    <2>5. probe = [left |-> probe.left, worst |-> probe.worst, failing |-> probe.failing]
        BY DEF ProbeInv
    <2>6. probe' = [left |-> probe.left, worst |-> probe.worst, failing |-> fresh]
        BY <2>4, <2>5
    <2>7. /\ probe'.left = probe.left /\ probe'.worst = probe.worst /\ probe'.failing = fresh
          /\ probe' = [left |-> probe'.left, worst |-> probe'.worst, failing |-> probe'.failing]
        BY <2>6
    <2>8. fresh \subseteq probe.failing /\ (turned \in Bad \/ c \notin fresh)
        BY <2>3
    <2>9. /\ health' \in [Shell!Checks -> Status]
          /\ \A d \in fresh : health'[d] \in Bad
        <3>1. health \in [Shell!Checks -> Status] /\ \A d \in probe.failing : health[d] \in Bad /\ d \in Shell!Checks
            BY DEF ProbeInv
        <3> QED BY <1>6, <2>1, <2>8, <3>1
    <2>10. UNCHANGED <<built, outcome, startup, watched, hidden>>
        BY <2>1
    <2> QED BY <2>7, <2>8, <2>9, <2>10 DEF ProbeInv, Shell!Checks
<1>7. CASE Shell!ProbeArrives
    <2>1. /\ \E i \in DOMAIN built : built[i] = "Probe"
          /\ probe' = [left |-> watched, worst |-> "Healthy", failing |-> Shell!Unwell]
          /\ UNCHANGED <<built, outcome, startup, watched, health, hidden>>
        BY <1>7 DEF Shell!ProbeArrives, Shell!ToSet
    <2>2. Shell!Unwell \subseteq Shell!Checks /\ \A c \in Shell!Unwell : health[c] \in Bad
        BY WorseWins DEF Shell!Unwell, ProbeInv
    <2> QED BY <2>1, <2>2 DEF ProbeInv, Shell!Checks, Status
<1>8. ASSUME NEW c \in Shell!Checks, Shell!CheckReports(c) PROVE ProbeInv'
    <2>1. /\ c \in probe.left
          /\ probe' = [probe EXCEPT !.left = @ \ {c}, !.worst = Shell!Combine(@, health[c])]
          /\ UNCHANGED <<built, outcome, startup, watched, health, hidden>>
        BY <1>8 DEF Shell!CheckReports
    <2>2. probe' = [left |-> probe.left \ {c}, worst |-> Shell!Combine(probe.worst, health[c]), failing |-> probe.failing]
        BY <2>1 DEF ProbeInv
    <2>3. probe.worst \in Status /\ health[c] \in Status
        BY <2>1 DEF ProbeInv
    <2>4. /\ Shell!Combine(probe.worst, health[c]) \in Status
          /\ probe.worst \in Bad \/ health[c] \in Bad => Shell!Combine(probe.worst, health[c]) \in Bad
        BY <2>3, WorseWins
    <2> DEFINE w == Shell!Combine(probe.worst, health[c])
    <2> HIDE DEF w
    <2>5. probe'.left = probe.left \ {c} /\ probe'.worst = w /\ probe'.failing = probe.failing
        BY <2>2 DEF w
    <2>6. \A d \in probe'.failing \cap InfraChecks : d \in probe'.left \/ probe'.worst \in Bad
        BY <2>4, <2>5 DEF ProbeInv, w
    <2> QED BY <2>1, <2>2, <2>4, <2>5, <2>6 DEF ProbeInv, Shell!Checks, w
<1>9. CASE Shell!CheckThrows
    <2>1. /\ probe' = [left |-> {}, worst |-> "none", failing |-> {}]
          /\ UNCHANGED <<built, outcome, startup, watched, health, hidden>>
        BY <1>9 DEF Shell!CheckThrows, Shell!NoProbe
    <2> QED BY <2>1 DEF ProbeInv, Shell!Checks
<1>10. CASE Shell!ProbeAnswers
    <2>1. /\ probe.left = {} /\ probe' = [left |-> {}, worst |-> "none", failing |-> {}]
          /\ hidden' = IF Shell!IsReady(probe.worst) THEN hidden \cup probe.failing ELSE hidden
          /\ UNCHANGED <<built, outcome, startup, watched, health>>
        BY <1>10 DEF Shell!ProbeAnswers, Shell!NoProbe
    <2>2. hidden' \cap InfraChecks = {}
        <3>1. CASE probe.failing = {}
            BY <2>1, <3>1 DEF ProbeInv
        <3>2. CASE probe.failing # {}
            BY <2>1, <3>2, WorseWins DEF ProbeInv
        <3> QED BY <3>1, <3>2
    <2> QED BY <2>1, <2>2 DEF ProbeInv, Shell!Checks
<1>11. Shell!ToSet(Shell!Statuses) = Status
    BY DEF Shell!ToSet, Shell!Statuses, Status
<1>12. CASE UNCHANGED shellState
    BY <1>4, <1>12 DEF shellState
<1> QED BY <1>0, <1>1, <1>2, <1>3, <1>5, <1>6, <1>7, <1>8, <1>9, <1>10, <1>11, <1>12 DEF Shell!ShellNext

\* The deployed service tears its layers down in the reverse order of their start, however
\* often shutdown is called and whichever teardown throws, is up while it is ready, and
\* answers no probe with 200 while an infra check fails (service-template.ts).
THEOREM ShellIsSound == Spec => []ShellSound
<1>1. Init => TeardownInv /\ ProbeInv
    BY InitTeardown, InitProbe
<1>2. TeardownInv /\ ProbeInv /\ [Next]_vars => (TeardownInv /\ ProbeInv)'
    BY StepKeepsOrder, StepKeepsProbe
<1>3. TeardownInv /\ ProbeInv => ShellSound
    BY InvTornDown DEF ShellSound, ProbeInv, Shell!InfraFailureIsSeen
<1> QED BY <1>1, <1>2, <1>3, PTL DEF Spec

-----------------------------------------------------------------------------
(* The MCP client: no request is forgotten.                                 *)

Child == [run : {"running", "killed", "dead"}, inbox : Seq(Nat), outbox : Seq(Nat), exitDue : BOOLEAN]

\* The request stands in one of the child's pipes, or the exit of the child is due.
Carried(id, child) ==
    \/ \E i \in DOMAIN child.inbox : child.inbox[i] = id
    \/ \E i \in DOMAIN child.outbox : child.outbox[i] = id
    \/ child.exitDue = TRUE

\* A child that does not run is not the current one, unless its exit is due: what is sent
\* to the current child gets an answer or an exit event.
ClientInv ==
    /\ children \in Seq(Child) /\ calls \in Seq({"waiting", "answered", "rejected"})
    /\ sentTo \in Seq(Nat) /\ Len(sentTo) = Len(calls)
    /\ \A id \in DOMAIN calls : sentTo[id] \in DOMAIN children
    /\ pending \subseteq DOMAIN calls
    /\ process = 0 \/ /\ process \in DOMAIN children
                      /\ children[process].run = "running" \/ children[process].exitDue = TRUE
    /\ \A id \in DOMAIN calls : calls[id] = "waiting" => id \in pending /\ Carried(id, children[sentTo[id]])

LEMMA InitClient == Init => ClientInv
BY DEF Init, McpC!McpClientInit, ClientInv

\* The children change and still carry what they carried; requests may be settled.
LEMMA CarriedOn ==
    ASSUME ClientInv, children' \in Seq(Child), DOMAIN children' = DOMAIN children,
           calls' \in Seq({"waiting", "answered", "rejected"}), DOMAIN calls' = DOMAIN calls, sentTo' = sentTo,
           pending' \subseteq pending,
           process' = 0 \/ (process' = process /\ \A p \in DOMAIN children :
                              children[p].run = "running" \/ children[p].exitDue = TRUE =>
                                 children'[p].run = "running" \/ children'[p].exitDue = TRUE),
           \A id \in DOMAIN calls : calls'[id] = "waiting" =>
              /\ calls[id] = "waiting" /\ (id \in pending => id \in pending')
              /\ \A p \in DOMAIN children : Carried(id, children[p]) => Carried(id, children'[p])
    PROVE  ClientInv'
<1>1. Len(calls') = Len(calls)
    BY DEF ClientInv
<1>2. ASSUME NEW id \in DOMAIN calls', calls'[id] = "waiting"
      PROVE  id \in pending' /\ Carried(id, children'[sentTo'[id]])
    <2>1. id \in DOMAIN calls /\ calls[id] = "waiting" /\ sentTo[id] \in DOMAIN children
        BY <1>2 DEF ClientInv
    <2> QED BY <1>2, <2>1 DEF ClientInv
<1>3. process' = 0 \/ /\ process' \in DOMAIN children'
                      /\ children'[process'].run = "running" \/ children'[process'].exitDue = TRUE
    BY DEF ClientInv
<1>4. /\ sentTo' \in Seq(Nat) /\ Len(sentTo') = Len(calls')
      /\ \A id \in DOMAIN calls' : sentTo'[id] \in DOMAIN children'
      /\ pending' \subseteq DOMAIN calls'
    BY <1>1 DEF ClientInv
<1> QED BY <1>2, <1>3, <1>4 DEF ClientInv, Carried

\* Settling changes no other call.
LEMMA SettledCalls ==
    ASSUME calls \in Seq({"waiting", "answered", "rejected"}), NEW ids, NEW how \in {"answered", "rejected"}
    PROVE  /\ McpC!Settled(ids, how) \in Seq({"waiting", "answered", "rejected"})
           /\ DOMAIN McpC!Settled(ids, how) = DOMAIN calls
           /\ \A id \in DOMAIN calls : McpC!Settled(ids, how)[id] = "waiting" => calls[id] = "waiting" /\ id \notin ids
BY DEF McpC!Settled

\* What send writes: one call more, which the current child carries.
LEMMA SendKeeps ==
    ASSUME ClientInv, McpC!Send
    PROVE  ClientInv'
<1> DEFINE W == {"waiting", "answered", "rejected"}
           id == Len(calls) + 1
           kids == IF process = 0 THEN Append(children, McpC!Spawned) ELSE children
           p == IF process = 0 THEN Len(children) + 1 ELSE process
           tray == IF kids[p].run = "running" THEN Append(kids[p].inbox, id) ELSE kids[p].inbox
           kid == [kids[p] EXCEPT !.inbox = tray]
<1>1. /\ process' = p /\ children' = [kids EXCEPT ![p] = kid]
      /\ pending' = pending \cup {id} /\ calls' = Append(calls, "waiting") /\ sentTo' = Append(sentTo, p)
    BY DEF McpC!Send
<1>2. /\ children \in Seq(Child) /\ calls \in Seq(W) /\ sentTo \in Seq(Nat) /\ Len(sentTo) = Len(calls)
      /\ Len(calls) \in Nat /\ Len(children) \in Nat /\ DOMAIN children = 1 .. Len(children) /\ DOMAIN calls = 1 .. Len(calls)
    BY DEF ClientInv
<1>3. McpC!Spawned \in Child /\ McpC!Spawned.run = "running"
    BY DEF McpC!Spawned, Child
<1>4. /\ kids \in Seq(Child) /\ p \in DOMAIN kids /\ DOMAIN kids = 1 .. Len(kids) /\ p \in Nat
      /\ DOMAIN children \subseteq DOMAIN kids /\ \A q \in DOMAIN children : kids[q] = children[q]
      /\ kids[p].run = "running" \/ kids[p].exitDue = TRUE
    <2>1. CASE process = 0
        <3> HIDE DEF Child
        <3> QED BY <1>2, <1>3, <2>1
    <2>2. CASE process # 0
        BY <1>2, <2>2 DEF ClientInv
    <2> QED BY <2>1, <2>2
<1>5. kids[p] \in Child
    BY <1>4
<1>6. /\ kid \in Child /\ kid.run = kids[p].run /\ kid.outbox = kids[p].outbox /\ kid.exitDue = kids[p].exitDue /\ kid.inbox = tray
      /\ \A i \in DOMAIN kids[p].inbox : i \in DOMAIN tray /\ tray[i] = kids[p].inbox[i]
      /\ kids[p].run = "running" => \E i \in DOMAIN tray : tray[i] = id
    <2>1. kids[p].inbox \in Seq(Nat) /\ id \in Nat
        BY <1>2, <1>5 DEF Child
    <2>2. tray \in Seq(Nat)
        BY <2>1
    <2>3. \A i \in DOMAIN kids[p].inbox : i \in DOMAIN tray /\ tray[i] = kids[p].inbox[i]
        BY <2>1, SMTT(40)
    <2>4. ASSUME kids[p].run = "running" PROVE \E i \in DOMAIN tray : tray[i] = id
        <3>1. Len(kids[p].inbox) + 1 \in DOMAIN tray /\ tray[Len(kids[p].inbox) + 1] = id
            BY <2>1, <2>4, SMTT(40)
        <3> QED BY <3>1
    <2> HIDE DEF tray, kids, p, id
    <2>5. kid \in Child /\ kid.run = kids[p].run /\ kid.outbox = kids[p].outbox /\ kid.exitDue = kids[p].exitDue /\ kid.inbox = tray
        BY <1>5, <2>2 DEF Child
    <2> QED BY <2>3, <2>4, <2>5
<1> HIDE DEF kids, p, tray, kid, id, W
<1>7. /\ children' \in Seq(Child) /\ DOMAIN children' = DOMAIN kids /\ children'[p] = kid
      /\ \A q \in DOMAIN kids : q # p => children'[q] = kids[q]
    BY <1>1, <1>4, <1>6
<1>8. /\ calls' \in Seq(W) /\ Len(calls') = Len(calls) + 1 /\ DOMAIN calls' = DOMAIN calls \cup {id}
      /\ \A c \in DOMAIN calls : calls'[c] = calls[c] /\ c # id
    BY <1>1, <1>2 DEF id, W
<1>9. /\ sentTo' \in Seq(Nat) /\ Len(sentTo') = Len(calls) + 1 /\ sentTo'[id] = p
      /\ \A c \in DOMAIN calls : sentTo'[c] = sentTo[c] /\ sentTo[c] \in DOMAIN children
    BY <1>1, <1>2, <1>4 DEF id, ClientInv
<1>10. Carried(id, kid)
    BY <1>4, <1>6 DEF Carried
<1>11. ASSUME NEW c \in DOMAIN calls', calls'[c] = "waiting"
       PROVE  c \in pending' /\ Carried(c, children'[sentTo'[c]])
    <2>1. CASE c = id
        BY <1>1, <1>7, <1>9, <1>10, <2>1
    <2>2. CASE c # id
        <3> DEFINE q == sentTo[c]
        <3>1. c \in DOMAIN calls /\ calls[c] = "waiting" /\ q \in DOMAIN children /\ sentTo'[c] = q
            BY <1>8, <1>9, <1>11, <2>2
        <3>2. c \in pending /\ Carried(c, children[q])
            BY <3>1 DEF ClientInv
        <3>3. Carried(c, kids[q]) /\ q \in DOMAIN kids
            BY <1>4, <3>1, <3>2
        <3> HIDE DEF q
        <3>4. CASE q = p
            <4>1. Carried(c, kid)
                BY <1>6, <3>3, <3>4 DEF Carried
            <4> QED BY <1>1, <1>7, <3>1, <3>2, <3>4, <4>1
        <3>5. CASE q # p
            BY <1>1, <1>7, <3>1, <3>2, <3>3, <3>5
        <3> QED BY <3>4, <3>5
    <2> QED BY <2>1, <2>2
<1>12. process' \in DOMAIN children' /\ (children'[process'].run = "running" \/ children'[process'].exitDue = TRUE)
    BY <1>1, <1>4, <1>6, <1>7
<1>13. /\ Len(sentTo') = Len(calls') /\ \A c \in DOMAIN calls' : sentTo'[c] \in DOMAIN children'
       /\ pending' \subseteq DOMAIN calls'
    <2>1. pending \subseteq DOMAIN calls
        BY DEF ClientInv
    <2> QED BY <1>1, <1>4, <1>7, <1>8, <1>9, <2>1
<1> QED BY <1>7, <1>8, <1>9, <1>11, <1>12, <1>13 DEF ClientInv, Carried, W

\* One child is replaced by another.
LEMMA OtherChild ==
    ASSUME ClientInv, NEW p \in DOMAIN children, NEW k \in Child, children' = [children EXCEPT ![p] = k]
    PROVE  /\ children' \in Seq(Child) /\ DOMAIN children' = DOMAIN children
           /\ children'[p] = k /\ \A q \in DOMAIN children : q # p => children'[q] = children[q]
<1>1. children \in Seq(Child)
    BY DEF ClientInv
<1> QED BY <1>1

\* A child reads a request and answers it, or dies.
LEMMA ChildKeeps ==
    ASSUME ClientInv, NEW p \in DOMAIN children, McpC!ChildAnswers(p) \/ McpC!ChildDies(p)
    PROVE  ClientInv'
<1> DEFINE c == children[p]
<1>1. c \in Child /\ calls \in Seq({"waiting", "answered", "rejected"})
    BY DEF ClientInv
<1>2. c.inbox \in Seq(Nat) /\ c.outbox \in Seq(Nat) /\ c.exitDue \in BOOLEAN
    BY <1>1 DEF Child
<1>3. UNCHANGED <<process, pending, calls, sentTo>>
    BY DEF McpC!ChildAnswers, McpC!ChildDies
<1>4. CASE McpC!ChildAnswers(p)
    <2> DEFINE x == Head(c.inbox)
               k == [c EXCEPT !.inbox = Tail(c.inbox), !.outbox = Append(c.outbox, x)]
    <2>1. c.run = "running" /\ c.inbox # << >> /\ children' = [children EXCEPT ![p] = k]
        BY <1>4 DEF McpC!ChildAnswers
    <2>2. Tail(c.inbox) \in Seq(Nat) /\ Append(c.outbox, x) \in Seq(Nat) /\ x \in Nat
        BY <1>2, <2>1
    <2>3. /\ k \in Child /\ k.run = "running" /\ k.exitDue = c.exitDue
          /\ k.inbox = Tail(c.inbox) /\ k.outbox = Append(c.outbox, x)
        <3> HIDE DEF c, x
        <3> QED BY <1>1, <2>1, <2>2 DEF Child
    <2>4. ASSUME NEW id, Carried(id, c) PROVE Carried(id, k)
        <3>1. CASE c.exitDue = TRUE
            BY <2>3, <3>1 DEF Carried
        <3>2. ASSUME NEW i \in DOMAIN c.inbox, c.inbox[i] = id PROVE Carried(id, k)
            <4>1. CASE i = 1
                <5>1. Len(c.outbox) + 1 \in DOMAIN Append(c.outbox, x) /\ Append(c.outbox, x)[Len(c.outbox) + 1] = id
                    BY <1>2, <2>1, <2>2, <3>2, <4>1
                <5> QED BY <2>3, <5>1 DEF Carried
            <4>2. CASE i # 1
                <5>1. i - 1 \in DOMAIN Tail(c.inbox) /\ Tail(c.inbox)[i - 1] = id
                    BY <1>2, <2>1, <3>2, <4>2
                <5> QED BY <2>3, <5>1 DEF Carried
            <4> QED BY <4>1, <4>2
        <3>3. ASSUME NEW i \in DOMAIN c.outbox, c.outbox[i] = id PROVE Carried(id, k)
            <4>1. i \in DOMAIN Append(c.outbox, x) /\ Append(c.outbox, x)[i] = id
                BY <1>2, <2>2, <3>3
            <4> QED BY <2>3, <4>1 DEF Carried
        <3> QED BY <2>4, <3>1, <3>2, <3>3 DEF Carried
    <2> HIDE DEF k
    <2>5. \A id : \A q \in DOMAIN children : Carried(id, children[q]) => Carried(id, children'[q])
        BY <2>1, <2>3, <2>4, OtherChild
    <2>6. \A q \in DOMAIN children : children[q].run = "running" \/ children[q].exitDue = TRUE =>
                                         children'[q].run = "running" \/ children'[q].exitDue = TRUE
        BY <2>1, <2>3, OtherChild
    <2>7. children' \in Seq(Child) /\ DOMAIN children' = DOMAIN children
        BY <2>1, <2>3, OtherChild
    <2> QED BY <1>1, <1>3, <2>5, <2>6, <2>7, CarriedOn
<1>5. CASE McpC!ChildDies(p)
    <2> DEFINE k == [c EXCEPT !.run = "dead", !.inbox = << >>, !.exitDue = TRUE]
    <2>1. children' = [children EXCEPT ![p] = k]
        BY <1>5 DEF McpC!ChildDies
    <2>2. k \in Child /\ k.exitDue = TRUE
        <3> DEFINE none == << >>
                   new == [c EXCEPT !.run = "dead", !.inbox = none, !.exitDue = TRUE]
        <3>1. none \in Seq(Nat)
            OBVIOUS
        <3> HIDE DEF c, none
        <3>2. new \in Child
            BY <1>1, <3>1 DEF Child
        <3>3. new.exitDue = TRUE
            BY <1>1 DEF Child
        <3> QED BY <3>2, <3>3 DEF none
    <2> HIDE DEF k
    <2>3. \A id : \A q \in DOMAIN children : Carried(id, children[q]) => Carried(id, children'[q])
        BY <2>1, <2>2, OtherChild DEF Carried
    <2>4. \A q \in DOMAIN children : children[q].run = "running" \/ children[q].exitDue = TRUE =>
                                         children'[q].run = "running" \/ children'[q].exitDue = TRUE
        BY <2>1, <2>2, OtherChild
    <2>5. children' \in Seq(Child) /\ DOMAIN children' = DOMAIN children
        BY <2>1, <2>2, OtherChild
    <2> QED BY <1>1, <1>3, <2>3, <2>4, <2>5, CarriedOn
<1> QED BY <1>4, <1>5

\* The line event settles the request whose answer it takes from the pipe.
LEMMA LineKeeps ==
    ASSUME ClientInv, NEW p \in DOMAIN children, McpC!LineEvent(p)
    PROVE  ClientInv'
<1> DEFINE c == children[p]
           x == Head(c.outbox)
           k == [c EXCEPT !.outbox = Tail(c.outbox)]
<1>1. c \in Child /\ calls \in Seq({"waiting", "answered", "rejected"})
    BY DEF ClientInv
<1>2. c.outbox \in Seq(Nat)
    BY <1>1 DEF Child
<1>3. /\ c.outbox # << >> /\ children' = [children EXCEPT ![p] = k]
      /\ calls' = McpC!Settled({x} \cap pending, "answered") /\ pending' = pending \ {x}
      /\ UNCHANGED <<process, sentTo>>
    BY DEF McpC!LineEvent
<1>4. k \in Child /\ k.run = c.run /\ k.exitDue = c.exitDue /\ k.inbox = c.inbox /\ k.outbox = Tail(c.outbox)
    <2>1. Tail(c.outbox) \in Seq(Nat)
        BY <1>2, <1>3
    <2> HIDE DEF c
    <2> QED BY <1>1, <2>1 DEF Child
<1>5. ASSUME NEW id, id # x, Carried(id, c) PROVE Carried(id, k)
    <2>1. ASSUME NEW i \in DOMAIN c.outbox, c.outbox[i] = id PROVE Carried(id, k)
        <3>1. i - 1 \in DOMAIN Tail(c.outbox) /\ Tail(c.outbox)[i - 1] = id
            <4>1. i # 1
                BY <1>2, <1>3, <1>5, <2>1
            <4> QED BY <1>2, <1>3, <2>1, <4>1, SMTT(40)
        <3> QED BY <1>4, <3>1 DEF Carried
    <2> QED BY <1>4, <1>5, <2>1 DEF Carried
<1> HIDE DEF k
<1>6. /\ children' \in Seq(Child) /\ DOMAIN children' = DOMAIN children /\ children'[p] = k
      /\ \A q \in DOMAIN children : q # p => children'[q] = children[q]
    BY <1>3, <1>4, OtherChild
<1>7. /\ calls' \in Seq({"waiting", "answered", "rejected"}) /\ DOMAIN calls' = DOMAIN calls
      /\ \A id \in DOMAIN calls : calls'[id] = "waiting" => calls[id] = "waiting" /\ id \notin ({x} \cap pending)
    BY <1>1, <1>3, SettledCalls
<1>8. ASSUME NEW id \in DOMAIN calls, calls'[id] = "waiting"
      PROVE  /\ calls[id] = "waiting" /\ id \in pending'
             /\ \A q \in DOMAIN children : Carried(id, children[q]) => Carried(id, children'[q])
    <2>1. calls[id] = "waiting" /\ id \in pending /\ id # x
        BY <1>7, <1>8 DEF ClientInv
    <2> QED BY <1>3, <1>5, <1>6, <2>1
<1>9. \A q \in DOMAIN children : children[q].run = "running" \/ children[q].exitDue = TRUE =>
                                     children'[q].run = "running" \/ children'[q].exitDue = TRUE
    BY <1>4, <1>6
<1> HIDE DEF c, x
<1> QED BY <1>3, <1>6, <1>7, <1>8, <1>9, CarriedOn

\* What rejects every pending request leaves none waiting.
LEMMA NoneWaits ==
    ASSUME ClientInv, McpC!RejectPending
    PROVE  /\ calls' \in Seq({"waiting", "answered", "rejected"}) /\ DOMAIN calls' = DOMAIN calls
           /\ \A id \in DOMAIN calls : calls'[id] # "waiting"
           /\ pending' = {}
<1>1. calls \in Seq({"waiting", "answered", "rejected"})
    BY DEF ClientInv
<1>2. calls' = McpC!Settled(pending, "rejected") /\ pending' = {}
    BY DEF McpC!RejectPending
<1>3. /\ calls' \in Seq({"waiting", "answered", "rejected"}) /\ DOMAIN calls' = DOMAIN calls
      /\ \A id \in DOMAIN calls : calls'[id] = "waiting" => calls[id] = "waiting" /\ id \notin pending
    BY <1>1, <1>2, SettledCalls
<1> QED BY <1>2, <1>3 DEF ClientInv

\* The exit event, of whichever child, and close.
LEMMA ExitKeeps ==
    ASSUME ClientInv, McpC!Close \/ \E p \in DOMAIN children : McpC!ExitEvent(p)
    PROVE  ClientInv'
<1>1. McpC!RejectPending /\ process' = 0 /\ sentTo' = sentTo
    BY DEF McpC!Close, McpC!ExitEvent, McpC!OnExit
<1>2. children' \in Seq(Child) /\ DOMAIN children' = DOMAIN children
    <2>1. ASSUME NEW p \in DOMAIN children, McpC!ExitEvent(p)
          PROVE  children' \in Seq(Child) /\ DOMAIN children' = DOMAIN children
        <3> DEFINE k == [children[p] EXCEPT !.exitDue = FALSE]
        <3>1. children' = [children EXCEPT ![p] = k]
            BY <2>1 DEF McpC!ExitEvent
        <3>2. k \in Child
            <4> DEFINE c == children[p]
            <4>1. c \in Child
                BY DEF ClientInv
            <4> HIDE DEF c
            <4>2. [c EXCEPT !.exitDue = FALSE] \in Child
                BY <4>1 DEF Child
            <4> QED BY <4>2 DEF c
        <3> HIDE DEF k
        <3> QED BY <3>1, <3>2, OtherChild
    <2>2. CASE McpC!Close
        <3>1. CASE children' = children
            BY <3>1 DEF ClientInv
        <3>2. CASE children' # children
            <4> DEFINE k == [children[process] EXCEPT !.run = "killed"]
            <4>1. children' = [children EXCEPT ![process] = k] /\ process \in DOMAIN children
                BY <2>2, <3>2 DEF McpC!Close, ClientInv
            <4>2. k \in Child
                <5> DEFINE c == children[process]
                <5>1. c \in Child
                    BY <4>1 DEF ClientInv
                <5> HIDE DEF c
                <5>2. [c EXCEPT !.run = "killed"] \in Child
                    BY <5>1 DEF Child
                <5> QED BY <5>2 DEF c
            <4> HIDE DEF k
            <4> QED BY <4>1, <4>2, OtherChild
        <3> QED BY <3>1, <3>2
    <2> QED BY <2>1, <2>2
<1> QED BY <1>1, <1>2, NoneWaits, CarriedOn

LEMMA WriteFailsKeeps ==
    ASSUME ClientInv, NEW id \in pending, McpC!WriteFails(id)
    PROVE  ClientInv'
<1>1. calls \in Seq({"waiting", "answered", "rejected"}) /\ children \in Seq(Child)
    BY DEF ClientInv
<1>2. /\ calls' = McpC!Settled({id}, "rejected") /\ pending' = pending \ {id}
      /\ UNCHANGED <<process, children, sentTo>>
    BY DEF McpC!WriteFails
<1>3. /\ calls' \in Seq({"waiting", "answered", "rejected"}) /\ DOMAIN calls' = DOMAIN calls
      /\ \A c \in DOMAIN calls : calls'[c] = "waiting" => calls[c] = "waiting" /\ c \notin {id}
    BY <1>1, <1>2, SettledCalls
<1> QED BY <1>1, <1>2, <1>3, CarriedOn

LEMMA StepKeepsClient == ClientInv /\ [Next]_vars => ClientInv'
<1> SUFFICES ASSUME ClientInv, [Next]_vars PROVE ClientInv'
    OBVIOUS
<1>1. [McpC!McpClientNext]_mcpClientState
    BY ComponentSteps
<1>2. CASE UNCHANGED <<process, children, pending, calls, sentTo>>
    BY <1>2 DEF ClientInv, Carried
<1>3. CASE McpC!Send
    BY <1>3, SendKeeps
<1>4. CASE McpC!InitializeEnds \/ McpC!BatchReturns \/ McpC!BatchAsksApproval
    BY <1>2, <1>4 DEF McpC!InitializeEnds, McpC!BatchReturns, McpC!BatchAsksApproval
<1>5. CASE McpC!Initialize \/ McpC!Initialized \/ McpC!BatchCalls
    BY <1>3, <1>5 DEF McpC!Initialize, McpC!Initialized, McpC!BatchCalls
<1>6. ASSUME NEW p \in DOMAIN children, McpC!ChildAnswers(p) \/ McpC!ChildDies(p) PROVE ClientInv'
    BY <1>6, ChildKeeps
<1>7. ASSUME NEW p \in DOMAIN children, McpC!LineEvent(p) PROVE ClientInv'
    BY <1>7, LineKeeps
<1>8. CASE McpC!Close \/ \E p \in DOMAIN children : McpC!ExitEvent(p)
    BY <1>8, ExitKeeps
<1>9. ASSUME NEW id \in pending, McpC!WriteFails(id) PROVE ClientInv'
    BY <1>9, WriteFailsKeeps
<1>10. CASE UNCHANGED mcpClientState
    BY <1>2, <1>10 DEF mcpClientState
<1> QED BY <1>1, <1>3, <1>4, <1>5, <1>6, <1>7, <1>8, <1>9, <1>10 DEF McpC!McpClientNext

LEMMA InvNoCallForgotten == ClientInv => McpC!NoCallForgotten
BY DEF ClientInv, Carried, McpC!NoCallForgotten, McpC!ToSet

-----------------------------------------------------------------------------
(* The MCP server: one answer for each request, in order.                   *)

Codes == {"none", "run", "ok", "parse", "invalid", "version", "params", "method"}
Shapes == {"blank", "garbage", "nonobject", "rpc", "badrpc"}
Response == [line : Nat, code : Codes]

\* The frames written so far are for the answerable lines handled so far, in order, and the
\* line whose tool runs will be answered although the registry may change meanwhile.
ServerInv ==
    /\ handled \in Nat /\ Len(lines) \in Nat /\ handled <= Len(lines) /\ lines \in Seq(Frames)
    /\ output \in Seq(Response)
    /\ \A i, j \in DOMAIN output : i < j => output[i].line < output[j].line
    /\ \A i \in DOMAIN output : output[i].line \in 1 .. handled /\ McpS!Answerable(lines[output[i].line])
    /\ \A n \in 1 .. handled : McpS!Answerable(lines[n]) => \E i \in DOMAIN output : output[i].line = n
    /\ serving => handled < Len(lines) /\ McpS!Answerable(lines[handled + 1])
    /\ resolved => closed /\ ~serving /\ handled = Len(lines)
    /\ McpS!RunsWhatIsAnnounced

\* A message gets a response exactly when it may be answered, and a tool runs only for a
\* tools/call whose tool needs no confirmation.
LEMMA DispatchAnswers ==
    ASSUME NEW f, f.shape \in Shapes
    PROVE  /\ McpS!Dispatch(f) \in Codes
           /\ McpS!Dispatch(f) # "none" <=> McpS!Answerable(f)
           /\ McpS!Dispatch(f) = "run" => f.method = "tools/call" /\ toolRegistry[f.name] = "Auto"
<1>1. McpS!CallCode(f) \in {"run", "params"} /\ (McpS!CallCode(f) = "run" => toolRegistry[f.name] = "Auto")
    BY DEF McpS!CallCode, McpS!ToolRuns
<1>2. /\ McpS!Modern(f) \in Codes \ {"none"}
      /\ McpS!Modern(f) = "run" => f.method = "tools/call" /\ toolRegistry[f.name] = "Auto"
    BY <1>1 DEF McpS!Modern, Codes
<1>3. /\ McpS!Legacy(f) \in Codes \ {"none"}
      /\ McpS!Legacy(f) = "run" => f.method = "tools/call" /\ toolRegistry[f.name] = "Auto"
    BY <1>1 DEF McpS!Legacy, Codes
<1>4. /\ McpS!Respond(f) \in Codes \ {"none"}
      /\ McpS!Respond(f) = "run" => f.method = "tools/call" /\ toolRegistry[f.name] = "Auto"
    BY <1>2, <1>3 DEF McpS!Respond, Codes
<1>5. CASE f.shape \in {"rpc", "badrpc"} /\ McpS!IsRequest(f)
    <2>1. McpS!Dispatch(f) \in {"invalid", McpS!Respond(f)}
        BY <1>5 DEF McpS!Dispatch
    <2> QED BY <1>4, <1>5, <2>1 DEF McpS!Answerable, Codes
<1>6. CASE f.shape \in {"rpc", "badrpc"} /\ ~McpS!IsRequest(f)
    <2>1. McpS!Dispatch(f) = "none"
        BY <1>6 DEF McpS!Dispatch
    <2> QED BY <1>6, <2>1 DEF McpS!Answerable, Codes
<1>7. CASE f.shape \in {"blank", "garbage", "nonobject"}
    <2>1. /\ f.shape = "blank" => McpS!Dispatch(f) = "none"
          /\ f.shape = "garbage" => McpS!Dispatch(f) = "parse"
          /\ f.shape = "nonobject" => McpS!Dispatch(f) = "invalid"
        BY DEF McpS!Dispatch
    <2>2. ~McpS!IsRequest(f)
        BY <1>7 DEF McpS!IsRequest
    <2> QED BY <1>7, <2>1, <2>2 DEF McpS!Answerable, Codes
<1> QED BY <1>5, <1>6, <1>7 DEF Shapes

LEMMA InitServer == Init => ServerInv
BY DEF Init, McpS!McpServerInit, ServerInv, McpS!RunsWhatIsAnnounced

\* The next line is done with, and answered if it may be.
LEMMA LineDone ==
    ASSUME ServerInv, handled < Len(lines), NEW code \in Codes,
           code # "none" <=> McpS!Answerable(lines[handled + 1]),
           McpS!WriteFrame(handled + 1, code), handled' = handled + 1, lines' = lines, ~serving',
           UNCHANGED <<closed, resolved, toolsRan>>
    PROVE  ServerInv'
<1> DEFINE n == handled + 1
           r == [line |-> n, code |-> code]
<1>1. /\ handled \in Nat /\ Len(lines) \in Nat /\ output \in Seq(Response) /\ n \in Nat /\ n <= Len(lines)
    BY DEF ServerInv
<1>2. r \in Response /\ r.line = n
    BY <1>1 DEF Response
<1>3. ~resolved /\ McpS!RunsWhatIsAnnounced'
    BY <1>1 DEF ServerInv, McpS!RunsWhatIsAnnounced, McpS!NoHeader, McpS!Checked, McpS!IsRequest
<1> HIDE DEF r, Response
<1>4. CASE code = "none"
    <2>1. output' = output /\ ~McpS!Answerable(lines[n])
        BY <1>4 DEF McpS!WriteFrame
    <2>2. \A m \in 1 .. n : m \in 1 .. handled \/ m = n
        BY <1>1
    <2>3. \A m \in 1 .. handled : m \in 1 .. n
        BY <1>1
    <2> HIDE DEF n
    <2>4. handled' = n
        BY DEF n
    <2> QED BY <1>1, <1>3, <2>1, <2>2, <2>3, <2>4 DEF ServerInv, McpS!Answerable, McpS!IsRequest
<1>5. CASE code # "none"
    <2>1. output' = Append(output, r) /\ McpS!Answerable(lines[n])
        BY <1>5 DEF McpS!WriteFrame, r
    <2>2. /\ output' \in Seq(Response) /\ Len(output') = Len(output) + 1 /\ output'[Len(output) + 1] = r
          /\ DOMAIN output' = 1 .. Len(output) + 1 /\ DOMAIN output = 1 .. Len(output) /\ Len(output) \in Nat
          /\ \A i \in DOMAIN output : output'[i] = output[i]
        BY <1>1, <1>2, <2>1
    <2>3. ASSUME NEW i \in DOMAIN output', NEW j \in DOMAIN output', i < j
          PROVE  output'[i].line < output'[j].line
        <3>1. i \in DOMAIN output /\ output'[i] = output[i]
            BY <2>2, <2>3
        <3>2. output[i].line \in 1 .. handled
            BY <3>1 DEF ServerInv
        <3>3. CASE j = Len(output) + 1
            BY <1>1, <1>2, <2>2, <3>1, <3>2, <3>3
        <3>4. CASE j # Len(output) + 1
            <4>1. j \in DOMAIN output /\ output'[j] = output[j]
                BY <2>2, <3>4
            <4> QED BY <2>3, <3>1, <4>1 DEF ServerInv
        <3> QED BY <3>3, <3>4
    <2>4. ASSUME NEW i \in DOMAIN output'
          PROVE  output'[i].line \in 1 .. n /\ McpS!Answerable(lines[output'[i].line])
        <3>1. CASE i = Len(output) + 1
            BY <1>1, <1>2, <2>1, <2>2, <3>1
        <3>2. CASE i # Len(output) + 1
            <4>1. i \in DOMAIN output /\ output'[i] = output[i]
                BY <2>2, <3>2
            <4>2. output[i].line \in 1 .. handled /\ McpS!Answerable(lines[output[i].line])
                BY <4>1 DEF ServerInv
            <4> QED BY <1>1, <4>1, <4>2
        <3> QED BY <3>1, <3>2
    <2>5. ASSUME NEW m \in 1 .. n, McpS!Answerable(lines[m])
          PROVE  \E i \in DOMAIN output' : output'[i].line = m
        <3>1. CASE m = n
            <4>1. Len(output) + 1 \in DOMAIN output'
                BY <2>2
            <4> QED BY <1>2, <2>2, <3>1, <4>1
        <3>2. CASE m # n
            <4>1. m \in 1 .. handled
                BY <1>1, <3>2
            <4>2. PICK i \in DOMAIN output : output[i].line = m
                BY <2>5, <4>1 DEF ServerInv
            <4>3. i \in DOMAIN output' /\ output'[i] = output[i]
                BY <2>2
            <4> QED BY <4>2, <4>3
        <3> QED BY <3>1, <3>2
    <2> HIDE DEF n
    <2>6. handled' = n
        BY DEF n
    <2> QED BY <1>1, <1>3, <2>2, <2>3, <2>4, <2>5, <2>6 DEF ServerInv, McpS!Answerable, McpS!IsRequest
<1> QED BY <1>4, <1>5

\* A message that runs a tool is announced by the headers that came with it.
LEMMA ToolIsAnnounced ==
    ASSUME McpS!RunsWhatIsAnnounced, NEW f \in Frames, NEW h, McpS!Dispatch(f) = "run", McpS!ToolStarts(f, h),
           h = McpS!NoHeader \/ ~(McpS!Checked(f) /\ McpS!HeaderMismatch(f, h))
    PROVE  McpS!RunsWhatIsAnnounced'
<1> DEFINE r == [frame |-> f, header |-> h, permission |-> toolRegistry[f.name]]
<1>1. toolsRan' = toolsRan \cup {r}
    BY DEF McpS!ToolStarts
<1>2. f.method = "tools/call" /\ toolRegistry[f.name] = "Auto"
    BY DispatchAnswers, FrameAssumption DEF Shapes
<1>3. McpS!Checked(f) /\ h # McpS!NoHeader => h.name = f.name
    BY <1>2 DEF McpS!HeaderMismatch
<1>4. r.permission = "Auto" /\ (McpS!Checked(r.frame) /\ r.header # McpS!NoHeader => r.header.name = r.frame.name)
    BY <1>2, <1>3
<1>5. ASSUME NEW q \in toolsRan'
      PROVE  /\ q.permission = "Auto"
             /\ McpS!Checked(q.frame) /\ q.header # McpS!NoHeader => q.header.name = q.frame.name
    <2>1. CASE q = r
        BY <1>4, <2>1
    <2>2. CASE q \in toolsRan
        BY <2>2 DEF McpS!RunsWhatIsAnnounced
    <2> QED BY <1>1, <2>1, <2>2
<1> QED BY <1>5 DEF McpS!RunsWhatIsAnnounced, McpS!Checked, McpS!NoHeader, McpS!IsRequest

\* Steps of the HTTP transport and of the registry leave the lines and frames alone.
LEMMA OthersKeepServer ==
    ASSUME ServerInv, UNCHANGED <<lines, handled, serving, output, closed, resolved>>, McpS!RunsWhatIsAnnounced'
    PROVE  ServerInv'
BY DEF ServerInv, McpS!Answerable, McpS!IsRequest

LEMMA StepKeepsServer == ServerInv /\ [Next]_vars => ServerInv'
<1> SUFFICES ASSUME ServerInv, [Next]_vars PROVE ServerInv'
    OBVIOUS
<1>1. [McpS!McpServerNext]_mcpServerState
    BY ComponentSteps
<1>2. /\ handled \in Nat /\ Len(lines) \in Nat /\ handled <= Len(lines) /\ lines \in Seq(Frames)
      /\ McpS!RunsWhatIsAnnounced
    BY DEF ServerInv
<1>3. toolsRan' = toolsRan => McpS!RunsWhatIsAnnounced'
    BY <1>2 DEF McpS!RunsWhatIsAnnounced, McpS!Checked, McpS!NoHeader, McpS!IsRequest
<1>4. ASSUME NEW f \in Frames, McpS!Line(f) PROVE ServerInv'
    <2>1. lines' = Append(lines, f) /\ ~closed /\ UNCHANGED <<handled, serving, output, closed, resolved, toolsRan>>
        BY <1>4 DEF McpS!Line
    <2>2. /\ lines' \in Seq(Frames) /\ Len(lines') = Len(lines) + 1
          /\ \A n \in 1 .. Len(lines) : lines'[n] = lines[n]
        BY <1>2, <2>1
    <2>3. /\ \A n \in 1 .. handled : lines'[n] = lines[n]
          /\ handled < Len(lines) => lines'[handled + 1] = lines[handled + 1]
        BY <1>2, <2>2
    <2>4. Len(lines') \in Nat /\ handled <= Len(lines') /\ (handled < Len(lines) => handled < Len(lines'))
        BY <1>2, <2>2
    <2>5. \A i \in DOMAIN output : lines'[output[i].line] = lines[output[i].line]
        BY <2>3 DEF ServerInv
    <2> QED BY <1>2, <1>3, <2>1, <2>2, <2>3, <2>4, <2>5 DEF ServerInv, McpS!Answerable, McpS!IsRequest
<1>5. CASE McpS!Eof
    BY <1>3, <1>5 DEF McpS!Eof, ServerInv, McpS!Answerable, McpS!IsRequest
<1>6. ASSUME NEW n \in 1 .. Len(lines), McpS!HandleLine(n) PROVE ServerInv'
    <2>1. n = handled + 1 /\ handled < Len(lines) /\ lines[n] \in Frames
        BY <1>2, <1>6 DEF McpS!HandleLine, McpS!InTurn
    <2> DEFINE code == McpS!Dispatch(lines[n])
    <2>2. code \in Codes /\ (code # "none" <=> McpS!Answerable(lines[n]))
        BY <2>1, DispatchAnswers, FrameAssumption DEF Shapes
    <2>3. /\ McpS!WriteFrame(n, code) /\ handled' = handled + 1 /\ lines' = lines /\ ~serving' /\ UNCHANGED <<closed, resolved, toolsRan>>
        BY <1>6 DEF McpS!HandleLine
    <2> HIDE DEF code
    <2> QED BY <2>1, <2>2, <2>3, LineDone
<1>7. ASSUME NEW n \in 1 .. Len(lines), McpS!StartTool(n) PROVE ServerInv'
    <2>1. n = handled + 1 /\ handled < Len(lines) /\ lines[n] \in Frames /\ McpS!Dispatch(lines[n]) = "run"
        BY <1>2, <1>7 DEF McpS!StartTool, McpS!InTurn
    <2>2. McpS!Answerable(lines[n])
        BY <2>1, DispatchAnswers, FrameAssumption DEF Shapes
    <2>3. /\ McpS!ToolStarts(lines[n], McpS!NoHeader) /\ serving' = TRUE
          /\ UNCHANGED <<lines, handled, output, closed, resolved>>
        BY <1>7 DEF McpS!StartTool
    <2>4. McpS!RunsWhatIsAnnounced'
        BY <1>2, <2>1, <2>3, ToolIsAnnounced
    <2>5. ~resolved
        BY <1>2, <2>1 DEF ServerInv
    <2> QED BY <2>1, <2>2, <2>3, <2>4, <2>5 DEF ServerInv, McpS!Answerable, McpS!IsRequest
<1>8. ASSUME NEW n \in 1 .. Len(lines), McpS!FinishTool(n) PROVE ServerInv'
    <2>1. n = handled + 1 /\ handled < Len(lines) /\ serving
        BY <1>2, <1>8 DEF McpS!FinishTool, McpS!InTurn
    <2>2. McpS!Answerable(lines[n])
        BY <2>1 DEF ServerInv
    <2>3. McpS!WriteFrame(n, "ok") /\ handled' = handled + 1 /\ lines' = lines /\ ~serving' /\ UNCHANGED <<closed, resolved, toolsRan>>
        BY <1>8 DEF McpS!FinishTool
    <2> QED BY <2>1, <2>2, <2>3, LineDone DEF Codes
<1>9. CASE McpS!Resolve
    BY <1>3, <1>9 DEF McpS!Resolve, ServerInv, McpS!Answerable, McpS!IsRequest
<1>10. ASSUME NEW f \in Frames, NEW h, McpS!Post(f, h) PROVE ServerInv'
    <2>1. McpS!RunsWhatIsAnnounced'
        <3>1. CASE McpS!PostCode(f, h) = "run"
            <4>1. McpS!Dispatch(f) = "run" /\ ~(McpS!Checked(f) /\ McpS!HeaderMismatch(f, h))
                BY <3>1 DEF McpS!PostCode
            <4> QED BY <1>2, <1>10, <3>1, <4>1, ToolIsAnnounced DEF McpS!Post
        <3>2. CASE McpS!PostCode(f, h) # "run"
            BY <1>3, <1>10, <3>2 DEF McpS!Post
        <3> QED BY <3>1, <3>2
    <2> QED BY <1>10, <2>1, OthersKeepServer DEF McpS!Post
<1>11. ASSUME NEW p, NEW t, McpS!PostToolEnds(p) \/ \E permission : McpS!Register(t, permission) PROVE ServerInv'
    BY <1>3, <1>11, OthersKeepServer DEF McpS!PostToolEnds, McpS!Register
<1>12. CASE UNCHANGED mcpServerState
    BY <1>3, <1>12, OthersKeepServer DEF mcpServerState
<1> QED BY <1>1, <1>4, <1>5, <1>6, <1>7, <1>8, <1>9, <1>10, <1>11, <1>12 DEF McpS!McpServerNext

LEMMA InvOneAnswerEach == ServerInv => McpS!OneAnswerEach /\ McpS!RunsWhatIsAnnounced
BY DEF ServerInv, McpS!OneAnswerEach

\* The deployed MCP server answers every request once and in order and nothing else, and runs
\* only what the headers announced; the deployed client forgets no request, whichever child
\* dies when (stdio.ts, dispatch.ts, http.ts, stdio-transport.ts).
THEOREM McpIsSound == Spec => []McpSound
<1>1. Init => ServerInv /\ ClientInv
    BY InitServer, InitClient
<1>2. ServerInv /\ ClientInv /\ [Next]_vars => (ServerInv /\ ClientInv)'
    BY StepKeepsServer, StepKeepsClient
<1>3. ServerInv /\ ClientInv => McpSound
    BY InvOneAnswerEach, InvNoCallForgotten DEF McpSound
<1> QED BY <1>1, <1>2, <1>3, PTL DEF Spec

-----------------------------------------------------------------------------
(* The PostgreSQL runtime: one history for all processes.                   *)

\* The state m is the replay of the first n events of the journal.
Replays(m, n) == m \in Seq(Procs) /\ Len(m) = n /\ \A i \in 1 .. n : m[i] = written[i]

\* As long as no deleted number was stored again, the table, the snapshots and the runners
\* all speak of beginnings of one history; what recovered over deleted rows is excepted.
OneHistory ==
    /\ written \in Seq(Procs)
    /\ DOMAIN rows \subseteq 1 .. Len(written)
    /\ \A k \in DOMAIN rows : rows[k] = written[k]
    /\ \A p \in Procs : nr[p] \in 0 .. Len(written)
    /\ \A s \in snaps : s.nr \in 0 .. Len(written) /\ (s.holed \/ Replays(s.state, s.nr))
    /\ \A p \in Procs : phase[p] \in {"events", "idle", "insert", "save"} /\ p \notin holes => Replays(mem[p], nr[p])

RuntimeInv ==
    /\ phase = [p \in Procs |-> phase[p]] /\ mem = [p \in Procs |-> mem[p]]
    /\ nr = [p \in Procs |-> nr[p]] /\ doing = [p \in Procs |-> doing[p]]
    /\ \A p \in Procs : phase[p] = "insert" => doing[p].n \in Nat \ {0}
    /\ ~forked => OneHistory

\* A nonempty set of numbers with a bound has a greatest one.
LEMMA GreatestExists ==
    ASSUME NEW S, S \subseteq Nat, S # {}, NEW b \in Nat, \A x \in S : x <= b
    PROVE  \E x \in S : \A y \in S : y <= x
<1> DEFINE T == {b - x : x \in S}
           R == OpToRel(<, Nat)
<1>1. T \subseteq Nat /\ T # {}
    <2>1. PICK x \in S : TRUE
        OBVIOUS
    <2>2. b - x \in T
        OBVIOUS
    <2>3. \A y \in S : b - y \in Nat
        OBVIOUS
    <2> QED BY <2>2, <2>3
<1>2. PICK t \in T : \A u \in T : ~(<<u, t>> \in R)
    <2> HIDE DEF T, R
    <2>1. IsWellFoundedOn(R, Nat)
        BY NatLessThanWellFounded DEF R
    <2> QED BY <1>1, <2>1, WFMin
<1>3. \A u \in T : t <= u
    <2> SUFFICES ASSUME NEW u \in T, ~(t <= u) PROVE FALSE
        OBVIOUS
    <2>1. t \in Nat /\ u \in Nat /\ u < t
        BY <1>1
    <2>2. <<u, t>> \in R
        BY <2>1 DEF OpToRel
    <2> QED BY <2>2, <1>2
<1>4. PICK x \in S : t = b - x
    OBVIOUS
<1>5. \A y \in S : b - y \in T
    OBVIOUS
<1> HIDE DEF T
<1>6. \A y \in S : y <= x
    BY <1>3, <1>4, <1>5
<1> QED BY <1>6

\* The numbers of an interval, in order.
LEMMA IntervalInOrder ==
    ASSUME NEW a \in Nat, NEW b \in Nat, a <= b
    PROVE  /\ DOMAIN Pg!InOrder(a + 1 .. b) = 1 .. b - a
           /\ \A i \in 1 .. b - a : Pg!InOrder(a + 1 .. b)[i] = a + i
<1> DEFINE S == a + 1 .. b
           Upto(k) == {j \in S : j <= k}
<1>1. \A X : Pg!Cardinality(X) = Cardinality(X)
    BY DEF Pg!Cardinality, Cardinality
<1>2. Cardinality(S) = b - a
    <2>1. Cardinality(S) = IF a + 1 > b THEN 0 ELSE b - (a + 1) + 1
        BY FS_Interval, a + 1 \in Int, b \in Int
    <2> QED BY <2>1
<1>3. \A k \in S : Cardinality(Upto(k)) = k - a
    <2> TAKE k \in S
    <2>1. Upto(k) = a + 1 .. k
        OBVIOUS
    <2>2. Cardinality(a + 1 .. k) = IF a + 1 > k THEN 0 ELSE k - (a + 1) + 1
        BY FS_Interval, a + 1 \in Int, k \in Int
    <2>3. ~(a + 1 > k) /\ k - (a + 1) + 1 = k - a
        OBVIOUS
    <2>4. Cardinality(a + 1 .. k) = k - a
        BY <2>2, <2>3
    <2> HIDE DEF Upto
    <2> QED BY <2>1, <2>4
<1>4. Pg!InOrder(S) = [i \in 1 .. b - a |-> CHOOSE k \in S : Cardinality(Upto(k)) = i]
    <2>1. Pg!InOrder(S) = [i \in 1 .. Pg!Cardinality(S) |-> CHOOSE k \in S : Pg!Cardinality(Upto(k)) = i]
        BY DEF Pg!InOrder
    <2>2. \A i : (CHOOSE k \in S : Pg!Cardinality(Upto(k)) = i) = (CHOOSE k \in S : Cardinality(Upto(k)) = i)
        BY <1>1
    <2> HIDE DEF S, Upto
    <2> QED BY <1>1, <1>2, <2>1, <2>2
<1>5. ASSUME NEW i \in 1 .. b - a
      PROVE  (CHOOSE k \in S : Cardinality(Upto(k)) = i) = a + i
    <2>1. a + i \in S /\ Cardinality(Upto(a + i)) = i
        BY <1>3
    <2>2. \A k \in S : Cardinality(Upto(k)) = i => k = a + i
        BY <1>3
    <2> HIDE DEF S, Upto
    <2> QED BY <2>1, <2>2
<1> HIDE DEF Upto
<1> QED BY <1>4, <1>5

\* What a beginning of the history replays is not changed by what is appended.
LEMMA ReplaysGrow ==
    ASSUME NEW w \in Seq(Procs), written \in Seq(Procs), written' = written \o w, NEW m, NEW n \in 0 .. Len(written),
           Replays(m, n)
    PROVE  Replays(m, n)'
<1>1. \A i \in 1 .. n : written'[i] = written[i]
    OBVIOUS
<1> QED BY <1>1 DEF Replays

\* The first event stored of a batch is new: the rows are those of the longer history.
LEMMA StoreKeepsHistory ==
    ASSUME RuntimeInv, NEW p \in Procs, phase[p] = "insert", ~Pg!Collides(p), Pg!StoreBatch(p), ~forked'
    PROVE  /\ ~forked /\ nr[p] = Len(written) /\ written' = written \o [k \in 1 .. doing[p].n |-> p]
           /\ written' \in Seq(Procs) /\ Len(written') = Len(written) + doing[p].n
           /\ \A k \in 1 .. Len(written) : written'[k] = written[k]
           /\ \A k \in 1 .. doing[p].n : written'[Len(written) + k] = p
           /\ DOMAIN rows' \subseteq 1 .. Len(written') /\ \A k \in DOMAIN rows' : rows'[k] = written'[k]
<1> DEFINE n == doing[p].n
           a == nr[p]
           lot == [k \in 1 .. n |-> p]
<1>1. ~forked /\ \A k \in a + 1 .. a + n : k <= Len(written) => k \in DOMAIN rows
    BY DEF Pg!StoreBatch
<1>2. OneHistory /\ n \in Nat \ {0} /\ a \in 0 .. Len(written) /\ written \in Seq(Procs)
    BY <1>1 DEF RuntimeInv, OneHistory
<1>3. a + 1 \notin DOMAIN rows
    BY <1>2 DEF Pg!Collides
<1>4. a = Len(written)
    BY <1>1, <1>2, <1>3
<1>5. written' = written \o lot
    BY <1>4 DEF Pg!StoreBatch
<1>6. lot \in Seq(Procs) /\ Len(lot) = n /\ \A k \in 1 .. n : lot[k] = p
    BY <1>2
<1>7. rows' = [k \in DOMAIN rows \cup (a + 1 .. a + n) |-> IF k \in a + 1 .. a + n THEN p ELSE rows[k]]
    BY DEF Pg!StoreBatch, Pg!Stored
<1> HIDE DEF lot, n, a
<1>8. written' \in Seq(Procs) /\ Len(written') = Len(written) + n
    <2>1. written \o lot \in Seq(Procs) /\ Len(written \o lot) = Len(written) + Len(lot)
        BY <1>2, <1>6, ConcatProperties
    <2> QED BY <2>1, <1>5, <1>6
<1>9. /\ \A k \in 1 .. Len(written) : written'[k] = written[k]
      /\ \A k \in 1 .. n : written'[Len(written) + k] = p
    BY <1>2, <1>5, <1>6
<1>10. DOMAIN rows' \subseteq 1 .. Len(written')
    BY <1>2, <1>4, <1>7, <1>8 DEF OneHistory
<1>11. ASSUME NEW k \in DOMAIN rows' PROVE rows'[k] = written'[k]
    <2>1. CASE k \in a + 1 .. a + n
        <3>1. rows'[k] = p
            BY <1>7, <2>1
        <3>2. k - a \in 1 .. n /\ Len(written) + (k - a) = k
            BY <1>2, <1>4, <2>1
        <3> QED BY <1>9, <3>1, <3>2
    <2>2. CASE k \in DOMAIN rows /\ k \notin a + 1 .. a + n
        <3>1. rows'[k] = rows[k]
            BY <1>7, <2>2
        <3>2. rows[k] = written[k] /\ k \in 1 .. Len(written)
            BY <1>2, <2>2 DEF OneHistory
        <3> QED BY <1>9, <3>1, <3>2
    <2> QED BY <1>7, <2>1, <2>2
<1>12. ~forked /\ nr[p] = Len(written) /\ written' = written \o [k \in 1 .. doing[p].n |-> p]
    BY <1>1, <1>4, <1>5 DEF n, a, lot
<1> QED BY <1>12, <1>8, <1>9, <1>10, <1>11 DEF n

\* What the others know is still a beginning of the longer history.
LEMMA StoreKeepsOthers ==
    ASSUME RuntimeInv, NEW p \in Procs, phase[p] = "insert", ~Pg!Collides(p), Pg!StoreBatch(p), ~forked',
           NEW m, NEW n \in 0 .. Len(written), Replays(m, n)
    PROVE  Replays(m, n)' /\ n \in 0 .. Len(written')
<1>1. /\ ~forked /\ Len(written') = Len(written) + doing[p].n /\ doing[p].n \in Nat
      /\ \A k \in 1 .. Len(written) : written'[k] = written[k]
    BY StoreKeepsHistory DEF RuntimeInv
<1>2. Len(written) \in Nat
    BY <1>1 DEF RuntimeInv, OneHistory
<1>3. n \in 0 .. Len(written') /\ n \in 0 .. Len(written)
    BY <1>1, <1>2
<1>4. \A i \in 1 .. n : written'[i] = written[i]
    BY <1>1, <1>2
<1> QED BY <1>3, <1>4 DEF Replays

Recovering == {"events", "idle", "insert", "save"}

\* A step that leaves the tables and the runners' states alone.
LEMMA QuietKeepsHistory ==
    ASSUME RuntimeInv, UNCHANGED <<rows, written, snaps, mem, nr, holes, forked>>,
           phase' = [p \in Procs |-> phase'[p]], doing' = [p \in Procs |-> doing'[p]],
           \A p \in Procs : phase'[p] \in Recovering => phase[p] \in Recovering,
           \A p \in Procs : phase'[p] = "insert" => doing'[p].n \in Nat \ {0}
    PROVE  RuntimeInv'
<1>1. ~forked => OneHistory'
    BY DEF RuntimeInv, OneHistory, Replays, Recovering
<1> QED BY <1>1 DEF RuntimeInv

\* A command arrives, is taken, or ends its runner.
LEMMA CommandsKeepHistory ==
    ASSUME RuntimeInv, NEW p \in Procs,
           \/ Pg!Ask(p) \/ Pg!Tell(p) \/ Pg!TakeOther(p) \/ Pg!TakeStop(p) \/ Pg!Refused(p) \/ Pg!RunnerThrows(p)
           \/ \E n \in 1 .. 2, snap \in BOOLEAN : Pg!TakePersist(p, n, snap)
    PROVE  RuntimeInv'
<1>0. /\ phase = [q \in Procs |-> phase[q]] /\ doing = [q \in Procs |-> doing[q]]
      /\ \A q \in Procs : phase[q] = "insert" => doing[q].n \in Nat \ {0}
    BY DEF RuntimeInv
<1>1. CASE Pg!Ask(p) \/ Pg!Tell(p)
    <2>1. /\ UNCHANGED <<rows, written, snaps, mem, nr, holes, forked, doing>>
          /\ phase' = [phase EXCEPT ![p] = IF phase[p] = "none" THEN "snapshot" ELSE phase[p]]
        BY <1>1 DEF Pg!Ask, Pg!Tell, Pg!Offer
    <2> QED BY <1>0, <2>1, QuietKeepsHistory DEF Recovering
<1>2. CASE Pg!TakeOther(p)
    BY <1>0, <1>2, QuietKeepsHistory DEF Pg!TakeOther
<1>3. CASE Pg!TakeStop(p) \/ Pg!Refused(p) \/ Pg!RunnerThrows(p)
    <2>1. /\ UNCHANGED <<rows, written, snaps, mem, nr, holes, forked, doing>>
          /\ phase' = [phase EXCEPT ![p] = "ended"]
        BY <1>3 DEF Pg!TakeStop, Pg!Refused, Pg!RunnerThrows, Pg!EndRunner
    <2> QED BY <1>0, <2>1, QuietKeepsHistory DEF Recovering
<1>4. CASE \E n \in 1 .. 2, snap \in BOOLEAN : Pg!TakePersist(p, n, snap)
    <2>1. PICK n \in 1 .. 2, snap \in BOOLEAN : Pg!TakePersist(p, n, snap)
        BY <1>4
    <2> DEFINE d == [of |-> Head(mbox[p]).of, n |-> n, snap |-> snap]
    <2>2. /\ UNCHANGED <<rows, written, snaps, mem, nr, holes, forked>>
          /\ phase[p] = "idle" /\ phase' = [phase EXCEPT ![p] = "insert"]
          /\ doing' = [doing EXCEPT ![p] = d]
        BY <2>1 DEF Pg!TakePersist, Pg!Taking
    <2>3. d.n \in Nat \ {0}
        OBVIOUS
    <2> HIDE DEF d
    <2>4. /\ phase' = [q \in Procs |-> phase'[q]] /\ doing' = [q \in Procs |-> doing'[q]]
          /\ phase'[p] = "insert" /\ doing'[p] = d
          /\ \A q \in Procs : q # p => phase'[q] = phase[q] /\ doing'[q] = doing[q]
        BY <1>0, <2>2
    <2>5. \A q \in Procs : phase'[q] = "insert" => doing'[q].n \in Nat \ {0}
        BY <1>0, <2>3, <2>4
    <2>6. \A q \in Procs : phase'[q] \in Recovering => phase[q] \in Recovering
        BY <2>2, <2>4 DEF Recovering
    <2> QED BY <2>2, <2>4, <2>5, <2>6, QuietKeepsHistory
<1> QED BY <1>1, <1>2, <1>3, <1>4

\* Housekeeping takes rows and snapshots away and adds none.
LEMMA HousekeepingKeepsHistory ==
    ASSUME RuntimeInv, NEW s \in snaps, Pg!DeleteEvents(s) \/ Pg!DeleteSnapshots(s)
    PROVE  RuntimeInv'
<1>1. CASE Pg!DeleteEvents(s)
    <2>1. ~forked => OneHistory'
        BY <1>1 DEF Pg!DeleteEvents, RuntimeInv, OneHistory, Replays
    <2> QED BY <1>1, <2>1 DEF Pg!DeleteEvents, RuntimeInv
<1>2. CASE Pg!DeleteSnapshots(s)
    <2>1. ~forked => OneHistory'
        BY <1>2 DEF Pg!DeleteSnapshots, RuntimeInv, OneHistory, Replays
    <2> QED BY <1>2, <2>1 DEF Pg!DeleteSnapshots, RuntimeInv
<1> QED BY <1>1, <1>2

\* The process forgets its runner.
LEMMA FreshKeepsHistory ==
    ASSUME RuntimeInv, NEW p \in Procs, Pg!Fresh(p), UNCHANGED <<rows, written, snaps, forked>>
    PROVE  RuntimeInv'
<1>1. /\ phase' = [q \in Procs |-> phase'[q]] /\ doing' = [q \in Procs |-> doing'[q]]
      /\ mem' = [q \in Procs |-> mem'[q]] /\ nr' = [q \in Procs |-> nr'[q]]
      /\ phase'[p] = "none" /\ nr'[p] = 0
      /\ \A q \in Procs : q # p => /\ phase'[q] = phase[q] /\ doing'[q] = doing[q]
                                   /\ mem'[q] = mem[q] /\ nr'[q] = nr[q]
      /\ holes' = holes \ {p}
    BY ZenonT(40) DEF Pg!Fresh, RuntimeInv
<1>2. ~forked => OneHistory'
    BY <1>1, SMTT(40) DEF RuntimeInv, OneHistory, Replays
<1>3. \A q \in Procs : phase'[q] = "insert" => doing'[q].n \in Nat \ {0}
    BY <1>1 DEF RuntimeInv
<1> QED BY <1>1, <1>2, <1>3 DEF RuntimeInv

\* persistSnapshotAsync stores the state of the runner under its number.
LEMMA SaveKeepsHistory ==
    ASSUME RuntimeInv, NEW p \in Procs, Pg!SaveSnapshot(p)
    PROVE  RuntimeInv'
<1> DEFINE new == [nr |-> nr[p], state |-> mem[p], holed |-> p \in holes]
<1>1. /\ UNCHANGED <<rows, written, mem, nr, holes, forked>> /\ phase[p] = "save"
      /\ phase' = [phase EXCEPT ![p] = "idle"] /\ doing' = [doing EXCEPT ![p] = Pg!Nothing]
      /\ snaps' = {s \in snaps : s.nr # nr[p]} \cup {new}
    BY DEF Pg!SaveSnapshot
<1>2. new.nr = nr[p] /\ new.state = mem[p]
    OBVIOUS
<1>3. p \in holes => new.holed
    OBVIOUS
<1> HIDE DEF new
<1>4. /\ phase' = [q \in Procs |-> phase'[q]] /\ doing' = [q \in Procs |-> doing'[q]]
      /\ phase'[p] = "idle" /\ \A q \in Procs : q # p => phase'[q] = phase[q] /\ doing'[q] = doing[q]
    BY <1>1 DEF RuntimeInv
<1>5. ASSUME ~forked PROVE OneHistory'
    <2>1. OneHistory
        BY <1>5 DEF RuntimeInv
    <2>2. new.nr \in 0 .. Len(written) /\ (new.holed \/ Replays(new.state, new.nr))
        BY <1>1, <1>2, <1>3, <2>1 DEF OneHistory
    <2>3. \A s \in snaps' : s.nr \in 0 .. Len(written) /\ (s.holed \/ Replays(s.state, s.nr))
        BY <1>1, <2>1, <2>2 DEF OneHistory
    <2>4. \A q \in Procs : phase'[q] \in Recovering => phase[q] \in Recovering
        BY <1>1, <1>4 DEF Recovering
    <2> QED BY <1>1, <2>1, <2>3, <2>4 DEF OneHistory, Replays, Recovering
<1>6. \A q \in Procs : phase'[q] = "insert" => doing'[q].n \in Nat \ {0}
    BY <1>4 DEF RuntimeInv
<1> QED BY <1>1, <1>4, <1>5, <1>6 DEF RuntimeInv

\* One runner has recovered a state m with the number n, or is excused.
LEMMA RecoveryKeepsHistory ==
    ASSUME RuntimeInv, NEW p \in Procs, NEW m, NEW n, NEW x, UNCHANGED <<rows, written, snaps, doing, forked>>, x # "insert",
           phase' = [phase EXCEPT ![p] = x], mem' = [mem EXCEPT ![p] = m], nr' = [nr EXCEPT ![p] = n],
           holes \subseteq holes', holes' \subseteq holes \cup {p},
           ~forked => n \in 0 .. Len(written) /\ (p \in holes' \/ Replays(m, n))
    PROVE  RuntimeInv'
<1>1. /\ phase' = [q \in Procs |-> phase'[q]] /\ mem' = [q \in Procs |-> mem'[q]] /\ nr' = [q \in Procs |-> nr'[q]]
      /\ phase'[p] = x /\ mem'[p] = m /\ nr'[p] = n
      /\ \A q \in Procs : q # p => phase'[q] = phase[q] /\ mem'[q] = mem[q] /\ nr'[q] = nr[q]
    BY DEF RuntimeInv
<1>2. ASSUME ~forked PROVE OneHistory'
    <2>1. OneHistory
        BY <1>2 DEF RuntimeInv
    <2>2. \A q \in Procs : phase'[q] \in Recovering /\ q \notin holes' => Replays(mem'[q], nr'[q])
        BY <1>1, <1>2, <2>1 DEF OneHistory, Recovering
    <2>3. \A q \in Procs : nr'[q] \in 0 .. Len(written)
        BY <1>1, <1>2, <2>1 DEF OneHistory
    <2> QED BY <2>1, <2>2, <2>3 DEF OneHistory, Replays, Recovering
<1>3. \A q \in Procs : phase'[q] = "insert" => doing'[q].n \in Nat \ {0}
    BY <1>1 DEF RuntimeInv
<1> QED BY <1>1, <1>2, <1>3 DEF RuntimeInv

\* The first query of recover.
LEMMA LoadSnapshotKeepsHistory ==
    ASSUME RuntimeInv, NEW p \in Procs, Pg!LoadSnapshot(p)
    PROVE  RuntimeInv'
<1> DEFINE zero == [nr |-> 0, state |-> << >>, holed |-> FALSE]
           s == IF snaps = {} THEN zero ELSE CHOOSE x \in snaps : \A y \in snaps : y.nr <= x.nr
<1>2. /\ UNCHANGED <<rows, written, snaps, doing, forked>> /\ phase' = [phase EXCEPT ![p] = "events"]
      /\ mem' = [mem EXCEPT ![p] = s.state] /\ nr' = [nr EXCEPT ![p] = s.nr]
      /\ holes' = IF s.holed THEN holes \cup {p} ELSE holes
    BY DEF Pg!LoadSnapshot
<1>3. zero.nr = 0 /\ zero.state = << >>
    OBVIOUS
<1>1. /\ snaps = {} => s = zero
      /\ snaps # {} => s = CHOOSE x \in snaps : \A y \in snaps : y.nr <= x.nr
    OBVIOUS
<1> HIDE DEF zero, s
<1>4. ASSUME ~forked PROVE s.nr \in 0 .. Len(written) /\ (s.holed \/ Replays(s.state, s.nr))
    <2>1. OneHistory /\ Len(written) \in Nat
        BY <1>4 DEF RuntimeInv, OneHistory
    <2>2. CASE snaps = {}
        <3>1. s.nr = 0 /\ s.state = << >>
            BY <1>1, <1>3, <2>2
        <3>2. << >> \in Seq(Procs) /\ Len(<< >>) = 0
            OBVIOUS
        <3> QED BY <2>1, <3>1, <3>2 DEF Replays
    <2>3. CASE snaps # {}
        <3> DEFINE S == {y.nr : y \in snaps}
        <3>1. S \subseteq Nat /\ S # {} /\ \A k \in S : k <= Len(written)
            BY <2>1, <2>3 DEF OneHistory
        <3>2. \E k \in S : \A j \in S : j <= k
            <4> HIDE DEF S
            <4> QED BY <2>1, <3>1, GreatestExists
        <3>3. \E x \in snaps : \A y \in snaps : y.nr <= x.nr
            BY <3>2
        <3>4. s \in snaps
            BY <1>1, <2>3, <3>3
        <3> QED BY <2>1, <3>4 DEF OneHistory
    <2> QED BY <2>2, <2>3
<1>5. PICK m, n : m = s.state /\ n = s.nr
    OBVIOUS
<1>6. ~forked => n \in 0 .. Len(written) /\ (p \in holes' \/ Replays(m, n))
    BY <1>2, <1>4, <1>5
<1>7. holes \subseteq holes' /\ holes' \subseteq holes \cup {p}
    BY <1>2
<1> QED BY <1>2, <1>5, <1>6, <1>7, RecoveryKeepsHistory

\* A beginning of the history, continued by the rows above it when none is missing.
LEMMA RowsContinue ==
    ASSUME OneHistory, NEW p \in Procs, NEW m, Replays(m, nr[p]),
           nr[p] + 1 .. Len(written) \subseteq Pg!RowsAbove(nr[p]),
           NEW order, order = Pg!InOrder(Pg!RowsAbove(nr[p]))
    PROVE  Replays(m \o [i \in DOMAIN order |-> rows[order[i]]], Len(written))
<1> DEFINE a == nr[p]
           L == Len(written)
           more == [i \in DOMAIN order |-> rows[order[i]]]
<1>1. a \in Nat /\ L \in Nat /\ a <= L
    BY DEF OneHistory
<1>2. Pg!RowsAbove(a) = a + 1 .. L
    BY <1>1 DEF Pg!RowsAbove, OneHistory
<1>3. DOMAIN order = 1 .. L - a /\ \A i \in 1 .. L - a : order[i] = a + i
    BY <1>1, <1>2, IntervalInOrder
<1>4. \A i \in 1 .. L - a : a + i \in DOMAIN rows /\ rows[a + i] = written[a + i] /\ written[a + i] \in Procs
    <2> TAKE i \in 1 .. L - a
    <2>1. a + i \in a + 1 .. L /\ a + i \in 1 .. L
        BY <1>1
    <2>2. a + i \in DOMAIN rows
        BY <1>2, <2>1 DEF Pg!RowsAbove
    <2> QED BY <2>1, <2>2 DEF OneHistory
<1>5. more \in Seq(Procs) /\ Len(more) = L - a /\ \A i \in 1 .. L - a : more[i] = written[a + i]
    <2>1. more = [i \in 1 .. L - a |-> written[a + i]]
        BY <1>3, <1>4
    <2> HIDE DEF more
    <2>2. PICK k \in Nat : k = L - a
        BY <1>1
    <2>3. more = [i \in 1 .. k |-> written[a + i]] /\ \A i \in 1 .. k : written[a + i] \in Procs
        BY <1>4, <2>1, <2>2
    <2>4. more \in [1 .. k -> Procs] /\ \A i \in 1 .. k : more[i] = written[a + i]
        BY <2>3
    <2>5. more \in Seq(Procs) /\ Len(more) = k
        BY <2>4
    <2> QED BY <2>2, <2>4, <2>5
<1>6. m \in Seq(Procs) /\ Len(m) = a /\ \A i \in 1 .. a : m[i] = written[i]
    BY DEF Replays
<1> HIDE DEF more, a
<1>7. m \o more \in Seq(Procs) /\ Len(m \o more) = L
    <2>1. m \o more \in Seq(Procs) /\ Len(m \o more) = Len(m) + Len(more)
        BY <1>5, <1>6, ConcatProperties
    <2> QED BY <1>1, <1>5, <1>6, <2>1
<1>8. ASSUME NEW i \in 1 .. L PROVE (m \o more)[i] = written[i]
    <2>1. \A k \in 1 .. Len(m) + Len(more) : (m \o more)[k] = IF k <= Len(m) THEN m[k] ELSE more[k - Len(m)]
        BY <1>5, <1>6, ConcatProperties
    <2>2. CASE i <= a
        BY <1>1, <1>5, <1>6, <2>1, <2>2
    <2>3. CASE ~(i <= a)
        <3>1. i - a \in 1 .. L - a /\ a + (i - a) = i
            BY <1>1, <2>3
        <3> QED BY <1>1, <1>5, <1>6, <2>1, <2>3, <3>1, SMTT(40)
    <2> QED BY <2>2, <2>3
<1> QED BY <1>7, <1>8 DEF Replays, more

\* The second query of recover.
LEMMA LoadEventsKeepsHistory ==
    ASSUME RuntimeInv, NEW p \in Procs, Pg!LoadEvents(p)
    PROVE  RuntimeInv'
<1> DEFINE found == Pg!RowsAbove(nr[p])
           order == Pg!InOrder(found)
           state == mem[p] \o [i \in DOMAIN order |-> rows[order[i]]]
           last == IF found = {} THEN nr[p] ELSE Pg!MaxOf(found)
           whole == nr[p] + 1 .. Len(written) \subseteq found
<1>1. /\ UNCHANGED <<rows, written, snaps, doing, forked>> /\ phase[p] = "events"
      /\ phase' = [phase EXCEPT ![p] = "idle"] /\ mem' = [mem EXCEPT ![p] = state] /\ nr' = [nr EXCEPT ![p] = last]
    BY DEF Pg!LoadEvents
<1>2. holes' = IF whole THEN holes ELSE holes \cup {p}
    BY DEF Pg!LoadEvents
<1>3. ASSUME ~forked PROVE last \in 0 .. Len(written) /\ (p \in holes' \/ Replays(state, last))
    <2>1. OneHistory /\ Len(written) \in Nat /\ nr[p] \in 0 .. Len(written)
        BY <1>3 DEF RuntimeInv, OneHistory
    <2>2. found \subseteq Nat /\ \A k \in found : k > nr[p] /\ k <= Len(written)
        BY <2>1 DEF OneHistory, Pg!RowsAbove
    <2>3. found # {} => last \in found /\ \A k \in found : k <= last
        <3>1. SUFFICES ASSUME found # {} PROVE last \in found /\ \A k \in found : k <= last
            OBVIOUS
        <3>2. \E x \in found : \A y \in found : y <= x
            <4> HIDE DEF found
            <4> QED BY <2>1, <2>2, <3>1, GreatestExists
        <3> HIDE DEF found
        <3> QED BY <3>1, <3>2 DEF Pg!MaxOf
    <2>4. last \in 0 .. Len(written)
        <3> HIDE DEF found
        <3>1. CASE found = {}
            BY <3>1, <2>1
        <3>2. CASE found # {}
            <4>1. last \in found
                BY <3>2, <2>3
            <4> HIDE DEF last
            <4> QED BY <4>1, <2>1, <2>2
        <3> QED BY <3>1, <3>2
    <2>5. CASE whole /\ p \notin holes
        <3>1. Replays(mem[p], nr[p])
            BY <1>1, <2>1, <2>5 DEF OneHistory
        <3>2. Replays(state, Len(written))
            BY <2>1, <2>5, <3>1, RowsContinue
        <3>3. last = Len(written)
            <4> HIDE DEF found
            <4>1. CASE nr[p] = Len(written)
                <5>1. found = {}
                    BY <4>1, <2>1, <2>2
                <5> QED BY <4>1, <5>1
            <4>2. CASE nr[p] < Len(written)
                <5>1. Len(written) \in found
                    BY <4>2, <2>1, <2>5
                <5> QED BY <5>1, <2>1, <2>2, <2>3, <2>4
            <4> QED BY <2>1, <4>1, <4>2
        <3> QED BY <2>4, <3>2, <3>3
    <2>6. CASE ~(whole /\ p \notin holes)
        <3> HIDE DEF whole
        <3>1. p \in holes'
            BY <1>2, <2>6
        <3> QED BY <2>4, <3>1
    <2> QED BY <2>5, <2>6
<1>4. holes \subseteq holes' /\ holes' \subseteq holes \cup {p}
    <2> HIDE DEF whole
    <2> QED BY <1>2
<1> HIDE DEF state, last
<1>5. PICK m, n : m = state /\ n = last
    OBVIOUS
<1> QED BY <1>1, <1>3, <1>4, <1>5, RecoveryKeepsHistory

\* The batch is stored and the runner has ended, or has not heard of it.
LEMMA StoredKeepsHistory ==
    ASSUME RuntimeInv, NEW p \in Procs, phase[p] = "insert", ~Pg!Collides(p), Pg!StoreBatch(p),
           NEW x, phase' = [phase EXCEPT ![p] = x], x \notin Recovering, UNCHANGED <<snaps, mem, nr, doing, holes>>
    PROVE  RuntimeInv'
<1>1. /\ phase' = [q \in Procs |-> phase'[q]] /\ phase'[p] = x
      /\ \A q \in Procs : q # p => phase'[q] = phase[q]
    BY DEF RuntimeInv
<1>2. ASSUME ~forked' PROVE OneHistory'
    <2>1. /\ ~forked /\ written' \in Seq(Procs)
          /\ DOMAIN rows' \subseteq 1 .. Len(written') /\ \A k \in DOMAIN rows' : rows'[k] = written'[k]
          /\ Len(written') = Len(written) + doing[p].n /\ doing[p].n \in Nat
        BY <1>2, StoreKeepsHistory DEF RuntimeInv
    <2>2. OneHistory /\ Len(written) \in Nat
        BY <2>1 DEF RuntimeInv, OneHistory
    <2>3. \A m : \A n \in 0 .. Len(written) : Replays(m, n) => Replays(m, n)'
        BY <1>2, StoreKeepsOthers
    <2>4. 0 .. Len(written) \subseteq 0 .. Len(written')
        BY <2>1, <2>2
    <2>5. ASSUME NEW s \in snaps' PROVE s.nr \in 0 .. Len(written') /\ (s.holed \/ Replays(s.state, s.nr)')
        <3>1. PICK m, n : m = s.state /\ n = s.nr
            OBVIOUS
        <3>2. n \in 0 .. Len(written) /\ (s.holed \/ Replays(m, n))
            BY <2>2, <3>1 DEF OneHistory
        <3>3. s.holed \/ Replays(m, n)'
            BY <2>3, <3>2
        <3> QED BY <2>4, <3>1, <3>2, <3>3 DEF Replays
    <2>6. ASSUME NEW q \in Procs, phase'[q] \in Recovering, q \notin holes'
          PROVE  Replays(mem[q], nr[q])'
        <3>1. q # p /\ phase[q] \in Recovering /\ q \notin holes
            BY <1>1, <2>6
        <3>2. PICK m, n : m = mem[q] /\ n = nr[q]
            OBVIOUS
        <3>3. n \in 0 .. Len(written) /\ Replays(m, n)
            BY <2>2, <3>1, <3>2 DEF OneHistory, Recovering
        <3>4. Replays(m, n)'
            BY <2>3, <3>3
        <3> QED BY <3>2, <3>4 DEF Replays
    <2>7. \A q \in Procs : nr'[q] \in 0 .. Len(written')
        BY <2>2, <2>4 DEF OneHistory
    <2> QED BY <2>1, <2>5, <2>6, <2>7 DEF OneHistory, Recovering
<1>3. \A q \in Procs : phase'[q] = "insert" => doing'[q].n \in Nat \ {0}
    BY <1>1 DEF RuntimeInv, Recovering
<1> QED BY <1>1, <1>2, <1>3 DEF RuntimeInv

\* persistEventsAsync fails around its commit.
LEMMA BreakKeepsHistory ==
    ASSUME RuntimeInv, NEW p \in Procs, Pg!InsertBreaks(p)
    PROVE  RuntimeInv'
<1>1. /\ phase[p] = "insert" /\ phase' = [phase EXCEPT ![p] = "ended"] /\ UNCHANGED <<snaps, mem, nr, doing, holes>>
    BY DEF Pg!InsertBreaks, Pg!EndRunner
<1>2. CASE UNCHANGED <<rows, written, forked>>
    <2>1. phase' = [q \in Procs |-> phase'[q]] /\ doing' = [q \in Procs |-> doing'[q]]
        BY <1>1 DEF RuntimeInv
    <2>2. \A q \in Procs : phase'[q] \in Recovering => phase[q] \in Recovering
        BY <1>1 DEF RuntimeInv, Recovering
    <2>3. \A q \in Procs : phase'[q] = "insert" => doing'[q].n \in Nat \ {0}
        BY <1>1 DEF RuntimeInv
    <2> QED BY <1>1, <1>2, <2>1, <2>2, <2>3, QuietKeepsHistory
<1>3. CASE ~Pg!Collides(p) /\ Pg!StoreBatch(p)
    BY <1>1, <1>3, StoredKeepsHistory DEF Recovering
<1> QED BY <1>2, <1>3 DEF Pg!InsertBreaks

\* persistEventsAsync succeeds: the runner applies what it has stored.
LEMMA InsertKeepsHistory ==
    ASSUME RuntimeInv, NEW p \in Procs, Pg!Inserted(p)
    PROVE  RuntimeInv'
<1> DEFINE n == doing[p].n
           lot == [k \in 1 .. n |-> p]
<1>1. /\ phase[p] = "insert" /\ ~Pg!Collides(p) /\ Pg!StoreBatch(p) /\ UNCHANGED <<snaps, holes>>
      /\ mem' = [mem EXCEPT ![p] = mem[p] \o lot] /\ nr' = [nr EXCEPT ![p] = nr[p] + n]
      /\ \E x \in {"save", "idle"} : phase' = [phase EXCEPT ![p] = x]
      /\ doing' = doing \/ doing' = [doing EXCEPT ![p] = Pg!Nothing]
    BY DEF Pg!Inserted
<1>2. n \in Nat \ {0}
    BY <1>1 DEF RuntimeInv
<1>3. lot \in Seq(Procs) /\ Len(lot) = n /\ \A k \in 1 .. n : lot[k] = p
    BY <1>2
<1> HIDE DEF lot
<1>4. /\ phase' = [q \in Procs |-> phase'[q]] /\ mem' = [q \in Procs |-> mem'[q]]
      /\ nr' = [q \in Procs |-> nr'[q]] /\ doing' = [q \in Procs |-> doing'[q]]
      /\ phase'[p] \in {"save", "idle"} /\ mem'[p] = mem[p] \o lot /\ nr'[p] = nr[p] + n
      /\ \A q \in Procs : q # p => /\ phase'[q] = phase[q] /\ mem'[q] = mem[q]
                                   /\ nr'[q] = nr[q] /\ doing'[q] = doing[q]
    BY <1>1 DEF RuntimeInv
<1>5. ASSUME ~forked' PROVE OneHistory'
    <2>1. /\ ~forked /\ written' \in Seq(Procs) /\ nr[p] = Len(written)
          /\ DOMAIN rows' \subseteq 1 .. Len(written') /\ \A k \in DOMAIN rows' : rows'[k] = written'[k]
          /\ Len(written') = Len(written) + n
          /\ \A k \in 1 .. Len(written) : written'[k] = written[k]
          /\ \A k \in 1 .. n : written'[Len(written) + k] = p
        BY <1>1, <1>5, StoreKeepsHistory
    <2>2. OneHistory /\ Len(written) \in Nat
        BY <2>1 DEF RuntimeInv, OneHistory
    <2>3. \A m : \A l \in 0 .. Len(written) : Replays(m, l) => Replays(m, l)'
        BY <1>1, <1>5, StoreKeepsOthers
    <2>4. 0 .. Len(written) \subseteq 0 .. Len(written')
        BY <1>2, <2>1, <2>2
    <2>5. ASSUME NEW s \in snaps' PROVE s.nr \in 0 .. Len(written') /\ (s.holed \/ Replays(s.state, s.nr)')
        <3>1. PICK m, l : m = s.state /\ l = s.nr
            OBVIOUS
        <3>2. l \in 0 .. Len(written) /\ (s.holed \/ Replays(m, l))
            BY <1>1, <2>2, <3>1 DEF OneHistory
        <3>3. s.holed \/ Replays(m, l)'
            BY <2>3, <3>2
        <3> QED BY <2>4, <3>1, <3>2, <3>3 DEF Replays
    <2>6. ASSUME NEW q \in Procs, phase'[q] \in Recovering, q \notin holes'
          PROVE  Replays(mem[q], nr[q])'
        <3>1. CASE q # p
            <4>1. PICK m, l : m = mem[q] /\ l = nr[q]
                OBVIOUS
            <4>2. l \in 0 .. Len(written) /\ Replays(m, l)
                BY <1>1, <1>4, <2>2, <2>6, <3>1, <4>1 DEF OneHistory, Recovering
            <4>3. Replays(m, l)' /\ m = mem'[q] /\ l = nr'[q]
                BY <1>4, <2>3, <3>1, <4>1, <4>2
            <4> QED BY <4>3 DEF Replays
        <3>2. CASE q = p
            <4>1. Replays(mem[p], nr[p])
                BY <1>1, <2>2, <2>6, <3>2 DEF OneHistory
            <4>2. mem[p] \in Seq(Procs) /\ Len(mem[p]) = Len(written) /\ \A i \in 1 .. Len(written) : mem[p][i] = written[i]
                BY <2>1, <4>1 DEF Replays
            <4>3. PICK m : m = mem[p]
                OBVIOUS
            <4>4. m \o lot \in Seq(Procs) /\ Len(m \o lot) = Len(m) + Len(lot)
                BY <1>3, <4>2, <4>3, ConcatProperties
            <4>5. \A k \in 1 .. Len(m) + Len(lot) : (m \o lot)[k] = IF k <= Len(m) THEN m[k] ELSE lot[k - Len(m)]
                BY <1>3, <4>2, <4>3, ConcatProperties
            <4>6. Len(m \o lot) = Len(written) + n /\ Len(m \o lot) = nr'[p]
                BY <1>3, <1>4, <2>1, <4>2, <4>3, <4>4
            <4>7. ASSUME NEW i \in 1 .. Len(written) + n PROVE (m \o lot)[i] = written'[i]
                <5>1. CASE i <= Len(written)
                    BY <1>2, <1>3, <2>1, <2>2, <4>2, <4>3, <4>5, <5>1
                <5>2. CASE ~(i <= Len(written))
                    <6>1. i - Len(written) \in 1 .. n /\ Len(written) + (i - Len(written)) = i
                        BY <1>2, <2>2, <5>2
                    <6>2. (m \o lot)[i] = lot[i - Len(written)]
                        BY <1>2, <1>3, <2>2, <4>2, <4>3, <4>5, <5>2
                    <6> QED BY <1>3, <2>1, <6>1, <6>2
                <5> QED BY <5>1, <5>2, ZenonT(40)
            <4>8. mem'[p] = m \o lot
                BY <1>4, <4>3
            <4> QED BY <3>2, <4>4, <4>6, <4>7, <4>8 DEF Replays
        <3> QED BY <3>1, <3>2
    <2>7. \A q \in Procs : nr'[q] \in 0 .. Len(written')
        BY <1>2, <1>4, <2>1, <2>2, <2>4 DEF OneHistory
    <2> QED BY <2>1, <2>5, <2>6, <2>7 DEF OneHistory, Recovering
<1>6. \A q \in Procs : phase'[q] = "insert" => doing'[q].n \in Nat \ {0}
    BY <1>4 DEF RuntimeInv
<1> QED BY <1>4, <1>5, <1>6 DEF RuntimeInv

LEMMA StepKeepsRuntime == RuntimeInv /\ [Pg!Next]_pgState => RuntimeInv'
<1> SUFFICES ASSUME RuntimeInv, [Pg!Next]_pgState PROVE RuntimeInv'
    OBVIOUS
<1>1. CASE UNCHANGED pgState
    <2>1. /\ UNCHANGED <<rows, written, snaps, mem, nr, holes, forked>> /\ phase' = phase /\ doing' = doing
        BY <1>1 DEF pgState
    <2>2. /\ phase' = [p \in Procs |-> phase'[p]] /\ doing' = [p \in Procs |-> doing'[p]]
          /\ \A p \in Procs : phase'[p] = "insert" => doing'[p].n \in Nat \ {0}
        BY <2>1 DEF RuntimeInv
    <2> QED BY <2>1, <2>2, QuietKeepsHistory
<1>2. CASE \E s \in snaps : Pg!DeleteEvents(s) \/ Pg!DeleteSnapshots(s)
    BY <1>2, HousekeepingKeepsHistory
<1>3. ASSUME NEW p \in Procs,
             \/ Pg!Ask(p) \/ Pg!Tell(p) \/ Pg!TakeOther(p) \/ Pg!TakeStop(p) \/ Pg!Refused(p) \/ Pg!RunnerThrows(p)
             \/ \E n \in 1 .. 2, snap \in BOOLEAN : Pg!TakePersist(p, n, snap)
      PROVE  RuntimeInv'
    BY <1>3, CommandsKeepHistory
<1>4. ASSUME NEW p \in Procs, Pg!Shutdown(p) \/ Pg!ProcessDies(p)
      PROVE  RuntimeInv'
    BY <1>4, FreshKeepsHistory DEF Pg!Shutdown, Pg!ProcessDies
<1>5. ASSUME NEW p \in Procs, Pg!LoadSnapshot(p) \/ Pg!LoadEvents(p) \/ Pg!SaveSnapshot(p) \/ Pg!Inserted(p) \/ Pg!InsertBreaks(p)
      PROVE  RuntimeInv'
    BY <1>5, LoadSnapshotKeepsHistory, LoadEventsKeepsHistory, SaveKeepsHistory, InsertKeepsHistory, BreakKeepsHistory
<1> QED BY <1>1, <1>2, <1>3, <1>4, <1>5 DEF Pg!Next

\* No two processes of the deployed PostgreSQL runtime work on diverging histories: a runner's
\* state is the replay of the first events of the one journal, although only the key of the
\* table keeps the processes apart (postgres/runtime.ts, journal.ts).
THEOREM RuntimesShareOneHistory == Spec => []PgStateIsReplay
<1>1. Init => RuntimeInv
    <2> SUFFICES ASSUME Pg!Init PROVE RuntimeInv
        BY DEF Init
    <2>1. /\ rows = << >> /\ written = << >> /\ snaps = {} /\ forked = FALSE
          /\ phase = [p \in Procs |-> "none"] /\ mem = [p \in Procs |-> << >>]
          /\ nr = [p \in Procs |-> 0] /\ doing = [p \in Procs |-> Pg!Nothing]
        BY DEF Pg!Init
    <2>2. /\ phase = [p \in Procs |-> phase[p]] /\ mem = [p \in Procs |-> mem[p]]
          /\ nr = [p \in Procs |-> nr[p]] /\ doing = [p \in Procs |-> doing[p]]
          /\ \A p \in Procs : phase[p] = "none" /\ nr[p] = 0
        BY <2>1
    <2>3. << >> \in Seq(Procs) /\ Len(<< >>) = 0 /\ DOMAIN << >> = {}
        OBVIOUS
    <2>4. OneHistory
        BY <2>1, <2>2, <2>3 DEF OneHistory
    <2> QED BY <2>2, <2>4 DEF RuntimeInv
<1>2. RuntimeInv /\ [Next]_vars => RuntimeInv'
    BY ComponentSteps, StepKeepsRuntime
<1>3. RuntimeInv => PgStateIsReplay
    <2> SUFFICES ASSUME RuntimeInv, NEW p \in Procs, phase[p] \in {"idle", "insert", "save"}, p \notin holes, ~forked
                 PROVE  mem[p] = SubSeq(written, 1, nr[p])
        BY DEF PgStateIsReplay, Pg!PgStateIsReplay
    <2>1. written \in Seq(Procs) /\ nr[p] \in 0 .. Len(written) /\ Replays(mem[p], nr[p])
        BY DEF RuntimeInv, OneHistory
    <2>2. PICK m, n : m = mem[p] /\ n = nr[p]
        OBVIOUS
    <2>3. m \in Seq(Procs) /\ Len(m) = n /\ n \in 0 .. Len(written) /\ \A i \in 1 .. n : m[i] = written[i]
        BY <2>1, <2>2 DEF Replays
    <2>4. /\ SubSeq(written, 1, n) \in Seq(Procs)
          /\ Len(SubSeq(written, 1, n)) = n
          /\ \A i \in 1 .. n : SubSeq(written, 1, n)[i] = written[i]
        BY <2>1, <2>3
    <2>5. m = SubSeq(written, 1, n)
        BY <2>3, <2>4, SeqEqual
    <2> QED BY <2>2, <2>5
<1> QED BY <1>1, <1>2, <1>3, PTL DEF Spec

-----------------------------------------------------------------------------
(* Node flows: what a compiled graph promises.                              *)

\* What is below a node holds its dependents and the dependents of its members, and whatever
\* is below a dependent.
LEMMA BelowIsClosed ==
    ASSUME NEW f, Node!CompileFlow(f), NEW n \in f.nodes, NEW m \in Node!Dependents(f, n)
    PROVE  m \in f.nodes /\ m \in Node!Below(f, n) /\ Node!Below(f, m) \subseteq Node!Below(f, n)
<1>1. \A k \in f.nodes : Node!Dependents(f, k) \subseteq f.nodes
    BY DEF Node!CompileFlow, Node!Dependents
<1>2. m \in Node!Below(f, n)
    BY <1>1 DEF Node!Below
<1>3. \A k \in Node!Below(f, n) : Node!Dependents(f, k) \subseteq Node!Below(f, n)
    <2> SUFFICES ASSUME NEW k \in Node!Below(f, n), NEW x \in Node!Dependents(f, k),
                        NEW S \in SUBSET f.nodes, Node!Dependents(f, n) \subseteq S,
                        \A y \in S : Node!Dependents(f, y) \subseteq S
                 PROVE  x \in S
        BY <1>1 DEF Node!Below
    <2>1. k \in S
        BY DEF Node!Below
    <2> QED BY <2>1
<1>4. Node!Below(f, n) \in SUBSET f.nodes
    BY DEF Node!Below
<1>5. Node!Below(f, m) \subseteq Node!Below(f, n)
    <2>1. Node!Dependents(f, m) \subseteq Node!Below(f, n)
        BY <1>2, <1>3
    <2> QED BY <1>3, <1>4, <2>1 DEF Node!Below
<1> QED BY <1>1, <1>2, <1>5

\* Fewer nodes are below a dependent than below the node itself.
LEMMA FewerBelow ==
    ASSUME NEW f, IsFiniteSet(f.nodes), Node!CompileFlow(f), NEW n \in f.nodes, NEW m \in Node!Dependents(f, n)
    PROVE  /\ Cardinality(Node!Below(f, n)) \in Nat /\ Cardinality(Node!Below(f, m)) \in Nat
           /\ Cardinality(Node!Below(f, m)) < Cardinality(Node!Below(f, n))
<1>1. m \in f.nodes /\ m \in Node!Below(f, n) /\ Node!Below(f, m) \in SUBSET Node!Below(f, n)
    BY BelowIsClosed
<1>2. m \notin Node!Below(f, m)
    BY <1>1 DEF Node!CompileFlow
<1>3. Node!Below(f, n) \in SUBSET f.nodes
    BY DEF Node!Below
<1>4. IsFiniteSet(Node!Below(f, n))
    BY <1>3, FS_Subset
<1>5. /\ IsFiniteSet(Node!Below(f, m)) /\ Cardinality(Node!Below(f, m)) <= Cardinality(Node!Below(f, n))
      /\ Cardinality(Node!Below(f, n)) = Cardinality(Node!Below(f, m)) => Node!Below(f, n) = Node!Below(f, m)
    BY <1>1, <1>4, FS_Subset
<1>6. Cardinality(Node!Below(f, n)) # Cardinality(Node!Below(f, m))
    BY <1>1, <1>2, <1>5
<1>7. Cardinality(Node!Below(f, n)) \in Nat /\ Cardinality(Node!Below(f, m)) \in Nat
    BY <1>4, <1>5, FS_CardinalityType
<1> QED BY <1>5, <1>6, <1>7

\* Of some nodes of a compiled graph one depends on none of the others, and one has no dependent
\* among them.
LEMMA FirstAndLast ==
    ASSUME NEW f, IsFiniteSet(f.nodes), Node!CompileFlow(f), NEW S, S \subseteq f.nodes, S # {}
    PROVE  /\ \E n \in S : \A d \in Node!Deps(f, n) : d \notin S
           /\ \E n \in S : \A d \in Node!Dependents(f, n) : d \notin S
<1> DEFINE below(n) == Cardinality(Node!Below(f, n))
           C == {below(n) : n \in S}
           R == OpToRel(<, Nat)
<1>1. \A n \in f.nodes : below(n) \in Nat /\ below(n) <= Cardinality(f.nodes)
    <2> SUFFICES ASSUME NEW n \in f.nodes PROVE below(n) \in Nat /\ below(n) <= Cardinality(f.nodes)
        OBVIOUS
    <2>1. Node!Below(f, n) \in SUBSET f.nodes
        BY DEF Node!Below
    <2>2. IsFiniteSet(Node!Below(f, n)) /\ below(n) <= Cardinality(f.nodes)
        BY <2>1, FS_Subset
    <2> QED BY <2>2, FS_CardinalityType
<1>2. Cardinality(f.nodes) \in Nat
    BY FS_CardinalityType
<1>3. \A n \in f.nodes : \A m \in Node!Dependents(f, n) : below(m) < below(n)
    BY FewerBelow
<1>4. \A n \in f.nodes : \A d \in Node!Deps(f, n) : d \in f.nodes /\ n \in Node!Dependents(f, d)
    BY DEF Node!Deps, Node!Dependents, Node!CompileFlow
<1> HIDE DEF below
<1>5. C \subseteq Nat /\ C # {} /\ \A c \in C : c <= Cardinality(f.nodes)
    BY <1>1
<1>6. \E n \in S : \A d \in Node!Deps(f, n) : d \notin S
    <2>1. PICK c \in C : \A x \in C : x <= c
        BY <1>2, <1>5, GreatestExists
    <2>2. PICK n \in S : below(n) = c
        OBVIOUS
    <2>3. ASSUME NEW d \in Node!Deps(f, n), d \in S PROVE FALSE
        <3>1. d \in f.nodes /\ n \in f.nodes /\ below(n) < below(d) /\ below(d) <= c
            BY <1>3, <1>4, <2>1, <2>3
        <3> QED BY <1>1, <2>2, <3>1
    <2> QED BY <2>3
<1>7. \E n \in S : \A d \in Node!Dependents(f, n) : d \notin S
    <2>1. PICK c \in C : \A x \in C : ~(<<x, c>> \in R)
        BY <1>5, WFMin, NatLessThanWellFounded
    <2>2. PICK n \in S : below(n) = c
        OBVIOUS
    <2>3. ASSUME NEW d \in Node!Dependents(f, n), d \in S PROVE FALSE
        <3>1. n \in f.nodes /\ d \in f.nodes /\ below(d) < below(n) /\ below(d) \in C /\ below(d) \in Nat /\ below(n) \in Nat
            BY <1>1, <1>3, <2>3
        <3> QED BY <2>1, <2>2, <3>1 DEF OpToRel
    <2> QED BY <2>3
<1> QED BY <1>6, <1>7

\* When no node runs and none is ready, all have completed, and the flow has an end.
LEMMA NothingReady ==
    ASSUME NEW f, IsFiniteSet(f.nodes), Node!CompileFlow(f), f.nodes # {}, NEW st,
           \A n \in f.nodes : st[n] \in {"unset", "completed"}, Node!NodesReadyToRun(f, st) = {}
    PROVE  /\ Node!TerminalNodes(f) # {}
           /\ \A n \in Node!TerminalNodes(f) : n \in f.nodes /\ st[n] = "completed"
<1>1. PICK last \in f.nodes : \A d \in Node!Dependents(f, last) : d \notin f.nodes
    BY FirstAndLast
<1>2. Node!Dependents(f, last) = {}
    BY <1>1 DEF Node!Dependents, Node!CompileFlow
<1> DEFINE U == {n \in f.nodes : st[n] = "unset"}
<1>3. U = {}
    <2> SUFFICES ASSUME U # {} PROVE FALSE
        OBVIOUS
    <2>1. PICK n \in U : \A d \in Node!Deps(f, n) : d \notin U
        BY FirstAndLast
    <2>2. \A d \in Node!Deps(f, n) : d \in f.nodes
        BY DEF Node!Deps, Node!CompileFlow
    <2>3. n \in Node!NodesReadyToRun(f, st)
        BY <2>1, <2>2 DEF Node!NodesReadyToRun
    <2> QED BY <2>3
<1> QED BY <1>2, <1>3 DEF Node!TerminalNodes

\* A node that has not been started has not run in this run of the flow.
RunsInv ==
    /\ eager = FALSE /\ node = [n \in Nodes |-> node[n]] /\ nodesRan = [n \in Nodes |-> nodesRan[n]]
    /\ \A n \in Nodes : nodesRan[n] \in {0, 1} /\ (node[n] = "unset" => nodesRan[n] = 0)

LEMMA InitRuns == Init => RunsInv
BY DEF Init, Node!Init, RunsInv

LEMMA StepKeepsRuns == RunsInv /\ [Node!Next]_nodeState => RunsInv'
<1> SUFFICES ASSUME RunsInv, [Node!Next]_nodeState PROVE RunsInv'
    OBVIOUS
<1>1. ASSUME UNCHANGED <<node, nodesRan, eager>> PROVE RunsInv'
    BY <1>1 DEF RunsInv
<1>2. ASSUME UNCHANGED <<nodesRan, eager>>, NEW m, NEW v, v # "unset", node' = [node EXCEPT ![m] = v] PROVE RunsInv'
    <2>1. node' = [n \in Nodes |-> node'[n]] /\ \A n \in Nodes : node'[n] = "unset" => node[n] = "unset"
        BY <1>2 DEF RunsInv
    <2> QED BY <1>2, <2>1 DEF RunsInv
<1>3. CASE Node!StartFlow
    <2>1. PICK roots : /\ node' = Node!Started(node, roots) /\ UNCHANGED eager
                       /\ nodesRan' = [n \in Nodes |-> IF n \in roots THEN 1 ELSE 0]
        BY <1>3 DEF Node!StartFlow
    <2> QED BY <2>1 DEF RunsInv, Node!Started
<1>4. CASE Node!NodeCompleted
    <2>1. PICK f, m, st, next :
              /\ st = [node EXCEPT ![m] = "completed"] /\ next = Node!NodesReadyToRun(f, st)
              /\ node' = Node!Started(st, next) /\ Node!Fire(f, st, next)
        BY <1>4, ZenonT(40) DEF Node!NodeCompleted, Node!Projected
    <2>2. \A n \in Nodes : st[n] = "unset" => node[n] = "unset"
        BY <2>1 DEF RunsInv
    <2>3. \A n \in next : st[n] = "unset" /\ \A d \in Node!Deps(f, n) : st[d] = "completed"
        BY <2>1 DEF Node!NodesReadyToRun
    <2>4. eager' = FALSE
        BY <2>1, <2>3, ZenonT(40) DEF RunsInv, Node!Fire
    <2>5. /\ node' = [n \in Nodes |-> IF n \in next THEN "running" ELSE st[n]]
          /\ nodesRan' = [n \in Nodes |-> IF n \in next THEN nodesRan[n] + 1 ELSE nodesRan[n]]
        BY <2>1 DEF Node!Started, Node!Fire
    <2>6. ASSUME NEW n \in Nodes PROVE nodesRan'[n] \in {0, 1} /\ (node'[n] = "unset" => nodesRan'[n] = 0)
        BY <2>2, <2>3, <2>5 DEF RunsInv
    <2> QED BY <2>4, <2>5, <2>6 DEF RunsInv
<1>5. CASE Node!NodeFailed
    <2>1. PICK m, v : v # "unset" /\ node' = [node EXCEPT ![m] = v] /\ UNCHANGED <<nodesRan, eager>>
        BY <1>5, ZenonT(40) DEF Node!NodeFailed
    <2> QED BY <1>2, <2>1
<1>6. CASE Node!UserInput
    BY <1>2, <1>6, ZenonT(40) DEF Node!UserInput
<1>7. CASE \/ \E f \in Flows : Node!SendStart(f)
           \/ \E n \in Nodes, tag \in {"user_input", "node_completed", "node_failed"} : Node!SendInput(n, tag)
           \/ Node!StartRefused \/ Node!NoFlowRunning \/ Node!Execute \/ Node!CompileThrows \/ Node!WriteRefused
           \/ Node!ProcessDies \/ UNCHANGED nodeState
    BY <1>1, <1>7 DEF Node!SendStart, Node!SendInput, Node!StartRefused, Node!NoFlowRunning, Node!Execute,
                      Node!CompileThrows, Node!WriteRefused, Node!ProcessDies, Node!Ends, Node!Idle, nodeState
<1> QED BY <1>3, <1>4, <1>5, <1>6, <1>7 DEF Node!Next

-----------------------------------------------------------------------------
(* Node flows: no silent stall.                                             *)

\* Callers start flows that exist.
StartsFlows(tray) ==
    /\ Len(tray) \in Nat /\ \E S : tray \in Seq(S)
    /\ \A i \in 1 .. Len(tray) : tray[i].tag = "start_flow" => tray[i].flow \in Flows

\* Before the first run nothing is compiled and no node can have started or failed.
BeforeFirst ==
    run = 0 => /\ fdef = Node!NoFlow /\ cached = Node!NoFlow /\ status = "not_started"
               /\ \A n \in Nodes : node[n] \in {"unset", "completed"}

\* In the first run, as long as nothing excuses a stall, the graph at hand is that of the flow,
\* no node has failed and one is running.
Going ==
    status = "running" /\ ~excused =>
        /\ fdef \in Flows /\ Node!CompileFlow(fdef) /\ fdef \in flowRegistry /\ cached \in {Node!NoFlow, fdef}
        /\ \A n \in Nodes : node[n] \in {"unset", "running", "completed"}
        /\ \E n \in fdef.nodes : node[n] = "running"

StallInv == run \in Nat /\ node = [n \in Nodes |-> node[n]] /\ StartsFlows(inbox) /\ BeforeFirst /\ Going

LEMMA InitStall == Init => StallInv
<1> SUFFICES ASSUME Node!Init PROVE StallInv
    BY DEF Init
<1>1. inbox = << >> /\ inbox \in Seq({})
    BY DEF Node!Init
<1>2. StartsFlows(inbox)
    BY <1>1 DEF StartsFlows
<1> QED BY <1>2 DEF Node!Init, StallInv, BeforeFirst, Going

\* A command that is sent, and one that is taken.
LEMMA SentStarts ==
    ASSUME NEW tray, StartsFlows(tray), NEW x, x.tag = "start_flow" => x.flow \in Flows
    PROVE  StartsFlows(Append(tray, x))
<1>1. PICK S : tray \in Seq(S)
    BY DEF StartsFlows
<1>2. tray \in Seq(S \cup {x}) /\ x \in S \cup {x}
    BY <1>1
<1>3. Append(tray, x) \in Seq(S \cup {x}) /\ Len(Append(tray, x)) = Len(tray) + 1
    BY <1>2, AppendProperties
<1>4. \A i \in 1 .. Len(tray) + 1 : Append(tray, x)[i] = IF i = Len(tray) + 1 THEN x ELSE tray[i]
    BY <1>2, AppendProperties
<1>5. ASSUME NEW i \in 1 .. Len(tray) + 1, Append(tray, x)[i].tag = "start_flow" PROVE Append(tray, x)[i].flow \in Flows
    <2>1. CASE i = Len(tray) + 1
        BY <1>4, <1>5, <2>1
    <2>2. CASE i # Len(tray) + 1
        <3>1. i \in 1 .. Len(tray)
            BY <2>2 DEF StartsFlows
        <3> QED BY <1>4, <1>5, <2>2, <3>1 DEF StartsFlows
    <2> QED BY <2>1, <2>2
<1> QED BY <1>3, <1>5 DEF StartsFlows

LEMMA TakenStarts ==
    ASSUME NEW tray, StartsFlows(tray), tray # << >>
    PROVE  StartsFlows(Tail(tray)) /\ (Head(tray).tag = "start_flow" => Head(tray).flow \in Flows)
<1>1. PICK S : tray \in Seq(S)
    BY DEF StartsFlows
<1>2. Len(tray) \in Nat \ {0} /\ Head(tray) = tray[1]
    BY <1>1, EmptySeq
<1>3. Tail(tray) \in Seq(S) /\ Len(Tail(tray)) = Len(tray) - 1 /\ \A i \in 1 .. Len(tray) - 1 : Tail(tray)[i] = tray[i + 1]
    BY <1>1, HeadTailProperties
<1>4. \A i \in 1 .. Len(tray) - 1 : i + 1 \in 1 .. Len(tray)
    BY <1>2
<1>5. 1 \in 1 .. Len(tray)
    BY <1>2
<1>6. Len(Tail(tray)) \in Nat
    BY <1>2, <1>3
<1> QED BY <1>2, <1>3, <1>4, <1>5, <1>6 DEF StartsFlows

\* The journaled state stays as it is, or a stall is excused from now on.
LEMMA QuietKeepsGoing ==
    ASSUME StallInv, StartsFlows(inbox'), UNCHANGED <<run, fdef, status>>, node' = [n \in Nodes |-> node'[n]],
           run = 0 => cached' = Node!NoFlow /\ \A n \in Nodes : node'[n] \in {node[n], "completed"},
           \/ excused'
           \/ /\ UNCHANGED <<node, flowRegistry, excused>> /\ cached' \in {cached, Node!GetCompiled}
    PROVE  StallInv'
<1>1. BeforeFirst'
    BY DEF StallInv, BeforeFirst
<1>2. Going'
    BY DEF StallInv, Going, Node!GetCompiled
<1> QED BY <1>1, <1>2 DEF StallInv

LEMMA StartKeepsGoing ==
    ASSUME StallInv, Node!StartFlow
    PROVE  StallInv'
<1>1. PICK f, roots :
          /\ f = Head(inbox).flow /\ roots = Node!RootNodes(f) /\ Node!TakeCommand /\ Head(inbox).tag = "start_flow"
          /\ Node!CompileFlow(f) /\ flowRegistry' = flowRegistry \cup {f} /\ fdef' = f /\ status' = "running"
          /\ node' = Node!Started(node, roots) /\ run' = run + 1 /\ excused' = (run > 0 \/ roots = {})
          /\ UNCHANGED cached
    BY DEF Node!StartFlow
<1>2. f \in Flows /\ StartsFlows(inbox')
    BY <1>1, TakenStarts DEF StallInv, Node!TakeCommand
<1>3. roots \subseteq f.nodes /\ f.nodes \subseteq Nodes
    BY <1>1, <1>2, FlowAssumption DEF Node!RootNodes
<1>4. node' = [n \in Nodes |-> IF n \in roots THEN "running" ELSE node[n]]
    BY <1>1 DEF Node!Started
<1>5. run \in Nat /\ run' \in Nat /\ run' # 0
    BY <1>1 DEF StallInv
<1>6. ASSUME ~excused' PROVE run = 0 /\ roots # {}
    <2>1. ~(run > 0 \/ roots = {})
        BY <1>1, <1>6, Zenon
    <2> QED BY <1>5, <2>1
<1>7. Going'
    <2> SUFFICES ASSUME ~excused'
                 PROVE  /\ fdef' \in Flows /\ Node!CompileFlow(fdef') /\ fdef' \in flowRegistry'
                        /\ cached' \in {Node!NoFlow, fdef'}
                        /\ \A n \in Nodes : node'[n] \in {"unset", "running", "completed"}
                        /\ \E n \in fdef'.nodes : node'[n] = "running"
        BY DEF Going
    <2>1. cached = Node!NoFlow /\ \A n \in Nodes : node[n] \in {"unset", "completed"}
        BY <1>6 DEF StallInv, BeforeFirst
    <2>2. PICK r \in roots : r \in f.nodes /\ r \in Nodes
        BY <1>3, <1>6
    <2> QED BY <1>1, <1>2, <1>4, <2>1, <2>2
<1>8. node' = [n \in Nodes |-> node'[n]]
    BY <1>4
<1> QED BY <1>2, <1>5, <1>7, <1>8 DEF StallInv, BeforeFirst

LEMMA CompletedKeepsGoing ==
    ASSUME StallInv, Node!NodeCompleted
    PROVE  StallInv'
<1>1. PICK f, m, st, next :
          /\ st = [node EXCEPT ![m] = "completed"] /\ next = Node!NodesReadyToRun(f, st) /\ f = Node!GetCompiled
          /\ Node!TakeCommand /\ f # Node!NoFlow /\ cached' = f /\ node' = Node!Started(st, next)
          /\ status' = IF Node!TerminalNodes(f) # {} /\ \A t \in Node!TerminalNodes(f) : Node!Started(st, next)[t] = "completed"
                       THEN "completed" ELSE status
          /\ UNCHANGED <<fdef, flowRegistry, run, excused>>
    BY DEF Node!NodeCompleted, Node!Projected
<1>2. StartsFlows(inbox')
    BY <1>1, TakenStarts DEF StallInv, Node!TakeCommand
<1>3. run # 0
    BY <1>1 DEF StallInv, BeforeFirst, Node!GetCompiled
<1>4. node' = [n \in Nodes |-> IF n \in next THEN "running" ELSE st[n]]
    BY <1>1 DEF Node!Started
<1>5. Going'
    <2> SUFFICES ASSUME status' = "running", ~excused
                 PROVE  /\ fdef \in Flows /\ Node!CompileFlow(fdef) /\ fdef \in flowRegistry /\ f = fdef
                        /\ \A n \in Nodes : node'[n] \in {"unset", "running", "completed"}
                        /\ \E n \in fdef.nodes : node'[n] = "running"
        BY <1>1 DEF Going
    <2>1. status = "running"
        BY <1>1
    <2>2. /\ fdef \in Flows /\ Node!CompileFlow(fdef) /\ fdef \in flowRegistry /\ cached \in {Node!NoFlow, fdef}
          /\ \A n \in Nodes : node[n] \in {"unset", "running", "completed"}
          /\ \E n \in fdef.nodes : node[n] = "running"
        BY <2>1 DEF StallInv, Going
    <2>3. f = fdef
        BY <1>1, <2>2 DEF Node!GetCompiled
    <2>4. f.nodes \subseteq Nodes /\ IsFiniteSet(f.nodes) /\ f.nodes # {} /\ Node!CompileFlow(f)
        BY <2>2, <2>3, FlowAssumption
    <2>5. \A n \in Nodes : st[n] \in {"unset", "running", "completed"}
        BY <1>1, <2>2 DEF StallInv
    <2>6. next \subseteq f.nodes
        BY <1>1 DEF Node!NodesReadyToRun
    <2>7. ASSUME \A n \in f.nodes : node'[n] # "running" PROVE FALSE
        <3>1. next = {}
            BY <1>4, <2>4, <2>6, <2>7
        <3>2. \A n \in f.nodes : node'[n] = st[n] /\ st[n] \in {"unset", "completed"}
            BY <1>4, <2>4, <2>5, <2>7, <3>1
        <3>3. Node!TerminalNodes(f) # {} /\ \A n \in Node!TerminalNodes(f) : n \in f.nodes /\ st[n] = "completed"
            BY <1>1, <2>4, <3>1, <3>2, NothingReady
        <3>4. \A t \in Node!TerminalNodes(f) : Node!Started(st, next)[t] = "completed"
            BY <1>1, <3>2, <3>3
        <3> QED BY <1>1, <3>3, <3>4
    <2> QED BY <1>4, <2>2, <2>3, <2>5, <2>7
<1>6. node' = [n \in Nodes |-> node'[n]]
    BY <1>4
<1>7. run' \in Nat /\ run' # 0
    BY <1>1, <1>3 DEF StallInv
<1> QED BY <1>2, <1>5, <1>6, <1>7 DEF StallInv, BeforeFirst

LEMMA FailedKeepsGoing ==
    ASSUME StallInv, Node!NodeFailed
    PROVE  StallInv'
<1>1. PICK m, v, skip :
          /\ Node!TakeCommand /\ Node!GetCompiled # Node!NoFlow /\ node' = [node EXCEPT ![m] = v]
          /\ status' = IF skip THEN status ELSE "failed"
          /\ excused' = (excused \/ skip)
          /\ UNCHANGED <<fdef, flowRegistry, run>>
    BY DEF Node!NodeFailed
<1>2. StartsFlows(inbox')
    BY <1>1, TakenStarts DEF StallInv, Node!TakeCommand
<1>3. run # 0
    BY <1>1 DEF StallInv, BeforeFirst, Node!GetCompiled
<1>4. Going'
    BY <1>1 DEF Going
<1>5. node' = [n \in Nodes |-> node'[n]]
    BY <1>1 DEF StallInv
<1> QED BY <1>1, <1>2, <1>3, <1>4, <1>5 DEF StallInv, BeforeFirst

LEMMA StepKeepsGoing == StallInv /\ [Node!Next]_nodeState => StallInv'
<1> SUFFICES ASSUME StallInv, [Node!Next]_nodeState PROVE StallInv'
    OBVIOUS
<1>0. /\ StartsFlows(inbox) /\ node = [n \in Nodes |-> node[n]]
      /\ run = 0 => fdef = Node!NoFlow /\ cached = Node!NoFlow
    BY DEF StallInv, BeforeFirst
<1>1. ASSUME StartsFlows(inbox'), UNCHANGED <<run, fdef, status, node, flowRegistry, excused, cached>> PROVE StallInv'
    BY <1>0, <1>1, QuietKeepsGoing
<1>2. ASSUME Node!Ends PROVE StallInv'
    <2>1. /\ inbox' = << >> /\ cached' = Node!NoFlow /\ excused'
          /\ UNCHANGED <<fdef, status, node, run>>
        BY <1>2 DEF Node!Ends
    <2>2. inbox' \in Seq({}) /\ Len(inbox') = 0
        BY <2>1
    <2>3. StartsFlows(inbox')
        BY <2>2 DEF StartsFlows
    <2>4. node' = [n \in Nodes |-> node'[n]] /\ \A n \in Nodes : node'[n] \in {node[n], "completed"}
        BY <1>0, <2>1
    <2> QED BY <2>1, <2>3, <2>4, QuietKeepsGoing
<1>3. CASE Node!UserInput
    <2>1. Node!TakeCommand /\ UNCHANGED <<fdef, cached, status, run>> /\ excused' /\ \E m : node' = [node EXCEPT ![m] = "completed"]
        BY <1>3, ZenonT(40) DEF Node!UserInput
    <2>2. StartsFlows(inbox')
        BY <1>0, <2>1, TakenStarts DEF Node!TakeCommand
    <2>3. node' = [n \in Nodes |-> node'[n]] /\ \A n \in Nodes : node'[n] \in {node[n], "completed"}
        BY <1>0, <2>1
    <2> QED BY <1>0, <2>1, <2>2, <2>3, QuietKeepsGoing
<1>4. CASE Node!StartRefused \/ Node!NoFlowRunning
    <2>1. Node!TakeCommand /\ UNCHANGED <<run, fdef, status, node, flowRegistry, excused, cached>>
        BY <1>4 DEF Node!StartRefused, Node!NoFlowRunning, Node!Idle
    <2> QED BY <1>0, <1>1, <2>1, TakenStarts DEF Node!TakeCommand
<1>5. CASE Node!Execute
    <2>1. UNCHANGED <<run, fdef, status, node, flowRegistry, excused, cached>>
        BY <1>5 DEF Node!Execute
    <2>2. PICK n : \/ inbox' = Append(inbox, [tag |-> "node_completed", node |-> n])
                   \/ inbox' = Append(inbox, [tag |-> "node_failed", node |-> n])
                   \/ inbox' = inbox
        BY <1>5 DEF Node!Execute
    <2>3. StartsFlows(inbox')
        BY <1>0, <2>2, SentStarts
    <2> QED BY <1>1, <2>1, <2>3
<1>6. ASSUME NEW f \in Flows, Node!SendStart(f) PROVE StallInv'
    <2>1. StartsFlows(inbox')
        BY <1>0, <1>6, SentStarts DEF Node!SendStart
    <2> QED BY <1>1, <1>6, <2>1 DEF Node!SendStart
<1>7. ASSUME NEW n \in Nodes, NEW tag \in {"user_input", "node_completed", "node_failed"}, Node!SendInput(n, tag) PROVE StallInv'
    <2>1. StartsFlows(inbox')
        BY <1>0, <1>7, SentStarts DEF Node!SendInput
    <2> QED BY <1>1, <1>7, <2>1 DEF Node!SendInput
<1>8. CASE Node!CompileThrows \/ Node!WriteRefused \/ Node!ProcessDies
    BY <1>2, <1>8 DEF Node!CompileThrows, Node!WriteRefused, Node!ProcessDies
<1>9. CASE UNCHANGED nodeState
    BY <1>0, <1>1, <1>9 DEF nodeState
<1> QED BY <1>3, <1>4, <1>5, <1>6, <1>7, <1>8, <1>9, StartKeepsGoing, CompletedKeepsGoing, FailedKeepsGoing DEF Node!Next

\* A node of a deployed flow runs at most once in a run, never before its dependencies are
\* completed, and a flow that runs and was not interfered with never stands still without a
\* running node: when the last one completes and starts no other, the flow has completed
\* (aggregate.ts, def.ts).
THEOREM NodesAreSound == Spec => []NodesSound
<1>1. RunsInv /\ [Next]_vars => RunsInv'
    BY ComponentSteps, StepKeepsRuns
<1>2. StallInv /\ [Next]_vars => StallInv'
    BY ComponentSteps, StepKeepsGoing
<1>3. RunsInv /\ StallInv => NodesSound
    <2> SUFFICES ASSUME RunsInv, StallInv PROVE Node!NodeRunsOnce /\ Node!NoSilentStall
        BY DEF NodesSound
    <2>1. Node!NodeRunsOnce
        BY DEF RunsInv, Node!NodeRunsOnce
    <2>2. Node!NoSilentStall
        BY FlowAssumption DEF StallInv, Going, Node!NoSilentStall
    <2> QED BY <2>1, <2>2
<1> QED BY <1>1, <1>2, <1>3, InitRuns, InitStall, PTL DEF Spec

=============================================================================
