----------------------------- MODULE ServiceShell -----------------------------
(***************************************************************************)
(* The service shell (src/src/service): buildService brings the layers up  *)
(* one after the other, starts the probe server after the first and the    *)
(* HTTP server after the last, and returns a shutdown that runs the        *)
(* teardowns.  Every init, every teardown and every health check is an     *)
(* await, so probes and further calls of shutdown interleave with them,    *)
(* and each may throw.  Not modelled: the /metrics endpoint, the logger's  *)
(* lines, ports.                                                           *)
(***************************************************************************)
EXTENDS Integers, Sequences, FiniteSets, SequencesExt

CONSTANTS Teardowns,        \* the layers whose template declares a teardown
          HasHttp,          \* the config has an HTTP server and the exports have routes
          InfraChecks,      \* health checks of the infra layer
          ComponentChecks,  \* health checks of componentExports
          MaxShutdowns,     \* bound: calls of shutdown
          MaxProbes,        \* bound: probe requests
          MaxTurns          \* bound: changes of health

VARIABLES built,      \* what buildService has brought up, in order
          outcome,    \* of buildService: "building", "running" or "failed"
          teardowns,  \* the list shutdown walks
          startup,    \* the probe server's currentPhase
          watched,    \* the checks in the array the probe server holds
          health,     \* what each check would answer now
          turns,
          shutdowns,  \* the calls of shutdown: [at |-> index of the next teardown, on |-> has it begun?]
          begun,      \* history: what a teardown has begun for
          gone,       \* history: what a teardown has finished for
          probe,      \* the probe request in progress, if any
          probes,
          hidden      \* history: a 200 was answered while one of these checks was failing all along

shellVars == <<built, outcome, teardowns, startup, watched, health, turns, shutdowns, begun, gone, probe, probes, hidden>>

Layers == {"Infra", "Outside", "Entities", "Context"}
Plan == <<"Infra", "Probe", "Outside", "Entities", "Context">> \o (IF HasHttp THEN <<"Http">> ELSE << >>)
Checks == InfraChecks \cup ComponentChecks
Statuses == <<"Healthy", "Degraded", "Unknown", "Unhealthy">>
NoProbe == [left |-> {}, worst |-> "none", failing |-> {}]

HasTeardown(x) == x \in Teardowns \cup {"Probe", "Http"}

\* Seeded fault: teardowns are pushed at the end.
BugPush(x) == teardowns' = IF HasTeardown(x) THEN Append(teardowns, x) ELSE teardowns

\* initPhase: a layer's teardown goes to the front of the list, and only if it has one.
Unshift(x) == teardowns' = IF HasTeardown(x) THEN <<x>> \o teardowns ELSE teardowns

\* One of the layers, the probe server or the HTTP server comes up.  The probe server is
\* given the array of the infra checks: the list made of all checks later is another array.
Bring(x) ==
    /\ outcome = "building" /\ Len(built) < Len(Plan) /\ Plan[Len(built) + 1] = x
    /\ built' = Append(built, x)
    /\ Unshift(x)
    /\ watched' = IF x = "Probe" THEN InfraChecks ELSE watched
    /\ UNCHANGED <<outcome, startup, health, turns, shutdowns, begun, gone, probe, probes, hidden>>

\* A layer's init throws: buildService rejects and leaves everything as it is.
InitThrows ==
    /\ outcome = "building" /\ Len(built) < Len(Plan) /\ Plan[Len(built) + 1] \in Layers
    /\ outcome' = "failed"
    /\ UNCHANGED <<built, teardowns, startup, watched, health, turns, shutdowns, begun, gone, probe, probes, hidden>>

\* The component checks go into a new array, which replaces the variable and not the
\* contents of the array the probe server was given.
CollectExports == UNCHANGED watched

\* The exports are collected, then the service is marked ready.
Ready ==
    /\ outcome = "building" /\ built = Plan
    /\ CollectExports
    /\ outcome' = "running"
    /\ startup' = "Ready"
    /\ UNCHANGED <<built, teardowns, health, turns, shutdowns, begun, gone, probe, probes, hidden>>

\* Seeded fault: the probes go on reporting a service that is shutting down.
BugStillReady == UNCHANGED startup

MarkShuttingDown == startup' = "ShuttingDown"

Shutdown ==
    /\ outcome = "running" /\ Len(shutdowns) < MaxShutdowns
    /\ MarkShuttingDown
    /\ shutdowns' = Append(shutdowns, [at |-> 1, on |-> FALSE])
    /\ UNCHANGED <<built, outcome, teardowns, watched, health, turns, begun, gone, probe, probes, hidden>>

StartTeardown(s) ==
    /\ ~shutdowns[s].on /\ shutdowns[s].at <= Len(teardowns)
    /\ begun' = begun \cup {teardowns[shutdowns[s].at]}
    /\ shutdowns' = [shutdowns EXCEPT ![s].on = TRUE]
    /\ UNCHANGED <<built, outcome, teardowns, startup, watched, health, turns, gone, probe, probes, hidden>>

EndTeardown(s) ==
    /\ shutdowns[s].on
    /\ gone' = gone \cup {teardowns[shutdowns[s].at]}
    /\ shutdowns' = [shutdowns EXCEPT ![s] = [at |-> @.at + 1, on |-> FALSE]]
    /\ UNCHANGED <<built, outcome, teardowns, startup, watched, health, turns, begun, probe, probes, hidden>>

\* The teardown rejects: so does this call of shutdown, and it runs no other.
TeardownThrows(s) ==
    /\ shutdowns[s].on
    /\ teardowns[shutdowns[s].at] \in Layers
    /\ shutdowns' = [shutdowns EXCEPT ![s] = [at |-> Len(teardowns) + 1, on |-> FALSE]]
    /\ UNCHANGED <<built, outcome, teardowns, startup, watched, health, turns, begun, gone, probe, probes, hidden>>

Rank(status) == CHOOSE i \in 1..4 : Statuses[i] = status

\* Seeded fault: the last check to report decides.
BugLastWins(acc, status) == status

\* HealthStatus.combine: the worst wins.
Combine(acc, status) == IF Rank(status) > Rank(acc) THEN status ELSE acc

IsReady(status) == Rank(status) <= Rank("Degraded")

Unwell == {c \in Checks : ~IsReady(health[c])}

\* The world: a checked component gets better or worse.
HealthTurns(c, status) ==
    /\ turns < MaxTurns /\ health[c] # status
    /\ turns' = turns + 1
    /\ health' = [health EXCEPT ![c] = status]
    /\ probe' = [probe EXCEPT !.failing = IF IsReady(status) THEN @ \ {c} ELSE @]
    /\ UNCHANGED <<built, outcome, teardowns, startup, watched, shutdowns, begun, gone, probes, hidden>>

\* /alive or /ready past its gate: every watched check is asked.  (Before and after the
\* phase Ready the answer is 503 at once, which changes nothing.)
ProbeArrives ==
    /\ "Probe" \in ToSet(built) \ gone /\ startup = "Ready" /\ probe = NoProbe /\ probes < MaxProbes
    /\ probes' = probes + 1
    /\ probe' = [left |-> watched, worst |-> "Healthy", failing |-> Unwell]
    /\ UNCHANGED <<built, outcome, teardowns, startup, watched, health, turns, shutdowns, begun, gone, hidden>>

CheckReports(c) ==
    /\ c \in probe.left
    /\ probe' = [probe EXCEPT !.left = @ \ {c}, !.worst = Combine(@, health[c])]
    /\ UNCHANGED <<built, outcome, teardowns, startup, watched, health, turns, shutdowns, begun, gone, probes, hidden>>

\* A check rejects: Promise.all rejects with it and the request ends with a 500.
CheckThrows ==
    /\ probe.left # {}
    /\ probe' = NoProbe
    /\ UNCHANGED <<built, outcome, teardowns, startup, watched, health, turns, shutdowns, begun, gone, probes, hidden>>

\* The answer: 200 or 503 by the combined status.
ProbeAnswers ==
    /\ probe # NoProbe /\ probe.left = {}
    /\ probe' = NoProbe
    /\ hidden' = IF IsReady(probe.worst) THEN hidden \cup probe.failing ELSE hidden
    /\ UNCHANGED <<built, outcome, teardowns, startup, watched, health, turns, shutdowns, begun, gone, probes>>

ShellInit ==
    /\ built = << >> /\ outcome = "building" /\ teardowns = << >>
    /\ startup = "Starting" /\ watched = {}
    /\ health = [c \in Checks |-> "Healthy"] /\ turns = 0
    /\ shutdowns = << >> /\ begun = {} /\ gone = {}
    /\ probe = NoProbe /\ probes = 0 /\ hidden = {}

ShellNext ==
    \/ \E x \in Layers \cup {"Probe", "Http"} : Bring(x)
    \/ InitThrows
    \/ Ready
    \/ Shutdown
    \/ \E s \in DOMAIN shutdowns : StartTeardown(s) \/ EndTeardown(s) \/ TeardownThrows(s)
    \/ \E c \in Checks, status \in ToSet(Statuses) : HealthTurns(c, status)
    \/ ProbeArrives
    \/ \E c \in Checks : CheckReports(c)
    \/ CheckThrows
    \/ ProbeAnswers

ShellSpec == ShellInit /\ [][ShellNext]_shellVars

-----------------------------------------------------------------------------

\* Type invariant of the service shell.
ShellTypeOK ==
    /\ ToSet(built) \subseteq ToSet(Plan) /\ outcome \in {"building", "running", "failed"}
    /\ ToSet(teardowns) \subseteq ToSet(built)
    /\ startup \in {"Starting", "Ready", "ShuttingDown"}
    /\ watched \subseteq Checks /\ health \in [Checks -> ToSet(Statuses)]
    /\ gone \subseteq begun /\ begun \subseteq ToSet(teardowns)

\* However many times shutdown is called and whichever teardown throws, nothing is torn
\* down before everything that was built on top of it (and has a teardown) is down, and
\* while the probes let traffic in, everything is up (service-template.ts, "Shutdown
\* happens in reverse order").
TornDownInOrder ==
    /\ \A i \in DOMAIN built : built[i] \in begun =>
          \A j \in (i + 1)..Len(built) : HasTeardown(built[j]) => built[j] \in gone
    /\ startup = "Ready" => built = Plan /\ begun = {}

\* A probe is not answered 200 while a check of the infra layer fails from the moment
\* the request arrives to the answer.
InfraFailureIsSeen == hidden \cap InfraChecks = {}

\* The same of the checks the components export: "Update probe server health checks
\* (mutate the array the probe server references)" (service-template.ts).
ComponentFailureIsSeen == hidden \cap ComponentChecks = {}
===============================================================================
