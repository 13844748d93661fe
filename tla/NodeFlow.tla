------------------------------ MODULE NodeFlow ------------------------------
(***************************************************************************)
(* Node flows (src/src/ai/node-flow): a directed graph of nodes compiled by *)
(* def.ts, run by the aggregate of aggregate.ts inside an entity, whose    *)
(* commands are handled one at a time and whose node executions (the side  *)
(* effects of one command) run one after the other.  What a node computes  *)
(* is left out; whether it completes, blocks or throws is not.              *)
(***************************************************************************)
EXTENDS Integers, Sequences, FiniteSets, SequencesExt

CONSTANTS Nodes,       \* node ids
          Flows,       \* flow definitions callers start
          MaxStarts,   \* bound: start_flow commands
          MaxInputs,   \* bound: commands sent to blocking nodes
          MaxFaults    \* bound: failed writes, process deaths

VARIABLES fdef,     \* flowDefId: the definition last started, or NoFlow
          cached,   \* _compiled: the definition last compiled for this incarnation
          registry, \* definitions registered in this process
          status,   \* the flow's status
          node,     \* nodeStatuses, "unset" where the map has no entry
          active,   \* activeNodeCount
          inbox,    \* the entity's mailbox
          chain,    \* node executions left of the command being handled
          starts, inputs, nodeFaults,
          run,      \* history: flows started
          ran,      \* history: [node -> executions in the current run]
          eager,    \* history: a node began before a dependency of it was completed in its run
          excused   \* history: why the flow may stand still

nodeVars == <<fdef, cached, registry, status, node, active, inbox, chain, starts, inputs, nodeFaults,
              run, ran, eager, excused>>

NoFlow == [id |-> "none", nodes |-> {}, edges |-> {}]

\* The node kinds, by what executeNode can make of one.  These only compute.
PureKinds == {"attribute_op", "branch", "delay"}

\* These hand the work to a tool, a search or a messenger, or report that none
\* is there as their output.
ServiceKinds == {"mcp_tool_exec", "knowledge_lookup", "send_message"}

\* A refused or failed request is an output; reading the body may still throw.
HttpKinds == {"http_call"}

LlmKinds == {"llm_call", "llm_extract"}

\* Joins its inputs, or has a model do it.
MergeKinds == {"merge"}

JudgeKinds == {"verify", "plan"}

\* These wait for a person, a child flow or a poll, and only report that they block.
BlockingKinds == {"receive_message", "user_choice", "human_approval", "sub_flow_start",
                  "sub_flow_join", "poll_until"}

\* With a duration it sleeps, without one it blocks.
WaitKinds == {"wait_until"}

CallingKinds == ServiceKinds \cup HttpKinds \cup LlmKinds \cup MergeKinds \cup JudgeKinds

Outcomes(kind) ==
    CASE kind \in PureKinds     -> {"completed"}
      [] kind \in CallingKinds  -> {"completed", "throws"}
      [] kind \in BlockingKinds -> {"blocking"}
      [] kind \in WaitKinds     -> {"completed", "blocking"}

Deps(f, n) == {e[1] : e \in {d \in f.edges : d[2] = n}}
Dependents(f, n) == {e[2] : e \in {d \in f.edges : d[1] = n}}
RootNodes(f) == {n \in f.nodes : Deps(f, n) = {}}
TerminalNodes(f) == {n \in f.nodes : Dependents(f, n) = {}}

\* What the depth-first search meets from a node: the smallest set with its dependents and
\* the dependents of its members.
Below(f, n) ==
    {m \in f.nodes : \A S \in SUBSET f.nodes :
        (Dependents(f, n) \subseteq S /\ \A k \in S : Dependents(f, k) \subseteq S) => m \in S}

\* compile: edges name nodes, no cycle, some root.
CompileFlow(f) ==
    /\ \A e \in f.edges : e[1] \in f.nodes /\ e[2] \in f.nodes
    /\ \A n \in f.nodes : n \notin Below(f, n)
    /\ f.nodes # {} => RootNodes(f) # {}

\* getCompiled: the cached graph, else the registered definition of that id.
GetCompiled == IF cached # NoFlow THEN cached ELSE IF fdef \in registry THEN fdef ELSE NoFlow

\* Seeded fault: a node is ready when any of its dependencies is completed.
BugAnyDependency(f, st) ==
    {n \in f.nodes : st[n] = "unset" /\ \E d \in Deps(f, n) : st[d] = "completed"}

\* nodesReadyToRun: not started, every dependency completed.
NodesReadyToRun(f, st) ==
    {n \in f.nodes : st[n] = "unset" /\ \A d \in Deps(f, n) : st[d] = "completed"}

\* node_started for every node of a set.
Started(st, ns) == [n \in Nodes |-> IF n \in ns THEN "running" ELSE st[n]]

\* Seeded fault: the count of active nodes has no floor.
BugNoFloor(k) == k - 1

\* activeNodeCount: one less, never below zero.
Lower(k) == IF k = 0 THEN 0 ELSE k - 1

\* The executions fired, each with the kind its graph gives the node.
Execs(f, ns) == [i \in 1 .. Cardinality(ns) |-> [node |-> SetToSeq(ns)[i], kind |-> f.kind[SetToSeq(ns)[i]]]]

\* What is recorded about the nodes a command fires.
Fire(f, st, ns) ==
    /\ chain' = Execs(f, ns)
    /\ ran' = [n \in Nodes |-> IF n \in ns THEN ran[n] + 1 ELSE ran[n]]
    /\ eager' = (eager \/ \E n \in ns : \E d \in Deps(f, n) : st[d] # "completed")

TakeCommand == /\ inbox # << >> /\ chain = << >>
               /\ inbox' = Tail(inbox)
               /\ UNCHANGED <<starts, inputs, nodeFaults>>

Idle == <<fdef, cached, registry, status, node, active, chain, run, ran, eager, excused>>

\* start_flow while one is running is refused.
StartRefused ==
    /\ TakeCommand /\ Head(inbox).tag = "start_flow"
    /\ status \notin {"not_started", "completed", "failed"}
    /\ UNCHANGED Idle

\* start_flow: flow_started keeps the node statuses of an earlier run and the
\* graph compiled for it; the root nodes are fired.
StartFlow ==
    LET f == Head(inbox).flow
        roots == RootNodes(f)
    IN /\ TakeCommand /\ Head(inbox).tag = "start_flow"
       /\ status \in {"not_started", "completed", "failed"}
       /\ CompileFlow(f)
       /\ registry' = registry \cup {f}
       /\ fdef' = f /\ status' = "running"
       /\ node' = Started(node, roots)
       /\ active' = Cardinality(roots)
       /\ chain' = Execs(f, roots)
       /\ ran' = [n \in Nodes |-> IF n \in roots THEN 1 ELSE 0]
       /\ run' = run + 1
       /\ excused' = (run > 0 \/ roots = {})
       /\ UNCHANGED <<cached, eager>>

\* Seeded fault: what is ready is looked up in the state the command found.
BugFromOldState(n) == node

\* node_succeeded, projected forward before the dependents are looked up.
Projected(n) == [node EXCEPT ![n] = "completed"]

\* node_completed: its dependents are fired, and the flow completes when all
\* terminal nodes have.
NodeCompleted ==
    LET n == Head(inbox).node
        f == GetCompiled
        next == NodesReadyToRun(f, Projected(n))
        after == Started([node EXCEPT ![n] = "completed"], next)
    IN /\ TakeCommand /\ Head(inbox).tag = "node_completed"
       /\ f # NoFlow
       /\ cached' = f
       /\ node' = after
       /\ active' = Lower(active) + Cardinality(next)
       /\ Fire(f, [node EXCEPT ![n] = "completed"], next)
       /\ status' = IF TerminalNodes(f) # {} /\ \A t \in TerminalNodes(f) : after[t] = "completed"
                    THEN "completed" ELSE status
       /\ UNCHANGED <<fdef, registry, run, excused>>

\* A definition registered by no one in this process: the command is answered
\* with an error and its node keeps its status.
NoFlowRunning ==
    /\ TakeCommand /\ Head(inbox).tag \in {"node_completed", "node_failed"}
    /\ GetCompiled = NoFlow
    /\ UNCHANGED Idle

\* node_failed: a node whose policy is skip succeeds without output, and nothing
\* else is looked at; any other policy fails the flow.
NodeFailed ==
    LET n == Head(inbox).node IN
    /\ TakeCommand /\ Head(inbox).tag = "node_failed"
    /\ GetCompiled # NoFlow
    /\ cached' = GetCompiled
    /\ active' = Lower(active)
    /\ LET skip == n \in GetCompiled.skip IN
       /\ node' = [node EXCEPT ![n] = IF skip THEN "completed" ELSE "failed"]
       /\ status' = IF skip THEN status ELSE "failed"
       /\ excused' = (excused \/ skip)
    /\ UNCHANGED <<fdef, registry, chain, run, ran, eager>>

\* user_message, user_choice_response: the node succeeds, whatever its status,
\* and nothing else is looked at.
UserInput ==
    /\ TakeCommand /\ Head(inbox).tag = "user_input"
    /\ node' = [node EXCEPT ![Head(inbox).node] = "completed"]
    /\ active' = Lower(active)
    /\ excused' = TRUE
    /\ UNCHANGED <<fdef, cached, registry, status, chain, run, ran, eager>>

\* The side effect of a fired node: its executor runs, and the outcome is told
\* to the entity itself.
Execute ==
    /\ chain # << >>
    /\ chain' = Tail(chain)
    /\ LET n == Head(chain).node
           outcomes == Outcomes(Head(chain).kind)
       IN \/ "completed" \in outcomes /\ inbox' = Append(inbox, [tag |-> "node_completed", node |-> n])
          \/ "throws" \in outcomes /\ inbox' = Append(inbox, [tag |-> "node_failed", node |-> n])
          \/ "blocking" \in outcomes /\ inbox' = inbox
    /\ UNCHANGED <<fdef, cached, registry, status, node, active, starts, inputs, nodeFaults, run, ran, eager, excused>>

SendStart(f) ==
    /\ starts < MaxStarts
    /\ starts' = starts + 1
    /\ inbox' = Append(inbox, [tag |-> "start_flow", flow |-> f])
    /\ UNCHANGED <<fdef, cached, registry, status, node, active, chain, inputs, nodeFaults, run, ran, eager, excused>>

\* What a blocking node waits for: a person's reply, or whoever ran the child flow,
\* the poll or the timer sends the node's outcome.
SendInput(n, tag) ==
    /\ inputs < MaxInputs
    /\ inputs' = inputs + 1
    /\ inbox' = Append(inbox, [tag |-> tag, node |-> n])
    /\ UNCHANGED <<fdef, cached, registry, status, node, active, chain, starts, nodeFaults, run, ran, eager, excused>>

\* The entity ends with what it held; the next incarnation replays the journal.
Ends ==
    /\ inbox' = << >> /\ chain' = << >>
    /\ cached' = NoFlow
    /\ excused' = TRUE
    /\ UNCHANGED <<fdef, status, node, active, starts, inputs, run, ran, eager>>

\* compile throws inside decide.
CompileThrows ==
    /\ inbox # << >> /\ chain = << >> /\ Head(inbox).tag = "start_flow"
    /\ status \in {"not_started", "completed", "failed"} /\ ~CompileFlow(Head(inbox).flow)
    /\ Ends /\ UNCHANGED <<registry, nodeFaults>>

\* The journal refuses a write after decide ran: a definition stays registered.
WriteRefused ==
    /\ inbox # << >> /\ chain = << >>
    /\ nodeFaults < MaxFaults /\ nodeFaults' = nodeFaults + 1
    /\ registry' = IF Head(inbox).tag = "start_flow" /\ CompileFlow(Head(inbox).flow)
                      /\ status \in {"not_started", "completed", "failed"}
                   THEN registry \cup {Head(inbox).flow} ELSE registry
    /\ Ends

\* The process dies and takes the registry along.
ProcessDies ==
    /\ nodeFaults < MaxFaults /\ nodeFaults' = nodeFaults + 1
    /\ registry' = {}
    /\ Ends

Init ==
    /\ fdef = NoFlow /\ cached = NoFlow /\ registry = {} /\ status = "not_started"
    /\ node = [n \in Nodes |-> "unset"] /\ active = 0 /\ inbox = << >> /\ chain = << >>
    /\ starts = 0 /\ inputs = 0 /\ nodeFaults = 0
    /\ run = 0 /\ ran = [n \in Nodes |-> 0] /\ eager = FALSE /\ excused = FALSE

Next ==
    \/ \E f \in Flows : SendStart(f)
    \/ \E n \in Nodes, tag \in {"user_input", "node_completed", "node_failed"} : SendInput(n, tag)
    \/ StartRefused \/ StartFlow \/ NodeCompleted \/ NoFlowRunning \/ NodeFailed \/ UserInput
    \/ Execute \/ CompileThrows \/ WriteRefused \/ ProcessDies

\* Type invariant of the node flow.
TypeOK ==
    /\ fdef \in Flows \cup {NoFlow} /\ cached \in Flows \cup {NoFlow} /\ registry \subseteq Flows
    /\ status \in {"not_started", "running", "completed", "failed"}
    /\ node \in [Nodes -> {"unset", "running", "completed", "failed"}]
    /\ active \in 0 .. Cardinality(Nodes)
    /\ \A i \in 1 .. Len(chain) : chain[i].node \in Nodes
    /\ run \in 0 .. MaxStarts /\ ran \in [Nodes -> Nat]

\* A node is executed at most once in a run of the flow, and never before its
\* dependencies are completed: the dependents of several nodes that complete
\* one after the other are fired by the last of them, once.
NodeRunsOnce == ~eager /\ \A n \in Nodes : ran[n] <= 1

\* A running flow never stands still for no reason: when nothing is queued or
\* executing, some node waits for input.  (A skipped node, a user's reply, a
\* crash and a second run of the same entity do leave it standing.)
NoSilentStall ==
    (status = "running" /\ inbox = << >> /\ chain = << >> /\ ~excused) =>
        \E n \in Nodes : node[n] = "running"

Spec == Init /\ [][Next]_nodeVars
=============================================================================
