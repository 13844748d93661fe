-------------------------------- MODULE Hosts --------------------------------
(***************************************************************************)
(* What hosts aggregates and agents: Petri-net and node flows, the         *)
(* PostgreSQL runtime and its LISTEN connection, the service shell, both   *)
(* sides of MCP, and what surrounds an agent's model: guards, streamed     *)
(* answers, recordings and the capabilities learned from its work.  They   *)
(* share no state, so one of them runs in a behaviour, the one `deployed`  *)
(* names, and TLC explores their union and not their product.              *)
(***************************************************************************)
EXTENDS Integers, Sequences, FiniteSets

CONSTANTS
    Schemas, Spans, MaxRetries, MaxInbound, MaxRuns, MaxPetriFaults,       \* PetriFlow
    Nodes, Flows, MaxStarts, MaxInputs, MaxNodeFaults,                     \* NodeFlow
    Procs, MaxCommands, SnapshotEvery, MaxSeq, MaxDbFaults,                \* PgRuntime
    MaxClients, MaxNotices,                                                \* PgListen
    Teardowns, HasHttp, InfraChecks, ComponentChecks,                      \* ServiceShell
    MaxShutdowns, MaxProbes, MaxTurns,
    Frames, ToolNames, LegacyCompat, MaxFrames, MaxRegisters,              \* McpServer
    MaxRequests, MaxChildren, MaxCloses, BatchTools,                       \* McpClient
    Budget, Costs, Concurrency, MaxCalls, MaxResets,                       \* LlmGuards
    MaxAgentCalls, MaxExecs, MaxTicks,                                     \* AgentSandbox
    Ids, Scopes, Contents, Callers, MaxObservations, MaxEdits,             \* Capabilities
    StreamFrames, MaxLines                                                 \* LlmStream

\* What the guards' options promise: there is a budget, and costs are token counts.
ASSUME GuardAssumption == Budget \in Nat \ {0} /\ Costs \subseteq Nat /\ Concurrency \in Nat

\* What a line or a body is to the MCP server: empty, not JSON, not an object, a JSON-RPC
\* message or an object that is none.
ASSUME FrameAssumption == \A f \in Frames : f.shape \in {"blank", "garbage", "nonobject", "rpc", "badrpc"}

\* A node flow has finitely many nodes.
ASSUME FlowAssumption == \A f \in Flows : f.nodes \subseteq Nodes /\ IsFiniteSet(f.nodes)

\* A text has finitely many words.
ASSUME WordAssumption == \A text \in Contents : IsFiniteSet(text)

VARIABLES
    deployed,
    schema, compiled, flow, box, todo, petriPending, ask, sent, petriCalls, delivered, done, lost, faults,
    fdef, cached, flowRegistry, status, node, active, inbox, chain, starts, inputs, nodeFaults, run, nodesRan, eager, excused,
    rows, written, snaps, phase, mem, nr, since, mbox, stashed, doing, asked, holes, forked, dbFaults,
    client, dialed, up, listening, endDue, disposed, silence, reconnecting, task, notices, gaveUp,
    built, outcome, teardowns, startup, watched, health, turns, shutdowns, begun, gone, probe, probes, hidden,
    toolRegistry, lines, handled, serving, output, closed, resolved, posts, registers, toolsRan,
    process, children, pending, calls, sentTo, hello, batch, closes,
    guarded, spent, resets, owed,
    mode, agentCalls, buffer, execs, tools, now, steps, cursor, served, faithful,
    caps, observations, observed, edits, strengthened, overwritten, overlapped,
    wire, reader, pos, streamBuffer, acc

petriState == <<schema, compiled, flow, box, todo, petriPending, ask, sent, petriCalls, delivered, done, lost, faults>>
nodeState == <<fdef, cached, flowRegistry, status, node, active, inbox, chain, starts, inputs, nodeFaults, run, nodesRan, eager, excused>>
pgState == <<rows, written, snaps, phase, mem, nr, since, mbox, stashed, doing, asked, holes, forked, dbFaults>>
listenState == <<client, dialed, up, listening, endDue, disposed, silence, reconnecting, task, notices, gaveUp>>
shellState == <<built, outcome, teardowns, startup, watched, health, turns, shutdowns, begun, gone, probe, probes, hidden>>
mcpServerState == <<toolRegistry, lines, handled, serving, output, closed, resolved, posts, registers, toolsRan>>
mcpClientState == <<process, children, pending, calls, sentTo, hello, batch, closes>>
guardState == <<guarded, spent, resets, owed>>
sandboxState == <<mode, agentCalls, buffer, execs, tools, now, steps, cursor, served, faithful>>
capabilityState == <<caps, observations, observed, edits, strengthened, overwritten, overlapped>>
streamState == <<wire, reader, pos, streamBuffer, acc>>

Petri == INSTANCE PetriFlow WITH MaxFaults <- MaxPetriFaults, pending <- petriPending, calls <- petriCalls
Node == INSTANCE NodeFlow WITH MaxFaults <- MaxNodeFaults, registry <- flowRegistry, ran <- nodesRan
Pg == INSTANCE PgRuntime
Listen == INSTANCE PgListen
Shell == INSTANCE ServiceShell
McpS == INSTANCE McpServer WITH registry <- toolRegistry, ran <- toolsRan
McpC == INSTANCE McpClient
Guards == INSTANCE LlmGuards WITH calls <- guarded
Sandbox == INSTANCE AgentSandbox WITH MaxCalls <- MaxAgentCalls, calls <- agentCalls
Capable == INSTANCE Capabilities WITH begun <- observed
Streaming == INSTANCE LlmStream WITH buffer <- streamBuffer

Components == {"petri", "nodes", "postgres", "listen", "shell",
               "mcpServer", "mcpClient", "guards", "sandbox", "capabilities", "stream"}

\* A component that does not run starts in one of its initial states, always the same.
Init ==
    /\ deployed \in Components
    /\ Petri!Init /\ Node!Init /\ Pg!Init /\ Listen!Init /\ Shell!ShellInit
    /\ McpS!McpServerInit /\ McpC!McpClientInit /\ Guards!GuardsInit /\ Sandbox!SandboxInit
    /\ Capable!CapabilitiesInit /\ Streaming!StreamInit
    /\ deployed # "petri" => schema = CHOOSE sch \in Schemas : TRUE
    /\ deployed # "mcpServer" => toolRegistry = [t \in ToolNames |-> "Auto"]
    /\ deployed # "stream" => wire = << >>

PetriRuns ==
    /\ deployed = "petri" /\ Petri!Next
    /\ UNCHANGED <<deployed, nodeState, pgState, listenState, shellState,
                   mcpServerState, mcpClientState, guardState, sandboxState,
                   capabilityState, streamState>>

NodesRun ==
    /\ deployed = "nodes" /\ Node!Next
    /\ UNCHANGED <<deployed, petriState, pgState, listenState, shellState,
                   mcpServerState, mcpClientState, guardState, sandboxState,
                   capabilityState, streamState>>

PostgresRuns ==
    /\ deployed = "postgres" /\ Pg!Next
    /\ UNCHANGED <<deployed, petriState, nodeState, listenState, shellState,
                   mcpServerState, mcpClientState, guardState, sandboxState,
                   capabilityState, streamState>>

ListenRuns ==
    /\ deployed = "listen" /\ Listen!Next
    /\ UNCHANGED <<deployed, petriState, nodeState, pgState, shellState,
                   mcpServerState, mcpClientState, guardState, sandboxState,
                   capabilityState, streamState>>

ShellRuns ==
    /\ deployed = "shell" /\ Shell!ShellNext
    /\ UNCHANGED <<deployed, petriState, nodeState, pgState, listenState,
                   mcpServerState, mcpClientState, guardState, sandboxState,
                   capabilityState, streamState>>

McpServerRuns ==
    /\ deployed = "mcpServer" /\ McpS!McpServerNext
    /\ UNCHANGED <<deployed, petriState, nodeState, pgState, listenState,
                   shellState, mcpClientState, guardState, sandboxState,
                   capabilityState, streamState>>

McpClientRuns ==
    /\ deployed = "mcpClient" /\ McpC!McpClientNext
    /\ UNCHANGED <<deployed, petriState, nodeState, pgState, listenState,
                   shellState, mcpServerState, guardState, sandboxState,
                   capabilityState, streamState>>

GuardsRun ==
    /\ deployed = "guards" /\ Guards!GuardsNext
    /\ UNCHANGED <<deployed, petriState, nodeState, pgState, listenState,
                   shellState, mcpServerState, mcpClientState, sandboxState,
                   capabilityState, streamState>>

SandboxRuns ==
    /\ deployed = "sandbox" /\ Sandbox!SandboxNext
    /\ UNCHANGED <<deployed, petriState, nodeState, pgState, listenState,
                   shellState, mcpServerState, mcpClientState, guardState,
                   capabilityState, streamState>>

CapabilitiesRun ==
    /\ deployed = "capabilities" /\ Capable!CapabilitiesNext
    /\ UNCHANGED <<deployed, petriState, nodeState, pgState, listenState, shellState,
                   mcpServerState, mcpClientState, guardState, sandboxState, streamState>>

StreamRuns ==
    /\ deployed = "stream" /\ Streaming!StreamNext
    /\ UNCHANGED <<deployed, petriState, nodeState, pgState, listenState, shellState,
                   mcpServerState, mcpClientState, guardState, sandboxState, capabilityState>>

Next ==
    \/ PetriRuns \/ NodesRun \/ PostgresRuns \/ ListenRuns \/ ShellRuns
    \/ McpServerRuns \/ McpClientRuns \/ GuardsRun \/ SandboxRuns
    \/ CapabilitiesRun \/ StreamRuns

vars == <<deployed, petriState, nodeState, pgState, listenState, shellState,
          mcpServerState, mcpClientState, guardState, sandboxState, capabilityState, streamState>>

Spec == Init /\ [][Next]_vars

-----------------------------------------------------------------------------

\* Every component keeps the types of its state.
TypeOK ==
    /\ deployed \in Components
    /\ deployed = "petri" => Petri!TypeOK
    /\ deployed = "nodes" => Node!TypeOK
    /\ deployed = "postgres" => Pg!TypeOK
    /\ deployed = "listen" => Listen!TypeOK
    /\ deployed = "shell" => Shell!ShellTypeOK
    /\ deployed = "mcpServer" => McpS!McpServerTypeOK
    /\ deployed = "mcpClient" => McpC!McpClientTypeOK
    /\ deployed = "guards" => Guards!GuardsTypeOK
    /\ deployed = "sandbox" => Sandbox!SandboxTypeOK
    /\ deployed = "capabilities" => Capable!CapabilitiesTypeOK
    /\ deployed = "stream" => Streaming!StreamTypeOK

\* A Petri-net flow: a transition that fired is being executed or its result is on its
\* way, no call is left waiting over the tokens that answer it, and a schema that
\* compiles is sound (petrinet/flow-aggregate.ts, petrinet/flow-schema.ts).
PetriSound == deployed = "petri" => Petri!OngoingIsBusy /\ Petri!NoAskLeftBehind /\ Petri!AcceptedIsSound

\* A node flow runs a node once, after what it depends on, and never stands still with
\* work left unless a known cause excuses it (ai/node-flow/aggregate.ts).
NodesSound == deployed = "nodes" => Node!NodeRunsOnce /\ Node!NoSilentStall

\* The memory of a PostgreSQL-backed runner is the fold of the journal, with runners of
\* one entity in two processes racing on the table's key (postgres/runtime.ts).
PgStateIsReplay == deployed = "postgres" => Pg!PgStateIsReplay

\* A LISTEN connection that did not give up is always watched: somebody will notice
\* that it fell silent or ended (postgres/listen.ts).
ListenerWatched == deployed = "listen" => Listen!ListenerWatched

\* Shutdown tears the layers down in the reverse order of their start and only then ends,
\* not ready any more while it does; and no probe hides a failing infra check
\* (service/service-template.ts, service/health-check.ts).
ShellSound == deployed = "shell" => Shell!TornDownInOrder /\ Shell!InfraFailureIsSeen

\* Both sides of MCP: the server answers every request exactly once and in order and no
\* notification, and runs no tool but the one the headers announced; a request sent over
\* the stdio transport is answered, rejected, or still in the hands of a living child
\* (mcp-server/dispatch.ts, stdio.ts, http.ts; ai/tool/mcp/stdio-transport.ts).
McpSound ==
    /\ deployed = "mcpServer" => McpS!OneAnswerEach /\ McpS!RunsWhatIsAnnounced
    /\ deployed = "mcpClient" => McpC!NoCallForgotten

\* Concurrent calls lose no tokens from the spend guard's sum, and the budget is passed
\* by no more than the calls in flight (ai/llm/spend-guarded-llm-service.ts).
SpendAccounted == deployed = "guards" => Guards!SpendAccounted

\* A recorded run that did not overlap, fail or stream tool calls is replayed exactly
\* (ai/sandbox).
ReplayIsFaithful == deployed = "sandbox" => Sandbox!ReplayIsFaithful

\* Overlapping observations lose no evidence, and those that do not overlap leave no two
\* capabilities of a scope half alike (ai/capability).
CapabilitiesSound == deployed = "capabilities" => Capable!EvidenceAccounted /\ Capable!NoNearDuplicates

\* A streamed answer does not depend on how its bytes are cut into reads
\* (ai/llm/openai-llm-service.ts, ai/llm/stream-accumulator.ts).
StreamIsTheAnswer == deployed = "stream" => Streaming!StreamIsTheAnswer
===============================================================================
