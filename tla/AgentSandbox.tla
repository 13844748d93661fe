----------------------------- MODULE AgentSandbox -----------------------------
(***************************************************************************)
(* The recorders around an agent's model and tools and the replay of a     *)
(* recorded run (src/src/ai/sandbox).  The agent loop (external) may have  *)
(* several calls in flight; the model and the tools (external) answer or   *)
(* fail.  A response is named by the call it answers.  Time is the         *)
(* millisecond of completedAt.  In replay the agent makes the calls of the *)
(* live run again, one after the other.                                    *)
(* Left out: the contents of messages, the metrics, the scores.            *)
(***************************************************************************)
EXTENDS Integers, Sequences, FiniteSets, SequencesExt, Sorting

CONSTANTS Concurrency,   \* bound: model calls in flight
          MaxCalls,      \* bound: model calls
          MaxExecs,      \* bound: tool calls
          MaxTicks       \* bound: milliseconds that pass

VARIABLES mode,       \* "live", then "replay"
          calls,      \* the model calls: [method, at]
          buffer,     \* RecordingLLMService: [type, what, at]
          execs,      \* RecordingToolRegistry: [type, what, at]
          tools,      \* tool calls begun: "running", "done" or "failed"
          now,
          steps,      \* the steps of the recording
          cursor,     \* ReplayLLMService and ReplayToolRegistry: [llm, tool]
          served,     \* the responses replayed, in order: [llm, tool]
          faithful    \* history: what the recording can reproduce was all the agent did

sandboxVars == <<mode, calls, buffer, execs, tools, now, steps, cursor, served, faithful>>

\* The other methods are recorded like chat.
Methods == {"chat", "chatStream"}
InFlight == {i \in DOMAIN calls : calls[i].at = "model"}
Running == {i \in DOMAIN tools : tools[i] = "running"}
Empty == 0

\* The agent makes a call, which the recorder passes on.
Call(method) ==
    /\ mode = "live" /\ Len(calls) < MaxCalls /\ Cardinality(InFlight) < Concurrency
    /\ calls' = Append(calls, [method |-> method, at |-> "model"])
    /\ faithful' = (faithful /\ InFlight = {})
    /\ UNCHANGED <<mode, buffer, execs, tools, now, steps, cursor, served>>

\* Seeded fault: a streamed call is not recorded.
BugStreamsUnseen(i, kind) ==
    buffer' = IF calls[i].method = "chatStream" THEN buffer
              ELSE Append(buffer, [type |-> "llm", what |-> i, at |-> now])

\* RecordingLLMService: the response goes to the buffer when it is complete.  The tool
\* calls of a stream are never gathered, so such a response is recorded empty.
RecordCall(i, kind) ==
    buffer' = Append(buffer, [type |-> "llm", at |-> now,
                              what |-> IF calls[i].method = "chatStream" /\ kind = "tool_calls" THEN Empty ELSE i])

\* The model answers.
ModelAnswers(i, kind) ==
    /\ calls[i].at = "model"
    /\ calls' = [calls EXCEPT ![i].at = "returned"]
    /\ RecordCall(i, kind)
    /\ faithful' = (faithful /\ ~(calls[i].method = "chatStream" /\ kind = "tool_calls"))
    /\ UNCHANGED <<mode, execs, tools, now, steps, cursor, served>>

\* The model fails: nothing is recorded, the agent gets the error.
ModelFails(i) ==
    /\ calls[i].at = "model"
    /\ calls' = [calls EXCEPT ![i].at = "failed"]
    /\ faithful' = FALSE
    /\ UNCHANGED <<mode, buffer, execs, tools, now, steps, cursor, served>>

\* RecordingToolRegistry.execute: recorded once the tool returned.
Execute ==
    /\ mode = "live" /\ Len(tools) < MaxExecs
    /\ tools' = Append(tools, "running")
    /\ faithful' = (faithful /\ Running = {})
    /\ UNCHANGED <<mode, calls, buffer, execs, now, steps, cursor, served>>

Executed(i) ==
    /\ tools[i] = "running"
    /\ tools' = [tools EXCEPT ![i] = "done"]
    /\ execs' = Append(execs, [type |-> "tool", what |-> i, at |-> now])
    /\ UNCHANGED <<mode, calls, buffer, now, steps, cursor, served, faithful>>

\* The tool throws: nothing is recorded.
ToolThrows(i) ==
    /\ tools[i] = "running"
    /\ tools' = [tools EXCEPT ![i] = "failed"]
    /\ faithful' = FALSE
    /\ UNCHANGED <<mode, calls, buffer, execs, now, steps, cursor, served>>

\* The clock only matters between two completions.
Tick ==
    /\ mode = "live" /\ now < MaxTicks
    /\ now' = now + 1
    /\ UNCHANGED <<mode, calls, buffer, execs, tools, steps, cursor, served, faithful>>

\* Seeded fault: steps of the same millisecond change places.
BugUnstable(added) == SortSeq(added, LAMBDA a, b : a.at < b.at \/ (a.at = b.at /\ a.what > b.what))

\* sortChronologically: by completedAt, steps of the same millisecond as they were added.
Chronological(added) ==
    LET order == StableSort(DOMAIN added, [i \in DOMAIN added |-> added[i].at])
    IN  [k \in DOMAIN added |-> added[order[k]]]

\* runScenario after the agent loop: the calls, then the tool executions, then the sort.
Build ==
    /\ mode = "live" /\ InFlight = {} /\ Running = {}
    /\ steps' = Chronological(buffer \o execs)
    /\ mode' = "replay"
    /\ UNCHANGED <<calls, buffer, execs, tools, now, cursor, served, faithful>>

StepsOf(type) ==
    LET order == InOrder({i \in DOMAIN steps : steps[i].type = type})
    IN  [k \in DOMAIN order |-> steps[order[k]]]

\* The recorded responses in order, whatever is asked; an exhausted recording throws.
Serve(type) ==
    /\ mode = "replay"
    /\ cursor[type] < Len(StepsOf(type))
    /\ cursor' = [cursor EXCEPT ![type] = @ + 1]
    /\ served' = [served EXCEPT ![type] = Append(@, StepsOf(type)[cursor[type] + 1].what)]
    /\ UNCHANGED <<mode, calls, buffer, execs, tools, now, steps, faithful>>

\* ReplayLLMService.next, behind each of its methods.
ReplayModel == Serve("llm")

\* ReplayToolRegistry.execute, and executeAll one call after the other.
ReplayTool == Serve("tool")

SandboxInit ==
    /\ mode = "live" /\ calls = << >>
    /\ buffer = << >> /\ execs = << >> /\ tools = << >> /\ now = 0
    /\ steps = << >> /\ cursor = [llm |-> 0, tool |-> 0] /\ served = [llm |-> << >>, tool |-> << >>]
    /\ faithful = TRUE

SandboxNext ==
    \/ \E method \in Methods : Call(method)
    \/ \E i \in DOMAIN calls : ModelFails(i)
    \/ \E i \in DOMAIN calls, kind \in {"content", "tool_calls"} : ModelAnswers(i, kind)
    \/ Execute
    \/ \E i \in DOMAIN tools : Executed(i) \/ ToolThrows(i)
    \/ Tick
    \/ Build
    \/ ReplayModel
    \/ ReplayTool

SandboxSpec == SandboxInit /\ [][SandboxNext]_sandboxVars

-----------------------------------------------------------------------------

\* Type invariant of the sandbox.
SandboxTypeOK ==
    /\ mode \in {"live", "replay"}
    /\ \A i \in DOMAIN calls : calls[i].method \in Methods
    /\ \A type \in {"llm", "tool"} : cursor[type] = Len(served[type])

\* A run whose calls did not overlap or fail, and that streamed no tool
\* calls, is replayed exactly: the k-th call gets the k-th response of the live run,
\* whatever interleaving of the two buffers the millisecond clock suggests.
ReplayIsFaithful ==
    mode = "replay" /\ faithful =>
        \A type \in {"llm", "tool"} :
            /\ served[type] = [k \in 1..cursor[type] |-> k]
            /\ Len(StepsOf(type)) = IF type = "llm" THEN Len(calls) ELSE Len(tools)
===============================================================================
