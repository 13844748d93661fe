------------------------------ MODULE McpClient ------------------------------
(***************************************************************************)
(* The MCP client over its stdio transport (src/src/ai/tool/mcp), and the  *)
(* tool registry whose executeAll calls the remote tools it registered.    *)
(* The child process is external: it answers the frames it reads in order  *)
(* and may die at any moment.  Its lines and its exit are events of their  *)
(* own, so they reach the transport after a close, or after the next child *)
(* is running.  Request ids grow and are never used twice.                 *)
(***************************************************************************)
EXTENDS Integers, Sequences, FiniteSets, SequencesExt

CONSTANTS MaxRequests,   \* bound: requests sent
          MaxChildren,   \* bound: processes spawned
          MaxCloses,     \* bound: calls of close
          BatchTools     \* the tools of one executeAll, in order: "remote" or "confirm"

VARIABLES process,    \* the transport's variable: a child's number, 0 for undefined
          children,   \* sequence of [run, inbox, outbox, exitDue]
          pending,    \* the ids in the transport's map
          calls,      \* what became of each request: "waiting", "answered" or "rejected"
          sentTo,     \* the child each request was written to
          hello,      \* initialize: "idle", then the id it awaits, then "done" or "failed"
          batch,      \* executeAll: [at, wait, results]
          closes

mcpClientVars == <<process, children, pending, calls, sentTo, hello, batch, closes>>

NoWait == 0
Spawned == [run |-> "running", inbox |-> << >>, outbox |-> << >>, exitDue |-> FALSE]

\* ensureProcess and send: a child if there is none, the id into the map, the frame to
\* its stdin (which loses it when the child is dead already).
Send ==
    LET id == Len(calls) + 1
        kids == IF process = 0 THEN Append(children, Spawned) ELSE children
        p == IF process = 0 THEN Len(children) + 1 ELSE process
    IN  /\ id <= MaxRequests /\ p <= MaxChildren
        /\ process' = p
        /\ children' = [kids EXCEPT ![p].inbox = IF kids[p].run = "running" THEN Append(@, id) ELSE @]
        /\ pending' = pending \cup {id}
        /\ calls' = Append(calls, "waiting")
        /\ sentTo' = Append(sentTo, p)

Settled(ids, how) == [i \in DOMAIN calls |-> IF i \in ids THEN how ELSE calls[i]]

\* What rejects every request of the map, then clears it.
RejectPending ==
    /\ calls' = Settled(pending, "rejected")
    /\ pending' = {}

\* Seeded fault: the exit clears the map without rejecting.
BugClearOnly == calls' = calls /\ pending' = {}

OnExit == RejectPending

\* The child (external).
ChildAnswers(p) ==
    /\ children[p].run = "running" /\ children[p].inbox # << >>
    /\ children' = [children EXCEPT ![p].inbox = Tail(@), ![p].outbox = Append(@, Head(children[p].inbox))]
    /\ UNCHANGED <<process, pending, calls, sentTo, hello, batch, closes>>

ChildDies(p) ==
    /\ children[p].run # "dead"
    /\ children' = [children EXCEPT ![p].run = "dead", ![p].inbox = << >>, ![p].exitDue = TRUE]
    /\ UNCHANGED <<process, pending, calls, sentTo, hello, batch, closes>>

\* The line event: the response resolves the request of its id, if the map has it.
LineEvent(p) ==
    /\ children[p].outbox # << >>
    /\ LET id == Head(children[p].outbox)
       IN  /\ calls' = Settled({id} \cap pending, "answered")
           /\ pending' = pending \ {id}
    /\ children' = [children EXCEPT ![p].outbox = Tail(@)]
    /\ UNCHANGED <<process, sentTo, hello, batch, closes>>

\* The exit event, of the current child or of an earlier one alike.
ExitEvent(p) ==
    /\ children[p].exitDue
    /\ children' = [children EXCEPT ![p].exitDue = FALSE]
    /\ OnExit
    /\ process' = 0
    /\ UNCHANGED <<sentTo, hello, batch, closes>>

\* The write callback reports an error: the child it was for is dead.
WriteFails(id) ==
    /\ id \in pending /\ children[sentTo[id]].run = "dead"
    /\ calls' = Settled({id}, "rejected")
    /\ pending' = pending \ {id}
    /\ UNCHANGED <<process, children, sentTo, hello, batch, closes>>

Close ==
    /\ closes < MaxCloses
    /\ closes' = closes + 1
    /\ children' = IF process # 0 /\ children[process].run = "running"
                   THEN [children EXCEPT ![process].run = "killed"] ELSE children
    /\ process' = 0
    /\ RejectPending
    /\ UNCHANGED <<sentTo, hello, batch>>

\* initialize: a request, then a notification that carries an id and is awaited too.
Initialize ==
    /\ hello.at = "idle"
    /\ Send
    /\ hello' = [at |-> "rpc", id |-> Len(calls) + 1]
    /\ UNCHANGED <<batch, closes>>

Initialized ==
    /\ hello.at = "rpc" /\ calls[hello.id] = "answered"
    /\ Send
    /\ hello' = [at |-> "notify", id |-> Len(calls) + 1]
    /\ UNCHANGED <<batch, closes>>

InitializeEnds ==
    /\ \/ hello.at = "notify" /\ calls[hello.id] = "answered" /\ hello' = [hello EXCEPT !.at = "done"]
       \/ hello.at \in {"rpc", "notify"} /\ calls[hello.id] = "rejected" /\ hello' = [hello EXCEPT !.at = "failed"]
    /\ UNCHANGED <<process, children, pending, calls, sentTo, batch, closes>>

\* executeAll: the next call, after the result of the one before it.  A remote tool
\* (registered by registerAll, without a permission) is called over the transport.
BatchCalls ==
    /\ batch.at <= Len(BatchTools) /\ BatchTools[batch.at] = "remote" /\ batch.wait = NoWait
    /\ hello.at = "done"
    /\ Send
    /\ batch' = [batch EXCEPT !.wait = Len(calls) + 1]
    /\ UNCHANGED <<hello, closes>>

BatchGets(result) == batch' = [at |-> batch.at + 1, wait |-> NoWait, results |-> Append(batch.results, result)]

\* callTool: an error of the transport or of the server is a failure, never an exception.
BatchReturns ==
    /\ batch.wait # NoWait /\ calls[batch.wait] # "waiting"
    /\ BatchGets(IF calls[batch.wait] = "answered" THEN "success" ELSE "failure")
    /\ UNCHANGED <<process, children, pending, calls, sentTo, hello, closes>>

\* checkPermission of a tool that needs approval: no callback or a refusal is a failure.
BatchAsksApproval ==
    /\ batch.at <= Len(BatchTools) /\ BatchTools[batch.at] = "confirm" /\ batch.wait = NoWait
    /\ \E result \in {"success", "failure"} : BatchGets(result)
    /\ UNCHANGED <<process, children, pending, calls, sentTo, hello, closes>>

McpClientInit ==
    /\ process = 0 /\ children = << >> /\ pending = {} /\ calls = << >> /\ sentTo = << >>
    /\ hello = [at |-> "idle", id |-> 0]
    /\ batch = [at |-> 1, wait |-> NoWait, results |-> << >>]
    /\ closes = 0

McpClientNext ==
    \/ Initialize \/ Initialized \/ InitializeEnds
    \/ Send /\ UNCHANGED <<hello, batch, closes>>
    \/ BatchCalls \/ BatchReturns \/ BatchAsksApproval
    \/ \E p \in DOMAIN children : ChildAnswers(p) \/ ChildDies(p) \/ LineEvent(p) \/ ExitEvent(p)
    \/ \E id \in pending : WriteFails(id)
    \/ Close

McpClientSpec == McpClientInit /\ [][McpClientNext]_mcpClientVars

-----------------------------------------------------------------------------

\* Type invariant of the MCP client.
McpClientTypeOK ==
    /\ process \in 0..Len(children)
    /\ pending \subseteq DOMAIN calls /\ Len(sentTo) = Len(calls)
    /\ \A i \in DOMAIN calls : calls[i] \in {"waiting", "answered", "rejected"}
    /\ batch.at - 1 = Len(batch.results)

\* A request is forgotten by nobody: while its caller waits, the transport holds it in its
\* map, and its answer is on the way, or the exit of its child, which rejects it, is
\* still to be reported (stdio-transport.ts).
NoCallForgotten ==
    \A id \in DOMAIN calls : calls[id] = "waiting" =>
        /\ id \in pending
        /\ LET child == children[sentTo[id]]
           IN  id \in ToSet(child.inbox) \/ id \in ToSet(child.outbox) \/ child.exitDue
===============================================================================
