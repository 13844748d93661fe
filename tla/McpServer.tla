------------------------------ MODULE McpServer ------------------------------
(***************************************************************************)
(* The MCP server (src/src/mcp-server): dispatch answers one message, the  *)
(* stdio transport runs the lines of its input through it one at a time,   *)
(* the HTTP transport any number of POSTs at once after checking their     *)
(* headers, and a tools/call awaits the tool.  The registry is shared and  *)
(* a tool can be registered again, with another permission, at any time.   *)
(* A frame is a record: its shape, whether it carries an id, the protocol  *)
(* version of its _meta block, its method, and the parameters of a call.   *)
(* Left out: the contents of the results, the sentinel form of a header.   *)
(***************************************************************************)
EXTENDS Integers, Sequences, FiniteSets, SequencesExt

CONSTANTS Frames,        \* the messages peers send
          ToolNames,
          LegacyCompat,  \* the option legacyCompat
          MaxFrames,     \* bound: messages received
          MaxRegisters   \* bound: registrations after start

VARIABLES registry,   \* tool name -> permission
          lines,      \* history: the lines of stdin, in order
          handled,    \* how many of them handleLine is done with
          serving,    \* is the tool of the next line running?
          output,     \* the response frames written: [line, code]
          closed,     \* has stdin ended?
          resolved,   \* has the promise of serveStdio resolved?
          posts,      \* the POSTs: [frame, header, status], status 0 while the tool runs
          registers,
          ran         \* history: the tools run: [frame, header, permission]

mcpServerVars == <<registry, lines, handled, serving, output, closed, resolved, posts, registers, ran>>

Permissions == {"Auto", "Confirm", "ConfirmIf"}
NoHeader == [version |-> "none", method |-> "none", name |-> "none"]
IsRequest(f) == f.shape \in {"rpc", "badrpc"} /\ f.id

\* executeToolCall before the tool: a name, arguments that are an object, and a tool of
\* that name that needs no confirmation.
ToolRuns(f) == f.args /\ f.name \in ToolNames /\ registry[f.name] = "Auto"

CallCode(f) == IF ToolRuns(f) THEN "run" ELSE "params"

Modern(f) ==
    IF f.version = "other" THEN "version"
    ELSE CASE f.method \in {"server/discover", "ping", "tools/list"} -> "ok"
           [] f.method = "tools/call"                                -> CallCode(f)
           [] OTHER                                                  -> "method"

Legacy(f) ==
    IF f.method = "ping" THEN "ok"
    ELSE IF ~LegacyCompat THEN "version"
    ELSE CASE f.method \in {"initialize", "tools/list"} -> "ok"
           [] f.method = "tools/call"                   -> CallCode(f)
           [] OTHER                                     -> "method"

Respond(f) ==
    IF f.method = "notifications/initialized" THEN "ok"
    ELSE IF f.version # "none" THEN Modern(f) ELSE Legacy(f)

\* Seeded fault: a notification is answered like a request.
BugAnswersAll(f) ==
    CASE f.shape = "blank"                            -> "none"
      [] f.shape \in {"garbage", "nonobject", "badrpc"} -> "invalid"
      [] f.shape = "rpc"                              -> Respond(f)

\* What a message gets: "none" for no response, "run" when a tool has to run first, else
\* "ok" or the kind of error.
Dispatch(f) ==
    CASE f.shape = "blank"                            -> "none"
      [] f.shape = "garbage"                          -> "parse"
      [] f.shape = "nonobject"                        -> "invalid"
      [] f.shape \in {"rpc", "badrpc"} /\ ~IsRequest(f) -> "none"
      [] f.shape = "badrpc" /\ IsRequest(f)           -> "invalid"
      [] f.shape = "rpc" /\ IsRequest(f)              -> Respond(f)

ToolStarts(f, header) == ran' = ran \cup {[frame |-> f, header |-> header, permission |-> registry[f.name]]}

-----------------------------------------------------------------------------
(* The stdio transport. *)

Line(f) ==
    /\ Len(lines) + Len(posts) < MaxFrames /\ ~closed
    /\ lines' = Append(lines, f)
    /\ UNCHANGED <<registry, handled, serving, output, closed, resolved, posts, registers, ran>>

Eof ==
    /\ ~closed
    /\ closed' = TRUE
    /\ UNCHANGED <<registry, lines, handled, serving, output, resolved, posts, registers, ran>>

\* Seeded fault: every line is handled as it arrives, not after the one before it.
BugFanOut(n) == n \in 1..Len(lines) /\ ~(\E i \in DOMAIN output : output[i].line = n)

\* The promise chain: a line is handled once the one before it is done with.
InTurn(n) == n = handled + 1 /\ n <= Len(lines)

WriteFrame(n, code) ==
    output' = IF code = "none" THEN output ELSE Append(output, [line |-> n, code |-> code])

\* handleLine of a line that needs no tool.
HandleLine(n) ==
    /\ InTurn(n) /\ ~serving /\ Dispatch(lines[n]) # "run"
    /\ handled' = handled + 1
    /\ WriteFrame(n, Dispatch(lines[n]))
    /\ UNCHANGED <<registry, lines, serving, closed, resolved, posts, registers, ran>>

StartTool(n) ==
    /\ InTurn(n) /\ ~serving /\ Dispatch(lines[n]) = "run"
    /\ serving' = TRUE
    /\ ToolStarts(lines[n], NoHeader)
    /\ UNCHANGED <<registry, lines, handled, output, closed, resolved, posts, registers>>

\* The tool returns or throws: either is a result.
FinishTool(n) ==
    /\ InTurn(n) /\ serving
    /\ serving' = FALSE
    /\ handled' = handled + 1
    /\ WriteFrame(n, "ok")
    /\ UNCHANGED <<registry, lines, closed, resolved, posts, registers, ran>>

\* The chain has drained after stdin ended.
Resolve ==
    /\ closed /\ ~resolved /\ handled = Len(lines) /\ ~serving
    /\ resolved' = TRUE
    /\ UNCHANGED <<registry, lines, handled, serving, output, closed, posts, registers, ran>>

-----------------------------------------------------------------------------
(* The HTTP transport. *)

StatusFor(code) ==
    CASE code = "none"                              -> 202
      [] code = "method"                            -> 404
      [] code \in {"version", "parse", "invalid", "header"} -> 400
      [] OTHER                                      -> 200

Headers(f) == [version : {f.version, "none"}, method : {f.method, "none"}, name : {f.name, "none", "another"}]

\* Seeded fault: the name is compared only when the header is there.
BugOptionalName(f, h) == \/ h.version # f.version
                         \/ h.method # f.method
                         \/ f.method = "tools/call" /\ h.name \notin {"none", "another", f.name}

\* validateHeaders.
HeaderMismatch(f, h) == \/ h.version # f.version
                        \/ h.method # f.method
                        \/ f.method = "tools/call" /\ (h.name = "none" \/ h.name # f.name)

Checked(f) == IsRequest(f) /\ f.version # "none"

PostCode(f, h) == IF Checked(f) /\ HeaderMismatch(f, h) THEN "header" ELSE Dispatch(f)

\* A POST with an allowed or no Origin, up to its answer or to the await of the tool.
Post(f, h) ==
    /\ Len(lines) + Len(posts) < MaxFrames /\ f.shape # "blank"
    /\ IF PostCode(f, h) = "run"
       THEN /\ posts' = Append(posts, [frame |-> f, header |-> h, status |-> 0])
            /\ ToolStarts(f, h)
       ELSE /\ posts' = Append(posts, [frame |-> f, header |-> h, status |-> StatusFor(PostCode(f, h))])
            /\ UNCHANGED ran
    /\ UNCHANGED <<registry, lines, handled, serving, output, closed, resolved, registers>>

PostToolEnds(p) ==
    /\ posts[p].status = 0
    /\ posts' = [posts EXCEPT ![p].status = StatusFor("ok")]
    /\ UNCHANGED <<registry, lines, handled, serving, output, closed, resolved, registers, ran>>

\* MCPToolRegistry.register: the last registration of a name counts.
Register(name, permission) ==
    /\ registers < MaxRegisters
    /\ registers' = registers + 1
    /\ registry' = [registry EXCEPT ![name] = permission]
    /\ UNCHANGED <<lines, handled, serving, output, closed, resolved, posts, ran>>

McpServerInit ==
    /\ registry \in [ToolNames -> Permissions]
    /\ lines = << >> /\ handled = 0 /\ serving = FALSE /\ output = << >>
    /\ closed = FALSE /\ resolved = FALSE /\ posts = << >> /\ registers = 0 /\ ran = {}

McpServerNext ==
    \/ \E f \in Frames : Line(f)
    \/ Eof
    \/ \E n \in 1..Len(lines) : HandleLine(n) \/ StartTool(n) \/ FinishTool(n)
    \/ Resolve
    \/ \E f \in Frames : \E h \in Headers(f) : Post(f, h)
    \/ \E p \in DOMAIN posts : PostToolEnds(p)
    \/ \E t \in ToolNames, permission \in Permissions : Register(t, permission)

McpServerSpec == McpServerInit /\ [][McpServerNext]_mcpServerVars

-----------------------------------------------------------------------------

\* Type invariant of the MCP server.
McpServerTypeOK ==
    /\ registry \in [ToolNames -> Permissions]
    /\ handled \in 0..Len(lines) /\ serving \in BOOLEAN
    /\ \A i \in DOMAIN output : output[i].line \in DOMAIN lines
    /\ closed \in BOOLEAN /\ resolved \in BOOLEAN

\* What JSON-RPC lets the server answer: requests, and lines that are no message.
Answerable(f) == IsRequest(f) \/ f.shape \in {"garbage", "nonobject"}

\* Every request line is answered by exactly one frame, in the order the lines came,
\* nothing else is written, and serveStdio resolves only when every line that came
\* before the end of stdin is done with (stdio.ts, "responses cannot interleave").
OneAnswerEach ==
    /\ \A i, j \in DOMAIN output : i < j => output[i].line < output[j].line
    /\ {output[i].line : i \in DOMAIN output} = {n \in 1..handled : Answerable(lines[n])}
    /\ resolved => handled = Len(lines)

\* A tool runs only while its permission is Auto, whatever was registered when, and a
\* modern POST runs the tool its Mcp-Name header names (http.ts, "a proxy enforcing
\* policy on Mcp-Name must never disagree with what the body executes").
RunsWhatIsAnnounced ==
    \A r \in ran : /\ r.permission = "Auto"
                   /\ Checked(r.frame) /\ r.header # NoHeader => r.header.name = r.frame.name
===============================================================================
