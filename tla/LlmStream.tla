----------------------------- MODULE LlmStream -----------------------------
(***************************************************************************)
(* A streamed model answer: chatStream of                                   *)
(* src/src/ai/llm/openai-llm-service.ts cuts the bytes of a response into   *)
(* lines, lines into deltas, and collectStream of stream-accumulator.ts     *)
(* joins the deltas to the answer the unstreamed call would have returned.  *)
(* The network hands the bytes over in reads of any size.                   *)
(*                                                                         *)
(* A line is two bytes and a line break; what its bytes say is the frame of *)
(* the line, so that half a line says nothing.                              *)
(***************************************************************************)
EXTENDS Integers, Sequences, SequencesExt

CONSTANTS StreamFrames,  \* the frames a server may send
          MaxLines       \* bound: lines of a response

VARIABLES wire,    \* the frames of this response, fixed at start
          reader,  \* "closed", "reading", "done", "failed"
          pos,     \* bytes handed over so far
          buffer,  \* bytes behind the last line break
          acc      \* AccState: the text and the tool calls by index

streamVars == <<wire, reader, pos, buffer, acc>>

None == "none"
Break == [line |-> 0, part |-> 0]

Bytes == FlattenSeq([i \in 1 .. Len(wire) |-> <<[line |-> i, part |-> 1], [line |-> i, part |-> 2], Break>>])

NothingYet == [content |-> << >>, calls |-> << >>]

Piece(x) == IF x = None THEN << >> ELSE <<x>>

-----------------------------------------------------------------------------
(* collectStream. *)

\* Seeded fault: the arguments of a call are those of its last delta.
BugLastArguments(old, delta) ==
    [id |-> IF delta.id = None THEN old.id ELSE delta.id, args |-> Piece(delta.args)]

\* A tool call so far, and one more delta of it.
Extended(old, delta) ==
    [id |-> IF delta.id = None THEN old.id ELSE delta.id, args |-> old.args \o Piece(delta.args)]

\* The chunk is added to the state.
Collect(state, chunk) ==
    CASE chunk.tag = "ContentDelta" -> [state EXCEPT !.content = Append(@, chunk.text)]
      [] chunk.tag = "ToolCallDelta" ->
            [state EXCEPT !.calls = [k \in DOMAIN @ \cup {chunk.delta.index} |->
                IF k # chunk.delta.index THEN @[k]
                ELSE Extended(IF k \in DOMAIN @ THEN @[k] ELSE [id |-> None, args |-> << >>], chunk.delta)]]
      [] OTHER -> state

\* The answer: tool calls if there is any, else the text.
Answer(state) ==
    IF DOMAIN state.calls # {} THEN [tag |-> "ToolCalls", calls |-> state.calls]
    ELSE [tag |-> "Content", text |-> state.content]

-----------------------------------------------------------------------------
(* chatStream. *)

NoChunk == [tag |-> "none"]

\* parseSseChunk: the text of a frame, else its first tool call.
ParseSseChunk(f) ==
    IF f.content # None THEN [tag |-> "ContentDelta", text |-> f.content]
    ELSE IF f.calls # << >> /\ (Head(f.calls).id # None \/ Head(f.calls).args # None)
    THEN [tag |-> "ToolCallDelta", delta |-> Head(f.calls)]
    ELSE NoChunk

\* One line: not data, the end mark, no JSON, or a frame.
ParseLine(line) ==
    IF Len(line) = 2 /\ line[1].line = line[2].line /\ wire[line[1].line].kind = "data"
    THEN ParseSseChunk(wire[line[1].line]) ELSE NoChunk

\* Where the line breaks are.
Breaks(bytes) == {i \in DOMAIN bytes : bytes[i] = Break}

\* Seeded fault: what is behind the last line break is thrown away.
BugDropTail(bytes) == << >>

\* buffer.split: what is behind the last line break stays.
Rest(bytes) ==
    LET last == IF Breaks(bytes) = {} THEN 0 ELSE Max(Breaks(bytes)) IN SubSeq(bytes, last + 1, Len(bytes))

\* The complete lines are parsed and their chunks collected, in order.
Drain(state, bytes) ==
    FoldLeft(LAMBDA a, b : IF b = Break THEN [state |-> Collect(a.state, ParseLine(a.line)), line |-> << >>]
                           ELSE [a EXCEPT !.line = Append(@, b)],
             [state |-> state, line |-> << >>], bytes).state

\* fetch answered; an error status or a missing body throws.
Open(ok) ==
    /\ reader = "closed"
    /\ reader' = IF ok THEN "reading" ELSE "failed"
    /\ UNCHANGED <<wire, pos, buffer, acc>>

\* reader.read: the next n bytes.
Read(n) ==
    /\ reader = "reading" /\ pos + n <= Len(Bytes)
    /\ pos' = pos + n
    /\ \E bytes \in {buffer \o SubSeq(Bytes, pos + 1, pos + n)} :
         /\ buffer' = Rest(bytes)
         /\ acc' = Drain(acc, bytes)
    /\ UNCHANGED <<wire, reader>>

\* The stream ends: here or, when a proxy closes the connection, anywhere.  What
\* stands behind the last line break is dropped, and Done reports a normal end.
ReadEnds ==
    /\ reader = "reading"
    /\ reader' = "done"
    /\ buffer' = << >>
    /\ UNCHANGED <<wire, pos, acc>>

\* The connection breaks: the generator throws and collectStream with it.
ReadFails ==
    /\ reader = "reading"
    /\ reader' = "failed"
    /\ UNCHANGED <<wire, pos, buffer, acc>>

StreamInit ==
    /\ wire \in UNION {[1 .. n -> StreamFrames] : n \in 0 .. MaxLines}
    /\ reader = "closed" /\ pos = 0 /\ buffer = << >> /\ acc = NothingYet

StreamNext ==
    \/ \E ok \in BOOLEAN : Open(ok)
    \/ \E n \in 1 .. 3 * MaxLines : Read(n)
    \/ ReadEnds \/ ReadFails

StreamSpec == StreamInit /\ [][StreamNext]_streamVars

-----------------------------------------------------------------------------

\* Type invariant of the streamed answer.
StreamTypeOK ==
    /\ reader \in {"closed", "reading", "done", "failed"}
    /\ pos \in 0 .. 3 * MaxLines /\ Len(buffer) <= 3
    /\ \A k \in DOMAIN acc.calls : acc.calls[k].args \in Seq(STRING)

\* The frames of the lines that arrived in full.
Arrived == SelectSeq(SubSeq(wire, 1, pos \div 3), LAMBDA f : f.kind = "data")

\* A frame that carries one delta.
Single(f) == Len(f.calls) + (IF f.content = None THEN 0 ELSE 1) <= 1

\* The answer the frames make, put together from all of them at once.
Deltas(frames, k) == SelectSeq(FlattenSeq([i \in DOMAIN frames |-> frames[i].calls]), LAMBDA d : d.index = k)

Whole(frames) ==
    LET said == {d.index : d \in UNION {ToSet(frames[i].calls) : i \in DOMAIN frames}}
        named(k) == SelectSeq(Deltas(frames, k), LAMBDA d : d.id # None)
        argued(k) == SelectSeq(Deltas(frames, k), LAMBDA d : d.args # None)
    IN IF said # {}
       THEN [tag |-> "ToolCalls", calls |-> [k \in said |->
                [id |-> IF named(k) = << >> THEN None ELSE Last(named(k)).id,
                 args |-> [i \in DOMAIN argued(k) |-> argued(k)[i].args]]]]
       ELSE [tag |-> "Content",
             text |-> LET texts == SelectSeq(frames, LAMBDA f : f.content # None)
                      IN [i \in DOMAIN texts |-> texts[i].content]]

\* However the bytes are cut into reads, what is collected is what the frames that
\* arrived in full say: deltas of several tool calls may alternate, and comments,
\* garbage and the end mark are skipped.  (A frame with several deltas loses all but
\* the first.)
StreamIsTheAnswer ==
    (\A i \in DOMAIN Arrived : Single(Arrived[i])) => Answer(acc) = Whole(Arrived)
===============================================================================
