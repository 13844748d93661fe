------------------------------ MODULE PetriFlow ------------------------------
(***************************************************************************)
(* Petri-net flows (src/src/petrinet): the validation of a schema, the      *)
(* operations on an executable flow, and the flow aggregate run by an       *)
(* entity, whose commands are handled one at a time: decide and persist,   *)
(* then the side effects one after the other, then the reply.  A token is  *)
(* its tag; a retry delay is a flag that time clears.                      *)
(***************************************************************************)
EXTENDS Integers, Sequences, FiniteSets, SequencesExt

CONSTANTS Schemas,        \* flow schemas handed to compileSchema
          Spans,          \* span ids callers use
          MaxRetries,     \* maxTransitionRetries
          MaxInbound,     \* bound: inbound tokens sent
          MaxRuns,        \* bound: executor calls
          MaxFaults       \* bound: throws, failed writes, process deaths

VARIABLES schema,    \* the schema, fixed at start
          compiled,  \* did compileSchema accept it?
          flow,      \* ExecutableFlow: tokens and last span of places, transitions
          box,       \* the entity's mailbox
          todo,      \* effects left of the chain being executed
          pending,   \* pendingDeferreds, in insertion order
          ask,       \* [inbound token sent -> what became of the call]
          sent,      \* inbound tokens sent
          calls,     \* executor calls made
          delivered, \* history: [place -> tokens handed to it]
          done,      \* history: [transition -> executor calls that succeeded]
          lost,      \* history: transitions an execution of which was cut off
          faults

petriVars == <<schema, compiled, flow, box, todo, pending, ask, sent, calls, delivered, done, lost, faults>>

NoSpan == "no span"

IdsOf(defs) == {defs[i].id : i \in 1 .. Len(defs)}

\* The definition a Map built from the sequence keeps for an id: the last one.
Def(defs, id) == Last(SelectSeq(defs, LAMBDA d : d.id = id))

Elems(s) == {s[i] : i \in 1 .. Len(s)}

Typed(sch, type) == {p.id : p \in {q \in Elems(sch.places) : q.type = type}}

\* The nodes a search along `next` visits from a set of start nodes.
Visited(nodes, start, next(_)) ==
    LET grow[n \in 0 .. Cardinality(nodes)] ==
            IF n = 0 THEN start ELSE grow[n - 1] \cup UNION {next(x) : x \in grow[n - 1]}
    IN grow[Cardinality(nodes)]

Targets(t) == {t.to[g] : g \in DOMAIN t.to}

\* 1-4, 6: ids are unique, references resolve, token tags fit.
WellFormed(sch) ==
    /\ Cardinality(IdsOf(sch.places)) = Len(sch.places)
    /\ Cardinality(IdsOf(sch.transitions)) = Len(sch.transitions)
    /\ \A t \in Elems(sch.transitions) :
          /\ t.from \in IdsOf(sch.places) /\ Targets(t) \subseteq IdsOf(sch.places)
          /\ t.consumes \subseteq Def(sch.places, t.from).accepts
          /\ \A g \in DOMAIN t.to : g \in Def(sch.places, t.to[g]).accepts
          /\ t.consumes # {} /\ DOMAIN t.to # {}

\* 5, 7, 8, 10: every place is used; one inbound place, some outbound one; no
\* other transition feeds the inbound tags; every accepted tag is produced.
WellFed(sch) ==
    LET ts == Elems(sch.transitions) IN
    /\ IdsOf(sch.places) \subseteq {t.from : t \in ts} \cup UNION {Targets(t) : t \in ts}
    /\ Cardinality({i \in 1 .. Len(sch.places) : sch.places[i].type = "Inbound"}) = 1
    /\ Typed(sch, "Outbound") # {}
    /\ \A p \in Elems(sch.places) :
          IF p.type = "Inbound"
          THEN \A t \in ts : t.from # p.id => DOMAIN t.to \cap p.accepts = {}
          ELSE p.accepts \subseteq {g \in UNION {DOMAIN t.to : t \in ts} :
                                       \E t \in ts : g \in DOMAIN t.to /\ t.to[g] = p.id}

\* 9: the undirected graph is connected.
Connected(sch) ==
    LET ts == Elems(sch.transitions)
        nodes == {t.from : t \in ts} \cup UNION {Targets(t) : t \in ts}
        near(p) == UNION {Targets(t) : t \in {u \in ts : u.from = p}} \cup {t.from : t \in {u \in ts : p \in Targets(u)}}
    IN nodes = {} \/ Visited(nodes, {CHOOSE p \in nodes : TRUE}, near) = nodes

\* Seeded fault: only what the inbound place reaches is looked at.
BugForwardOnly(sch) ==
    LET ts == Elems(sch.transitions)
        ahead(p) == UNION {Targets(t) : t \in {u \in ts : u.from = p}}
    IN IdsOf(sch.places) \subseteq Visited(IdsOf(sch.places), Typed(sch, "Inbound"), ahead)

\* 9.1: every place is reached from the inbound place and reaches an outbound one.
\* (A transition is when the places around it are.)
OnPath(sch) ==
    LET ts == Elems(sch.transitions)
        ahead(p) == UNION {Targets(t) : t \in {u \in ts : u.from = p}}
        behind(p) == {t.from : t \in {u \in ts : p \in Targets(u)}}
    IN /\ IdsOf(sch.places) \subseteq Visited(IdsOf(sch.places), Typed(sch, "Inbound"), ahead)
       /\ IdsOf(sch.places) \subseteq Visited(IdsOf(sch.places), Typed(sch, "Outbound"), behind)

\* validate returns no error.
Validates(sch) == WellFormed(sch) /\ WellFed(sch) /\ Connected(sch) /\ OnPath(sch)

Compiles(sch) == Validates(sch)

Place(p) == Def(schema.places, p)
Transition(t) == Def(schema.transitions, t)
OrderOf(defs) == [i \in 1 .. Len(defs) |-> defs[i].id]

\* compileSchema: empty places, transitions not started.
Compiled(sch) ==
    [tokens |-> [p \in IdsOf(sch.places) |-> << >>],
     span   |-> [p \in IdsOf(sch.places) |-> NoSpan],
     tr     |-> [t \in IdsOf(sch.transitions) |->
                    [state |-> "NotStarted", consumed |-> << >>, attempts |-> 0, cooling |-> FALSE]]]

\* addToken: nothing when the place does not accept the tag.
AddToken(f, p, tag, s) ==
    IF tag \notin Place(p).accepts THEN f
    ELSE [f EXCEPT !.tokens[p] = Append(@, tag), !.span[p] = IF s = NoSpan THEN @ ELSE s]

Ready(f, t) ==
    /\ f.tr[t].state # "Ongoing" /\ ~f.tr[t].cooling
    /\ f.tokens[Transition(t).from] # << >>
    /\ Transition(t).consumes \subseteq Elems(f.tokens[Transition(t).from])

TransitionsReady(f) == SelectSeq(OrderOf(schema.transitions), LAMBDA t : Ready(f, t))

\* recordTransitionStart: one token of every consumed tag leaves the place named
\* in the event.
TransitionStart(f, p, t) ==
    LET wanted == SetToSeq(Transition(t).consumes)
    IN [f EXCEPT !.tokens[p] = FoldLeft(RemoveFirst, f.tokens[p], wanted),
                 !.tr[t].consumed = SelectSeq(wanted, LAMBDA g : g \in Elems(f.tokens[p])),
                 !.tr[t].state = "Ongoing"]

TransitionCompletion(f, t, to, s) ==
    LET placed == FoldLeft(LAMBDA acc, d : AddToken(acc, d.place, d.tag, s), f, to)
    IN [placed EXCEPT !.tr[t].state = "Completed", !.tr[t].attempts = 0, !.tr[t].cooling = FALSE]

\* recordTransitionFailure: the consumed tokens go back; a delay before the next
\* attempt, or Failed when there were too many.
TransitionFailure(f, t, p) ==
    LET n == f.tr[t].attempts + 1
    IN [f EXCEPT !.tokens[p] = @ \o f.tr[t].consumed,
                 !.tr[t].state = IF n <= MaxRetries THEN "NotStarted" ELSE "Failed",
                 !.tr[t].attempts = n,
                 !.tr[t].cooling = n <= MaxRetries]

\* updateFlowState.
UpdateFlowState(f, e) ==
    CASE e.tag = "TokenAdded"          -> AddToken(f, e.place, e.token, NoSpan)
      [] e.tag = "TransitionFired"     -> TransitionStart(f, e.place, e.t)
      [] e.tag = "TransitionCompleted" -> TransitionCompletion(f, e.t, e.to, e.span)
      [] e.tag = "TransitionFailed"    -> TransitionFailure(f, e.t, e.place)

\* followUpEvents: the token's arrival at p, and every transition ready after it
\* in the state the command found.
FollowUpEvents(f, tag, p, s) ==
    LET ready == TransitionsReady(AddToken(f, p, tag, NoSpan))
    IN <<[tag |-> "TokenAdded", place |-> p, token |-> tag]>>
       \o [i \in 1 .. Len(ready) |-> [tag |-> "TransitionFired", t |-> ready[i], place |-> p, span |-> s]]

\* The tokens of a result that have a destination (at most two: grouping them
\* by place keeps their order).
Placed(t, tags) ==
    LET known == SelectSeq(tags, LAMBDA g : g \in DOMAIN Transition(t).to)
    IN [i \in 1 .. Len(known) |-> [tag |-> known[i], place |-> Transition(t).to[known[i]]]]

EventsOnCommand(f, cmd) ==
    CASE cmd.tag = "InboundToken" ->
            LET ins == SelectSeq(OrderOf(schema.places),
                                 LAMBDA p : Place(p).type = "Inbound" /\ cmd.token \in Place(p).accepts)
            IN FlattenSeq([i \in 1 .. Len(ins) |-> FollowUpEvents(f, cmd.token, ins[i], cmd.span)])
      [] cmd.tag = "TransitionResult" ->
            LET to == Placed(cmd.t, cmd.tokens)
            IN <<[tag |-> "TransitionCompleted", t |-> cmd.t, to |-> to, span |-> cmd.span]>>
               \o FlattenSeq([i \in 1 .. Len(to) |-> FollowUpEvents(f, to[i].tag, to[i].place, cmd.span)])
      [] cmd.tag = "TransitionError" ->
            <<[tag |-> "TransitionFailed", t |-> cmd.t, place |-> Transition(cmd.t).from]>>

\* Seeded fault: each effect replaces the chain's previous one.
BugLastEffect(es) ==
    LET fired == SelectSeq(es, LAMBDA e : e.tag = "TransitionFired")
    IN IF fired = << >> THEN << >> ELSE <<[do |-> "execute", t |-> Last(fired).t, span |-> Last(fired).span]>>

\* buildSideEffectsFromEvents: run the executor of what fired, hand outbound
\* tokens to their handler.
SideEffects(es) ==
    LET kept == SelectSeq(es, LAMBDA e : \/ e.tag = "TransitionFired"
                                         \/ e.tag = "TokenAdded" /\ Place(e.place).type = "Outbound")
    IN [i \in 1 .. Len(kept) |-> IF kept[i].tag = "TransitionFired"
                                 THEN [do |-> "execute", t |-> kept[i].t, span |-> kept[i].span]
                                 ELSE [do |-> "outbound"]]

\* A place the call watches holds tokens and was last reached by its span.
Reached(f, s, places) ==
    \E p \in places : Place(p).type = "Outbound" /\ f.tokens[p] # << >> /\ f.span[p] = s

\* The runtime's own ask timeout is left out (module EntityRuntime).  Only the first settlement of a call counts.
Settle(call, how) == [call EXCEPT !.state = IF @ = "open" THEN how ELSE @]

\* Seeded fault: the check looks at the state the command found.
BugStale(f, g) == SelectInSeq(pending, LAMBDA q : Reached(f, q.span, q.places))

\* tryCompleteDeferreds: the first pending call the new state answers, or 0.
Completable(f, g) == SelectInSeq(pending, LAMBDA q : Reached(g, q.span, q.places))

\* Map.set keeps the position of a key it overwrites.
Remember(q) ==
    LET i == SelectInSeq(pending, LAMBDA o : o.span = q.span)
    IN IF i = 0 THEN Append(pending, q) ELSE [pending EXCEPT ![i] = q]

\* decide on command cmd, whose events es lead to state g: the deferred of a call
\* is set or completed here, before anything is persisted.
Awaits(cmd, es) == cmd.tag = "InboundToken" /\ es # << >> /\ cmd.expects # {}

Deferred(cmd, es, g) == Awaits(cmd, es) /\ ~Reached(g, cmd.span, cmd.expects)

\* The pending call this command completes, or 0.
Hit(cmd, es, g) == IF cmd.tag # "InboundToken" \/ es = << >> THEN Completable(flow, g) ELSE 0

PendingAfter(cmd, es, g) ==
    IF Deferred(cmd, es, g) THEN Remember([span |-> cmd.span, places |-> cmd.expects, of |-> cmd.of])
    ELSE IF Hit(cmd, es, g) # 0 THEN RemoveAt(pending, Hit(cmd, es, g)) ELSE pending

AskAfter(cmd, es, g) ==
    IF Hit(cmd, es, g) = 0 THEN ask
    ELSE [ask EXCEPT ![pending[Hit(cmd, es, g)].of] = Settle(@, "answered")]

\* The end of the chain: the reply, or the deferred one.
Ending(cmd, es, g) ==
    IF cmd.tag # "InboundToken" THEN << >>
    ELSE <<[do |-> IF Deferred(cmd, es, g) THEN "defer" ELSE "reply", of |-> cmd.of]>>

Handle ==
    /\ box # << >> /\ todo = << >>
    /\ LET cmd == Head(box)
           es == EventsOnCommand(flow, cmd)
           g == FoldLeft(UpdateFlowState, flow, es)
       IN /\ pending' = PendingAfter(cmd, es, g)
          /\ ask' = AskAfter(cmd, es, g)
          /\ todo' = SideEffects(es) \o Ending(cmd, es, g)
          /\ flow' = g
          /\ delivered' = [p \in DOMAIN delivered |-> delivered[p] +
                 Cardinality({i \in 1 .. Len(es) : es[i].tag = "TokenAdded" /\ es[i].place = p})]
    /\ box' = Tail(box)
    /\ UNCHANGED <<schema, compiled, sent, calls, done, lost, faults>>

\* A caller sends a token, waiting for a reply at some outbound places or at none.
Send(s, tag, places) ==
    /\ compiled /\ sent < MaxInbound
    /\ sent' = sent + 1
    /\ ask' = [ask EXCEPT ![sent + 1] = [state |-> "open", span |-> s]]
    /\ box' = Append(box, [tag |-> "InboundToken", token |-> tag, expects |-> places, span |-> s, of |-> sent + 1])
    /\ UNCHANGED <<schema, compiled, flow, todo, pending, calls, delivered, done, lost, faults>>

\* The tokens an executor may return.
Outputs(t) == {<< >>} \cup {<<g>> : g \in DOMAIN Transition(t).to} \cup {SetToSeq(DOMAIN Transition(t).to)}

\* The executor answers, and its result is told to the entity itself.
ExecutorReturns ==
    /\ todo # << >> /\ Head(todo).do = "execute" /\ calls < MaxRuns
    /\ calls' = calls + 1
    /\ todo' = Tail(todo)
    /\ LET t == Head(todo).t IN
       \/ /\ \E out \in Outputs(t) :
                 box' = Append(box, [tag |-> "TransitionResult", t |-> t, tokens |-> out, span |-> Head(todo).span])
          /\ done' = [done EXCEPT ![t] = @ + 1]
       \/ /\ box' = Append(box, [tag |-> "TransitionError", t |-> t])
          /\ UNCHANGED done
    /\ UNCHANGED <<schema, compiled, flow, pending, ask, sent, delivered, lost, faults>>

\* The outbound handler ran, or the chain's Reply is executed.
EffectDone ==
    /\ todo # << >> /\ Head(todo).do # "execute"
    /\ todo' = Tail(todo)
    /\ ask' = IF Head(todo).do = "reply" THEN [ask EXCEPT ![Head(todo).of] = Settle(@, "answered")] ELSE ask
    /\ UNCHANGED <<schema, compiled, flow, box, pending, sent, calls, delivered, done, lost, faults>>

\* Transitions whose execution or result a sequence of effects or commands holds.
Carried(fx, cmds) ==
    {fx[i].t : i \in {j \in 1 .. Len(fx) : fx[j].do = "execute"}}
    \cup {cmds[i].t : i \in {j \in 1 .. Len(cmds) : cmds[j].tag # "InboundToken"}}

\* The runner ends: what it held is gone.
EntityEnds ==
    /\ faults < MaxFaults /\ faults' = faults + 1
    /\ box' = << >> /\ todo' = << >>
    /\ lost' = lost \cup Carried(todo, box)
    /\ UNCHANGED <<schema, compiled, flow, sent, calls, delivered, done>>

\* The calls in its hands: in the mailbox, or at the end of the chain.
Held == {box[i].of : i \in {j \in 1 .. Len(box) : box[j].tag = "InboundToken"}}
        \cup {e.of : e \in {x \in Elems(todo) : x.do \in {"reply", "defer"}}}

FailHeld(calling) == [n \in DOMAIN calling |-> IF n \in Held THEN Settle(calling[n], "failed") ELSE calling[n]]

\* An executor or a handler throws.
Throws ==
    /\ todo # << >>
    /\ EntityEnds
    /\ ask' = FailHeld(ask)
    /\ UNCHANGED pending

\* The journal refuses the write after decide ran.
WriteRefused ==
    /\ box # << >> /\ todo = << >>
    /\ LET cmd == Head(box)
           es == EventsOnCommand(flow, cmd)
           g == FoldLeft(UpdateFlowState, flow, es)
       IN /\ es # << >>
          /\ pending' = PendingAfter(cmd, es, g)
          /\ ask' = FailHeld(AskAfter(cmd, es, g))
    /\ EntityEnds

\* The process dies: the deferreds die with it, the journaled flow stays.
ProcessDies ==
    /\ sent > 0 /\ EntityEnds
    /\ pending' = << >>
    /\ ask' = [n \in DOMAIN ask |-> Settle(ask[n], "failed")]

\* A transition's retry delay is over.
DelayOver(t) ==
    /\ flow.tr[t].cooling
    /\ flow' = [flow EXCEPT !.tr[t].cooling = FALSE]
    /\ UNCHANGED <<schema, compiled, box, todo, pending, ask, sent, calls, delivered, done, lost, faults>>

Init ==
    /\ schema \in Schemas /\ compiled = Compiles(schema)
    /\ flow = Compiled(schema)
    /\ box = << >> /\ todo = << >> /\ pending = << >>
    /\ ask = [n \in 1 .. MaxInbound |-> [state |-> "none", span |-> NoSpan]]
    /\ sent = 0 /\ calls = 0 /\ faults = 0 /\ lost = {}
    /\ delivered = [p \in IdsOf(schema.places) |-> 0]
    /\ done = [t \in IdsOf(schema.transitions) |-> 0]

Next ==
    \/ \E s \in Spans, p \in Typed(schema, "Inbound") :
           \E tag \in Place(p).accepts \cup {"unknown"}, places \in {{}, Typed(schema, "Outbound")} :
               Send(s, tag, places)
    \/ Handle \/ ExecutorReturns \/ EffectDone \/ Throws \/ WriteRefused \/ ProcessDies
    \/ \E t \in IdsOf(schema.transitions) : DelayOver(t)

\* Type invariant of the Petri-net flow.
TypeOK ==
    /\ schema \in Schemas
    /\ \A p \in DOMAIN flow.tokens : \A i \in 1 .. Len(flow.tokens[p]) : flow.tokens[p][i] \in Place(p).accepts
    /\ \A t \in DOMAIN flow.tr : /\ flow.tr[t].state \in {"NotStarted", "Ongoing", "Completed", "Failed"}
                                 /\ flow.tr[t].attempts \in 0 .. MaxRuns
    /\ sent \in 0 .. MaxInbound /\ calls \in 0 .. MaxRuns /\ faults \in 0 .. MaxFaults
    /\ \A n \in DOMAIN ask : ask[n].state \in {"none", "open", "answered", "failed"}

\* A transition is Ongoing only while its execution, or the result of it, is on
\* its way: it is skipped by transitionsReady, so nothing else would ever fire
\* it again.  Executions a throw or a crash cut off are excepted.
OngoingIsBusy ==
    \A t \in DOMAIN flow.tr :
        flow.tr[t].state = "Ongoing" => t \in Carried(todo, box) \cup lost

\* No call is left behind: none stays pending over an outbound place that already
\* holds the tokens of its span, and one that is open is queued, in the chain or
\* pending, unless a later call with the same span took its place in the map
\* (tryCompleteDeferreds, pendingDeferreds).
NoAskLeftBehind ==
    /\ \A i \in 1 .. Len(pending) : ~Reached(flow, pending[i].span, pending[i].places)
    /\ \A n \in DOMAIN ask : ask[n].state = "open" =>
          \/ n \in Held \cup {pending[i].of : i \in 1 .. Len(pending)}
          \/ \E m \in n + 1 .. MaxInbound : ask[m].span = ask[n].span

\* A schema that compiles is sound by the textbook definition: a path of
\* transitions leads from the inbound place to every place, and one from every
\* place to an outbound place.
AcceptedIsSound ==
    (sent = 0 /\ compiled) =>
        LET ids == IdsOf(schema.places)
            paths == UNION {[1 .. n -> ids] : n \in 1 .. Cardinality(ids)}
            linked == {q \in paths : \A i \in 1 .. Len(q) - 1 :
                          \E t \in Elems(schema.transitions) : t.from = q[i] /\ q[i + 1] \in Targets(t)}
        IN \A p \in ids : /\ \E q \in linked : q[1] \in Typed(schema, "Inbound") /\ Last(q) = p
                          /\ \E q \in linked : q[1] = p /\ Last(q) \in Typed(schema, "Outbound")

\* "Consumes tokens from a source place, executes logic, produces tokens": a
\* transition completes no more often than tokens were handed to its place.
OneRunPerToken ==
    compiled => \A t \in DOMAIN done : done[t] <= delivered[Transition(t).from]

Spec == Init /\ [][Next]_petriVars
=============================================================================
