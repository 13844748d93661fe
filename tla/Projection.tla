----------------------------- MODULE Projection -----------------------------
(***************************************************************************)
(* Projections (src/src/projection/index.ts, runner.ts, tailing.ts): views *)
(* folded from the events of several categories, the store that keeps view *)
(* and offset together, the poll/nudge runner, the tailing runner, rebuild, *)
(* and awaitView.  Sources are <<category, entity>> pairs; an event of      *)
(* entity e goes to view e, so two categories feed one view.  A cycle and a *)
(* rebuild are one synchronous pass over the rows: each fold of it is a     *)
(* step (with SQLite a transaction of its own), nothing else runs before   *)
(* the pass is over, and a crash can cut it short.                          *)
(***************************************************************************)
EXTENDS CategoryTail

CONSTANTS MaxRebuilds,    \* bound: rebuilds
          MaxPoison,      \* bound: stored events evolve throws on
          WaitFor         \* events a waiter's predicate asks of view e

VARIABLES driver,   \* "tail" or "poll": what runs this projection, fixed at start
          view,     \* [entity -> events folded, in order]: the view document
          viewNr,   \* [entity -> sequence number stored with the view]
          offset,   \* [category -> [entity -> last number processed]]
          rec,      \* [category -> the record the tailing loop holds, or NoRecord]
          pass,     \* the cycle or rebuild under way and the rows it has left
          runner,   \* the poll/nudge runner's flags
          waiter,   \* [entity -> "waiting" while an awaitView call is unsettled]
          torn,     \* history: how the last rebuild ended early, "evolve" when it threw,
                    \* "clear" between the two deletes of clear, else "no"
          era       \* history: rebuilds so far

projVars == <<driver, torn, view, viewNr, offset, rec, pass, runner, waiter, era>>
vars == <<tailVars, projVars>>

Store == [view |-> view, viewNr |-> viewNr, offset |-> offset]

EmptyStore == [view   |-> [e \in Entities |-> << >>],
               viewNr |-> [e \in Entities |-> 0],
               offset |-> [c \in Categories |-> [e \in Entities |-> 0]]]

\* Seeded fault: the view is written and the offset is not.
BugPutOnly(st, r) ==
    [st EXCEPT !.view[r.ent] = Append(@, r),
               !.viewNr[r.ent] = Higher(@, r.nr)]

\* putWithOffset: one transaction, nothing when the number is not above the
\* offset; the view's number is the largest of all its sources.
PutWithOffset(st, r) ==
    IF r.nr <= st.offset[r.cat][r.ent] THEN st
    ELSE [st EXCEPT !.view[r.ent] = Append(@, r),
                    !.viewNr[r.ent] = Higher(@, r.nr),
                    !.offset[r.cat][r.ent] = r.nr]

\* Seeded fault: the view's own number decides what was already processed.
BugGuardByView(st, r) == r.nr <= st.viewNr[r.ent]

AlreadyProcessed(st, r) == r.nr <= st.offset[r.cat][r.ent]

\* evolve throws on a poison event it has not processed.
Throws(st, r) == ~AlreadyProcessed(st, r) /\ r.tag = "poison"

Satisfied(st, e) == Len(st.view[e]) >= WaitFor

\* Seeded fault: the update of a view reaches no waiter.
BugDeaf(st, e) == waiter

\* notify: a waiter whose predicate the written view satisfies is resolved.
Notified(st, e) ==
    IF waiter[e] = "waiting" /\ Satisfied(st, e) THEN [waiter EXCEPT ![e] = "idle"] ELSE waiter

SetStore(st) == view' = st.view /\ viewNr' = st.viewNr /\ offset' = st.offset

\* The fold every runner shares: nothing for what was processed, nothing stored
\* when evolve throws.
OffsetGuardedFold(r) ==
    IF AlreadyProcessed(Store, r) \/ Throws(Store, r) THEN UNCHANGED <<view, viewNr, offset, waiter>>
    ELSE \E st \in {PutWithOffset(Store, r)} : SetStore(st) /\ waiter' = Notified(st, r.ent)

\* The tailing loop takes the next record of a category.
TailPull(c) ==
    /\ rec[c] = NoRecord
    /\ \E r \in Pulled(c) : Yields(c, r) /\ rec' = [rec EXCEPT ![c] = r]
    /\ UNCHANGED <<driver, torn, view, viewNr, offset, pass, runner, waiter, era>>

\* ... and folds it: a throwing evolve is reported and the tail goes on.
TailFold(c) ==
    /\ rec[c] # NoRecord
    /\ rec' = [rec EXCEPT ![c] = NoRecord]
    /\ OffsetGuardedFold(rec[c])
    /\ UNCHANGED <<tailVars, driver, torn, pass, runner, era>>

NoPass == [of |-> "none", left |-> {}]

\* cycle: a pass over every source category.
Cycle ==
    /\ pass' = [of |-> "cycle", left |-> log]
    /\ UNCHANGED <<tailVars, driver, torn, view, viewNr, offset, rec, waiter, era>>

\* The poll interval fires while the runner is started.
PollTick == runner.started /\ Cycle /\ UNCHANGED runner

\* runOnce: a pass asked for by hand, to catch up before a tail is started.
RunOnce == driver = "tail" /\ Cycle /\ UNCHANGED runner

\* The queued microtask runs a cycle unless the runner was stopped.
Microtask ==
    /\ runner.scheduled
    /\ runner' = [runner EXCEPT !.scheduled = FALSE]
    /\ \/ ~runner.stopped /\ Cycle
       \/ runner.stopped /\ UNCHANGED <<tailVars, driver, torn, view, viewNr, offset, rec, pass, waiter, era>>

\* runProjection, runMultiStreamProjection: the rows are folded in order; the
\* first event evolve throws on ends the pass.
PassFold ==
    /\ \E r \in pass.left :
          /\ IsFirst(r, pass.left)
          /\ OffsetGuardedFold(r)
          /\ pass' = [pass EXCEPT !.left = IF Throws(Store, r) THEN {} ELSE @ \ {r}]
          /\ torn' = IF Throws(Store, r) /\ pass.of = "rebuild" THEN "evolve" ELSE torn
    /\ UNCHANGED <<tailVars, driver, rec, runner, era>>

PassEnds ==
    /\ pass # NoPass /\ pass.left = {}
    /\ pass' = NoPass
    /\ UNCHANGED <<tailVars, driver, torn, view, viewNr, offset, rec, runner, waiter, era>>

\* nudge: coalesced, ignored once stopped; a listener may nudge in the middle of
\* a pass, which queues one more.
Nudge ==
    /\ driver = "poll" /\ ~runner.stopped /\ ~runner.scheduled
    /\ runner' = [runner EXCEPT !.scheduled = TRUE]
    /\ UNCHANGED <<tailVars, driver, torn, view, viewNr, offset, rec, pass, waiter, era>>

Start ==
    /\ driver = "poll"
    /\ runner' = [runner EXCEPT !.started = TRUE, !.stopped = FALSE]
    /\ UNCHANGED <<tailVars, driver, torn, view, viewNr, offset, rec, pass, waiter, era>>

Stop ==
    /\ driver = "poll" /\ runner.started
    /\ runner' = [runner EXCEPT !.started = FALSE, !.stopped = TRUE]
    /\ UNCHANGED <<tailVars, driver, torn, view, viewNr, offset, rec, pass, waiter, era>>

\* clear: the views and the offsets of the projection are deleted.
Clear == SetStore(EmptyStore)

\* rebuild: clear, then a full pass.
Rebuild ==
    /\ era < MaxRebuilds
    /\ era' = era + 1
    /\ Clear /\ torn' = "no"
    /\ pass' = [of |-> "rebuild", left |-> log]
    /\ UNCHANGED <<tailVars, driver, rec, runner, waiter>>

\* awaitView on view e: resolved at once when the view already satisfies it.
Await(e) ==
    /\ waiter[e] = "idle"
    /\ waiter' = [waiter EXCEPT ![e] = IF Satisfied(Store, e) /\ view[e] # << >>
                                       THEN "idle" ELSE "waiting"]
    /\ UNCHANGED <<tailVars, driver, torn, view, viewNr, offset, rec, pass, runner, era>>

\* Its timer fires first.
AwaitTimeout(e) ==
    /\ waiter[e] = "waiting"
    /\ waiter' = [waiter EXCEPT ![e] = "idle"]
    /\ UNCHANGED <<tailVars, driver, torn, view, viewNr, offset, rec, pass, runner, era>>

Idle == [started |-> FALSE, stopped |-> FALSE, scheduled |-> FALSE]

\* What a dead process leaves: the store, and nothing of its memory.
Dies ==
    /\ TailsDie
    /\ rec' = [c \in Categories |-> NoRecord]
    /\ pass' = NoPass
    /\ runner' = Idle
    /\ waiter' = [e \in Entities |-> "idle"]
    /\ UNCHANGED driver

\* The process dies, between two folds of a pass too.
Crash == Dies /\ UNCHANGED <<view, viewNr, offset, torn, era>>

\* It dies in a rebuild between the two deletes of clear, which are statements of
\* their own: the offsets stay, over empty views.
CrashInClear ==
    /\ era < MaxRebuilds /\ era' = era + 1
    /\ Dies
    /\ SetStore([EmptyStore EXCEPT !.offset = offset]) /\ torn' = "clear"

Init ==
    /\ TailInit
    /\ driver \in {"tail", "poll"} /\ torn = "no"
    /\ view = EmptyStore.view /\ viewNr = EmptyStore.viewNr /\ offset = EmptyStore.offset
    /\ rec = [c \in Categories |-> NoRecord] /\ pass = NoPass
    /\ runner = Idle
    /\ waiter = [e \in Entities |-> "idle"]
    /\ era = 0

\* What runs between two passes.
Elsewhere ==
    \/ \E c \in Categories, e \in Entities, tag \in {"on", "poison"} :
           /\ tag = "poison" => Cardinality({r \in log : r.tag = "poison"}) < MaxPoison
           /\ Write(c, e, tag) /\ UNCHANGED projVars
    \/ \E c \in Categories : ((driver = "tail" /\ Subscribe(c)) \/ FetchPage(c) \/ DeleteBefore(c))
                             /\ UNCHANGED projVars
    \/ \E c \in Categories : TailPull(c) \/ TailFold(c)
    \/ PollTick \/ RunOnce \/ Microtask \/ Start \/ Stop
    \/ Rebuild \/ CrashInClear
    \/ \E e \in Entities : Await(e) \/ AwaitTimeout(e)

Next == \/ pass = NoPass /\ Elsewhere
        \/ PassFold \/ PassEnds \/ Nudge \/ Crash

\* Type invariant of the projection.
TypeOK ==
    /\ TailTypeOK
    /\ driver \in {"tail", "poll"} /\ torn \in {"no", "evolve", "clear"}
    /\ view \in [Entities -> Seq(Rows)]
    /\ viewNr \in [Entities -> 0 .. MaxWrites]
    /\ offset \in [Categories -> [Entities -> 0 .. MaxWrites]]
    /\ rec \in [Categories -> Rows \cup {NoRecord}]
    /\ pass \in [of : {"none", "cycle", "rebuild"}, left : SUBSET Rows]
    /\ runner \in [started : BOOLEAN, stopped : BOOLEAN, scheduled : BOOLEAN]
    /\ waiter \in [Entities -> {"idle", "waiting"}]
    /\ era \in 0 .. MaxRebuilds

\* Row r is in its view, or is one evolve threw on.
Folded(r) == r.tag = "poison" \/ \E k \in 1 .. Len(view[r.ent]) : view[r.ent][k] = r

\* No event is skipped in silence: a stored event at or below the offset kept
\* for its source is in the view, unless evolve threw on it, or the row number
\* it was stored under had been used before, which the SQLite tail's cursor
\* may have passed already, or a rebuild ended early (tailing.ts,
\* offsetGuardedFold, tailAllEvents).
NoSilentGap ==
    \A r \in log : r.nr <= offset[r.cat][r.ent] => Folded(r) \/ torn # "no" \/ r \in reused

\* What the comment on the SQLite tailAllEvents says: retention "never disturbs
\* the tail head", so a row number used again costs no follower an event.
RetentionSparesTail ==
    \A r \in log : r.nr <= offset[r.cat][r.ent] => Folded(r) \/ torn # "no"

\* A call of awaitView is never left waiting over a view that satisfies it.
NoWaiterLeftBehind ==
    \A e \in Entities : waiter[e] = "waiting" => ~Satisfied(Store, e) \/ view[e] = << >>

ViewSources == Categories \X Entities

\* The projection implements ViewSpec: the view documents and offsets of every
\* runner, racing each other, rebuilds and crashes, are those it allows.
Abstract == INSTANCE ViewSpec WITH
    Sources <- ViewSources, Views <- Entities, ViewOf <- LAMBDA s : s[2],
    folded <- [e \in Entities |-> [k \in 1 .. Len(view[e]) |->
                  [src |-> <<view[e][k].cat, e>>, nr |-> view[e][k].nr]]],
    last <- [s \in ViewSources |-> offset[s[1]][s[2]]],
    cut <- torn = "clear"

ImplementsViewSpec == Abstract!Spec

Spec == Init /\ [][Next]_vars
=============================================================================
