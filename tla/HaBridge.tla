------------------------------- MODULE HaBridge -------------------------------
(***************************************************************************)
(* The bridge from Home Assistant to the signal store (src/src/ha/         *)
(* bridge.ts, normalize.ts, signal-store.ts), over a connection that       *)
(* delivers frames in order and is lost at any time (module HaClient): a   *)
(* live cache of all states, a debounced row per routed entity, baseline   *)
(* and resync rows from a snapshot, and the retention sweep.  The value of *)
(* an exponential average is any number between its old value and the      *)
(* sample; rounding is left out.                                           *)
(***************************************************************************)
EXTENDS Integers, Sequences, FiniteSets

CONSTANTS Entities,      \* the routed entities
          Numbers,       \* numeric states
          Deadband, EmitInterval, Retention,
          MaxClock,      \* bound: time
          MaxChanges,    \* bound: state changes in Home Assistant
          MaxDrops,      \* bound: lost connections and restarts
          MaxStoreFaults \* bound: appends that throw

VARIABLES spec,      \* [entity -> its route's debounce class]
          ha,        \* external: [entity -> its state in Home Assistant]
          link,      \* external: "down", "up", "subscribed" or "answered"
          wire,      \* external: frames on their way
          on,        \* is the bridge started?
          cache, route,
          rowsOf,    \* the signals table: [entity -> rows, oldest first]
          clock,
          synced,    \* history: a snapshot of this connection has been handled
          missed,    \* history: entities whose row could not be written
          vanished,  \* history: entities a snapshot no longer held
          changes, drops, faulted

bridgeVars == <<spec, ha, link, wire, on, cache, route, rowsOf, clock, synced, missed, vanished,
                changes, drops, faulted>>
outside == <<spec, ha, link, clock, changes, drops, on>>

Classes == {"on-change", "deadband", "throttle-ema"}
Null == [k |-> "null", n |-> 0]
Bool(b) == [k |-> "bool", n |-> b]
Num(n) == [k |-> "num", n |-> n]
Unavailable == [k |-> "unavailable", n |-> 0]
Absent == [k |-> "absent", n |-> 0]     \* the entity does not exist
HaValues == {Num(n) : n \in Numbers} \cup {Bool(1), Unavailable, Absent}

\* normalizeState, and the null of a removed entity.
NormalizeState(s) == IF s \in {Unavailable, Absent} THEN Null ELSE s

NoTime == -1
FreshRoute == [has |-> FALSE, last |-> Null, checked |-> FALSE, ema |-> Null, emitAt |-> NoTime]

\* Seeded fault: only the types are compared, and null has none.
BugNullIsAnyType(a, b) == a.k # b.k /\ Null \notin {a, b}

TypeChanged(a, b) == a.k # b.k

\* seedEma, for a throttle-ema route only.
SeedEma(e, r, v, at) ==
    IF spec[e] # "throttle-ema" THEN r
    ELSE [r EXCEPT !.ema = IF v.k = "num" THEN v ELSE Null, !.emitAt = at]

Between(a, b) == IF a.k # "num" THEN {b} ELSE {Num(n) : n \in {m \in Numbers : (a.n <= m /\ m <= b.n) \/ (b.n <= m /\ m <= a.n)}}

Abs(n) == IF n < 0 THEN -n ELSE n

\* What handleStateChanged makes of a sample: [emit, value, route] (the route
\* before append has touched it).
Debounced(e, v) ==
    LET r == route[e]
        same(x) == {[emit |-> FALSE, value |-> v, r |-> x]}
        out(val, x) == {[emit |-> TRUE, value |-> val, r |-> x]}
    IN IF ~r.has \/ TypeChanged(v, r.last) THEN out(v, SeedEma(e, r, v, clock))
       ELSE CASE spec[e] = "deadband" /\ v.k = "num" ->
                     IF Abs(v.n - r.last.n) >= Deadband THEN out(v, r) ELSE same(r)
              [] spec[e] = "throttle-ema" /\ v.k = "num" ->
                     UNION {LET s == [r EXCEPT !.ema = m]
                            IN IF r.emitAt = NoTime \/ clock - r.emitAt >= EmitInterval
                               THEN out(m, [s EXCEPT !.emitAt = clock]) ELSE same(s) : m \in Between(r.ema, v)}
              [] OTHER -> IF v # r.last THEN out(v, r) ELSE same(r)

\* append: the row is written first; a store that throws leaves the route as it
\* was prepared, without the emitted value.
Emitted(r, v) == [r EXCEPT !.has = TRUE, !.last = v]
RowAt(v) == [v |-> v, at |-> clock]

HandleStateChanged ==
    /\ on /\ wire # << >> /\ Head(wire).tag = "ev"
    /\ LET e == Head(wire).e
           s == Head(wire).s
       IN \E d \in Debounced(e, NormalizeState(s)) :
             /\ cache' = [cache EXCEPT ![e] = s]
             /\ wire' = Tail(wire)
             /\ vanished' = vanished \ {e}
             /\ \/ /\ d.emit
                   /\ rowsOf' = [rowsOf EXCEPT ![e] = Append(@, RowAt(d.value))]
                   /\ route' = [route EXCEPT ![e] = Emitted(d.r, d.value)]
                   /\ missed' = missed \ {e}
                   /\ UNCHANGED faulted
                \/ /\ d.emit /\ faulted < MaxStoreFaults
                   /\ faulted' = faulted + 1
                   /\ route' = [route EXCEPT ![e] = d.r]
                   /\ missed' = missed \cup {e}
                   /\ UNCHANGED rowsOf
                \/ /\ ~d.emit
                   /\ route' = [route EXCEPT ![e] = d.r]
                   /\ UNCHANGED <<rowsOf, missed, faulted>>
    /\ UNCHANGED <<outside, synced>>

\* The boot baseline of a route: the last row the store still has.
Baseline(e) ==
    LET r == route[e]
        rows == rowsOf[e]
        last == rows[Len(rows)]
    IN IF r.has \/ r.checked THEN r
       ELSE IF rows = << >> THEN [r EXCEPT !.checked = TRUE]
       ELSE SeedEma(e, [r EXCEPT !.checked = TRUE, !.has = TRUE, !.last = last.v], last.v, last.at)

\* Seeded fault: the snapshot is laid over the cache.
BugMerged(states) == [e \in Entities |-> IF states[e] = Absent THEN cache[e] ELSE states[e]]

\* The snapshot replaces the cache, entities it lacks included.
SnapshotCache(states) == states

\* handleSnapshot: a row for every entity that differs from its last one; an
\* append that throws leaves the entities after it (rest) unprocessed.
HandleSnapshot ==
    /\ on /\ wire # << >> /\ Head(wire).tag = "snap"
    /\ wire' = Tail(wire)
    /\ LET states == Head(wire).states
           held == {e \in Entities : states[e] # Absent}
           value(e) == NormalizeState(states[e])
           news == {e \in held : ~(Baseline(e).has /\ value(e) = Baseline(e).last)}
           seeded(e) == SeedEma(e, Baseline(e), value(e), clock)
       IN \E done \in SUBSET held :
             /\ done = held \/ (faulted < MaxStoreFaults /\ news \ done # {})
             /\ cache' = SnapshotCache(states)
             /\ rowsOf' = [e \in Entities |-> IF e \in done \cap news THEN Append(rowsOf[e], RowAt(value(e))) ELSE rowsOf[e]]
             /\ \E failed \in (IF done = held THEN {"none"} ELSE news \ done) :
                   route' = [e \in Entities |->
                               IF e \in done THEN (IF e \in news THEN Emitted(seeded(e), value(e)) ELSE Baseline(e))
                               ELSE IF e = failed THEN seeded(e) ELSE route[e]]
             /\ missed' = (missed \ done) \cup (held \ done)
             /\ faulted' = IF done = held THEN faulted ELSE faulted + 1
             /\ vanished' = (vanished \ held) \cup (Entities \ held)
    /\ synced' = TRUE
    /\ UNCHANGED outside

\* DELETE of the rows before the cutoff.  Rows are stored in the order of their
\* times, so the rows kept are those after the last old one.
Recent(rows, cutoff) ==
    LET old == CHOOSE n \in 0 .. Len(rows) : /\ \A i \in 1 .. n : rows[i].at < cutoff
                                             /\ \A i \in n + 1 .. Len(rows) : rows[i].at >= cutoff
    IN SubSeq(rows, old + 1, Len(rows))

\* The retention sweep, at start and from its timer.
Sweep ==
    /\ on
    /\ rowsOf' = [e \in Entities |-> Recent(rowsOf[e], clock - Retention)]
    /\ rowsOf' # rowsOf
    /\ UNCHANGED <<outside, wire, cache, route, synced, missed, vanished, faulted>>

\* start and stop of the bridge: its handlers come and go, its memory stays.
StartBridge ==
    /\ ~on
    /\ on' = TRUE
    /\ rowsOf' = [e \in Entities |-> Recent(rowsOf[e], clock - Retention)]
    /\ UNCHANGED <<spec, ha, link, wire, cache, route, clock, synced, missed, vanished, changes,
                   drops, faulted>>

StopBridge ==
    /\ on /\ drops < MaxDrops
    /\ on' = FALSE
    /\ drops' = drops + 1
    /\ synced' = FALSE
    /\ UNCHANGED <<spec, ha, link, wire, cache, route, rowsOf, clock, missed, vanished, changes,
                   faulted>>

\* A frame nobody listens to.
Unheard ==
    /\ ~on /\ wire # << >>
    /\ wire' = Tail(wire)
    /\ UNCHANGED <<outside, cache, route, rowsOf, synced, missed, vanished, faulted>>

------------------------------------------------------------------------------
\* Home Assistant and the connection.

Change(e, v) ==
    /\ changes < MaxChanges /\ ha[e] # v
    /\ changes' = changes + 1
    /\ ha' = [ha EXCEPT ![e] = v]
    /\ wire' = IF link \in {"subscribed", "answered"} THEN Append(wire, [tag |-> "ev", e |-> e, s |-> v]) ELSE wire
    /\ UNCHANGED <<spec, link, on, cache, route, rowsOf, clock, synced, missed, vanished, drops,
                   faulted>>

\* auth_ok; then the subscription is in place; then get_states is answered.
Advance ==
    /\ \/ link = "down" /\ link' = "up" /\ UNCHANGED wire
       \/ link = "up" /\ link' = "subscribed" /\ UNCHANGED wire
       \/ /\ link = "subscribed"
          /\ link' = "answered"
          /\ wire' = Append(wire, [tag |-> "snap", states |-> ha])
    /\ UNCHANGED <<spec, ha, on, cache, route, rowsOf, clock, synced, missed, vanished, changes,
                   drops, faulted>>

Drop ==
    /\ link # "down" /\ drops < MaxDrops
    /\ drops' = drops + 1
    /\ link' = "down" /\ wire' = << >> /\ synced' = FALSE
    /\ UNCHANGED <<spec, ha, on, cache, route, rowsOf, clock, missed, vanished, changes, faulted>>

\* The process restarts: the store survives.
Restart ==
    /\ drops < MaxDrops
    /\ drops' = drops + 1
    /\ link' = "down" /\ wire' = << >> /\ synced' = FALSE /\ on' = FALSE
    /\ cache' = [e \in Entities |-> Absent]
    /\ route' = [e \in Entities |-> FreshRoute]
    /\ UNCHANGED <<spec, ha, rowsOf, clock, missed, vanished, changes, faulted>>

Tick ==
    /\ clock < MaxClock
    /\ clock' = clock + 1
    /\ UNCHANGED <<spec, ha, link, wire, on, cache, route, rowsOf, synced, missed, vanished, changes,
                   drops, faulted>>

Init ==
    /\ spec \in [Entities -> Classes] /\ ha \in [Entities -> HaValues]
    /\ link = "down" /\ wire = << >> /\ on = FALSE
    /\ cache = [e \in Entities |-> Absent] /\ route = [e \in Entities |-> FreshRoute]
    /\ rowsOf = [e \in Entities |-> << >>] /\ clock = 0 /\ synced = FALSE
    /\ missed = {} /\ vanished = {} /\ changes = 0 /\ drops = 0 /\ faulted = 0

Next ==
    \/ HandleStateChanged \/ HandleSnapshot \/ Sweep \/ StartBridge \/ StopBridge \/ Unheard
    \/ Advance \/ Drop \/ Restart \/ Tick
    \/ \E e \in Entities, v \in HaValues : Change(e, v)

Spec == Init /\ [][Next]_bridgeVars

\* Type invariant of the bridge.
TypeOK ==
    /\ spec \in [Entities -> Classes] /\ ha \in [Entities -> HaValues] /\ cache \in [Entities -> HaValues]
    /\ link \in {"down", "up", "subscribed", "answered"} /\ clock \in 0 .. MaxClock
    /\ missed \subseteq Entities /\ vanished \subseteq Entities /\ faulted \in 0 .. MaxStoreFaults

\* How far the last row may be from the entity's state: a number within the
\* deadband, any number for an average, nothing else.
InBand(e, v, last) ==
    \/ v = last
    \/ v.k = "num" /\ last.k = "num" /\ spec[e] = "throttle-ema"
    \/ v.k = "num" /\ last.k = "num" /\ spec[e] = "deadband" /\ Abs(v.n - last.n) < Deadband

\* Once a snapshot of this connection was handled and nothing is on the wire, the
\* live cache is Home Assistant's state, and the last row of every routed entity
\* stands for it, within what its debounce class allows: outages, restarts and
\* reordered phases of the connection lose no change for good.  Excepted are
\* entities whose append threw, and ones that were removed unseen.
RowsFollowHome ==
    (on /\ synced /\ wire = << >>) =>
        /\ cache = ha
        /\ \A e \in Entities \ (missed \cup vanished) :
              /\ route[e].has /\ InBand(e, NormalizeState(ha[e]), route[e].last)
              /\ rowsOf[e] # << >> => rowsOf[e][Len(rowsOf[e])].v = route[e].last
=============================================================================
