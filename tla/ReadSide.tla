------------------------------- MODULE ReadSide -------------------------------
(***************************************************************************)
(* What follows, serves or condenses the journal and the home's signals:   *)
(* projections and sagas over a category tail, the journal client and its  *)
(* read model, the HTTP routes with their event stream, windows and        *)
(* detectors, the Home Assistant bridge and the connection under it.  They *)
(* share no state, so one of them runs in a behaviour, the one `deployed`  *)
(* names, and TLC explores their union and not their product.  Projection  *)
(* and Saga share the variables of the tail.                               *)
(***************************************************************************)
EXTENDS Integers, Sequences

CONSTANTS
    Categories, Entities, MaxWrites, PageSize, MaxCrashes,              \* CategoryTail
    MaxRebuilds, MaxPoison, WaitFor,                                    \* Projection
    MaxRuns,                                                            \* Saga
    Starters, MaxStarts, Others, MaxEvents, MaxAttempts, MaxFailures,   \* JournalClient
    MaxRequests, MaxBatch,                                              \* HttpCommands
    Subscribers, QueueLimit, PageLimit, MaxRows, MaxDeletes,            \* HttpFeeds
    Routed, Numbers, Deadband, EmitInterval, Retention, MaxHaClock,     \* HaBridge
    MaxChanges, MaxDrops, MaxStoreFaults,
    EventTypes, Triggers, Commands, InitialBackoff, MaxBackoff,         \* HaClient
    MaxConnections, MaxIds, MaxToggles,
    WindowMs, HopMs, Values, Threshold, ClearBelow, SustainMs,          \* Windows
    MinIncrement, IncrementMs, MaxLag, MaxClock, MaxSamples

\* What the options of the journal client and of the routes are: counts.
ASSUME CountAssumption == Others \in Nat /\ MaxStarts \in Nat /\ MaxBatch \in Nat /\ PageLimit \in Nat \ {0} /\ PageSize \in Nat

\* Step i of a saga reads category i, from 0 on.
ASSUME SourceAssumption == 0 \in Categories

\* The Home Assistant client keeps its event types and its triggers in registries of their own.
ASSUME RegistrationAssumption == EventTypes \cap Triggers = {}

\* Numeric states, the deadband and the retention are numbers.
ASSUME HomeAssumption == Numbers \subseteq Int /\ Deadband \in Int /\ Retention \in Int

\* Lengths of time, samples and thresholds are numbers, and a tile has some length.
ASSUME WindowAssumption ==
    /\ WindowMs \in Nat /\ HopMs \in Nat \ {0} /\ Values \subseteq Int
    /\ Threshold \in Int /\ ClearBelow \in Int /\ SustainMs \in Int /\ MinIncrement \in Int /\ IncrementMs \in Int

VARIABLES
    deployed,
    backend, log, written, reused, top, tail, crashes,
    driver, view, viewNr, offset, rec, pass, runner, waiter, torn, era,
    kind, mode, at, held, offs, step, answered, batch, runs,
    len, pc, used, others, waiting, registered, state, rows, left, cache, reader, stopped, failures,
    sequenceNr, requests,
    journalRows, deletes, published, streams, walk,
    spec, ha, link, wire, on, entityCache, route, rowsOf, haClock, synced, missed, vanished,
    changes, drops, faulted,
    life, socket, generation, connected, backoff, reconnectTimer, handshake, pinging, awaitingPong,
    nextId, pending, timers, called, handlers, evSub, trigger, trigSub, boot, unanswered, subs,
    refused, opened, toggles,
    clock, samples, entries, tiles, sustained, anchor, fired, increments

tailState == <<backend, log, written, reused, top, tail, crashes>>
projectionState == <<driver, view, viewNr, offset, rec, pass, runner, waiter, torn, era>>
sagaState == <<kind, mode, at, held, offs, step, answered, batch, runs>>
clientState == <<len, pc, used, others, waiting, registered, state, rows, left, cache, reader, stopped, failures>>
commandState == <<sequenceNr, requests>>
feedState == <<journalRows, deletes, published, streams, walk>>
bridgeState == <<spec, ha, link, wire, on, entityCache, route, rowsOf, haClock, synced, missed, vanished,
    changes, drops, faulted>>
haState == <<life, socket, generation, connected, backoff, reconnectTimer, handshake, pinging, awaitingPong,
    nextId, pending, timers, called, handlers, evSub, trigger, trigSub, boot, unanswered, subs,
    refused, opened, toggles>>
windowState == <<clock, samples, entries, tiles, sustained, anchor, fired, increments>>

Proj == INSTANCE Projection
Sagas == INSTANCE Saga
Client == INSTANCE JournalClient
Commanding == INSTANCE HttpCommands
Feeds == INSTANCE HttpFeeds WITH rows <- journalRows
Bridge == INSTANCE HaBridge WITH Entities <- Routed, MaxClock <- MaxHaClock,
                                 cache <- entityCache, clock <- haClock
Ha == INSTANCE HaClient
Win == INSTANCE Windows

Components == {"projection", "saga", "client", "commands", "feeds", "bridge", "ha", "windows"}

\* A component that does not run starts in one of its initial states, always the same.
Init ==
    /\ deployed \in Components
    /\ Proj!Init /\ Sagas!Init /\ Client!Init /\ Commanding!CommandsInit /\ Feeds!FeedsInit /\ Bridge!Init /\ Ha!Init /\ Win!WindowsInit
    /\ deployed \notin {"projection", "saga"} => backend = "inmem"
    /\ deployed # "projection" => driver = "tail"
    /\ deployed # "saga" => kind = "stateful" /\ mode = "tail"
    /\ deployed # "bridge" => /\ spec = [e \in Routed |-> "on-change"]
                              /\ ha = [e \in Routed |-> Bridge!Absent]

ProjectionRuns ==
    /\ deployed = "projection" /\ Proj!Next
    /\ UNCHANGED <<deployed, sagaState, clientState, commandState, feedState, bridgeState, haState, windowState>>

SagaRuns ==
    /\ deployed = "saga" /\ Sagas!Next
    /\ UNCHANGED <<deployed, projectionState, clientState, commandState, feedState, bridgeState, haState, windowState>>

ClientRuns ==
    /\ deployed = "client" /\ Client!Next
    /\ UNCHANGED <<deployed, tailState, projectionState, sagaState, commandState, feedState, bridgeState, haState, windowState>>

CommandsRun ==
    /\ deployed = "commands" /\ Commanding!CommandsNext
    /\ UNCHANGED <<deployed, tailState, projectionState, sagaState, clientState, feedState, bridgeState, haState, windowState>>

FeedsRun ==
    /\ deployed = "feeds" /\ Feeds!FeedsNext
    /\ UNCHANGED <<deployed, tailState, projectionState, sagaState, clientState, commandState, bridgeState, haState, windowState>>

BridgeRuns ==
    /\ deployed = "bridge" /\ Bridge!Next
    /\ UNCHANGED <<deployed, tailState, projectionState, sagaState, clientState, commandState, feedState, haState, windowState>>

HaRuns ==
    /\ deployed = "ha" /\ Ha!Next
    /\ UNCHANGED <<deployed, tailState, projectionState, sagaState, clientState, commandState, feedState, bridgeState, windowState>>

WindowsRun ==
    /\ deployed = "windows" /\ Win!WindowsNext
    /\ UNCHANGED <<deployed, tailState, projectionState, sagaState, clientState, commandState, feedState, bridgeState, haState>>

Next == ProjectionRuns \/ SagaRuns \/ ClientRuns \/ CommandsRun \/ FeedsRun \/ BridgeRuns \/ HaRuns \/ WindowsRun

vars == <<deployed, tailState, projectionState, sagaState, clientState, commandState, feedState, bridgeState, haState, windowState>>

Spec == Init /\ [][Next]_vars

-----------------------------------------------------------------------------

\* Every component keeps the types of its state.
TypeOK ==
    /\ deployed \in Components
    /\ deployed = "projection" => Proj!TypeOK
    /\ deployed = "saga" => Sagas!TypeOK
    /\ deployed = "client" => Client!TypeOK
    /\ deployed = "commands" => Commanding!CommandsTypeOK
    /\ deployed = "feeds" => Feeds!FeedsTypeOK
    /\ deployed = "bridge" => Bridge!TypeOK
    /\ deployed = "ha" => Ha!TypeOK
    /\ deployed = "windows" => Win!WindowsTypeOK

\* A projection passes over no event in silence, across the seam of backlog and live
\* events, crashes, rebuilds and two runners of one view, and leaves no awaitView call
\* waiting over a view that satisfies it (projection/index.ts, projection/tailing.ts).
ProjectionSound == deployed = "projection" => Proj!NoSilentGap /\ Proj!NoWaiterLeftBehind

\* The projection implements ViewSpec: views and offsets move together, in order and
\* each event once (putWithOffset, offsetGuardedFold).
ImplementsViewSpec == Proj!ImplementsViewSpec

\* A saga passes over no event it did not try, and runs the steps of one entity one
\* after the other, in their order (saga/tailing.ts, saga/index.ts).
SagaSound == deployed = "saga" => Sagas!NoUntriedEvent /\ Sagas!ExecutesAtItsTurn

\* The journal client loses no start slot and leaves nobody queueing for a free one
\* (waitForStartSlot, releaseStartSlot).
NoSlotLost == deployed = "client" => Client!NoSlotLost

\* A load in flight never replaces what a subscription confirmed (read-model.ts).
ConsistentEntryKept == Client!ConsistentEntryKept

\* The HTTP routes: of the requests that carry the same If-Match version at most one
\* succeeds with an event; a subscriber of the stream gets every frame from its first to
\* its last without a hole, and a walk through the pages of the journal view meets every
\* row that was there throughout (aggregate-routes.ts, sse.ts, views.ts, queryEvents).
HttpSound ==
    /\ deployed = "commands" => Commanding!OneWinnerPerVersion
    /\ deployed = "feeds" => Feeds!StreamHasNoHole /\ Feeds!WalkMissesNothing

\* The last row the bridge wrote is what the home shows, up to the debounce of its route,
\* across reconnects, snapshots and failing appends (ha/bridge.ts).
RowsFollowHome == deployed = "bridge" => Bridge!RowsFollowHome

\* The connection to the home: every waiting command will be settled, every handler is
\* subscribed on this connection, and a started client is always driven by some timer
\* or socket (ha/client.ts).
HaClientSound == deployed = "ha" => Ha!NoOrphanCommand /\ Ha!HandlersAreFed /\ Ha!AlwaysDriven

\* Windows hold what they promise however late events are recorded, and the detectors
\* report nothing the samples do not justify (core/window.ts, ha/detectors.ts).
WindowsSound == deployed = "windows" => Win!WindowIsExact /\ Win!DetectorsAreSound
===============================================================================
