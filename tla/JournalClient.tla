---------------------------- MODULE JournalClient ----------------------------
(***************************************************************************)
(* The journal client and the read model it feeds                          *)
(* (src/src/core/journal-client.ts, read-model.ts, aggregation.ts, and the  *)
(* ReadJournal of journal.ts and sqlite/read-journal.ts, whose streams are  *)
(* finite: they hold the rows found when the query ran).                    *)
(*                                                                         *)
(* One persistence id is followed closely; the subscriptions of the other  *)
(* ids only count as holders of start slots.  Every id is seen by the       *)
(* preload and again by the id stream, so several starters may ask for the *)
(* same subscription.  A state is its ordinal: the events applied to it.   *)
(***************************************************************************)
EXTENDS Integers, Sequences, FiniteSets

CONSTANTS Starters,      \* calls of startSubscription for the id
          MaxStarts,     \* maxConcurrentSubscriptionStarts
          Others,        \* subscriptions of other ids running at first
          MaxEvents,     \* bound: events of the id
          MaxAttempts,   \* subscriptionRestartMaxAttempts
          MaxFailures    \* bound: stream failures

VARIABLES len,        \* events of the id in the journal
          pc,         \* [starter -> where its subscription stands]
          used,       \* concurrentStarts
          others,     \* other subscriptions holding a slot
          waiting,    \* startQueue
          registered, \* subscribed.has(key)
          state,      \* [starter -> ordinal of its currentState, -1 before getState]
          rows,       \* [starter -> ordinals left of its event stream]
          left,       \* [starter -> attempts left]
          cache,      \* the read model's entry for the id
          reader,     \* a get(id) that missed: the ordinal it loaded, or -1
          stopped,    \* the client's abort signal
          failures

clientVars == <<len, pc, used, others, waiting, registered, state, rows, left, cache, reader, stopped, failures>>

NoEntry == [ord |-> -1, consistent |-> FALSE]

\* fetchIds or streamIds hands the id to one more starter, which returns at once
\* when a subscription is registered or the client is stopped.
Discover(s) ==
    /\ pc[s] = "new"
    /\ pc' = [pc EXCEPT ![s] = IF registered \/ stopped THEN "done" ELSE "slot"]
    /\ UNCHANGED <<len, used, others, waiting, registered, state, rows, left, cache, reader, stopped, failures>>

\* waitForStartSlot: queue up while every slot is taken, and look again when woken.
QueueUp(s) ==
    /\ pc[s] = "slot" /\ used >= MaxStarts
    /\ pc' = [pc EXCEPT ![s] = "queued"]
    /\ waiting' = Append(waiting, s)
    /\ UNCHANGED <<len, used, others, registered, state, rows, left, cache, reader, stopped, failures>>

TakeSlot(s) ==
    /\ pc[s] = "slot" /\ used < MaxStarts
    /\ used' = used + 1
    /\ registered' = TRUE
    /\ pc' = [pc EXCEPT ![s] = IF stopped THEN "ended" ELSE "interval"]
    /\ left' = [left EXCEPT ![s] = MaxAttempts]
    /\ UNCHANGED <<len, others, waiting, state, rows, cache, reader, stopped, failures>>

\* Seeded fault: a slot is given back and nobody is told.
BugSilentRelease ==
    /\ used' = used - 1
    /\ UNCHANGED waiting

\* releaseStartSlot: the first in the queue is woken.
Release ==
    /\ used' = used - 1
    /\ waiting' = IF waiting = << >> THEN waiting ELSE Tail(waiting)

\* The starters a release sends back to look at the slots.
Woken == {s \in Starters : pc[s] = "queued" /\ \A i \in 1 .. Len(waiting) : waiting[i] # s}

Wake(s) ==
    /\ s \in Woken
    /\ pc' = [pc EXCEPT ![s] = "slot"]
    /\ UNCHANGED <<len, used, others, waiting, registered, state, rows, left, cache, reader, stopped, failures>>

\* A subscription of another id ends.
OtherEnds ==
    /\ others > 0
    /\ others' = others - 1
    /\ Release
    /\ UNCHANGED <<len, pc, registered, state, rows, left, cache, reader, stopped, failures>>

\* interval, then events(id, from): a subscription starts at the last ordinal its
\* store knows, and its stream holds what the journal holds now.
OpenStream(s) ==
    /\ pc[s] = "interval"
    /\ \E from \in 0 .. len :
         rows' = [rows EXCEPT ![s] = [i \in 1 .. len - from + (IF from = 0 THEN 0 ELSE 1) |->
                                         IF from = 0 THEN i ELSE from + i - 1]]
    /\ state' = [state EXCEPT ![s] = -1]
    /\ pc' = [pc EXCEPT ![s] = "stream"]
    /\ UNCHANGED <<len, used, others, waiting, registered, left, cache, reader, stopped, failures>>

\* The first event makes the subscription load its state: some earlier ordinal.
LoadState(s) ==
    /\ pc[s] = "stream" /\ rows[s] # << >> /\ state[s] = -1
    /\ \E k \in 0 .. len : state' = [state EXCEPT ![s] = k]
    /\ UNCHANGED <<len, pc, used, others, waiting, registered, rows, left, cache, reader, stopped, failures>>

\* updateConsistent: the entry is the applied state.
UpdateConsistent(k) == [ord |-> k, consistent |-> TRUE]

\* The next event: applied when it follows the state, skipped when it is from
\* the past, and given to onGap (which keeps the state) when it is ahead.
NextEvent(s) ==
    /\ pc[s] = "stream" /\ rows[s] # << >> /\ state[s] # -1
    /\ rows' = [rows EXCEPT ![s] = Tail(@)]
    /\ IF Head(rows[s]) = state[s] + 1
       THEN /\ state' = [state EXCEPT ![s] = @ + 1]
            /\ cache' = UpdateConsistent(state[s] + 1)
       ELSE UNCHANGED <<state, cache>>
    /\ UNCHANGED <<len, pc, used, others, waiting, registered, left, reader, stopped, failures>>

\* The stream ends: the registration is dropped and the slot released.
StreamEnds(s) ==
    /\ \/ pc[s] = "stream" /\ rows[s] = << >>
       \/ pc[s] = "ended"
    /\ pc' = [pc EXCEPT ![s] = "done"]
    /\ registered' = FALSE
    /\ Release
    /\ UNCHANGED <<len, others, state, rows, left, cache, reader, stopped, failures>>

\* A transient failure: try again while attempts are left, and once more after
\* each longest delay when they are not.
StreamFails(s) ==
    /\ pc[s] = "stream" /\ failures < MaxFailures
    /\ failures' = failures + 1
    /\ pc' = [pc EXCEPT ![s] = IF stopped THEN "ended" ELSE "interval"]
    /\ left' = [left EXCEPT ![s] = IF @ > 0 THEN @ - 1 ELSE 1]
    /\ UNCHANGED <<len, used, others, waiting, registered, state, rows, cache, reader, stopped>>

\* A failure that is not transient ends the subscription and stops the client.
FatalError(s) ==
    /\ pc[s] = "stream" /\ failures < MaxFailures
    /\ failures' = failures + 1
    /\ pc' = [pc EXCEPT ![s] = "ended"]
    /\ stopped' = TRUE
    /\ UNCHANGED <<len, used, others, waiting, registered, state, rows, left, cache, reader>>

StopClient ==
    /\ ~stopped /\ stopped' = TRUE
    /\ UNCHANGED <<len, pc, used, others, waiting, registered, state, rows, left, cache, reader, failures>>

\* Seeded fault: a best-effort state replaces a consistent one.
BugOverwrite(k) == [ord |-> k, consistent |-> FALSE]

\* updateBestEffort keeps a consistent entry.
UpdateBestEffort(k) == IF cache.consistent THEN cache ELSE [ord |-> k, consistent |-> FALSE]

\* get(id) that misses the cache loads the state, and awaits.
ReaderMisses ==
    /\ reader = -1 /\ cache = NoEntry
    /\ \E k \in 0 .. len : reader' = k
    /\ UNCHANGED <<len, pc, used, others, waiting, registered, state, rows, left, cache, stopped, failures>>

ReaderFills ==
    /\ reader # -1
    /\ cache' = UpdateBestEffort(reader)
    /\ reader' = -1
    /\ UNCHANGED <<len, pc, used, others, waiting, registered, state, rows, left, stopped, failures>>

\* The eviction timer finds the entry unread for its time to live.
Evict ==
    /\ cache # NoEntry
    /\ cache' = NoEntry
    /\ UNCHANGED <<len, pc, used, others, waiting, registered, state, rows, left, reader, stopped, failures>>

Persist ==
    /\ len < MaxEvents
    /\ len' = len + 1
    /\ UNCHANGED <<pc, used, others, waiting, registered, state, rows, left, cache, reader, stopped, failures>>

Init ==
    /\ len = 0 /\ used = Others /\ others = Others /\ waiting = << >> /\ registered = FALSE
    /\ pc = [s \in Starters |-> "new"]
    /\ state = [s \in Starters |-> -1] /\ rows = [s \in Starters |-> << >>]
    /\ left = [s \in Starters |-> 0]
    /\ cache = NoEntry /\ reader = -1 /\ stopped = FALSE /\ failures = 0

Next ==
    \/ \E s \in Starters :
           \/ Discover(s) \/ QueueUp(s) \/ TakeSlot(s) \/ Wake(s) \/ OpenStream(s) \/ LoadState(s)
           \/ NextEvent(s) \/ StreamEnds(s) \/ StreamFails(s) \/ FatalError(s)
    \/ OtherEnds \/ StopClient \/ ReaderMisses \/ ReaderFills \/ Evict \/ Persist

Ordinals == -1 .. MaxEvents

\* Type invariant of the journal client and the read model.
TypeOK ==
    /\ len \in 0 .. MaxEvents /\ used \in 0 .. MaxStarts /\ others \in 0 .. Others
    /\ pc \in [Starters -> {"new", "slot", "queued", "interval", "stream", "ended", "done"}]
    /\ waiting \in Seq(Starters) /\ registered \in BOOLEAN
    /\ state \in [Starters -> Ordinals] /\ rows \in [Starters -> Seq(1 .. MaxEvents)]
    /\ left \in [Starters -> 0 .. MaxAttempts + 1]
    /\ cache \in [ord : Ordinals, consistent : BOOLEAN] /\ reader \in Ordinals
    /\ stopped \in BOOLEAN /\ failures \in 0 .. MaxFailures

Running == {s \in Starters : pc[s] \in {"interval", "stream", "ended"}}

\* No start slot is lost: the count is that of the running subscriptions, and
\* when somebody queues for a slot either all are taken or a woken starter is
\* about to look again (waitForStartSlot, releaseStartSlot).
NoSlotLost ==
    /\ used = Cardinality(Running) + others
    /\ waiting # << >> => used >= MaxStarts \/ Woken # {} \/ \E s \in Starters : pc[s] = "slot"

\* What the read model has confirmed is only replaced by an applied event: a
\* load that was in flight when a subscription confirmed the entry never takes
\* its place.  (A subscription that starts over, or a second one of the same id,
\* which the check made before the wait for a slot lets in, applies events again
\* and so moves the entry back for a while.)
ConsistentEntryKept ==
    [][cache.consistent => \/ cache' = NoEntry
                           \/ cache' = cache
                           \/ \E s \in Starters : state'[s] = state[s] + 1 /\ cache' = UpdateConsistent(state'[s])
      ]_clientVars

Spec == Init /\ [][Next]_clientVars
=============================================================================
