--------------------------- MODULE EntityRuntime ---------------------------
(***************************************************************************)
(* The entity runtime of teob-ts: one aggregate category (the Module of    *)
(* src/src/inmem/runtime.ts) and the runners of its entities               *)
(* (src/src/inmem/entity-runner.ts) over the synchronous journal (Journal).*)
(* The SQLite runtime is the same code over another journal.               *)
(*                                                                         *)
(* A runner is one incarnation of an entity.  It owns a mailbox, recovers  *)
(* from the journal when it is created and then processes one message at a *)
(* time: decide, then the chain of effects that decide returned.  It ends  *)
(* on Stop or on the first exception, and the next command for the entity  *)
(* creates a fresh incarnation.                                            *)
(*                                                                         *)
(* JavaScript interleaves only at an await.  Here a step is one effect or  *)
(* one call of user code; two effects in a row, which the code runs without*)
(* giving up the thread, may be separated, as a Run between them would do. *)
(*                                                                         *)
(* User code (decide, the side effect of a Run, onRecoveryComplete) is     *)
(* arbitrary: it may call any method of EffectControl any number of times, *)
(* choose any effect next, or throw.  Its data is abstracted: an event is  *)
(* named by the command that caused it, and an entity's state is the list  *)
(* of events applied to it, the fold that forgets nothing.                 *)
(***************************************************************************)
EXTENDS Journal

CONSTANTS
    Entity,         \* entity ids of the category
    Runner,         \* incarnations; their number bounds how many are created
    Msg,            \* commands; each is sent at most once, except by a
                    \* periodic timer
    TimerId,        \* names of an entity's timers
    None,           \* absence of a runner, a command or a timer
    StopMsg,        \* the mailbox message Stop
    SnapshotEvery,  \* Aggregate.snapshotEvery; 0 disables auto-snapshots
    HasHook,        \* whether the aggregate defines onRecoveryComplete
    Uses,           \* the EffectControl methods and effects user code uses
    MaxSeq,         \* bound on an entity's sequence numbers
    MaxBatch,       \* bound on the events of one Persist
    MaxChain,       \* bound on the effects of one chain
    MaxMailbox      \* bound on a mailbox that timers and syncs may fill

\* What user code may use, for Uses.
AllUses == {"tellSelf", "tell", "ask", "timer", "sync", "Run", "Snapshot",
            "Stash", "Unstash", "Stop", "ReplyDeferred", "throw", "shutdown"}

ASSUME RuntimeAssumption ==
    /\ None \notin Runner \cup Msg \cup {StopMsg}
    /\ StopMsg \notin Msg
    /\ SnapshotEvery \in Nat
    /\ HasHook \in BOOLEAN
    /\ Uses \subseteq AllUses
    /\ MaxSeq \in Nat
    /\ MaxBatch \in Nat
    /\ MaxChain \in Nat
    /\ MaxMailbox \in Nat

VARIABLES
    entities,   \* the module's Map: entity -> its current runner
    status,     \* runner -> "unborn" | "live" | "exiting" | "terminated"
    home,       \* runner -> the entity it was created for
    mailbox,    \* runner -> queued messages
    work,       \* runner -> stack of commands being processed, top first
    state,      \* runner -> events applied to the aggregate state
    seqNr,      \* runner -> entityState.sequenceNr
    stash,      \* runner -> stashed commands, with their reply handles
    since,      \* runner -> eventsSinceSnapshot
    timers,     \* runner -> activeTimers
    syncs,      \* sync effects in flight: <<runner, command>>
    rows,       \* entity -> its journal
    snapshot,   \* entity -> the stored snapshot
    published,  \* entity -> records handed to onPersisted
    answer,     \* command -> what its sender knows of it
    pre,        \* command -> preSequenceNr its reply handle captured
    post,       \* command -> sequenceNr its answer carried
    held,       \* command -> sequenceNr an open ReplyDeferred holds, or -1
    shutdown,   \* "up" | "stopping" | "down"
    awaited     \* the runners shutdown() waits for

runnerVars  == <<entities, status, home, mailbox, work>>
entityVars  == <<state, seqNr, stash, since>>
timerVars   == <<timers, syncs>>
journalVars == <<rows, snapshot, published>>
askVars     == <<answer, pre, post, held>>
stopVars    == <<shutdown, awaited>>
vars == <<runnerVars, entityVars, timerVars, journalVars, askVars, stopVars>>

-----------------------------------------------------------------------------
(* Runners and their frames.  A frame is a call of processCommand (or of    *)
(* onRecoveryComplete); `left` bounds the effects of its chain, `on` is the *)
(* command whose answer its user code awaits.                               *)

NoSnapshot == [seq |-> 0, state |-> << >>]

DecideFrame(m) == [m |-> m, phase |-> "decide", left |-> MaxChain, on |-> None]
HookFrame      == [m |-> None, phase |-> "hook", left |-> 0, on |-> None]

Top(r)    == Head(work[r])
Bottom(r) == work[r][Len(work[r])]

\* The runner's user code is running and is not waiting for an answer.
InUserCode(r) ==
    /\ status[r] = "live"
    /\ work[r] # << >>
    /\ Top(r).phase \in {"decide", "run", "hook"}
    /\ Top(r).on = None

\* The runner is about to execute an effect of its chain.
AtEffect(r) ==
    /\ status[r] = "live"
    /\ work[r] # << >>
    /\ Top(r).phase = "effect"

\* The same, for an effect that has an andThen.
AtChainedEffect(r) == AtEffect(r) /\ Top(r).left > 1

Consumed(r)  == <<[Top(r) EXCEPT !.left = @ - 1]>> \o Tail(work[r])
Popped(r)    == Tail(work[r])
IsFresh(m)   == answer[m] = "unsent"

\* A reply handle settles its promise once; a later call has no effect, and a
\* tell has no handle.
Settle(m, outcome) ==
    IF answer[m] = "pending" THEN [answer EXCEPT ![m] = outcome] ELSE answer

\* Seeded fault: the answer carries the number from before the command.
BugSettleAtPre(m, seq) ==
    IF answer[m] = "pending" THEN [post EXCEPT ![m] = pre[m]] ELSE post

SettleAt(m, seq) ==
    IF answer[m] = "pending" THEN [post EXCEPT ![m] = seq] ELSE post

-----------------------------------------------------------------------------
(* Creating a runner, and delivering a message to an entity.                *)

\* recover(): the snapshot, then the events stored after it.
RecoveredState(e, base) == base.state \o LoadEvents(rows[e], base.seq)

\* Seeded fault: the replay does not move the sequence number.
BugSeqOfSnapshot(e, base) == base.seq

RecoveredSeq(e, base) == LastSequenceNr(rows[e], base.seq)

\* Recovery succeeds, from the snapshot or, when it cannot be decoded or
\* ignoreSnapshotsOnRecovery is set, from the first event.
Recover(e, r) ==
    \E base \in {snapshot[e], NoSnapshot} :
        /\ state' = [state EXCEPT ![r] = RecoveredState(e, base)]
        /\ seqNr' = [seqNr EXCEPT ![r] = RecoveredSeq(e, base)]
        /\ since' = [since EXCEPT ![r] = 0]
        /\ stash' = [stash EXCEPT ![r] = << >>]

\* createEntityRunner: recovery runs before the first await, so the message
\* that caused the creation is offered after it.  w is the stacks of the
\* other runners after this step.
Create(e, r, x, w) ==
    /\ status[r] = "unborn"
    /\ entities' = [entities EXCEPT ![e] = r]
    /\ home' = [home EXCEPT ![r] = e]
    /\ mailbox' = [mailbox EXCEPT ![r] = <<x>>]
    /\ \/ /\ Recover(e, r)
          /\ status' = [status EXCEPT ![r] = "live"]
          /\ work' = [w EXCEPT ![r] = IF HasHook THEN <<HookFrame>> ELSE << >>]
       \/ /\ "throw" \in Uses
          /\ status' = [status EXCEPT ![r] = "exiting"]
          /\ work' = w
          /\ UNCHANGED entityVars

\* Seeded fault: a runner that has left its loop counts as terminated.
BugDeliverToLiveOnly(e, x, w) ==
    IF entities[e] # None /\ status[entities[e]] = "live"
    THEN /\ mailbox' = [mailbox EXCEPT ![entities[e]] = Append(@, x)]
         /\ work' = w
         /\ UNCHANGED <<entities, status, home, entityVars>>
    ELSE \E r \in Runner : Create(e, r, x, w)

\* Module.tell / Module.ask: getOrCreate(e), then offer x.
Deliver(e, x, w) ==
    IF entities[e] # None /\ status[entities[e]] # "terminated"
    THEN /\ mailbox' = [mailbox EXCEPT ![entities[e]] = Append(@, x)]
         /\ work' = w
         /\ UNCHANGED <<entities, status, home, entityVars>>
    ELSE \E r \in Runner : Create(e, r, x, w)

\* m goes out, as a tell (and as a timer's or a sync's command) or an ask.
SentTell(m) == IsFresh(m) /\ answer' = [answer EXCEPT ![m] = "tell"]
SentAsk(m)  == IsFresh(m) /\ answer' = [answer EXCEPT ![m] = "pending"]

-----------------------------------------------------------------------------
(* Clients of the runtime.                                                  *)

ClientTell(e, m) ==
    /\ SentTell(m)
    /\ Deliver(e, m, work)
    /\ UNCHANGED <<timerVars, journalVars, pre, post, held, stopVars>>

ClientAsk(e, m) ==
    /\ SentAsk(m)
    /\ Deliver(e, m, work)
    /\ UNCHANGED <<timerVars, journalVars, pre, post, held, stopVars>>

\* The timer Module.ask starts; the ask itself stays where it is.
AskTimeout(m) ==
    /\ answer[m] = "pending"
    /\ answer' = [answer EXCEPT ![m] = "timeout"]
    /\ UNCHANGED <<runnerVars, entityVars, timerVars, journalVars, pre, post,
                   held, stopVars>>

-----------------------------------------------------------------------------
(* The message loop.                                                        *)

\* The loop waits in mailbox.take().
Idle(r) == status[r] = "live" /\ work[r] = << >> /\ mailbox[r] # << >>

\* Ask, Tell and TimerFired: an ask's reply handle captures the sequence
\* number of this moment.
Take(r) ==
    LET m == Head(mailbox[r]) IN
    /\ Idle(r)
    /\ m # StopMsg
    /\ mailbox' = [mailbox EXCEPT ![r] = Tail(@)]
    /\ work' = [work EXCEPT ![r] = <<DecideFrame(m)>>]
    /\ pre' = IF answer[m] = "tell" THEN pre ELSE [pre EXCEPT ![m] = seqNr[r]]
    /\ UNCHANGED <<entities, status, home, entityVars, timerVars, journalVars,
                   answer, post, held, stopVars>>

TakeStop(r) ==
    /\ Idle(r)
    /\ Head(mailbox[r]) = StopMsg
    /\ mailbox' = [mailbox EXCEPT ![r] = Tail(@)]
    /\ status' = [status EXCEPT ![r] = "exiting"]
    /\ UNCHANGED <<entities, home, work, entityVars, timerVars, journalVars,
                   askVars, stopVars>>

\* Seeded fault: the mailbox is not drained.
BugTerminateKeepsMailbox(r) ==
    /\ status[r] = "exiting"
    /\ status' = [status EXCEPT ![r] = "terminated"]
    /\ timers' = [timers EXCEPT ![r] = [t \in TimerId |-> None]]
    /\ entities' = [entities EXCEPT ![home[r]] = IF @ = r THEN None ELSE @]
    /\ UNCHANGED <<mailbox, home, work, entityVars, syncs, journalVars, askVars,
                   stopVars>>

\* terminate(): timers cancelled, queued asks failed, queued tells dropped,
\* the map entry removed if it is still this runner.
Terminate(r) ==
    LET queued == {mailbox[r][i] : i \in DOMAIN mailbox[r]} IN
    /\ status[r] = "exiting"
    /\ status' = [status EXCEPT ![r] = "terminated"]
    /\ timers' = [timers EXCEPT ![r] = [t \in TimerId |-> None]]
    /\ mailbox' = [mailbox EXCEPT ![r] = << >>]
    /\ answer' = [m \in Msg |-> IF m \in queued /\ answer[m] = "pending"
                                THEN "failed" ELSE answer[m]]
    /\ entities' = [entities EXCEPT ![home[r]] = IF @ = r THEN None ELSE @]
    /\ UNCHANGED <<home, work, entityVars, syncs, journalVars, pre, post, held,
                   stopVars>>

\* Seeded fault: the asker does not learn of the exception.
BugCrashSilently(r) ==
    /\ status' = [status EXCEPT ![r] = "exiting"]
    /\ work' = [work EXCEPT ![r] = << >>]
    /\ UNCHANGED answer

\* The runner is left by an exception: the message of the loop, if it is an
\* ask, is answered with the cause, and run() rejects.
Crash(r) ==
    /\ status' = [status EXCEPT ![r] = "exiting"]
    /\ work' = [work EXCEPT ![r] = << >>]
    /\ answer' = IF Bottom(r).m = None THEN answer
                 ELSE Settle(Bottom(r).m, "failed")
-----------------------------------------------------------------------------
(* EffectControl: what user code may do before it returns.                  *)

TellSelf(r, m) ==
    /\ "tellSelf" \in Uses
    /\ InUserCode(r)
    /\ SentTell(m)
    /\ mailbox' = [mailbox EXCEPT ![r] = Append(@, m)]
    /\ UNCHANGED <<entities, status, home, work, entityVars, timerVars,
                   journalVars, pre, post, held, stopVars>>

CtxTell(r, e, m) ==
    /\ "tell" \in Uses
    /\ InUserCode(r)
    /\ SentTell(m)
    /\ Deliver(e, m, work)
    /\ UNCHANGED <<timerVars, journalVars, pre, post, held, stopVars>>

\* ask() another entity, or the entity itself, and wait.
CtxAsk(r, e, m) ==
    /\ "ask" \in Uses
    /\ InUserCode(r)
    /\ SentAsk(m)
    /\ Deliver(e, m,
               [work EXCEPT ![r] = <<[Top(r) EXCEPT !.on = m]>> \o Tail(@)])
    /\ UNCHANGED <<timerVars, journalVars, pre, post, held, stopVars>>

AskReturns(r) ==
    /\ status[r] = "live"
    /\ work[r] # << >>
    /\ Top(r).on # None
    /\ answer[Top(r).on] # "pending"
    /\ work' = [work EXCEPT ![r] = <<[Top(r) EXCEPT !.on = None]>> \o Tail(@)]
    /\ UNCHANGED <<entities, status, home, mailbox, entityVars, timerVars,
                   journalVars, askVars, stopVars>>

\* scheduleOnce / schedulePeriodic replace a timer of the same name.
Schedule(r, t, m, periodic) ==
    /\ "timer" \in Uses
    /\ InUserCode(r)
    /\ SentTell(m)
    /\ timers' = [timers EXCEPT ![r][t] = [m |-> m, periodic |-> periodic]]
    /\ UNCHANGED <<runnerVars, entityVars, syncs, journalVars, pre, post, held,
                   stopVars>>

CancelTimer(r, t) ==
    /\ InUserCode(r)
    /\ timers[r][t] # None
    /\ timers' = [timers EXCEPT ![r][t] = None]
    /\ UNCHANGED <<runnerVars, entityVars, syncs, journalVars, askVars, stopVars>>

\* A timer fires: it is a tell to the runner that set it.
TimerFires(r, t) ==
    /\ timers[r][t] # None
    /\ Len(mailbox[r]) < MaxMailbox
    /\ mailbox' = [mailbox EXCEPT ![r] = Append(@, timers[r][t].m)]
    /\ timers' = [timers EXCEPT ![r][t] = IF @.periodic THEN @ ELSE None]
    /\ UNCHANGED <<entities, status, home, work, entityVars, syncs, journalVars,
                   askVars, stopVars>>

\* sync() starts an effect and returns; its outcome (success, failure or
\* onTimeout) becomes a command for this runner, whether or not it still runs.
Sync(r, m) ==
    /\ "sync" \in Uses
    /\ InUserCode(r)
    /\ SentTell(m)
    /\ syncs' = syncs \cup {<<r, m>>}
    /\ UNCHANGED <<runnerVars, entityVars, timers, journalVars, pre, post, held,
                   stopVars>>

SyncSettles(r, m) ==
    /\ <<r, m>> \in syncs
    /\ syncs' = syncs \ {<<r, m>>}
    /\ mailbox' = [mailbox EXCEPT ![r] = Append(@, m)]
    /\ UNCHANGED <<entities, status, home, work, entityVars, timers,
                   journalVars, askVars, stopVars>>

\* Seeded fault: the recovery hook's return is executed like decide's.
BugHookReturnsEffect(r) ==
    /\ InUserCode(r)
    /\ work' = [work EXCEPT ![r] =
                  <<[Top(r) EXCEPT !.phase = "effect"]>> \o Tail(@)]
    /\ UNCHANGED <<entities, status, home, mailbox, entityVars, timerVars,
                   journalVars, askVars, stopVars>>

\* User code returns: decide with an effect other than Stash, Run's side
\* effect, or onRecoveryComplete.
UserCodeReturns(r) ==
    /\ InUserCode(r)
    /\ work' = [work EXCEPT ![r] =
                  IF Top(r).phase = "hook" THEN Tail(@)
                  ELSE <<[Top(r) EXCEPT !.phase = "effect"]>> \o Tail(@)]
    /\ UNCHANGED <<entities, status, home, mailbox, entityVars, timerVars,
                   journalVars, askVars, stopVars>>

\* decide returns Stash: the command waits with its reply handle.
DecideStash(r) ==
    /\ "Stash" \in Uses
    /\ InUserCode(r)
    /\ Top(r).phase = "decide"
    /\ stash' = [stash EXCEPT ![r] = Append(@, Top(r).m)]
    /\ work' = [work EXCEPT ![r] = Popped(r)]
    /\ UNCHANGED <<entities, status, home, mailbox, state, seqNr, since,
                   timerVars, journalVars, askVars, stopVars>>

\* User code throws, or the journal or a codec does before it wrote anything.
Throw(r) ==
    /\ "throw" \in Uses
    /\ InUserCode(r) \/ AtChainedEffect(r)
    /\ Crash(r)
    /\ UNCHANGED <<entities, home, mailbox, entityVars, timerVars, journalVars,
                   pre, post, held, stopVars>>
-----------------------------------------------------------------------------
(* executeEffect: one action per effect.                                    *)

\* The k events command m persists, as a list.
Events(m, k) == [i \in 1 .. k |-> m]

SnapshotDue(n) == SnapshotEvery > 0 /\ n >= SnapshotEvery

\* Seeded fault: the auto-snapshot stores the state before the batch.
BugSnapshotBeforeApply(r, m, k) ==
    IF SnapshotDue(since[r] + k)
    THEN [snapshot EXCEPT ![home[r]] = [seq |-> seqNr[r] + k, state |-> state[r]]]
    ELSE snapshot

\* The auto-snapshot, when one is due after k more events of m.
AutoSnapshot(r, m, k) ==
    IF SnapshotDue(since[r] + k)
    THEN [snapshot EXCEPT ![home[r]] = [seq   |-> seqNr[r] + k,
                                        state |-> state[r] \o Events(m, k)]]
    ELSE snapshot

\* Seeded fault: records are numbered from the sequence number before.
BugRecordsFromStart(start, m, k) ==
    [i \in 1 .. k |-> [seq |-> start + i - 1, ev |-> m]]

\* What onPersisted is handed for a batch written after `start`.
Records(start, m, k) == [i \in 1 .. k |-> [seq |-> start + i, ev |-> m]]

\* Persist: write, apply, auto-snapshot, tell the observer, go on.
Persist(r, k) ==
    LET e     == home[r]
        m     == Top(r).m
        count == since[r] + k
    IN
    /\ AtChainedEffect(r)
    /\ seqNr[r] + k <= MaxSeq
    /\ ~IsDuplicate(rows[e], seqNr[r], k)
    /\ rows' = [rows EXCEPT ![e] = PersistRows(@, seqNr[r], k, m)]
    /\ state' = [state EXCEPT ![r] = @ \o Events(m, k)]
    /\ seqNr' = [seqNr EXCEPT ![r] = @ + k]
    /\ since' = [since EXCEPT ![r] = IF SnapshotDue(count) THEN 0 ELSE count]
    /\ snapshot' = AutoSnapshot(r, m, k)
    /\ published' = [published EXCEPT ![e] = @ \o Records(seqNr[r], m, k)]
    /\ work' = [work EXCEPT ![r] = Consumed(r)]
    /\ UNCHANGED <<entities, status, home, mailbox, stash, timerVars, askVars,
                   stopVars>>

\* The journal refuses a batch another incarnation's events already number.
PersistDuplicate(r, k) ==
    /\ AtChainedEffect(r)
    /\ IsDuplicate(rows[home[r]], seqNr[r], k)
    /\ Crash(r)
    /\ UNCHANGED <<entities, home, mailbox, entityVars, timerVars, journalVars,
                   pre, post, held, stopVars>>

\* The events are written, then apply or the auto-snapshot throws.
PersistThenThrow(r, k) ==
    /\ "throw" \in Uses
    /\ AtChainedEffect(r)
    /\ seqNr[r] + k <= MaxSeq
    /\ ~IsDuplicate(rows[home[r]], seqNr[r], k)
    /\ rows' = [rows EXCEPT ![home[r]] = PersistRows(@, seqNr[r], k, Top(r).m)]
    /\ Crash(r)
    /\ UNCHANGED <<entities, home, mailbox, entityVars, timerVars, snapshot,
                   published, pre, post, held, stopVars>>

Run(r) ==
    /\ "Run" \in Uses
    /\ AtChainedEffect(r)
    /\ work' = [work EXCEPT ![r] =
                  <<[Top(r) EXCEPT !.phase = "run", !.left = @ - 1]>> \o Tail(@)]
    /\ UNCHANGED <<entities, status, home, mailbox, entityVars, timerVars,
                   journalVars, askVars, stopVars>>

\* Reply and Done: the handle is answered with the current sequence number.
Reply(r) ==
    /\ AtEffect(r)
    /\ answer' = Settle(Top(r).m, "ok")
    /\ post' = SettleAt(Top(r).m, seqNr[r])
    /\ work' = [work EXCEPT ![r] = Popped(r)]
    /\ UNCHANGED <<entities, status, home, mailbox, entityVars, timerVars,
                   journalVars, pre, held, stopVars>>

\* ReplyDeferred: the ask stays open, with the sequence number of this moment.
ReplyDeferred(r) ==
    /\ "ReplyDeferred" \in Uses
    /\ AtEffect(r)
    /\ held' = IF answer[Top(r).m] = "tell" THEN held
               ELSE [held EXCEPT ![Top(r).m] = seqNr[r]]
    /\ work' = [work EXCEPT ![r] = Popped(r)]
    /\ UNCHANGED <<entities, status, home, mailbox, entityVars, timerVars,
                   journalVars, answer, pre, post, stopVars>>

\* Someone completes the deferred, or the runner's own timer gives up on it.
CompleteDeferred(m) ==
    /\ held[m] # -1
    /\ held' = [held EXCEPT ![m] = -1]
    /\ \/ answer' = Settle(m, "ok") /\ post' = SettleAt(m, held[m])
       \/ answer' = Settle(m, "timeout") /\ UNCHANGED post
    /\ UNCHANGED <<runnerVars, entityVars, timerVars, journalVars, pre, stopVars>>

Snapshot(r) ==
    /\ "Snapshot" \in Uses
    /\ AtChainedEffect(r)
    /\ snapshot' = [snapshot EXCEPT ![home[r]] = [seq   |-> seqNr[r],
                                                  state |-> state[r]]]
    /\ since' = [since EXCEPT ![r] = 0]
    /\ work' = [work EXCEPT ![r] = Consumed(r)]
    /\ UNCHANGED <<entities, status, home, mailbox, state, seqNr, stash,
                   timerVars, rows, published, askVars, stopVars>>

\* Stop: behind everything already queued, and the ask is not answered.
Stop(r) ==
    /\ "Stop" \in Uses
    /\ AtEffect(r)
    /\ mailbox' = [mailbox EXCEPT ![r] = Append(@, StopMsg)]
    /\ work' = [work EXCEPT ![r] = Popped(r)]
    /\ UNCHANGED <<entities, status, home, entityVars, timerVars, journalVars,
                   askVars, stopVars>>

\* A Stash that is not the first effect of its chain does nothing.
StashInChain(r) ==
    /\ "Stash" \in Uses
    /\ AtEffect(r)
    /\ Top(r).left < MaxChain
    /\ work' = [work EXCEPT ![r] = Popped(r)]
    /\ UNCHANGED <<entities, status, home, mailbox, entityVars, timerVars,
                   journalVars, askVars, stopVars>>

\* Unstash: the stashed commands are processed in order, then the chain goes on.
Unstash(r) ==
    /\ "Unstash" \in Uses
    /\ AtChainedEffect(r)
    /\ work' = [work EXCEPT ![r] =
                  [i \in 1 .. Len(stash[r]) |-> DecideFrame(stash[r][i])]
                  \o Consumed(r)]
    /\ stash' = [stash EXCEPT ![r] = << >>]
    /\ UNCHANGED <<entities, status, home, mailbox, state, seqNr, since,
                   timerVars, journalVars, askVars, stopVars>>

-----------------------------------------------------------------------------
(* Module.shutdown: Stop to every mapped runner, wait for each of them, then *)
(* clear the map.  The module goes on accepting commands.                    *)

Mapped == {entities[e] : e \in Entity} \ {None}

\* Seeded fault: the map is cleared before the runners have ended.
BugShutdownClearsFirst ==
    /\ "shutdown" \in Uses
    /\ shutdown = "up"
    /\ shutdown' = "stopping"
    /\ awaited' = Mapped
    /\ mailbox' = [r \in Runner |-> IF r \in Mapped
                                    THEN Append(mailbox[r], StopMsg)
                                    ELSE mailbox[r]]
    /\ entities' = [e \in Entity |-> None]
    /\ UNCHANGED <<status, home, work, entityVars, timerVars, journalVars,
                   askVars>>

\* Seeded fault: only runners that are not busy get the Stop.
BugShutdownSkipsBusy ==
    /\ "shutdown" \in Uses
    /\ shutdown = "up"
    /\ shutdown' = "stopping"
    /\ awaited' = Mapped
    /\ mailbox' = [r \in Runner |-> IF r \in Mapped /\ work[r] = << >>
                                    THEN Append(mailbox[r], StopMsg)
                                    ELSE mailbox[r]]
    /\ UNCHANGED <<entities, status, home, work, entityVars, timerVars,
                   journalVars, askVars>>

ShutdownBegin ==
    /\ "shutdown" \in Uses
    /\ shutdown = "up"
    /\ shutdown' = "stopping"
    /\ awaited' = Mapped
    /\ mailbox' = [r \in Runner |-> IF r \in Mapped
                                    THEN Append(mailbox[r], StopMsg)
                                    ELSE mailbox[r]]
    /\ UNCHANGED <<entities, status, home, work, entityVars, timerVars,
                   journalVars, askVars>>

ShutdownEnd ==
    /\ shutdown = "stopping"
    /\ \A r \in awaited : status[r] = "terminated"
    /\ shutdown' = "down"
    /\ entities' = [e \in Entity |-> None]
    /\ UNCHANGED <<status, home, mailbox, work, entityVars, timerVars,
                   journalVars, askVars, awaited>>

-----------------------------------------------------------------------------
Init ==
    /\ entities  = [e \in Entity |-> None]
    /\ status    = [r \in Runner |-> "unborn"]
    /\ home      = [r \in Runner |-> None]
    /\ mailbox   = [r \in Runner |-> << >>]
    /\ work      = [r \in Runner |-> << >>]
    /\ state     = [r \in Runner |-> << >>]
    /\ seqNr     = [r \in Runner |-> 0]
    /\ stash     = [r \in Runner |-> << >>]
    /\ since     = [r \in Runner |-> 0]
    /\ timers    = [r \in Runner |-> [t \in TimerId |-> None]]
    /\ syncs     = {}
    /\ rows      = [e \in Entity |-> NoRows]
    /\ snapshot  = [e \in Entity |-> NoSnapshot]
    /\ published = [e \in Entity |-> << >>]
    /\ answer    = [m \in Msg |-> "unsent"]
    /\ pre       = [m \in Msg |-> 0]
    /\ post      = [m \in Msg |-> 0]
    /\ held      = [m \in Msg |-> -1]
    /\ shutdown  = "up"
    /\ awaited   = {}

\* What the runner itself does, once user code and the journal answered.
RunnerStep(r) ==
    \/ Take(r) \/ TakeStop(r) \/ Terminate(r) \/ AskReturns(r)
    \/ UserCodeReturns(r) \/ DecideStash(r) \/ Throw(r)
    \/ \E k \in 0 .. MaxBatch : \/ Persist(r, k)
                                \/ PersistDuplicate(r, k)
                                \/ PersistThenThrow(r, k)
    \/ Run(r) \/ Reply(r) \/ ReplyDeferred(r) \/ Snapshot(r)
    \/ Stop(r) \/ StashInChain(r) \/ Unstash(r)

\* Calls user code makes while it runs.
ControlStep(r) ==
    \/ \E m \in Msg : TellSelf(r, m) \/ Sync(r, m)
    \/ \E m \in Msg, e \in Entity : CtxTell(r, e, m) \/ CtxAsk(r, e, m)
    \/ \E t \in TimerId, m \in Msg, p \in BOOLEAN : Schedule(r, t, m, p)
    \/ \E t \in TimerId : CancelTimer(r, t)

\* Timers, sync effects and clients.
Environment ==
    \/ \E r \in Runner, t \in TimerId : TimerFires(r, t)
    \/ \E r \in Runner, m \in Msg : SyncSettles(r, m)
    \/ \E e \in Entity, m \in Msg : ClientTell(e, m) \/ ClientAsk(e, m)
    \/ \E m \in Msg : AskTimeout(m) \/ CompleteDeferred(m)

Next ==
    \/ \E r \in Runner : RunnerStep(r) \/ ControlStep(r)
    \/ Environment
    \/ ShutdownBegin
    \/ ShutdownEnd

Spec == Init /\ [][Next]_vars
-----------------------------------------------------------------------------
(* Properties.                                                              *)

CommandFrame == [m     : Msg,
                 phase : {"decide", "effect", "run"},
                 left  : Nat,
                 on    : Msg \cup {None}]

RecoveryFrame == [m     : {None},
                  phase : {"hook"},
                  left  : {0},
                  on    : Msg \cup {None}]

Frame == CommandFrame \cup RecoveryFrame

RunnerStatus == {"unborn", "live", "exiting", "terminated"}

Outcome == {"unsent", "tell", "pending", "ok", "failed", "timeout"}

Timer == [m : Msg, periodic : BOOLEAN]

\* Every variable has its type; an entity's journal has no hole, a mailbox
\* holds commands and Stop, and a stack of frames never loses its command.
TypeOK ==
    /\ entities  \in [Entity -> Runner \cup {None}]
    /\ status    \in [Runner -> RunnerStatus]
    /\ home      \in [Runner -> Entity \cup {None}]
    /\ mailbox   \in [Runner -> Seq(Msg \cup {StopMsg})]
    /\ work      \in [Runner -> Seq(Frame)]
    /\ state     \in [Runner -> Seq(Msg)]
    /\ seqNr     \in [Runner -> Nat]
    /\ stash     \in [Runner -> Seq(Msg)]
    /\ since     \in [Runner -> Nat]
    /\ timers    \in [Runner -> [TimerId -> Timer \cup {None}]]
    /\ syncs     \subseteq Runner \X Msg
    /\ rows      \in [Entity -> Seq(Msg)]
    /\ snapshot  \in [Entity -> [seq : Nat, state : Seq(Msg)]]
    /\ published \in [Entity -> Seq([seq : Nat, ev : Msg])]
    /\ answer    \in [Msg -> Outcome]
    /\ pre       \in [Msg -> Nat]
    /\ post      \in [Msg -> Nat]
    /\ held      \in [Msg -> Nat \cup {-1}]
    /\ shutdown  \in {"up", "stopping", "down"}
    /\ awaited   \subseteq Runner

Prefix(s, n) == SubSeq(s, 1, n)

\* What a live runner holds in memory is exactly what replaying the first
\* sequenceNr events of its journal gives, however many incarnations, crashes
\* between write and apply, snapshots and undecodable snapshots came before.
StateIsReplay ==
    \A r \in Runner : status[r] = "live" =>
        /\ seqNr[r] <= Len(rows[home[r]])
        /\ state[r] = Prefix(rows[home[r]], seqNr[r])

\* A stored snapshot is the fold of the journal up to its own number, so that
\* recovery from it and recovery from the first event agree.
SnapshotIsReplay ==
    \A e \in Entity :
        /\ snapshot[e].seq <= Len(rows[e])
        /\ snapshot[e].state = Prefix(rows[e], snapshot[e].seq)

\* Until shutdown has cleared the map, an entity has at most one incarnation
\* that is not terminated, the one the map names: no command is processed
\* twice at the same time for one entity.
SingleIncarnation ==
    shutdown # "down" =>
        \A r \in Runner : status[r] \in {"live", "exiting"} =>
            entities[home[r]] = r

\* ... and that incarnation has seen the whole journal, so that no write of
\* a live runner is refused as a duplicate.
NoStaleRunner ==
    shutdown # "down" =>
        \A r \in Runner : status[r] = "live" =>
            seqNr[r] = Len(rows[home[r]])

\* An entity has one writer and it is up to date, whoever delivers to it, crashes
\* or shuts it down in the meantime (runtime.ts, entity-runner.ts).
OneCurrentRunner == SingleIncarnation /\ NoStaleRunner

\* An ask answered positively covers its own events: they are all stored, with
\* numbers after the preSequenceNr and up to the sequenceNr it carried.
AnswerCoversEvents ==
    \A m \in Msg, e \in Entity : answer[m] = "ok" =>
        /\ pre[m] <= post[m]
        /\ \A s \in DOMAIN rows[e] :
              rows[e][s] = m => pre[m] < s /\ s <= post[m]

\* Observers see the journal's own events, each at most once and in order.
PublishedInOrder ==
    \A e \in Entity :
        /\ \A i \in DOMAIN published[e] :
              /\ published[e][i].seq \in DOMAIN rows[e]
              /\ published[e][i].ev = rows[e][published[e][i].seq]
        /\ \A i, j \in DOMAIN published[e] :
              i < j => published[e][i].seq < published[e][j].seq

\* What leaves the runner agrees with the journal: answers cover the events they
\* acknowledge, and observers see stored events once and in order.
OutputFollowsJournal == AnswerCoversEvents /\ PublishedInOrder

\* terminate() leaves no unanswered ask in the mailbox of a dead runner, and
\* none arrives there later.
NoAskInDeadMailbox ==
    \A r \in Runner : status[r] = "terminated" =>
        \A i \in DOMAIN mailbox[r] :
            mailbox[r][i] # StopMsg => answer[mailbox[r][i]] # "pending"

\* The journal is append-only: a step never changes or removes a stored event.
JournalAppendOnly ==
    [][\A e \in Entity :
          /\ DOMAIN rows[e] \subseteq DOMAIN rows'[e]
          /\ \A s \in DOMAIN rows[e] : rows'[e][s] = rows[e][s]]_rows

\* Somebody will still look at ask m: a runner that has not ended, or the
\* holder of its deferred reply.
Reachable(m) ==
    \/ held[m] # -1
    \/ \E r \in Runner :
          /\ status[r] # "terminated"
          /\ \/ \E i \in DOMAIN mailbox[r] : mailbox[r][i] = m
             \/ \E i \in DOMAIN work[r] : work[r][i].m = m
             \/ \E i \in DOMAIN stash[r] : stash[r][i] = m

\* No ask is dropped: until it is answered, somebody will still look at it
\* ("a stashed ask must still answer"; "a queued ask must not hang until
\* timeout").
NoAskDropped == \A m \in Msg : answer[m] = "pending" => Reachable(m)

-----------------------------------------------------------------------------
(* Liveness.  Promises the journal and user code return settle, and the     *)
(* event loop runs what is ready.  Nothing is assumed of the ask timeout.   *)

FairSpec ==
    /\ Spec
    /\ \A r \in Runner : WF_vars(RunnerStep(r))
    /\ WF_vars(ShutdownEnd)

\* The runtime itself answers every ask, without help from the ask timeout.
AskAnswered == \A m \in Msg : answer[m] = "pending" ~> answer[m] # "pending"

\* shutdown() returns.
ShutdownCompletes == shutdown = "stopping" ~> shutdown = "down"
=============================================================================
