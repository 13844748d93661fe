-------------------------- MODULE DurableCallSlot --------------------------
(***************************************************************************)
(* One durable call of one entity (src/src/core/call/slot.ts): its phase   *)
(* is journaled, its retry timer, its mailbox and the call in progress are *)
(* lost in a crash.                                                        *)
(*                                                                         *)
(* The entity is an aggregate that hands its commands to the slot: start   *)
(* (initiate, when the phase is idle), fire, callback (handleCallback),    *)
(* retry (handleRetry), and recover in onRecoveryComplete.  Its runner     *)
(* (EntityRuntime) takes no other command while the chain persist, then    *)
(* Run of one command, or the recovery hook, is not finished; `doing` is   *)
(* what is left of it.  What a journal write persists is what recovery     *)
(* finds (EntityRuntime!StateIsReplay), so phase is one variable.          *)
(*                                                                         *)
(* The gateway's answer is abstracted to what isRetryable tells apart.     *)
(***************************************************************************)
EXTENDS Integers, Sequences

CONSTANTS
    MaxAttempts,    \* RetryPolicy.maxAttempts
    MaxCrashes,     \* bound on crashes
    MaxFires,       \* bound on fire commands
    MaxInbox        \* bound on a mailbox that clients may fill

ASSUME SlotAssumption ==
    /\ MaxAttempts \in Nat \ {0}
    /\ MaxCrashes \in Nat
    /\ MaxFires \in Nat
    /\ MaxInbox \in Nat

VARIABLES
    phase,      \* the journaled CallPhase
    up,         \* the entity has a runner
    inbox,      \* its mailbox
    doing,      \* what the current command's Run, or the hook, still has to do
    timer,      \* the retry timer is set
    executions, \* how often gateway.execute was called
    returned,   \* the attempts and outcomes gateway.execute returned
    crashes,    \* how many crashes there were
    fires       \* how many fire commands were sent

vars == <<phase, up, inbox, doing, timer, executions, returned, crashes, fires>>

Attempt == 1 .. MaxAttempts
Result  == {"success", "transient", "fatal"}

Callback(n, result) == [tag |-> "callback", attempt |-> n, result |-> result]
Command(tag)        == [tag |-> tag, attempt |-> 0, result |-> "none"]

Task(tag, n) == [tag |-> tag, attempt |-> n]
Nothing      == Task("nothing", 0)

-----------------------------------------------------------------------------
(* Lifecycle events and the phases they lead to.                            *)

\* A phase keeps the attempt of the event that led to it.  CallPhase drops it
\* in a terminal phase; here it says which attempt the outcome is of.
Event(tag, n)    == [tag |-> tag, attempt |-> n]
PhaseOf(tag, n)  == [tag |-> tag, attempt |-> n]

\* applyEvent; a call_failed is split by its willRetry.
ApplyEvent(ev) ==
    PhaseOf(CASE ev.tag = "call_initiated" -> "pending"
              [] ev.tag = "call_succeeded" -> "succeeded"
              [] ev.tag = "call_failed_will_retry" -> "retry_scheduled"
              [] ev.tag = "call_failed" -> "permanent_failure"
              [] ev.tag = "call_exhausted" -> "exhausted",
            ev.attempt)

PersistEvent(tag, n) == phase' = ApplyEvent(Event(tag, n))

Active   == {"pending", "retry_scheduled"}
Terminal == {"succeeded", "permanent_failure", "exhausted"}

-----------------------------------------------------------------------------
(* Commands.                                                                *)

\* The message loop takes command x.
Take(x) ==
    /\ up
    /\ doing = Nothing
    /\ inbox # << >>
    /\ Head(inbox) = x
    /\ inbox' = Tail(inbox)
    /\ UNCHANGED <<up, timer, executions, returned, crashes, fires>>

\* A client asks for the call; several may before the first is processed.
SendStart ==
    /\ up
    /\ phase.tag = "idle"
    /\ Len(inbox) < MaxInbox
    /\ inbox' = Append(inbox, Command("start"))
    /\ UNCHANGED <<phase, up, doing, timer, executions, returned, crashes, fires>>

SendFire ==
    /\ up
    /\ fires < MaxFires
    /\ Len(inbox) < MaxInbox
    /\ inbox' = Append(inbox, Command("fire"))
    /\ fires' = fires + 1
    /\ UNCHANGED <<phase, up, doing, timer, executions, returned, crashes>>

\* initiate: call_initiated with attempt 1, then the call itself.  The aggregate
\* starts a call only from idle (docs/core.md, the call's state machine).
Initiate ==
    /\ Take(Command("start"))
    /\ IF phase.tag = "idle"
       THEN PersistEvent("call_initiated", 1) /\ doing' = Task("execute", 1)
       ELSE UNCHANGED <<phase, doing>>

\* Seeded fault: fire does not look at the phase.
BugFireAnyPhase ==
    /\ Take(Command("fire"))
    /\ doing' = Task("execute", phase.attempt)
    /\ UNCHANGED phase

\* fire: the pending attempt again.
Fire ==
    /\ Take(Command("fire"))
    /\ doing' = IF phase.tag = "pending" THEN Task("execute", phase.attempt)
                ELSE doing
    /\ UNCHANGED phase

\* Seeded fault: the last attempt is not made.
BugAttemptsLeft(n) == n + 1 < MaxAttempts

MoreAttemptsLeft(n) == n < MaxAttempts

\* Seeded fault: a callback is applied in any phase.
BugAwaitsCallback == TRUE

AwaitsCallback == phase.tag = "pending"

\* handleCallback; which attempt the result is of is not looked at.
HandleCallback ==
    \E n \in Attempt, result \in Result :
        /\ Take(Callback(n, result))
        /\ IF ~AwaitsCallback
           THEN UNCHANGED <<phase, doing>>
           ELSE \/ /\ result = "success"
                   /\ PersistEvent("call_succeeded", phase.attempt)
                   /\ UNCHANGED doing
                \/ /\ result = "transient"
                   /\ MoreAttemptsLeft(phase.attempt)
                   /\ PersistEvent("call_failed_will_retry", phase.attempt)
                   /\ doing' = Task("arm", 0)
                \/ /\ result = "transient"
                   /\ ~MoreAttemptsLeft(phase.attempt)
                   /\ PersistEvent("call_exhausted", phase.attempt)
                   /\ UNCHANGED doing
                \/ /\ result = "fatal"
                   /\ PersistEvent("call_failed", phase.attempt)
                   /\ UNCHANGED doing

\* Seeded fault: a retry does not count.
BugNextAttempt == phase.attempt

NextAttempt == phase.attempt + 1

\* handleRetry: call_initiated with the next attempt, then the call itself.
HandleRetry ==
    /\ Take(Command("retry"))
    /\ IF phase.tag = "retry_scheduled"
       THEN /\ PersistEvent("call_initiated", NextAttempt)
            /\ doing' = Task("execute", NextAttempt)
       ELSE UNCHANGED <<phase, doing>>

-----------------------------------------------------------------------------
(* The Run that follows, and the timer.                                     *)

\* gateway.execute is called.
Execute ==
    /\ doing.tag = "execute"
    /\ doing' = Task("await", doing.attempt)
    /\ executions' = executions + 1
    /\ UNCHANGED <<phase, up, inbox, timer, returned, crashes, fires>>

\* It returns or throws, and the result goes to the entity's own mailbox.
Returns(result) ==
    /\ doing.tag = "await"
    /\ returned' = returned \cup {<<doing.attempt, result>>}
    /\ inbox' = Append(inbox, Callback(doing.attempt, result))
    /\ doing' = Nothing
    /\ UNCHANGED <<phase, up, timer, executions, crashes, fires>>

\* scheduleOnce, which replaces a timer that is set.
Arm ==
    /\ doing.tag = "arm"
    /\ timer' = TRUE
    /\ doing' = Nothing
    /\ UNCHANGED <<phase, up, inbox, executions, returned, crashes, fires>>

TimerFires ==
    /\ timer
    /\ timer' = FALSE
    /\ inbox' = Append(inbox, Command("retry"))
    /\ UNCHANGED <<phase, up, doing, executions, returned, crashes, fires>>

-----------------------------------------------------------------------------
(* Crashes: of the process, or of the runner when a command throws.         *)

Crash ==
    /\ up
    /\ crashes < MaxCrashes
    /\ up' = FALSE
    /\ inbox' = << >>
    /\ doing' = Nothing
    /\ timer' = FALSE
    /\ crashes' = crashes + 1
    /\ UNCHANGED <<phase, executions, returned, fires>>

\* Seeded fault: recovery looks at pending calls only.
BugRecoverPending ==
    IF phase.tag = "pending" THEN Task("execute", phase.attempt) ELSE Nothing

\* recover(): what the recovery hook does for the phase it finds.
RecoveryTask ==
    CASE phase.tag = "pending" -> Task("execute", phase.attempt)
      [] phase.tag = "retry_scheduled" -> Task("arm", 0)
      [] OTHER -> Nothing

\* The next command for the entity creates a runner.
Recover ==
    /\ ~up
    /\ up' = TRUE
    /\ doing' = RecoveryTask
    /\ UNCHANGED <<phase, inbox, timer, executions, returned, crashes, fires>>

-----------------------------------------------------------------------------
Init ==
    /\ phase      = PhaseOf("idle", 0)
    /\ up         = TRUE
    /\ inbox      = << >>
    /\ doing      = Nothing
    /\ timer      = FALSE
    /\ executions = 0
    /\ returned   = {}
    /\ crashes    = 0
    /\ fires      = 0

Handle == Initiate \/ Fire \/ HandleCallback \/ HandleRetry
Work   == Execute \/ Arm \/ \E result \in Result : Returns(result)

Next ==
    \/ SendStart \/ SendFire \/ Handle \/ Work \/ TimerFires \/ Crash \/ Recover

Spec == Init /\ [][Next]_vars

\* The runner runs, the gateway answers (CallGateway!CallReturns), timers fire,
\* and an entity that crashed is sent another command.
FairSpec ==
    /\ Spec
    /\ WF_vars(Handle)
    /\ WF_vars(Work)
    /\ WF_vars(TimerFires)
    /\ WF_vars(Recover)

-----------------------------------------------------------------------------
(* Properties.                                                              *)

Inbox == {inbox[i] : i \in DOMAIN inbox}

\* Every variable has its type; a phase other than idle has a legal attempt.
TypeOK ==
    /\ \/ phase = PhaseOf("idle", 0)
       \/ phase \in [tag : Active \cup Terminal, attempt : Attempt]
    /\ up \in BOOLEAN
    /\ inbox \in Seq({Command(t) : t \in {"start", "fire", "retry"}}
                     \cup [tag : {"callback"}, attempt : Attempt, result : Result])
    /\ \/ doing \in {Nothing, Task("arm", 0)}
       \/ doing \in [tag : {"execute", "await"}, attempt : Attempt]
    /\ timer \in BOOLEAN
    /\ executions \in Nat
    /\ returned \subseteq Attempt \X Result
    /\ crashes \in Nat
    /\ fires \in Nat

\* handleCallback ignores the attempt a result carries, and never applies a
\* result to another attempt: while an attempt is pending, every result in the
\* mailbox is of that attempt.
ResultsOfThisAttempt ==
    phase.tag = "pending" =>
        \A x \in Inbox : x.tag = "callback" => x.attempt = phase.attempt

\* The journaled outcome is what the external system said: a success was
\* returned, and an exhausted call failed in each of its attempts.
OutcomeIsReal ==
    /\ phase.tag = "succeeded" => <<phase.attempt, "success">> \in returned
    /\ phase.tag = "permanent_failure" => <<phase.attempt, "fatal">> \in returned
    /\ phase.tag = "exhausted" =>
          \A n \in Attempt : <<n, "transient">> \in returned

\* At-least-once, and no more often than crashes and explicit fires explain.
ExecutionsBounded == executions <= phase.attempt + crashes + fires

\* A call that is not finished has something that will carry it on: the step in
\* progress, the timer or a message.  No interleaving of timers, callbacks and
\* recovery strands it.
NotStranded ==
    up =>
      /\ phase.tag = "pending" =>
            \/ doing.tag \in {"execute", "await"}
            \/ \E x \in Inbox : x.tag = "callback"
      /\ phase.tag = "retry_scheduled" =>
            doing.tag = "arm" \/ timer \/ Command("retry") \in Inbox

\* A finished call stays as it is, whatever arrives late.
TerminalIsFinal == [][phase.tag \in Terminal => phase' = phase]_vars

\* A call that was started is finished one way or another.
CallFinishes == phase.tag \in Active ~> phase.tag \in Terminal
=============================================================================
