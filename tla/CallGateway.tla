---------------------------- MODULE CallGateway ----------------------------
(***************************************************************************)
(* The gateway external calls go through (src/src/core/call/gateway.ts): a *)
(* semaphore, a circuit breaker (src/src/core/call/circuit-breaker.ts) and *)
(* a timeout around each call.                                             *)
(*                                                                         *)
(* A call is one execute() of the gateway.  JavaScript switches between    *)
(* calls at every await, so a call is a process whose steps are the pieces *)
(* between awaits.  The clock is abstracted to whether the reset timeout   *)
(* of an open breaker has elapsed.                                         *)
(***************************************************************************)
EXTENDS Integers, Sequences, FiniteSets

CONSTANTS
    Call,           \* the calls
    MaxConcurrent,  \* CallGatewayConfig.maxConcurrent
    HasBreaker,     \* whether CallGatewayConfig.circuitBreaker is given
    MaxFailures,    \* CircuitBreakerConfig.maxFailures
    HalfOpenMax     \* CircuitBreakerConfig.halfOpenMaxCalls

ASSUME GatewayAssumption ==
    /\ IsFiniteSet(Call)
    /\ MaxConcurrent \in Nat \ {0}
    /\ HasBreaker \in BOOLEAN
    /\ MaxFailures \in Nat \ {0}
    /\ HalfOpenMax \in Nat \ {0}

VARIABLES
    pc,         \* call -> how far execute() is
    inflight,   \* Semaphore.inflight
    queue,      \* Semaphore.queue
    remote,     \* calls whose DurableCall.execute has not returned
    circuit,    \* BreakerInternalState.state
    failures,   \* BreakerInternalState.consecutiveFailures
    probes,     \* BreakerInternalState.halfOpenInflight
    cooled,     \* the reset timeout has elapsed since openedAtMs
    totals      \* the breaker's totals

semVars     == <<inflight, queue>>
circuitVars == <<circuit, failures, probes, cooled>>
vars == <<pc, semVars, remote, circuitVars, totals>>

At(place) == {c \in Call : pc[c] = place}

-----------------------------------------------------------------------------
(* The semaphore.                                                           *)

\* acquire() with a permit free.
Acquire(c) ==
    /\ pc[c] = "idle"
    /\ inflight < MaxConcurrent
    /\ inflight' = inflight + 1
    /\ pc' = [pc EXCEPT ![c] = "acquired"]
    /\ UNCHANGED <<queue, remote, circuitVars, totals>>

\* acquire() with none free.
Wait(c) ==
    /\ pc[c] = "idle"
    /\ inflight >= MaxConcurrent
    /\ queue' = Append(queue, c)
    /\ pc' = [pc EXCEPT ![c] = "waiting"]
    /\ UNCHANGED <<inflight, remote, circuitVars, totals>>

\* A waiter goes on after release() resolved its promise; it takes its permit
\* only now, without looking again.
Resume(c) ==
    /\ pc[c] = "woken"
    /\ inflight' = inflight + 1
    /\ pc' = [pc EXCEPT ![c] = "acquired"]
    /\ UNCHANGED <<queue, remote, circuitVars, totals>>

\* Seeded fault: the permit comes back, but no waiter is woken.
BugWakesNobody(c) ==
    /\ pc[c] = "settled"
    /\ inflight' = inflight - 1
    /\ pc' = [pc EXCEPT ![c] = "done"]
    /\ UNCHANGED <<queue, remote, circuitVars, totals>>

\* Seeded fault: the waiter is resumed but not taken off the queue.
BugKeepsWaiter(c) ==
    /\ pc[c] = "settled"
    /\ inflight' = inflight - 1
    /\ pc' = IF queue = << >> THEN [pc EXCEPT ![c] = "done"]
             ELSE [pc EXCEPT ![c] = "done", ![Head(queue)] = "woken"]
    /\ UNCHANGED <<queue, remote, circuitVars, totals>>

\* release(), in the finally of executeCall.
Release(c) ==
    /\ pc[c] = "settled"
    /\ inflight' = inflight - 1
    /\ IF queue = << >>
       THEN pc' = [pc EXCEPT ![c] = "done"] /\ UNCHANGED queue
       ELSE /\ queue' = Tail(queue)
            /\ pc' = [pc EXCEPT ![c] = "done", ![Head(queue)] = "woken"]
    /\ UNCHANGED <<remote, circuitVars, totals>>

-----------------------------------------------------------------------------
(* The breaker.                                                             *)

\* maybeTransitionFromOpen() would move the breaker to half_open.
Reopens == circuit = "open" /\ cooled

\* state.state and state.halfOpenInflight after maybeTransitionFromOpen().
CircuitSeen == IF Reopens THEN "half_open" ELSE circuit

\* Seeded fault: the transition keeps the old count of probes.
BugProbesSeen == probes

ProbesSeen == IF Reopens THEN 0 ELSE probes

\* tryAcquire() lets the call through.
Admits ==
    \/ ~HasBreaker
    \/ CircuitSeen = "closed"
    \/ CircuitSeen = "half_open" /\ ProbesSeen < HalfOpenMax

Count(total) == totals' = [totals EXCEPT ![total] = @ + 1]

\* Seeded fault: the count may go below zero.
BugNoFloor == probes - 1

\* halfOpenInflight when a call ends in half_open, one of its probes or not.
OneProbeLess == IF probes > 0 THEN probes - 1 ELSE 0

\* recordSuccess(): closes a half-open breaker, whoever succeeds.
RecordSuccess ==
    /\ Count("successes")
    /\ failures' = 0
    /\ IF circuit = "half_open"
       THEN circuit' = "closed" /\ probes' = OneProbeLess
       ELSE UNCHANGED <<circuit, probes>>
    /\ UNCHANGED cooled

\* Seeded fault: one failure too many before the breaker opens.
BugTripsLate ==
    \/ circuit = "half_open"
    \/ circuit = "closed" /\ failures + 1 > MaxFailures

\* recordFailure() opens the breaker.
Trips ==
    \/ circuit = "half_open"
    \/ circuit = "closed" /\ failures + 1 >= MaxFailures

RecordFailure ==
    /\ Count("failures")
    /\ failures' = failures + 1
    /\ probes' = IF circuit = "half_open" THEN OneProbeLess ELSE probes
    /\ IF Trips
       THEN circuit' = "open" /\ cooled' = FALSE
       ELSE UNCHANGED <<circuit, cooled>>

NoRecord == UNCHANGED <<circuitVars, totals>>

\* resetTimeoutMs goes by.
CoolDown ==
    /\ circuit = "open"
    /\ ~cooled
    /\ cooled' = TRUE
    /\ UNCHANGED <<pc, semVars, remote, circuit, failures, probes, totals>>

\* metrics.currentState() moves the breaker too.
ReadState ==
    /\ Reopens
    /\ circuit' = CircuitSeen
    /\ probes' = ProbesSeen
    /\ UNCHANGED <<pc, semVars, remote, failures, cooled, totals>>

-----------------------------------------------------------------------------
(* executeCall between acquire and release.                                 *)

\* tryAcquire() succeeds and DurableCall.execute starts.
Start(c) ==
    /\ pc[c] = "acquired"
    /\ Admits
    /\ circuit' = CircuitSeen
    /\ probes' = IF CircuitSeen = "half_open" THEN ProbesSeen + 1 ELSE ProbesSeen
    /\ pc' = [pc EXCEPT ![c] = "executing"]
    /\ remote' = remote \cup {c}
    /\ UNCHANGED <<semVars, failures, cooled, totals>>

\* tryAcquire() fails: the call returns circuit_open.
Reject(c) ==
    /\ pc[c] = "acquired"
    /\ ~Admits
    /\ Count("rejections")
    /\ circuit' = CircuitSeen
    /\ probes' = ProbesSeen
    /\ pc' = [pc EXCEPT ![c] = "settled"]
    /\ UNCHANGED <<semVars, remote, failures, cooled>>

\* DurableCall.execute returns in time: a value, an error or an exception,
\* or circuit_open, which the gateway does not count as a failure.
Settles(c) ==
    /\ pc[c] = "executing"
    /\ c \in remote
    /\ remote' = remote \ {c}
    /\ pc' = [pc EXCEPT ![c] = "settled"]
    /\ IF HasBreaker THEN RecordSuccess \/ RecordFailure ELSE NoRecord
    /\ UNCHANGED semVars

\* callTimeoutMs goes by first: a failure; the external call goes on.
TimesOut(c) ==
    /\ pc[c] = "executing"
    /\ pc' = [pc EXCEPT ![c] = "settled"]
    /\ IF HasBreaker THEN RecordFailure ELSE NoRecord
    /\ UNCHANGED <<semVars, remote>>

\* Seeded fault: a result that lost the race is recorded as well.
BugLateResultCounts(c) ==
    /\ pc[c] # "executing"
    /\ c \in remote
    /\ remote' = remote \ {c}
    /\ IF HasBreaker THEN RecordSuccess ELSE NoRecord
    /\ UNCHANGED <<pc, semVars>>

\* The result of a call that timed out: settled is set, it is ignored.
LateResult(c) ==
    /\ pc[c] # "executing"
    /\ c \in remote
    /\ remote' = remote \ {c}
    /\ NoRecord
    /\ UNCHANGED <<pc, semVars>>

-----------------------------------------------------------------------------
Init ==
    /\ pc       = [c \in Call |-> "idle"]
    /\ inflight = 0
    /\ queue    = << >>
    /\ remote   = {}
    /\ circuit  = "closed"
    /\ failures = 0
    /\ probes   = 0
    /\ cooled   = FALSE
    /\ totals   = [successes |-> 0, failures |-> 0, rejections |-> 0]

\* The steps the event loop takes on its own once a call was made.
Progress(c) ==
    Resume(c) \/ Start(c) \/ Reject(c) \/ Settles(c) \/ TimesOut(c) \/ Release(c)

Next ==
    \/ \E c \in Call : Acquire(c) \/ Wait(c) \/ Progress(c) \/ LateResult(c)
    \/ CoolDown
    \/ ReadState

Spec == Init /\ [][Next]_vars

\* Continuations run and the timeout's timer fires; that the external call ever
\* returns, or the breaker's reset timeout is ever looked at, is not assumed.
FairSpec == Spec /\ \A c \in Call : WF_vars(Progress(c))

-----------------------------------------------------------------------------
(* Properties.                                                              *)

Holders == At("acquired") \cup At("executing") \cup At("settled")

\* Every variable has its type.
TypeOK ==
    /\ pc       \in [Call -> {"idle", "waiting", "woken", "acquired",
                              "executing", "settled", "done"}]
    /\ inflight \in Nat
    /\ queue    \in Seq(Call)
    /\ remote   \subseteq Call
    /\ circuit  \in {"closed", "open", "half_open"}
    /\ failures \in Nat
    /\ probes   \in Nat
    /\ cooled   \in BOOLEAN
    /\ totals   \in [{"successes", "failures", "rejections"} -> Nat]

\* The semaphore's counter is the number of calls that hold a permit, whatever
\* way (value, error, exception, timeout, open breaker) calls end, and its queue
\* is the calls that wait.
PermitsHeld ==
    /\ inflight = Cardinality(Holders)
    /\ {queue[i] : i \in DOMAIN queue} = At("waiting")

\* No call waits while a permit is free and nobody has been woken to take it.
NoLostWakeup ==
    queue # << >> => inflight + Cardinality(At("woken")) >= MaxConcurrent

\* The breaker counts each finished call exactly once: a result that arrives
\* after the timeout, or after the breaker changed state, is not counted again.
CountedOnce ==
    HasBreaker =>
        totals.successes + totals.failures + totals.rejections
            = Cardinality(At("settled") \cup At("done"))

\* A closed breaker is below its limit, even when calls from before it opened
\* ended while it was open or half open.
ClosedBelowLimit == circuit = "closed" => failures < MaxFailures

\* A half-open breaker's count is of calls that are still running and so will
\* move it: it never refuses calls on account of probes that have ended.
ProbesAreRunning ==
    circuit = "half_open" =>
        probes <= HalfOpenMax /\ probes <= Cardinality(At("executing"))

\* The breaker's books hold together while results, timeouts and its own state
\* changes interleave (circuit-breaker.ts).
BreakerSound == CountedOnce /\ ClosedBelowLimit /\ ProbesAreRunning

\* Every call returns, without the external service's help: a waiter gets its
\* turn and the timeout ends a hanging call.
CallReturns == \A c \in Call : pc[c] # "idle" ~> pc[c] = "done"

\* At most maxConcurrent calls are executing ("semaphore caps concurrent
\* inflight calls").
InflightCapped == Cardinality(At("executing")) <= MaxConcurrent
=============================================================================
