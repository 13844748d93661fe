-------------------------- MODULE CallGatewayProofs --------------------------
(***************************************************************************)
(* The semaphore and the breaker of the call gateway, for any number of     *)
(* calls and every configuration.                                           *)
(***************************************************************************)
EXTENDS CallGateway, FiniteSetTheorems, TLAPS

Places == {"idle", "waiting", "woken", "acquired", "executing", "settled", "done"}
Held   == {"acquired", "executing", "settled"}
Ended  == {"settled", "done"}

\* How many calls f puts in one of the places P.
Number(f, P) == Cardinality({c \in Call : f[c] \in P})

\* f with call c moved to place b.
Put(f, c, b) == [f EXCEPT ![c] = b]

\* Moving call c to place b changes the numbers of the places it enters and leaves.
LEMMA NumberMoved ==
    ASSUME NEW f \in [Call -> Places], NEW c \in Call, NEW b \in Places, NEW P
    PROVE  /\ Number(f, P) \in Nat
           /\ Number(Put(f, c, b), P) \in Nat
           /\ b \in P /\ f[c] \in P => Number(Put(f, c, b), P) = Number(f, P)
           /\ b \in P /\ f[c] \notin P => Number(Put(f, c, b), P) = Number(f, P) + 1
           /\ b \notin P /\ f[c] \in P => Number(Put(f, c, b), P) = Number(f, P) - 1
           /\ b \notin P /\ f[c] \notin P => Number(Put(f, c, b), P) = Number(f, P)
<1> DEFINE S == {d \in Call : f[d] \in P}
           T == {d \in Call : [f EXCEPT ![c] = b][d] \in P}
<1>1. IsFiniteSet(S) /\ IsFiniteSet(T)
    BY FS_Subset, GatewayAssumption
<1>2. Cardinality(S) \in Nat /\ Cardinality(T) \in Nat
    BY <1>1, FS_CardinalityType
<1>3. c \in S <=> f[c] \in P
    OBVIOUS
<1>4. CASE b \in P
    <2>1. T = S \cup {c}
        BY <1>4
    <2>2. Cardinality(T) = IF c \in S THEN Cardinality(S) ELSE Cardinality(S) + 1
        BY <1>1, <2>1, FS_AddElement
    <2> QED BY <1>2, <1>3, <1>4, <2>2 DEF Number, Put
<1>5. CASE b \notin P
    <2>1. T = S \ {c}
        BY <1>5
    <2>2. Cardinality(T) = IF c \in S THEN Cardinality(S) - 1 ELSE Cardinality(S)
        BY <1>1, <2>1, FS_RemoveElement
    <2> QED BY <1>2, <1>3, <1>5, <2>2 DEF Number, Put
<1> QED BY <1>4, <1>5

-----------------------------------------------------------------------------
(* The invariant.                                                           *)

\* The queue is the calls that wait, each once.
QueueIsWaiting ==
    /\ {queue[i] : i \in DOMAIN queue} = At("waiting")
    /\ \A i, j \in DOMAIN queue : queue[i] = queue[j] => i = j

\* The four numbers the properties are about.
Counters ==
    /\ inflight = Number(pc, Held)
    /\ queue # << >> => inflight + Number(pc, {"woken"}) >= MaxConcurrent
    /\ HasBreaker => totals["successes"] + totals["failures"] + totals["rejections"] = Number(pc, Ended)
    /\ circuit = "half_open" => probes <= HalfOpenMax /\ probes <= Number(pc, {"executing"})

\* Without a breaker its state is the initial one.
BreakerUnused == ~HasBreaker => circuit = "closed"

GatewayInv == TypeOK /\ QueueIsWaiting /\ Counters /\ ClosedBelowLimit /\ BreakerUnused

\* Before the first call every number is zero.
LEMMA InitGateway == Init => GatewayInv
<1> SUFFICES ASSUME Init PROVE GatewayInv
    OBVIOUS
<1>1. ASSUME NEW P, "idle" \notin P PROVE Number(pc, P) = 0
    <2>1. {c \in Call : pc[c] \in P} = {}
        BY <1>1 DEF Init
    <2> QED BY <2>1, FS_EmptySet DEF Number
<1>2. TypeOK
    <2>1. totals \in [{"successes", "failures", "rejections"} -> Nat]
        BY DEF Init
    <2>2. cooled \in BOOLEAN
        BY DEF Init
    <2> QED BY <2>1, <2>2 DEF Init, TypeOK
<1>3. QueueIsWaiting
    BY DEF Init, QueueIsWaiting, At
<1>4. Counters
    <2>1. Number(pc, Held) = 0 /\ Number(pc, Ended) = 0
        BY <1>1 DEF Held, Ended
    <2>2. totals["successes"] + totals["failures"] + totals["rejections"] = 0
        BY DEF Init
    <2> QED BY <2>1, <2>2 DEF Init, Counters
<1>5. ClosedBelowLimit /\ BreakerUnused
    BY GatewayAssumption DEF Init, ClosedBelowLimit, BreakerUnused
<1> QED BY <1>2, <1>3, <1>4, <1>5 DEF GatewayInv

\* Call c moves to place b, and no other call moves.
Move(c, b) == pc' = Put(pc, c, b)

\* One call moves from its place to b: what a number becomes.
LEMMA Moved ==
    ASSUME TypeOK, NEW c \in Call, NEW b \in Places, Move(c, b), NEW P
    PROVE  /\ Number(pc, P) \in Nat
           /\ Number(pc', P) = Number(pc, P) + (IF b \in P THEN 1 ELSE 0) - (IF pc[c] \in P THEN 1 ELSE 0)
<1>1. pc \in [Call -> Places]
    BY DEF TypeOK, Places
<1> DEFINE g == Put(pc, c, b)
<1>2. /\ Number(pc, P) \in Nat
      /\ b \in P /\ pc[c] \in P => Number(g, P) = Number(pc, P)
      /\ b \in P /\ pc[c] \notin P => Number(g, P) = Number(pc, P) + 1
      /\ b \notin P /\ pc[c] \in P => Number(g, P) = Number(pc, P) - 1
      /\ b \notin P /\ pc[c] \notin P => Number(g, P) = Number(pc, P)
    BY <1>1, NumberMoved
<1>3. pc' = g
    BY DEF Move
<1> HIDE DEF g
<1>4. Number(g, P) = Number(pc, P) + (IF b \in P THEN 1 ELSE 0) - (IF pc[c] \in P THEN 1 ELSE 0)
    BY <1>2
<1> QED BY <1>2, <1>3, <1>4

\* The four numbers after call c has moved to place b.
LEMMA Numbers ==
    ASSUME TypeOK, NEW c \in Call, NEW b \in Places, Move(c, b)
    PROVE  /\ Number(pc, Held) \in Nat /\ Number(pc, Ended) \in Nat
           /\ Number(pc, {"woken"}) \in Nat /\ Number(pc, {"executing"}) \in Nat
           /\ Number(pc', Held) = Number(pc, Held) + (IF b \in {"acquired", "executing", "settled"} THEN 1 ELSE 0)
                                                   - (IF pc[c] \in {"acquired", "executing", "settled"} THEN 1 ELSE 0)
           /\ Number(pc', Ended) = Number(pc, Ended) + (IF b \in {"settled", "done"} THEN 1 ELSE 0)
                                                     - (IF pc[c] \in {"settled", "done"} THEN 1 ELSE 0)
           /\ Number(pc', {"woken"}) = Number(pc, {"woken"}) + (IF b = "woken" THEN 1 ELSE 0)
                                                   - (IF pc[c] = "woken" THEN 1 ELSE 0)
           /\ Number(pc', {"executing"}) = Number(pc, {"executing"}) + (IF b = "executing" THEN 1 ELSE 0)
                                                   - (IF pc[c] = "executing" THEN 1 ELSE 0)
<1>1. \A P : /\ Number(pc, P) \in Nat
             /\ Number(pc', P) = Number(pc, P) + (IF b \in P THEN 1 ELSE 0) - (IF pc[c] \in P THEN 1 ELSE 0)
    BY Moved
<1>2. /\ Number(pc, Held) \in Nat
      /\ Number(pc', Held) = Number(pc, Held) + (IF b \in Held THEN 1 ELSE 0) - (IF pc[c] \in Held THEN 1 ELSE 0)
    BY <1>1
<1>3. /\ Number(pc, Ended) \in Nat
      /\ Number(pc', Ended) = Number(pc, Ended) + (IF b \in Ended THEN 1 ELSE 0) - (IF pc[c] \in Ended THEN 1 ELSE 0)
    BY <1>1
<1>4. /\ Number(pc, {"woken"}) \in Nat
      /\ Number(pc', {"woken"}) = Number(pc, {"woken"}) + (IF b \in {"woken"} THEN 1 ELSE 0) - (IF pc[c] \in {"woken"} THEN 1 ELSE 0)
    BY <1>1
<1>5. /\ Number(pc, {"executing"}) \in Nat
      /\ Number(pc', {"executing"}) = Number(pc, {"executing"}) + (IF b \in {"executing"} THEN 1 ELSE 0) - (IF pc[c] \in {"executing"} THEN 1 ELSE 0)
    BY <1>1
<1>6. Held = {"acquired", "executing", "settled"} /\ Ended = {"settled", "done"}
    BY DEF Held, Ended
<1> QED BY <1>2, <1>3, <1>4, <1>5, <1>6

\* A call that neither starts nor stops waiting leaves the queue right.
LEMMA QueueKept ==
    ASSUME TypeOK, QueueIsWaiting, NEW c \in Call, NEW b \in Places, pc[c] # "waiting", b # "waiting",
           Move(c, b), queue' = queue
    PROVE  QueueIsWaiting'
<1>1. At("waiting")' = At("waiting")
    BY DEF At, TypeOK, Move, Put
<1> QED BY <1>1 DEF QueueIsWaiting

\* acquire() with a permit free.
LEMMA AcquireKeeps == ASSUME GatewayInv, NEW c \in Call, Acquire(c) PROVE GatewayInv'
<1> USE DEF GatewayInv
<1>1. Move(c, "acquired") /\ pc[c] = "idle" /\ "acquired" \in Places /\ queue' = queue
    BY DEF Acquire, Places, Move, Put
<1>2. /\ Number(pc', Held) = Number(pc, Held) + 1 /\ Number(pc', Ended) = Number(pc, Ended)
      /\ Number(pc', {"woken"}) = Number(pc, {"woken"})
      /\ Number(pc', {"executing"}) = Number(pc, {"executing"})
      /\ Number(pc, Held) \in Nat /\ Number(pc, Ended) \in Nat
      /\ Number(pc, {"woken"}) \in Nat /\ Number(pc, {"executing"}) \in Nat
    BY <1>1, Numbers
<1>3. TypeOK'
    BY DEF Acquire, TypeOK, circuitVars
<1>4. QueueIsWaiting'
    BY <1>1, QueueKept
<1>5. Counters'
    <2>1. inflight' = Number(pc', Held)
        BY <1>2 DEF Acquire, Counters
    <2>2. queue' # << >> => inflight' + Number(pc', {"woken"}) >= MaxConcurrent
        BY <1>2, GatewayAssumption, SMTT(40) DEF Acquire, Counters, TypeOK
    <2> QED BY <1>2, <2>1, <2>2 DEF Acquire, Counters, circuitVars
<1> QED BY <1>3, <1>4, <1>5 DEF Acquire, ClosedBelowLimit, BreakerUnused, circuitVars

\* acquire() with none free: the call queues up, and all permits are out.
LEMMA WaitKeeps == ASSUME GatewayInv, NEW c \in Call, Wait(c) PROVE GatewayInv'
<1> USE DEF GatewayInv
<1>1. Move(c, "waiting") /\ pc[c] = "idle" /\ "waiting" \in Places
    BY DEF Wait, Places, Move, Put
<1>2. /\ Number(pc', Held) = Number(pc, Held) /\ Number(pc', Ended) = Number(pc, Ended)
      /\ Number(pc', {"woken"}) = Number(pc, {"woken"})
      /\ Number(pc', {"executing"}) = Number(pc, {"executing"})
      /\ Number(pc, Held) \in Nat /\ Number(pc, Ended) \in Nat
      /\ Number(pc, {"woken"}) \in Nat /\ Number(pc, {"executing"}) \in Nat
    BY <1>1, Numbers
<1>3. TypeOK'
    BY DEF Wait, TypeOK, circuitVars
<1>4. QueueIsWaiting'
    <2>1. queue \in Seq(Call) /\ c \notin At("waiting") /\ queue' = Append(queue, c)
        BY DEF TypeOK, At, Wait
    <2>2. At("waiting")' = At("waiting") \cup {c}
        BY <1>1 DEF At, TypeOK, Move, Put
    <2>3. DOMAIN queue' = DOMAIN queue \cup {Len(queue) + 1} /\ Len(queue) + 1 \notin DOMAIN queue
        BY <2>1
    <2>4. queue'[Len(queue) + 1] = c /\ \A i \in DOMAIN queue : queue'[i] = queue[i]
        BY <2>1
    <2>5. \A i \in DOMAIN queue : queue[i] # c
        BY <2>1 DEF QueueIsWaiting
    <2>6. {queue'[i] : i \in DOMAIN queue'} = {queue[i] : i \in DOMAIN queue} \cup {c}
        BY <2>3, <2>4
    <2>7. \A i, j \in DOMAIN queue' : queue'[i] = queue'[j] => i = j
        BY <2>3, <2>4, <2>5 DEF QueueIsWaiting
    <2> QED BY <2>2, <2>6, <2>7 DEF QueueIsWaiting
<1>5. Counters'
    <2>1. inflight' = Number(pc', Held)
        BY <1>2 DEF Wait, Counters
    <2>2. queue' # << >> => inflight' + Number(pc', {"woken"}) >= MaxConcurrent
        BY <1>2, GatewayAssumption DEF Wait, Counters, TypeOK
    <2> QED BY <1>2, <2>1, <2>2 DEF Wait, Counters, circuitVars
<1> QED BY <1>3, <1>4, <1>5 DEF Wait, ClosedBelowLimit, BreakerUnused, circuitVars

\* A woken waiter takes its permit: one more in flight, one fewer woken.
LEMMA ResumeKeeps == ASSUME GatewayInv, NEW c \in Call, Resume(c) PROVE GatewayInv'
<1> USE DEF GatewayInv
<1>1. Move(c, "acquired") /\ pc[c] = "woken" /\ "acquired" \in Places /\ queue' = queue
    BY DEF Resume, Places, Move, Put
<1>2. /\ Number(pc', Held) = Number(pc, Held) + 1 /\ Number(pc', Ended) = Number(pc, Ended)
      /\ Number(pc', {"woken"}) = Number(pc, {"woken"}) - 1
      /\ Number(pc', {"executing"}) = Number(pc, {"executing"})
      /\ Number(pc, Held) \in Nat /\ Number(pc, Ended) \in Nat
      /\ Number(pc, {"woken"}) \in Nat /\ Number(pc, {"executing"}) \in Nat
    BY <1>1, Numbers
<1>3. TypeOK'
    BY DEF Resume, TypeOK, circuitVars
<1>4. QueueIsWaiting'
    BY <1>1, QueueKept
<1>5. Counters'
    <2>1. inflight' = Number(pc', Held)
        BY <1>2 DEF Resume, Counters
    <2>2. queue' # << >> => inflight' + Number(pc', {"woken"}) >= MaxConcurrent
        BY <1>2, GatewayAssumption DEF Resume, Counters, TypeOK
    <2> QED BY <1>2, <2>1, <2>2 DEF Resume, Counters, circuitVars
<1> QED BY <1>3, <1>4, <1>5 DEF Resume, ClosedBelowLimit, BreakerUnused, circuitVars

\* The breaker's part of a call that goes on or ends: the queue and the permits stay.
LEMMA BreakerKeeps ==
    ASSUME GatewayInv, NEW c \in Call, NEW b \in Places, Move(c, b), b \in Held, pc[c] \in Held, UNCHANGED semVars,
           remote' \subseteq Call, circuit' \in {"closed", "open", "half_open"}, failures' \in Nat,
           probes' \in Nat, cooled' \in BOOLEAN, totals' \in [{"successes", "failures", "rejections"} -> Nat],
           HasBreaker => totals'["successes"] + totals'["failures"] + totals'["rejections"] = Number(pc', Ended),
           circuit' = "half_open" => probes' <= HalfOpenMax /\ probes' <= Number(pc', {"executing"}),
           ClosedBelowLimit', BreakerUnused'
    PROVE  GatewayInv'
<1>1. TypeOK /\ QueueIsWaiting /\ Counters
    BY DEF GatewayInv
<1>2. inflight' = inflight /\ queue' = queue
    BY DEF semVars
<1>3. b \in {"acquired", "executing", "settled"} /\ pc[c] \in {"acquired", "executing", "settled"}
    BY DEF Held
<1>4. Number(pc', Held) = Number(pc, Held) /\ Number(pc', {"woken"}) = Number(pc, {"woken"})
    BY <1>1, <1>3, Numbers
<1>5. TypeOK'
    BY <1>1, <1>2 DEF TypeOK, Move, Put, Places
<1>6. QueueIsWaiting'
    BY <1>1, <1>2, <1>3, QueueKept
<1>7. Counters'
    BY <1>1, <1>2, <1>4 DEF Counters
<1> QED BY <1>5, <1>6, <1>7 DEF GatewayInv

\* tryAcquire lets a call through: a probe it counts is a call that now executes.
LEMMA StartKeeps == ASSUME GatewayInv, NEW c \in Call, Start(c) PROVE GatewayInv'
<1>1. TypeOK /\ Counters /\ ClosedBelowLimit /\ BreakerUnused
    BY DEF GatewayInv
<1>2. /\ Move(c, "executing") /\ pc[c] = "acquired" /\ "executing" \in Places
      /\ "executing" \in Held /\ "acquired" \in Held
    BY DEF Start, Places, Move, Put, Held
<1>3. /\ Number(pc', Ended) = Number(pc, Ended)
      /\ Number(pc', {"executing"}) = Number(pc, {"executing"}) + 1
      /\ Number(pc, {"executing"}) \in Nat
    BY <1>1, <1>2, Numbers
<1>4. /\ remote' \subseteq Call /\ circuit' \in {"closed", "open", "half_open"} /\ failures' \in Nat
      /\ probes' \in Nat
    BY <1>1 DEF Start, TypeOK, CircuitSeen, ProbesSeen, Reopens
<1>5. cooled' \in BOOLEAN /\ totals' \in [{"successes", "failures", "rejections"} -> Nat] /\ totals' = totals
    BY <1>1 DEF Start, TypeOK
<1>6. HasBreaker => totals'["successes"] + totals'["failures"] + totals'["rejections"] = Number(pc', Ended)
    BY <1>1, <1>3, <1>5 DEF Counters
<1>7. circuit' = "half_open" => probes' <= HalfOpenMax /\ probes' <= Number(pc', {"executing"})
    <2>1. CASE Reopens
        BY <1>3, <2>1, GatewayAssumption DEF Start, CircuitSeen, ProbesSeen
    <2>2. CASE ~Reopens
        <3>1. circuit' = circuit /\ probes' = IF circuit = "half_open" THEN probes + 1 ELSE probes
            BY <2>2 DEF Start, CircuitSeen, ProbesSeen
        <3>2. ASSUME circuit = "half_open" PROVE probes < HalfOpenMax /\ probes <= Number(pc, {"executing"})
            <4>1. HasBreaker
                BY <1>1, <3>2 DEF BreakerUnused
            <4> QED BY <1>1, <2>2, <3>2, <4>1 DEF Start, Admits, CircuitSeen, ProbesSeen, Counters
        <3> QED BY <1>1, <1>3, <3>1, <3>2, GatewayAssumption DEF TypeOK
    <2> QED BY <2>1, <2>2
<1>8. ClosedBelowLimit' /\ BreakerUnused'
    BY <1>1 DEF Start, ClosedBelowLimit, BreakerUnused, CircuitSeen, Reopens
<1> QED BY <1>2, <1>4, <1>5, <1>6, <1>7, <1>8, BreakerKeeps DEF Start

\* What counting one more call does to the totals.
LEMMA Counted ==
    ASSUME TypeOK, NEW total \in {"successes", "failures", "rejections"}, Count(total)
    PROVE  /\ totals' \in [{"successes", "failures", "rejections"} -> Nat]
           /\ totals'["successes"] + totals'["failures"] + totals'["rejections"]
                = totals["successes"] + totals["failures"] + totals["rejections"] + 1
    BY SMTT(40) DEF TypeOK, Count

\* An open breaker, or one with all its probes out, refuses the call and counts it.
LEMMA RejectKeeps == ASSUME GatewayInv, NEW c \in Call, Reject(c) PROVE GatewayInv'
<1>1. TypeOK /\ Counters /\ ClosedBelowLimit /\ BreakerUnused
    BY DEF GatewayInv
<1>2. /\ Move(c, "settled") /\ pc[c] = "acquired" /\ "settled" \in Places
      /\ "settled" \in Held /\ "acquired" \in Held
    BY DEF Reject, Places, Move, Put, Held
<1>3. /\ Number(pc', Ended) = Number(pc, Ended) + 1
      /\ Number(pc', {"executing"}) = Number(pc, {"executing"})
      /\ Number(pc, {"executing"}) \in Nat /\ Number(pc, Ended) \in Nat
    BY <1>1, <1>2, Numbers
<1>4. /\ remote' \subseteq Call /\ circuit' \in {"closed", "open", "half_open"} /\ failures' \in Nat
      /\ probes' \in Nat
    BY <1>1 DEF Reject, TypeOK, CircuitSeen, ProbesSeen, Reopens
<1>5. cooled' \in BOOLEAN
    BY <1>1 DEF Reject, TypeOK
<1>6. /\ totals' \in [{"successes", "failures", "rejections"} -> Nat]
      /\ HasBreaker => totals'["successes"] + totals'["failures"] + totals'["rejections"] = Number(pc', Ended)
    BY <1>1, <1>3, Counted DEF Reject, Counters
<1>7. circuit' = "half_open" => probes' <= HalfOpenMax /\ probes' <= Number(pc', {"executing"})
    BY <1>1, <1>3, GatewayAssumption DEF Reject, CircuitSeen, ProbesSeen, Reopens, Counters, TypeOK
<1>8. ClosedBelowLimit' /\ BreakerUnused'
    BY <1>1 DEF Reject, ClosedBelowLimit, BreakerUnused, CircuitSeen, Reopens
<1> QED BY <1>2, <1>4, <1>5, <1>6, <1>7, <1>8, BreakerKeeps DEF Reject

\* A recorded outcome leaves no half-open breaker behind, and a closed one is below its limit.
LEMMA Recorded ==
    ASSUME TypeOK, ClosedBelowLimit, HasBreaker, RecordSuccess \/ RecordFailure
    PROVE  /\ circuit' \in {"closed", "open"} /\ failures' \in Nat /\ probes' \in Nat /\ cooled' \in BOOLEAN
           /\ totals' \in [{"successes", "failures", "rejections"} -> Nat]
           /\ totals'["successes"] + totals'["failures"] + totals'["rejections"]
                = totals["successes"] + totals["failures"] + totals["rejections"] + 1
           /\ ClosedBelowLimit'
<1>1. OneProbeLess \in Nat
    BY DEF TypeOK, OneProbeLess
<1>2. CASE RecordSuccess
    <2>1. circuit' \in {"closed", "open"} /\ failures' \in Nat /\ probes' \in Nat /\ ClosedBelowLimit'
        BY <1>1, <1>2, GatewayAssumption DEF RecordSuccess, TypeOK, ClosedBelowLimit
    <2>2. cooled' \in BOOLEAN
        BY <1>2 DEF RecordSuccess, TypeOK
    <2> QED BY <1>2, <2>1, <2>2, Counted DEF RecordSuccess
<1>3. CASE RecordFailure
    <2>1. circuit' \in {"closed", "open"} /\ failures' \in Nat /\ probes' \in Nat /\ ClosedBelowLimit'
        BY <1>1, <1>3, GatewayAssumption DEF RecordFailure, TypeOK, ClosedBelowLimit, Trips
    <2>2. cooled' \in BOOLEAN
        BY <1>3 DEF RecordFailure, TypeOK
    <2> QED BY <1>3, <2>1, <2>2, Counted DEF RecordFailure
<1> QED BY <1>2, <1>3

\* A call ends while it executes, by its result or by its timeout.
LEMMA EndKeeps == ASSUME GatewayInv, NEW c \in Call, Settles(c) \/ TimesOut(c) PROVE GatewayInv'
<1>1. TypeOK /\ Counters /\ ClosedBelowLimit /\ BreakerUnused
    BY DEF GatewayInv
<1>2. /\ Move(c, "settled") /\ pc[c] = "executing" /\ "settled" \in Places
      /\ "settled" \in Held /\ "executing" \in Held /\ UNCHANGED semVars
    BY DEF Settles, TimesOut, Places, Move, Put, Held, semVars
<1>3. /\ Number(pc', Ended) = Number(pc, Ended) + 1 /\ Number(pc, Ended) \in Nat
    BY <1>1, <1>2, Numbers
<1>4. remote' \subseteq Call
    BY <1>1 DEF Settles, TimesOut, TypeOK
<1>5. CASE HasBreaker
    <2>1. RecordSuccess \/ RecordFailure
        BY <1>5 DEF Settles, TimesOut
    <2>2. /\ circuit' \in {"closed", "open"} /\ failures' \in Nat /\ probes' \in Nat /\ cooled' \in BOOLEAN
          /\ totals' \in [{"successes", "failures", "rejections"} -> Nat]
          /\ totals'["successes"] + totals'["failures"] + totals'["rejections"]
                = totals["successes"] + totals["failures"] + totals["rejections"] + 1
          /\ ClosedBelowLimit'
        BY <1>1, <1>5, <2>1, Recorded
    <2>3. totals'["successes"] + totals'["failures"] + totals'["rejections"] = Number(pc', Ended)
        BY <1>1, <1>3, <1>5, <2>2 DEF Counters
    <2>4. BreakerUnused'
        BY <1>5 DEF BreakerUnused
    <2>5. circuit' # "half_open" /\ circuit' \in {"closed", "open", "half_open"}
        BY <2>2
    <2> QED BY <1>2, <1>4, <2>2, <2>3, <2>4, <2>5, BreakerKeeps
<1>6. CASE ~HasBreaker
    <2>1. circuit = "closed" /\ circuit' = circuit /\ failures' = failures /\ probes' = probes
        BY <1>1, <1>6 DEF Settles, TimesOut, NoRecord, circuitVars, BreakerUnused
    <2>2. cooled' = cooled /\ totals' = totals
        BY <1>6 DEF Settles, TimesOut, NoRecord, circuitVars
    <2>3. /\ circuit' \in {"closed", "open", "half_open"} /\ failures' \in Nat /\ probes' \in Nat
          /\ totals' \in [{"successes", "failures", "rejections"} -> Nat]
        BY <1>1, <2>1, <2>2 DEF TypeOK
    <2>4. cooled' \in BOOLEAN
        BY <1>1, <2>2 DEF TypeOK
    <2>5. ClosedBelowLimit' /\ BreakerUnused'
        BY <1>1, <2>1 DEF ClosedBelowLimit, BreakerUnused
    <2>6. circuit' # "half_open"
        BY <2>1
    <2> QED BY <1>2, <1>4, <1>6, <2>3, <2>4, <2>5, <2>6, BreakerKeeps
<1> QED BY <1>5, <1>6

\* What release() does to the numbers when somebody waits.
LEMMA WokenNumbers ==
    ASSUME NEW f \in [Call -> Places], NEW c \in Call, NEW d \in Call, c # d,
           f[c] = "settled", f[d] = "waiting",
           NEW g, g = Put(Put(f, c, "done"), d, "woken")
    PROVE  /\ Number(g, Held) = Number(f, Held) - 1 /\ Number(f, Held) \in Nat
           /\ Number(g, Ended) = Number(f, Ended)
           /\ Number(g, {"woken"}) = Number(f, {"woken"}) + 1 /\ Number(f, {"woken"}) \in Nat
           /\ Number(g, {"executing"}) = Number(f, {"executing"})
<1> DEFINE k == Put(f, c, "done")
<1>1. "done" \in Places /\ "woken" \in Places
    BY DEF Places
<1>2. k \in [Call -> Places] /\ k[d] = "waiting" /\ g = Put(k, d, "woken")
    BY <1>1 DEF Put
<1>3. ASSUME NEW P, "waiting" \notin P
      PROVE  /\ Number(f, P) \in Nat /\ Number(k, P) \in Nat
             /\ "done" \in P /\ "settled" \in P => Number(k, P) = Number(f, P)
             /\ "done" \notin P /\ "settled" \in P => Number(k, P) = Number(f, P) - 1
             /\ "done" \notin P /\ "settled" \notin P => Number(k, P) = Number(f, P)
    BY <1>1, NumberMoved
<1> HIDE DEF k
<1>4. ASSUME NEW P, "waiting" \notin P
      PROVE  /\ "woken" \in P => Number(g, P) = Number(k, P) + 1
             /\ "woken" \notin P => Number(g, P) = Number(k, P)
    BY <1>1, <1>2, <1>4, NumberMoved
<1>5. Number(k, Held) = Number(f, Held) - 1 /\ Number(f, Held) \in Nat /\ Number(g, Held) = Number(k, Held)
    BY <1>3, <1>4 DEF Held
<1>6. Number(k, Ended) = Number(f, Ended) /\ Number(g, Ended) = Number(k, Ended)
    BY <1>3, <1>4 DEF Ended
<1>7. /\ Number(k, {"woken"}) = Number(f, {"woken"}) /\ Number(f, {"woken"}) \in Nat
      /\ Number(g, {"woken"}) = Number(k, {"woken"}) + 1
    BY <1>3, <1>4
<1>8. Number(k, {"executing"}) = Number(f, {"executing"}) /\ Number(g, {"executing"}) = Number(k, {"executing"})
    BY <1>3, <1>4
<1> QED BY <1>5, <1>6, <1>7, <1>8

\* release(): the permit comes back, and goes to the first waiter if there is one.
LEMMA ReleaseKeeps == ASSUME GatewayInv, NEW c \in Call, Release(c) PROVE GatewayInv'
<1>1. TypeOK /\ QueueIsWaiting /\ Counters /\ ClosedBelowLimit /\ BreakerUnused
    BY DEF GatewayInv
<1>2. /\ remote' = remote /\ circuit' = circuit /\ failures' = failures /\ probes' = probes
      /\ cooled' = cooled /\ totals' = totals /\ inflight' = inflight - 1 /\ pc[c] = "settled"
    BY DEF Release, circuitVars
<1>3. inflight \in Nat /\ inflight = Number(pc, Held) /\ pc \in [Call -> Places]
    BY <1>1 DEF TypeOK, Counters, Places
<1>4. ClosedBelowLimit' /\ BreakerUnused'
    BY <1>1, <1>2 DEF ClosedBelowLimit, BreakerUnused
<1>5. CASE queue = << >>
    <2>1. Move(c, "done") /\ queue' = queue /\ "done" \in Places
        BY <1>5 DEF Release, Places, Move, Put
    <2>2. /\ Number(pc', Held) = Number(pc, Held) - 1 /\ Number(pc', Ended) = Number(pc, Ended)
          /\ Number(pc', {"executing"}) = Number(pc, {"executing"})
        BY <1>1, <1>2, <2>1, Numbers
    <2>3. Number(pc', Held) \in Nat
        BY <1>2, <1>3, <2>1, NumberMoved DEF Move
    <2>4. TypeOK'
        BY <1>1, <1>2, <1>3, <2>1, <2>2, <2>3 DEF TypeOK, Move, Put
    <2>5. QueueIsWaiting'
        BY <1>1, <1>2, <2>1, QueueKept
    <2>6. Counters'
        BY <1>1, <1>2, <1>3, <1>5, <2>1, <2>2 DEF Counters
    <2> QED BY <1>4, <2>4, <2>5, <2>6 DEF GatewayInv
<1>6. CASE queue # << >>
    <2> DEFINE d == Head(queue)
    <2>1. /\ queue \in Seq(Call) /\ queue' = Tail(queue) /\ d \in Call /\ d = queue[1] /\ 1 \in DOMAIN queue
          /\ queue' \in Seq(Call)
        BY <1>1, <1>6, SMTT(40) DEF Release, TypeOK
    <2>2. pc[d] = "waiting"
        BY <1>1, <2>1 DEF QueueIsWaiting, At
    <2>3. pc' = [pc EXCEPT ![c] = "done", ![d] = "woken"]
        BY <1>6 DEF Release
    <2>3a. pc' = Put(Put(pc, c, "done"), d, "woken") /\ c # d
        BY <1>2, <2>2, <2>3 DEF Put
    <2> HIDE DEF d
    <2>4. /\ Number(pc', Held) = Number(pc, Held) - 1 /\ Number(pc, Held) \in Nat
          /\ Number(pc', Ended) = Number(pc, Ended)
          /\ Number(pc', {"woken"}) = Number(pc, {"woken"}) + 1 /\ Number(pc, {"woken"}) \in Nat
          /\ Number(pc', {"executing"}) = Number(pc, {"executing"})
        BY <1>2, <1>3, <2>1, <2>2, <2>3a, WokenNumbers
    <2>5. pc' \in [Call -> Places]
        BY <1>3, <2>1, <2>3 DEF Places
    <2>6. inflight' \in Nat
        <3>1. "done" \in Places /\ "done" \notin Held /\ "settled" \in Held
            BY DEF Places, Held
        <3>2. /\ Number(Put(pc, c, "done"), Held) \in Nat
              /\ Number(Put(pc, c, "done"), Held) = Number(pc, Held) - 1
            BY <1>2, <1>3, <3>1, NumberMoved
        <3> QED BY <1>2, <1>3, <3>2
    <2>7. TypeOK'
        BY <1>1, <1>2, <2>1, <2>5, <2>6 DEF TypeOK, Places
    <2>8. QueueIsWaiting'
        <3>1. At("waiting")' = At("waiting") \ {d}
            BY <1>2, <1>3, <2>1, <2>3, <2>3a DEF At
        <3>2. /\ DOMAIN queue' = 1 .. Len(queue) - 1 /\ Len(queue) \in Nat /\ DOMAIN queue = 1 .. Len(queue)
              /\ \A i \in DOMAIN queue' : queue'[i] = queue[i + 1] /\ i + 1 \in DOMAIN queue
            BY <1>6, <2>1
        <3>3. \A i, j \in DOMAIN queue' : queue'[i] = queue'[j] => i = j
            BY <1>1, <3>2 DEF QueueIsWaiting
        <3>4. \A i \in DOMAIN queue' : queue'[i] \in At("waiting") /\ queue'[i] # d
            BY <1>1, <2>1, <3>2 DEF QueueIsWaiting
        <3>5. \A x \in At("waiting") \ {d} : \E i \in DOMAIN queue' : queue'[i] = x
            <4> SUFFICES ASSUME NEW x \in At("waiting"), x # d PROVE \E i \in DOMAIN queue' : queue'[i] = x
                OBVIOUS
            <4>1. PICK j \in DOMAIN queue : queue[j] = x
                BY <1>1 DEF QueueIsWaiting
            <4>2. j # 1 /\ j - 1 \in DOMAIN queue' /\ (j - 1) + 1 = j
                BY <2>1, <3>2, <4>1
            <4> QED BY <3>2, <4>1, <4>2
        <3> QED BY <3>1, <3>3, <3>4, <3>5 DEF QueueIsWaiting
    <2>9. Counters'
        <3>1. inflight' = Number(pc', Held)
            BY <1>2, <1>3, <2>4
        <3>2. inflight' + Number(pc', {"woken"}) >= MaxConcurrent
            BY <1>1, <1>2, <1>3, <1>6, <2>4, GatewayAssumption DEF Counters
        <3> QED BY <1>1, <1>2, <2>4, <3>1, <3>2 DEF Counters
    <2> QED BY <1>4, <2>7, <2>8, <2>9 DEF GatewayInv
<1> QED BY <1>5, <1>6

\* Steps that move no call: a late result, the reset timeout, a look at the state.
LEMMA QuietKeeps ==
    ASSUME GatewayInv, (\E c \in Call : LateResult(c)) \/ CoolDown \/ ReadState
    PROVE  GatewayInv'
<1>1. TypeOK /\ QueueIsWaiting /\ Counters /\ ClosedBelowLimit /\ BreakerUnused
    BY DEF GatewayInv
<1>2. pc' = pc /\ inflight' = inflight /\ queue' = queue /\ failures' = failures /\ totals' = totals
    BY DEF LateResult, CoolDown, ReadState, NoRecord, semVars, circuitVars
<1>3. remote' \subseteq Call /\ cooled' \in BOOLEAN
    BY <1>1 DEF LateResult, CoolDown, ReadState, NoRecord, circuitVars, TypeOK
<1>4. \/ circuit' = circuit /\ probes' = probes
      \/ circuit = "open" /\ circuit' = "half_open" /\ probes' = 0
    BY DEF LateResult, CoolDown, ReadState, NoRecord, circuitVars, CircuitSeen, ProbesSeen, Reopens
<1>5. TypeOK'
    BY <1>1, <1>2, <1>3, <1>4 DEF TypeOK
<1>6. QueueIsWaiting'
    BY <1>1, <1>2 DEF QueueIsWaiting, At
<1>7. Counters'
    <2>1. Number(pc, {"executing"}) \in Nat
        <3>1. IsFiniteSet({c \in Call : pc[c] \in {"executing"}})
            BY FS_Subset, GatewayAssumption
        <3> QED BY <3>1, FS_CardinalityType DEF Number
    <2> QED BY <1>1, <1>2, <1>4, <2>1, GatewayAssumption DEF Counters
<1>8. ClosedBelowLimit' /\ BreakerUnused'
    BY <1>1, <1>2, <1>4 DEF ClosedBelowLimit, BreakerUnused
<1> QED BY <1>5, <1>6, <1>7, <1>8 DEF GatewayInv

\* Every step of the gateway keeps the invariant.
LEMMA StepGateway == GatewayInv /\ [Next]_vars => GatewayInv'
<1> SUFFICES ASSUME GatewayInv, [Next]_vars PROVE GatewayInv'
    OBVIOUS
<1>1. CASE UNCHANGED vars
    BY <1>1 DEF vars, semVars, circuitVars, GatewayInv, TypeOK, QueueIsWaiting, At, Counters,
                ClosedBelowLimit, BreakerUnused
<1>2. ASSUME NEW c \in Call, Acquire(c) \/ Wait(c) \/ Progress(c) PROVE GatewayInv'
    BY <1>2, AcquireKeeps, WaitKeeps, ResumeKeeps, StartKeeps, RejectKeeps, EndKeeps, ReleaseKeeps DEF Progress
<1>3. CASE (\E c \in Call : LateResult(c)) \/ CoolDown \/ ReadState
    BY <1>3, QuietKeeps
<1> QED BY <1>1, <1>2, <1>3 DEF Next

\* The sets of the properties are those the numbers count.
LEMMA CountedSets ==
    ASSUME TypeOK
    PROVE  /\ Number(pc, Held) = Cardinality(Holders)
           /\ Number(pc, Ended) = Cardinality(At("settled") \cup At("done"))
           /\ Number(pc, {"woken"}) = Cardinality(At("woken"))
           /\ Number(pc, {"executing"}) = Cardinality(At("executing"))
<1>1. {c \in Call : pc[c] \in Held} = Holders
    BY DEF Held, Holders, At
<1>2. {c \in Call : pc[c] \in Ended} = At("settled") \cup At("done")
    BY DEF Ended, At
<1>3. {c \in Call : pc[c] \in {"woken"}} = At("woken") /\ {c \in Call : pc[c] \in {"executing"}} = At("executing")
    BY DEF At
<1> QED BY <1>1, <1>2, <1>3 DEF Number

\* The invariant holds in every reachable state.
LEMMA GatewayInvariant == Spec => []GatewayInv
    BY InitGateway, StepGateway, PTL DEF Spec

\* Every variable of the gateway keeps its type.
THEOREM TypeCorrect == Spec => []TypeOK
<1>1. GatewayInv => TypeOK
    BY DEF GatewayInv
<1> QED BY <1>1, GatewayInvariant, PTL

\* The semaphore's counter is the number of calls that hold a permit, however each of them
\* ends, and its queue holds exactly the calls that wait (Semaphore in gateway.ts).
THEOREM PermitsAreHeld == Spec => []PermitsHeld
<1>1. GatewayInv => PermitsHeld
    BY CountedSets DEF GatewayInv, PermitsHeld, Counters, QueueIsWaiting
<1> QED BY <1>1, GatewayInvariant, PTL

\* While a call waits, every permit is taken or promised to a waiter that was woken
\* (release() in gateway.ts).
THEOREM NoWakeupLost == Spec => []NoLostWakeup
<1>1. GatewayInv => NoLostWakeup
    BY CountedSets DEF GatewayInv, NoLostWakeup, Counters
<1> QED BY <1>1, GatewayInvariant, PTL

\* The breaker counts each ended call once, is below its limit while closed, and when half
\* open counts as probes only calls that still run (circuit-breaker.ts).
THEOREM BreakerIsSound == Spec => []BreakerSound
<1>1. GatewayInv => BreakerSound
    <2> SUFFICES ASSUME GatewayInv PROVE BreakerSound
        OBVIOUS
    <2>1. CountedOnce
        <3>1. totals.successes = totals["successes"] /\ totals.failures = totals["failures"]
              /\ totals.rejections = totals["rejections"]
            OBVIOUS
        <3> QED BY <3>1, CountedSets DEF GatewayInv, Counters, CountedOnce
    <2>2. ProbesAreRunning
        BY CountedSets DEF GatewayInv, Counters, ProbesAreRunning
    <2> QED BY <2>1, <2>2 DEF BreakerSound, GatewayInv
<1> QED BY <1>1, GatewayInvariant, PTL

=============================================================================
