---------------------------- MODULE ReadSideProofs ----------------------------
(***************************************************************************)
(* Proofs about the read side: every step of the composition is a step of  *)
(* the component deployed or leaves its state alone.  In order: the start  *)
(* slots and the cache of the journal client, the commands of the HTTP     *)
(* routes, the event stream, the walk over the journal route, the          *)
(* connection to Home Assistant, and the bridge over it.                   *)
(***************************************************************************)
EXTENDS ReadSide, FiniteSetTheorems, SequenceTheorems, WellFoundedInduction, TLAPS

\* A step of the composition is a step of the component deployed and leaves the others alone.
LEMMA ComponentSteps ==
    ASSUME [Next]_vars
    PROVE  /\ [Client!Next]_clientState /\ [Commanding!CommandsNext]_commandState
           /\ [Feeds!FeedsNext]_feedState /\ [Bridge!Next]_bridgeState
           /\ [Ha!Next]_haState /\ [Win!WindowsNext]_windowState
BY DEF Next, vars, ProjectionRuns, SagaRuns, ClientRuns, CommandsRun, FeedsRun, BridgeRuns, HaRuns, WindowsRun

-----------------------------------------------------------------------------
(* The journal client: the start slots.                                     *)

\* The starters that hold a slot, and those that are about to look for one.
Holding == {s \in Starters : pc[s] \in {"interval", "stream", "ended"}}
Seeking == {s \in Starters : pc[s] = "slot" \/ (pc[s] = "queued" /\ \A i \in DOMAIN waiting : waiting[i] # s)}

\* The queue holds starters that wait, each once; and while one waits there are at least as
\* many starters about to look as there are free slots: a release wakes one for each it frees.
SlotInv ==
    /\ pc = [s \in Starters |-> pc[s]] /\ state = [s \in Starters |-> state[s]]
    /\ others \in Nat /\ IsFiniteSet(Holding) /\ used = Cardinality(Holding) + others
    /\ waiting \in Seq(Starters)
    /\ \A i \in DOMAIN waiting : pc[waiting[i]] = "queued"
    /\ \A i, j \in DOMAIN waiting : waiting[i] = waiting[j] => i = j
    /\ IsFiniteSet(Seeking)
    /\ waiting # << >> => MaxStarts - used <= Cardinality(Seeking)

\* Who is in the queue.
LEMMA WhoWaits ==
    ASSUME SlotInv
    PROVE  \A i \in DOMAIN waiting : waiting[i] \in Starters /\ pc[waiting[i]] = "queued"
<1>1. waiting \in Seq(Starters)
    BY DEF SlotInv
<1>2. \A i \in DOMAIN waiting : waiting[i] \in Starters
    BY <1>1
<1> QED BY <1>2 DEF SlotInv

\* A step that leaves the slots, the queue and the place of every starter alone.
LEMMA QuietKeepsSlots ==
    ASSUME SlotInv, UNCHANGED <<pc, used, others, waiting>>, state' = [s \in Starters |-> state'[s]]
    PROVE  SlotInv'
<1>1. Holding' = Holding /\ Seeking' = Seeking
    BY DEF Holding, Seeking
<1> QED BY <1>1 DEF SlotInv

\* A starter that holds a slot goes on holding it, one that does nothing stays away.
LEMMA MoveKeepsSlots ==
    ASSUME SlotInv, UNCHANGED <<used, others, waiting>>, state' = [s \in Starters |-> state'[s]],
           NEW s \in Starters, NEW x, pc' = [pc EXCEPT ![s] = x],
           \/ pc[s] \in {"interval", "stream", "ended"} /\ x \in {"interval", "stream", "ended"}
           \/ pc[s] = "new" /\ x = "done"
    PROVE  SlotInv'
<1>1. pc' = [t \in Starters |-> pc'[t]] /\ pc'[s] = x /\ \A t \in Starters : t # s => pc'[t] = pc[t]
    BY DEF SlotInv
<1>2. Holding' = Holding /\ Seeking' = Seeking
    BY <1>1 DEF Holding, Seeking
<1>3. \A i \in DOMAIN waiting : waiting[i] \in Starters /\ pc'[waiting[i]] = "queued"
    BY <1>1, WhoWaits
<1> QED BY <1>1, <1>2, <1>3 DEF SlotInv

\* A starter looks for a slot, because it is new or because it was woken.
LEMMA LookKeepsSlots ==
    ASSUME SlotInv, UNCHANGED <<used, others, waiting, state>>, NEW s \in Starters, pc' = [pc EXCEPT ![s] = "slot"],
           pc[s] = "new" \/ (pc[s] = "queued" /\ \A i \in DOMAIN waiting : waiting[i] # s)
    PROVE  SlotInv'
<1>1. pc' = [t \in Starters |-> pc'[t]] /\ pc'[s] = "slot" /\ \A t \in Starters : t # s => pc'[t] = pc[t]
    BY DEF SlotInv
<1>2. Holding' = Holding
    BY <1>1 DEF Holding
<1>3. Seeking' = Seeking \cup {s}
    BY <1>1 DEF Seeking
<1>4. IsFiniteSet(Seeking) /\ Cardinality(Seeking) \in Nat
    BY FS_CardinalityType DEF SlotInv
<1>5. IsFiniteSet(Seeking') /\ Cardinality(Seeking') >= Cardinality(Seeking) /\ Cardinality(Seeking') \in Nat
    <2>1. IsFiniteSet(Seeking') /\ Cardinality(Seeking') = IF s \in Seeking THEN Cardinality(Seeking) ELSE Cardinality(Seeking) + 1
        BY <1>3, <1>4, FS_AddElement
    <2> QED BY <1>4, <2>1
<1>6. \A i \in DOMAIN waiting : pc'[waiting[i]] = "queued"
    <2> TAKE i \in DOMAIN waiting
    <2>1. waiting[i] \in Starters /\ pc[waiting[i]] = "queued"
        BY WhoWaits
    <2> QED BY <1>1, <2>1
<1>7. used \in Int
    BY FS_CardinalityType DEF SlotInv
<1>8. waiting' # << >> => MaxStarts - used' <= Cardinality(Seeking')
    BY <1>4, <1>5, <1>7, CountAssumption DEF SlotInv
<1> QED BY <1>1, <1>2, <1>5, <1>6, <1>8 DEF SlotInv

\* waitForStartSlot finds every slot taken.
LEMMA QueueUpKeepsSlots ==
    ASSUME SlotInv, NEW s \in Starters, Client!QueueUp(s)
    PROVE  SlotInv'
<1>1. /\ UNCHANGED <<used, others, state>> /\ pc[s] = "slot" /\ used >= MaxStarts
      /\ pc' = [pc EXCEPT ![s] = "queued"] /\ waiting' = Append(waiting, s)
    BY DEF Client!QueueUp
<1>2. pc' = [t \in Starters |-> pc'[t]] /\ pc'[s] = "queued" /\ \A t \in Starters : t # s => pc'[t] = pc[t]
    BY <1>1 DEF SlotInv
<1>3. waiting \in Seq(Starters)
    BY DEF SlotInv
<1>4. /\ waiting' \in Seq(Starters) /\ Len(waiting') = Len(waiting) + 1 /\ waiting'[Len(waiting) + 1] = s
      /\ \A i \in 1 .. Len(waiting) : waiting'[i] = waiting[i]
    BY <1>1, <1>3
<1>5. DOMAIN waiting = 1 .. Len(waiting) /\ DOMAIN waiting' = 1 .. Len(waiting) + 1 /\ Len(waiting) \in Nat
    BY <1>3, <1>4
<1>6. \A i \in DOMAIN waiting : waiting[i] # s
    BY <1>1 DEF SlotInv
<1>7. Holding' = Holding
    BY <1>1, <1>2 DEF Holding
<1>8. Seeking' = Seeking \ {s}
    <2>1. ASSUME NEW t \in Starters, t # s
          PROVE  (\A i \in DOMAIN waiting' : waiting'[i] # t) <=> (\A i \in DOMAIN waiting : waiting[i] # t)
        BY <1>4, <1>5, <2>1
    <2>2. s \notin Seeking'
        BY <1>2, <1>4, <1>5 DEF Seeking
    <2> QED BY <1>2, <2>1, <2>2 DEF Seeking
<1>9. IsFiniteSet(Seeking') /\ Cardinality(Seeking') \in Nat
    BY <1>8, FS_RemoveElement, FS_CardinalityType DEF SlotInv
<1>10. used \in Int
    BY FS_CardinalityType DEF SlotInv
<1>11. \A i \in DOMAIN waiting' : pc'[waiting'[i]] = "queued"
    BY <1>2, <1>4, <1>5, <1>6, WhoWaits
<1>12. \A i, j \in DOMAIN waiting' : waiting'[i] = waiting'[j] => i = j
    BY <1>4, <1>5, <1>6 DEF SlotInv
<1>13. MaxStarts - used' <= Cardinality(Seeking')
    BY <1>1, <1>9, <1>10, CountAssumption
<1> QED BY <1>1, <1>2, <1>4, <1>7, <1>9, <1>11, <1>12, <1>13 DEF SlotInv

\* A slot is free and is taken.
LEMMA TakeKeepsSlots ==
    ASSUME SlotInv, NEW s \in Starters, Client!TakeSlot(s)
    PROVE  SlotInv'
<1>1. PICK x \in {"ended", "interval"} : pc' = [pc EXCEPT ![s] = x]
    BY DEF Client!TakeSlot
<1>2. UNCHANGED <<others, waiting, state>> /\ pc[s] = "slot" /\ used' = used + 1
    BY DEF Client!TakeSlot
<1>3. pc' = [t \in Starters |-> pc'[t]] /\ pc'[s] = x /\ \A t \in Starters : t # s => pc'[t] = pc[t]
    BY <1>1 DEF SlotInv
<1>4. Holding' = Holding \cup {s} /\ s \notin Holding
    BY <1>2, <1>3 DEF Holding
<1>5. Seeking' = Seeking \ {s} /\ s \in Seeking
    BY <1>2, <1>3 DEF Seeking
<1>6. IsFiniteSet(Holding) /\ Cardinality(Holding) \in Nat /\ IsFiniteSet(Seeking) /\ Cardinality(Seeking) \in Nat
    BY FS_CardinalityType DEF SlotInv
<1>7. IsFiniteSet(Holding') /\ Cardinality(Holding') = Cardinality(Holding) + 1
    BY <1>4, <1>6, FS_AddElement
<1>8. IsFiniteSet(Seeking') /\ Cardinality(Seeking') = Cardinality(Seeking) - 1
    BY <1>5, <1>6, FS_RemoveElement
<1>9. \A i \in DOMAIN waiting : pc'[waiting[i]] = "queued"
    BY <1>2, <1>3, WhoWaits
<1>10. used = Cardinality(Holding) + others /\ others \in Nat
    BY DEF SlotInv
<1>11. used' = Cardinality(Holding') + others'
    BY <1>2, <1>6, <1>7, <1>10
<1>12. waiting' # << >> => MaxStarts - used' <= Cardinality(Seeking')
    BY <1>2, <1>6, <1>8, <1>10, CountAssumption DEF SlotInv
<1> QED BY <1>2, <1>3, <1>7, <1>8, <1>9, <1>10, <1>11, <1>12 DEF SlotInv

\* releaseStartSlot: the slot is free, and the first in the queue is about to look.
LEMMA ReleaseWakes ==
    ASSUME SlotInv, Client!Release, \A t \in Starters : pc[t] = "queued" => pc'[t] = "queued",
           \A t \in Starters : pc'[t] \in {"slot", "queued"} => pc'[t] = pc[t],
           \A t \in Starters : pc[t] = "slot" => pc'[t] = "slot"
    PROVE  /\ waiting' \in Seq(Starters)
           /\ \A i \in DOMAIN waiting' : pc'[waiting'[i]] = "queued"
           /\ \A i, j \in DOMAIN waiting' : waiting'[i] = waiting'[j] => i = j
           /\ IsFiniteSet(Seeking') /\ used' = used - 1
           /\ waiting' # << >> => MaxStarts - used' <= Cardinality(Seeking')
<1>1. waiting \in Seq(Starters) /\ used' = used - 1 /\ used \in Int
      /\ IsFiniteSet(Seeking) /\ Cardinality(Seeking) \in Nat
    BY FS_CardinalityType DEF SlotInv, Client!Release
<1>2. CASE waiting = << >>
    <2>1. waiting' = << >> /\ Seeking' = Seeking
        BY <1>2 DEF Client!Release, Seeking
    <2> QED BY <1>1, <2>1
<1>3. CASE waiting # << >>
    <2> DEFINE h == Head(waiting)
    <2>1. waiting' = Tail(waiting)
        BY <1>3 DEF Client!Release
    <2>2. /\ Len(waiting) \in Nat \ {0} /\ DOMAIN waiting = 1 .. Len(waiting) /\ h = waiting[1]
          /\ waiting' \in Seq(Starters) /\ DOMAIN waiting' = 1 .. Len(waiting) - 1
          /\ \A i \in 1 .. Len(waiting) - 1 : waiting'[i] = waiting[i + 1]
        BY <1>1, <1>3, <2>1
    <2>3. h \in Starters /\ pc[h] = "queued"
        BY <2>2, WhoWaits
    <2> HIDE DEF h
    <2>4. \A i \in DOMAIN waiting' : pc'[waiting'[i]] = "queued"
        BY <2>2, WhoWaits
    <2>5. \A i, j \in DOMAIN waiting' : waiting'[i] = waiting'[j] => i = j
        <3> TAKE i, j \in DOMAIN waiting'
        <3>1. i + 1 \in DOMAIN waiting /\ j + 1 \in DOMAIN waiting /\ waiting'[i] = waiting[i + 1] /\ waiting'[j] = waiting[j + 1]
            BY <2>2
        <3>2. waiting[i + 1] = waiting[j + 1] => i + 1 = j + 1
            BY <3>1 DEF SlotInv
        <3> QED BY <2>2, <3>1, <3>2
    <2>6. \A i \in DOMAIN waiting' : waiting'[i] # h
        <3> TAKE i \in DOMAIN waiting'
        <3>1. i + 1 \in DOMAIN waiting /\ 1 \in DOMAIN waiting /\ waiting'[i] = waiting[i + 1] /\ i + 1 # 1
            BY <2>2
        <3>2. waiting[i + 1] = waiting[1] => i + 1 = 1
            BY <3>1 DEF SlotInv
        <3> QED BY <2>2, <3>1, <3>2
    <2>7. ASSUME NEW t, t # h
          PROVE  (\A i \in DOMAIN waiting' : waiting'[i] # t) <=> (\A i \in DOMAIN waiting : waiting[i] # t)
        <3>1. ASSUME NEW i \in DOMAIN waiting, waiting[i] = t PROVE \E j \in DOMAIN waiting' : waiting'[j] = t
            <4>1. i # 1
                BY <2>2, <2>7, <3>1
            <4>2. i - 1 \in DOMAIN waiting' /\ waiting'[i - 1] = waiting[i]
                BY <2>2, <4>1
            <4> QED BY <3>1, <4>2
        <3>2. ASSUME NEW i \in DOMAIN waiting', waiting'[i] = t PROVE \E j \in DOMAIN waiting : waiting[j] = t
            <4>1. i + 1 \in DOMAIN waiting /\ waiting'[i] = waiting[i + 1]
                BY <2>2
            <4> QED BY <3>2, <4>1
        <3> QED BY <3>1, <3>2
    <2>8. Seeking' = Seeking \cup {h} /\ h \notin Seeking
        <3>1. h \in Seeking'
            BY <2>3, <2>6 DEF Seeking
        <3>2. h \notin Seeking
            BY <2>2, <2>3 DEF Seeking
        <3>3. \A t \in Starters : t # h => (t \in Seeking' <=> t \in Seeking)
            BY <2>7 DEF Seeking
        <3> QED BY <2>3, <3>1, <3>2, <3>3 DEF Seeking
    <2>9. IsFiniteSet(Seeking') /\ Cardinality(Seeking') = Cardinality(Seeking) + 1
        BY <1>1, <2>8, FS_AddElement
    <2>10. MaxStarts - used <= Cardinality(Seeking)
        BY <1>3 DEF SlotInv
    <2>11. MaxStarts - used' <= Cardinality(Seeking')
        BY <1>1, <2>9, <2>10, CountAssumption
    <2> QED BY <1>1, <2>2, <2>4, <2>5, <2>9, <2>11
<1> QED BY <1>2, <1>3

\* A subscription ends, of this id or of another.
LEMMA EndKeepsSlots ==
    ASSUME SlotInv, Client!OtherEnds \/ \E s \in Starters : Client!StreamEnds(s)
    PROVE  SlotInv'
<1>0. /\ IsFiniteSet(Holding) /\ Cardinality(Holding) \in Nat /\ used = Cardinality(Holding) + others /\ others \in Nat
    BY FS_CardinalityType DEF SlotInv
<1>1. CASE Client!OtherEnds
    <2>1. UNCHANGED <<pc, state>> /\ Client!Release /\ others > 0 /\ others' = others - 1
        BY <1>1 DEF Client!OtherEnds
    <2>2. Holding' = Holding
        BY <2>1 DEF Holding
    <2>3. others' \in Nat /\ used - 1 = Cardinality(Holding') + others'
        BY <1>0, <2>1, <2>2
    <2> QED BY <1>0, <2>1, <2>2, <2>3, ReleaseWakes DEF SlotInv
<1>2. ASSUME NEW s \in Starters, Client!StreamEnds(s) PROVE SlotInv'
    <2>1. /\ UNCHANGED <<others, state>> /\ Client!Release /\ pc[s] \in {"stream", "ended"}
          /\ pc' = [pc EXCEPT ![s] = "done"]
        BY <1>2 DEF Client!StreamEnds
    <2>2. pc' = [t \in Starters |-> pc'[t]] /\ pc'[s] = "done" /\ \A t \in Starters : t # s => pc'[t] = pc[t]
        BY <2>1 DEF SlotInv
    <2>3. Holding' = Holding \ {s} /\ s \in Holding
        BY <2>1, <2>2 DEF Holding
    <2>4. IsFiniteSet(Holding') /\ Cardinality(Holding') = Cardinality(Holding) - 1
        BY <1>0, <2>3, FS_RemoveElement
    <2>5. used - 1 = Cardinality(Holding') + others'
        BY <1>0, <2>1, <2>4
    <2>6. /\ \A t \in Starters : pc[t] = "queued" => pc'[t] = "queued"
          /\ \A t \in Starters : pc'[t] \in {"slot", "queued"} => pc'[t] = pc[t]
          /\ \A t \in Starters : pc[t] = "slot" => pc'[t] = "slot"
        BY <2>1, <2>2
    <2> QED BY <1>0, <2>1, <2>2, <2>4, <2>5, <2>6, ReleaseWakes DEF SlotInv
<1> QED BY <1>1, <1>2

LEMMA StepKeepsSlots == SlotInv /\ [Client!Next]_clientState => SlotInv'
<1> SUFFICES ASSUME SlotInv, [Client!Next]_clientState PROVE SlotInv'
    OBVIOUS
<1>0. state = [s \in Starters |-> state[s]] /\ pc = [s \in Starters |-> pc[s]]
    BY DEF SlotInv
<1>1. CASE UNCHANGED clientState
    BY <1>0, <1>1, QuietKeepsSlots DEF clientState
<1>2. CASE Client!OtherEnds \/ \E s \in Starters : Client!StreamEnds(s)
    BY <1>2, EndKeepsSlots
<1>3. CASE Client!StopClient \/ Client!ReaderMisses \/ Client!ReaderFills \/ Client!Evict \/ Client!Persist
    <2>1. UNCHANGED <<pc, used, others, waiting, state>>
        BY <1>3 DEF Client!StopClient, Client!ReaderMisses, Client!ReaderFills, Client!Evict, Client!Persist
    <2> QED BY <1>0, <2>1, QuietKeepsSlots
<1>4. ASSUME NEW s \in Starters, Client!LoadState(s) \/ Client!NextEvent(s)
      PROVE  SlotInv'
    <2>1. UNCHANGED <<pc, used, others, waiting>> /\ state' = [t \in Starters |-> state'[t]]
        BY <1>0, <1>4 DEF Client!LoadState, Client!NextEvent
    <2> QED BY <2>1, QuietKeepsSlots
<1>5. ASSUME NEW s \in Starters, Client!Discover(s)
      PROVE  SlotInv'
    <2>1. /\ UNCHANGED <<used, others, waiting, state>> /\ pc[s] = "new"
          /\ pc' = [pc EXCEPT ![s] = IF registered \/ stopped THEN "done" ELSE "slot"]
        BY <1>5 DEF Client!Discover
    <2>2. CASE registered \/ stopped
        BY <1>0, <2>1, <2>2, MoveKeepsSlots
    <2>3. CASE ~(registered \/ stopped)
        BY <2>1, <2>3, LookKeepsSlots
    <2> QED BY <2>2, <2>3
<1>6. ASSUME NEW s \in Starters, Client!Wake(s)
      PROVE  SlotInv'
    <2>1. /\ UNCHANGED <<used, others, waiting, state>> /\ pc' = [pc EXCEPT ![s] = "slot"]
          /\ pc[s] = "queued" /\ \A i \in 1 .. Len(waiting) : waiting[i] # s
        BY <1>6 DEF Client!Wake, Client!Woken
    <2>2. DOMAIN waiting = 1 .. Len(waiting)
        BY DEF SlotInv
    <2> QED BY <2>1, <2>2, LookKeepsSlots
<1>7. ASSUME NEW s \in Starters, Client!OpenStream(s) \/ Client!StreamFails(s) \/ Client!FatalError(s)
      PROVE  SlotInv'
    <2>1. /\ UNCHANGED <<used, others, waiting>> /\ state' = [t \in Starters |-> state'[t]]
          /\ pc[s] \in {"interval", "stream"}
        BY <1>0, <1>7 DEF Client!OpenStream, Client!StreamFails, Client!FatalError
    <2>2. \E x \in {"interval", "stream", "ended"} : pc' = [pc EXCEPT ![s] = x]
        BY <1>7 DEF Client!OpenStream, Client!StreamFails, Client!FatalError
    <2> QED BY <2>1, <2>2, MoveKeepsSlots
<1> QED BY <1>1, <1>2, <1>3, <1>4, <1>5, <1>6, <1>7, QueueUpKeepsSlots, TakeKeepsSlots DEF Client!Next

LEMMA InitSlots == Init => SlotInv
<1> SUFFICES ASSUME Client!Init PROVE SlotInv
    BY DEF Init
<1>1. /\ used = Others /\ others = Others /\ waiting = << >>
      /\ pc = [s \in Starters |-> "new"] /\ state = [s \in Starters |-> -1]
    BY DEF Client!Init
<1>2. Holding = {} /\ Seeking = {}
    BY <1>1 DEF Holding, Seeking
<1>3. << >> \in Seq(Starters) /\ DOMAIN << >> = {}
    OBVIOUS
<1>4. pc = [s \in Starters |-> pc[s]] /\ state = [s \in Starters |-> state[s]]
    BY <1>1
<1> QED BY <1>1, <1>2, <1>3, <1>4, FS_EmptySet, CountAssumption DEF SlotInv

\* The deployed journal client loses no start slot: the count is that of the subscriptions
\* running, and nobody queues for a slot that is free and that no starter is about to look
\* at (waitForStartSlot, releaseStartSlot).
THEOREM SlotsAreNotLost == Spec => []NoSlotLost
<1>1. SlotInv /\ [Next]_vars => SlotInv'
    BY ComponentSteps, StepKeepsSlots
<1>2. SlotInv => NoSlotLost
    <2> SUFFICES ASSUME SlotInv PROVE Client!NoSlotLost
        BY DEF NoSlotLost
    <2>1. Client!Cardinality(Client!Running) = Cardinality(Holding)
        BY DEF Client!Cardinality, Cardinality, Client!Running, Holding
    <2>2. used = Client!Cardinality(Client!Running) + others
        BY <2>1 DEF SlotInv
    <2>3. ASSUME waiting # << >>, ~(used >= MaxStarts)
          PROVE  Client!Woken # {} \/ \E s \in Starters : pc[s] = "slot"
        <3>1. used \in Int /\ IsFiniteSet(Seeking) /\ Cardinality(Seeking) \in Nat /\ MaxStarts - used <= Cardinality(Seeking)
            BY <2>3, FS_CardinalityType DEF SlotInv
        <3>2. Cardinality(Seeking) # 0
            BY <2>3, <3>1, CountAssumption
        <3>3. Seeking # {}
            BY <3>2, FS_EmptySet
        <3>4. PICK s \in Seeking : TRUE
            BY <3>3
        <3>5. DOMAIN waiting = 1 .. Len(waiting)
            BY DEF SlotInv
        <3> QED BY <3>4, <3>5 DEF Seeking, Client!Woken
    <2> QED BY <2>2, <2>3 DEF Client!NoSlotLost
<1> QED BY <1>1, <1>2, InitSlots, PTL DEF Spec

\* What the read model has confirmed is replaced by an applied event or evicted, never by a
\* load that was in flight (updateBestEffort, updateConsistent).
THEOREM ConsistentEntryIsKept == Spec => ConsistentEntryKept
<1> DEFINE Kept == cache.consistent => \/ cache' = Client!NoEntry
                                       \/ cache' = cache
                                       \/ \E s \in Starters : state'[s] = state[s] + 1 /\ cache' = Client!UpdateConsistent(state'[s])
<1>1. SlotInv /\ [Next]_vars => SlotInv'
    BY ComponentSteps, StepKeepsSlots
<1>2. SlotInv /\ [Next]_vars => [Kept]_(Client!clientVars)
    <2> SUFFICES ASSUME SlotInv, Client!Next, cache.consistent PROVE Kept
        BY ComponentSteps DEF clientState, Client!clientVars
    <2>1. ASSUME NEW s \in Starters, Client!NextEvent(s) PROVE Kept
        <3>1. CASE Head(rows[s]) = state[s] + 1
            <4>1. state' = [state EXCEPT ![s] = state[s] + 1] /\ cache' = Client!UpdateConsistent(state[s] + 1)
                BY <2>1, <3>1 DEF Client!NextEvent
            <4>2. state = [t \in Starters |-> state[t]]
                BY DEF SlotInv
            <4>3. state'[s] = state[s] + 1
                BY <4>1, <4>2
            <4> QED BY <4>1, <4>3
        <3>2. CASE ~(Head(rows[s]) = state[s] + 1)
            BY <2>1, <3>2 DEF Client!NextEvent
        <3> QED BY <3>1, <3>2
    <2>2. ASSUME Client!ReaderFills PROVE Kept
        BY <2>2 DEF Client!ReaderFills, Client!UpdateBestEffort
    <2>3. ASSUME Client!Evict PROVE Kept
        BY <2>3 DEF Client!Evict
    <2>4. ASSUME NEW s \in Starters,
                 \/ Client!Discover(s) \/ Client!QueueUp(s) \/ Client!TakeSlot(s) \/ Client!Wake(s) \/ Client!OpenStream(s)
                 \/ Client!LoadState(s) \/ Client!StreamEnds(s) \/ Client!StreamFails(s) \/ Client!FatalError(s)
          PROVE  Kept
        BY <2>4 DEF Client!Discover, Client!QueueUp, Client!TakeSlot, Client!Wake, Client!OpenStream,
                    Client!LoadState, Client!StreamEnds, Client!StreamFails, Client!FatalError
    <2>5. ASSUME Client!OtherEnds \/ Client!StopClient \/ Client!ReaderMisses \/ Client!Persist PROVE Kept
        BY <2>5 DEF Client!OtherEnds, Client!StopClient, Client!ReaderMisses, Client!Persist
    <2> QED BY <2>1, <2>2, <2>3, <2>4, <2>5 DEF Client!Next
<1> QED BY <1>1, <1>2, InitSlots, PTL DEF Spec, ConsistentEntryKept, Client!ConsistentEntryKept

-----------------------------------------------------------------------------
(* The command routes: versions and their winners.                          *)

Request == [ifMatch : Int, ran : BOOLEAN, preSequenceNr : Nat, wrote : Nat, rejected : BOOLEAN, status : Nat]

\* The commands that ran wrote disjoint stretches of the entity's history, and a request
\* answered 200 has run, on the version it expects if it expects one.
CommandInv ==
    /\ sequenceNr \in Nat /\ requests \in Seq(Request)
    /\ \A r \in DOMAIN requests : requests[r].ran => requests[r].preSequenceNr + requests[r].wrote <= sequenceNr
    /\ \A q, r \in DOMAIN requests :
          q # r /\ requests[q].ran /\ requests[r].ran =>
              \/ requests[q].preSequenceNr + requests[q].wrote <= requests[r].preSequenceNr
              \/ requests[r].preSequenceNr + requests[r].wrote <= requests[q].preSequenceNr
    /\ \A r \in DOMAIN requests :
          requests[r].status = 200 =>
              requests[r].ran /\ (requests[r].ifMatch = -1 \/ requests[r].ifMatch = requests[r].preSequenceNr)

\* One request is replaced by another.
LEMMA OtherRequest ==
    ASSUME requests \in Seq(Request), NEW r \in DOMAIN requests, NEW k \in Request, requests' = [requests EXCEPT ![r] = k]
    PROVE  /\ requests' \in Seq(Request) /\ DOMAIN requests' = DOMAIN requests /\ requests'[r] = k
           /\ \A q \in DOMAIN requests : q # r => requests'[q] = requests[q]
OBVIOUS

\* The answer of a request changes and nothing else.
LEMMA AnswerKeepsCommands ==
    ASSUME CommandInv, NEW r \in DOMAIN requests, NEW code \in Nat, sequenceNr' = sequenceNr,
           requests' = [requests EXCEPT ![r].status = code],
           code = 200 => requests[r].ran /\ (requests[r].ifMatch = -1 \/ requests[r].ifMatch = requests[r].preSequenceNr)
    PROVE  CommandInv'
<1> DEFINE o == requests[r]
           k == [o EXCEPT !.status = code]
<1>1. requests \in Seq(Request) /\ o \in Request
    <2>1. requests \in Seq(Request)
        BY DEF CommandInv
    <2> QED BY <2>1
<1>2. requests' = [requests EXCEPT ![r] = k]
    OBVIOUS
<1> HIDE DEF o
<1>3. k \in Request /\ k.preSequenceNr = o.preSequenceNr /\ k.wrote = o.wrote /\ k.status = code /\ k.ifMatch = o.ifMatch
    BY <1>1 DEF Request
<1>4. k.ran = o.ran
    BY <1>1 DEF Request
<1> HIDE DEF k
<1>5. /\ requests' \in Seq(Request) /\ DOMAIN requests' = DOMAIN requests /\ requests'[r] = k
      /\ \A q \in DOMAIN requests : q # r => requests'[q] = requests[q]
    BY <1>1, <1>2, <1>3, OtherRequest
<1>6. /\ \A q \in DOMAIN requests : /\ requests'[q].ran = requests[q].ran
                                    /\ requests'[q].preSequenceNr = requests[q].preSequenceNr
                                    /\ requests'[q].wrote = requests[q].wrote
                                    /\ requests'[q].ifMatch = requests[q].ifMatch
    BY <1>3, <1>4, <1>5 DEF o
<1>7. \A q \in DOMAIN requests : requests'[q].status = 200 =>
          requests[q].ran /\ (requests[q].ifMatch = -1 \/ requests[q].ifMatch = requests[q].preSequenceNr)
    BY <1>3, <1>5 DEF CommandInv
<1>8. \A q \in DOMAIN requests' : requests'[q].ran => requests'[q].preSequenceNr + requests'[q].wrote <= sequenceNr'
    BY <1>5, <1>6 DEF CommandInv
<1>9. \A p, q \in DOMAIN requests' : p # q /\ requests'[p].ran /\ requests'[q].ran =>
              \/ requests'[p].preSequenceNr + requests'[p].wrote <= requests'[q].preSequenceNr
              \/ requests'[q].preSequenceNr + requests'[q].wrote <= requests'[p].preSequenceNr
    BY <1>5, <1>6 DEF CommandInv
<1>10. \A q \in DOMAIN requests' : requests'[q].status = 200 =>
          requests'[q].ran /\ (requests'[q].ifMatch = -1 \/ requests'[q].ifMatch = requests'[q].preSequenceNr)
    BY <1>5, <1>6, <1>7
<1> QED BY <1>5, <1>8, <1>9, <1>10 DEF CommandInv

\* The command of a request runs on the version the others left.
LEMMA RunKeepsCommands ==
    ASSUME CommandInv, NEW r \in DOMAIN requests, NEW n \in Nat, NEW rejected \in BOOLEAN,
           Commanding!CommandRuns(r, n, rejected)
    PROVE  CommandInv'
<1> DEFINE o == requests[r]
           k == [o EXCEPT !.ran = TRUE, !.preSequenceNr = sequenceNr, !.wrote = n, !.rejected = rejected]
<1>1. requests \in Seq(Request) /\ o \in Request /\ sequenceNr \in Nat
    <2>1. requests \in Seq(Request) /\ sequenceNr \in Nat
        BY DEF CommandInv
    <2> QED BY <2>1
<1>2. requests' = [requests EXCEPT ![r] = k] /\ sequenceNr' = sequenceNr + n
    BY DEF Commanding!CommandRuns
<1>3. ~o.ran
    BY DEF Commanding!CommandRuns
<1>4. o.status # 200
    BY <1>3 DEF CommandInv
<1> HIDE DEF o
<1>5. k \in Request /\ k.preSequenceNr = sequenceNr /\ k.wrote = n /\ k.status = o.status
    BY <1>1 DEF Request
<1> HIDE DEF k
<1>6. /\ requests' \in Seq(Request) /\ DOMAIN requests' = DOMAIN requests /\ requests'[r] = k
      /\ \A q \in DOMAIN requests : q # r => requests'[q] = requests[q]
    BY <1>1, <1>2, <1>5, OtherRequest
<1>7. \A q \in DOMAIN requests : requests[q] \in Request
    BY <1>1
<1>8. \A q \in DOMAIN requests' : requests'[q].ran => requests'[q].preSequenceNr + requests'[q].wrote <= sequenceNr'
    <2> TAKE q \in DOMAIN requests'
    <2> HAVE requests'[q].ran
    <2>1. CASE q = r
        BY <1>1, <1>2, <1>5, <1>6, <2>1
    <2>2. CASE q # r
        <3>1. requests'[q] = requests[q] /\ requests[q].preSequenceNr + requests[q].wrote <= sequenceNr
            BY <1>6, <2>2 DEF CommandInv
        <3>2. requests[q].preSequenceNr \in Nat /\ requests[q].wrote \in Nat
            BY <1>6, <1>7 DEF Request
        <3> QED BY <1>1, <1>2, <3>1, <3>2
    <2> QED BY <2>1, <2>2
<1>9. \A p, q \in DOMAIN requests' : p # q /\ requests'[p].ran /\ requests'[q].ran =>
              \/ requests'[p].preSequenceNr + requests'[p].wrote <= requests'[q].preSequenceNr
              \/ requests'[q].preSequenceNr + requests'[q].wrote <= requests'[p].preSequenceNr
    <2> TAKE p, q \in DOMAIN requests'
    <2> HAVE p # q /\ requests'[p].ran /\ requests'[q].ran
    <2>1. CASE p # r /\ q # r
        BY <1>6, <2>1 DEF CommandInv
    <2>2. CASE p = r
        BY <1>5, <1>6, <2>2 DEF CommandInv
    <2>3. CASE q = r
        BY <1>5, <1>6, <2>3 DEF CommandInv
    <2> QED BY <2>1, <2>2, <2>3
<1>10. \A q \in DOMAIN requests' : requests'[q].status = 200 =>
          requests'[q].ran /\ (requests'[q].ifMatch = -1 \/ requests'[q].ifMatch = requests'[q].preSequenceNr)
    <2> TAKE q \in DOMAIN requests'
    <2> HAVE requests'[q].status = 200
    <2>1. q # r
        BY <1>4, <1>5, <1>6
    <2> QED BY <1>6, <2>1 DEF CommandInv
<1>11. sequenceNr' \in Nat
    BY <1>1, <1>2
<1> QED BY <1>6, <1>8, <1>9, <1>10, <1>11 DEF CommandInv

\* A request arrives.
LEMMA PostKeepsCommands ==
    ASSUME CommandInv, NEW m \in Int, Commanding!Post(m)
    PROVE  CommandInv'
<1> DEFINE k == [ifMatch |-> m, ran |-> FALSE, preSequenceNr |-> 0, wrote |-> 0, rejected |-> FALSE, status |-> 0]
<1>1. requests' = Append(requests, k) /\ sequenceNr' = sequenceNr /\ requests \in Seq(Request) /\ sequenceNr \in Nat
    BY DEF Commanding!Post, CommandInv
<1>2. k \in Request /\ k.status = 0
    BY DEF Request
<1>3. ~k.ran
    OBVIOUS
<1> HIDE DEF k
<1>4. /\ requests' \in Seq(Request) /\ DOMAIN requests' = 1 .. Len(requests) + 1 /\ DOMAIN requests = 1 .. Len(requests)
      /\ requests'[Len(requests) + 1] = k /\ \A q \in 1 .. Len(requests) : requests'[q] = requests[q]
      /\ Len(requests) \in Nat
    BY <1>1, <1>2
<1>5. \A q \in DOMAIN requests' : q \in DOMAIN requests \/ (q = Len(requests) + 1 /\ requests'[q] = k)
    BY <1>4
<1>6. \A q \in DOMAIN requests' : requests'[q].ran => requests'[q].preSequenceNr + requests'[q].wrote <= sequenceNr'
    BY <1>1, <1>3, <1>4, <1>5 DEF CommandInv
<1>7. \A p, q \in DOMAIN requests' : p # q /\ requests'[p].ran /\ requests'[q].ran =>
              \/ requests'[p].preSequenceNr + requests'[p].wrote <= requests'[q].preSequenceNr
              \/ requests'[q].preSequenceNr + requests'[q].wrote <= requests'[p].preSequenceNr
    BY <1>3, <1>4, <1>5 DEF CommandInv
<1>8. \A q \in DOMAIN requests' : requests'[q].status = 200 =>
          requests'[q].ran /\ (requests'[q].ifMatch = -1 \/ requests'[q].ifMatch = requests'[q].preSequenceNr)
    BY <1>2, <1>4, <1>5 DEF CommandInv
<1> QED BY <1>1, <1>4, <1>6, <1>7, <1>8 DEF CommandInv

LEMMA StepKeepsCommands == CommandInv /\ [Commanding!CommandsNext]_commandState => CommandInv'
<1> SUFFICES ASSUME CommandInv, [Commanding!CommandsNext]_commandState PROVE CommandInv'
    OBVIOUS
<1>1. CASE UNCHANGED commandState
    BY <1>1 DEF commandState, CommandInv
<1>2. CASE \E m \in {Commanding!Absent, Commanding!Invalid} \cup 0 .. (MaxRequests * MaxBatch) : Commanding!Post(m)
    <2>1. PICK m \in {-1, -2} \cup 0 .. (MaxRequests * MaxBatch) : Commanding!Post(m)
        BY <1>2 DEF Commanding!Absent, Commanding!Invalid
    <2>2. m \in Int
        BY <2>1
    <2> QED BY <2>1, <2>2, PostKeepsCommands
<1>3. ASSUME NEW r \in DOMAIN requests, NEW n \in 0 .. MaxBatch, NEW rejected \in BOOLEAN, Commanding!CommandRuns(r, n, rejected)
      PROVE  CommandInv'
    <2>1. n \in Nat
        BY CountAssumption
    <2> QED BY <1>3, <2>1, RunKeepsCommands
<1>4. ASSUME NEW r \in DOMAIN requests, Commanding!Respond(r)
      PROVE  CommandInv'
    <2> DEFINE code == Commanding!StatusOf(requests[r])
    <2>1. requests' = [requests EXCEPT ![r].status = code] /\ sequenceNr' = sequenceNr
        BY <1>4 DEF Commanding!Respond
    <2>2. code \in Nat
        BY DEF Commanding!StatusOf
    <2>3. code = 200 => requests[r].ifMatch = -1 \/ requests[r].ifMatch = requests[r].preSequenceNr
        BY DEF Commanding!StatusOf, Commanding!Conflicts, Commanding!Absent
    <2>4. requests[r].ran
        BY <1>4 DEF Commanding!Respond
    <2>5. PICK c \in Nat : c = code
        BY <2>2
    <2> HIDE DEF code
    <2> QED BY <2>1, <2>3, <2>4, <2>5, AnswerKeepsCommands
<1>5. ASSUME NEW r \in DOMAIN requests, Commanding!AskTimesOut(r)
      PROVE  CommandInv'
    <2>1. requests' = [requests EXCEPT ![r].status = 504] /\ sequenceNr' = sequenceNr
        BY <1>5 DEF Commanding!AskTimesOut
    <2>2. PICK c \in Nat : c = 504 /\ c # 200
        OBVIOUS
    <2>3. requests' = [requests EXCEPT ![r].status = c]
        BY <2>1, <2>2
    <2>4. c = 200 => requests[r].ran /\ (requests[r].ifMatch = -1 \/ requests[r].ifMatch = requests[r].preSequenceNr)
        BY <2>2
    <2>5. sequenceNr' = sequenceNr
        BY <2>1
    <2> QED BY <2>3, <2>4, <2>5, AnswerKeepsCommands
<1> QED BY <1>1, <1>2, <1>3, <1>4, <1>5 DEF Commanding!CommandsNext

LEMMA InitCommands == Init => CommandInv
<1> SUFFICES ASSUME Commanding!CommandsInit PROVE CommandInv
    BY DEF Init
<1>1. sequenceNr = 0 /\ requests = << >>
    BY DEF Commanding!CommandsInit
<1>2. << >> \in Seq(Request) /\ DOMAIN << >> = {}
    OBVIOUS
<1> QED BY <1>1, <1>2 DEF CommandInv

LEMMA InvWinner == CommandInv => Commanding!OneWinnerPerVersion
<1> SUFFICES ASSUME CommandInv PROVE Commanding!OneWinnerPerVersion
    OBVIOUS
<1>1. \A r \in DOMAIN requests : requests[r].preSequenceNr \in Nat /\ requests[r].wrote \in Nat
    <2>1. requests \in Seq(Request)
        BY DEF CommandInv
    <2>2. \A r \in DOMAIN requests : requests[r] \in Request
        BY <2>1
    <2> QED BY <2>2 DEF Request
<1>2. ASSUME NEW q \in DOMAIN requests, NEW r \in DOMAIN requests, q # r, requests[q].ran, requests[r].ran,
             requests[q].wrote > 0, requests[r].wrote > 0, requests[q].preSequenceNr = requests[r].preSequenceNr
      PROVE  FALSE
    BY <1>1, <1>2, SMTT(40) DEF CommandInv
<1>3. \A r \in DOMAIN requests : requests[r].status = 200 /\ requests[r].ifMatch # -1 =>
          requests[r].ran /\ requests[r].preSequenceNr = requests[r].ifMatch
    BY DEF CommandInv
<1> QED BY <1>2, <1>3 DEF Commanding!OneWinnerPerVersion, Commanding!Absent

-----------------------------------------------------------------------------
(* The stream of frames.                                                    *)

Stream == [on : BOOLEAN, opened : Int, queue : Seq(Nat), got : Seq(Nat)]

\* What a subscriber has read and what is queued for it continue each other.
NoHole(st) ==
    /\ \A i \in 1 .. Len(st.got) : st.got[i] = st.opened + i
    /\ \A i \in 1 .. Len(st.queue) : st.queue[i] = st.opened + Len(st.got) + i

StreamInv ==
    /\ published \in Nat /\ streams = [s \in Subscribers |-> streams[s]]
    /\ \A s \in Subscribers :
          /\ streams[s] \in Stream /\ NoHole(streams[s])
          /\ streams[s].on => Len(streams[s].got) + Len(streams[s].queue) = published - streams[s].opened

\* One stream is replaced by another.
LEMMA OtherStream ==
    ASSUME StreamInv, published' = published, NEW s \in Subscribers, NEW k \in Stream, NoHole(k),
           k.on => Len(k.got) + Len(k.queue) = published - k.opened, streams' = [streams EXCEPT ![s] = k]
    PROVE  StreamInv'
<1>1. streams' = [t \in Subscribers |-> streams'[t]] /\ streams'[s] = k /\ \A t \in Subscribers : t # s => streams'[t] = streams[t]
    BY DEF StreamInv
<1> QED BY <1>1, ZenonT(40) DEF StreamInv, NoHole

\* publish: a stream that is on gets the frame or is cut off.
LEMMA WriteKeepsStream ==
    ASSUME NEW st \in Stream, NoHole(st), NEW n \in Nat, st.on => Len(st.got) + Len(st.queue) = n - st.opened, st.on
    PROVE  /\ Feeds!Write(st, n + 1) \in Stream /\ NoHole(Feeds!Write(st, n + 1))
           /\ Feeds!Write(st, n + 1).on =>
                 Len(Feeds!Write(st, n + 1).got) + Len(Feeds!Write(st, n + 1).queue) = n + 1 - Feeds!Write(st, n + 1).opened
<1> DEFINE k == Feeds!Write(st, n + 1)
<1>1. st.queue \in Seq(Nat) /\ st.got \in Seq(Nat) /\ st.opened \in Int
    BY DEF Stream
<1>2. CASE Len(st.queue) > QueueLimit
    <2> DEFINE off == [st EXCEPT !.on = FALSE]
    <2>1. k = off
        BY <1>2 DEF Feeds!Write
    <2>2. off \in Stream /\ off.queue = st.queue /\ off.got = st.got /\ off.opened = st.opened
        BY DEF Stream
    <2>3. ~off.on
        BY DEF Stream
    <2> HIDE DEF k, off
    <2> QED BY <2>1, <2>2, <2>3 DEF NoHole, k
<1>3. CASE ~(Len(st.queue) > QueueLimit)
    <2> DEFINE longer == Append(st.queue, n + 1)
               new == [st EXCEPT !.queue = longer]
    <2>1. k = new
        BY <1>3 DEF Feeds!Write
    <2>2. /\ longer \in Seq(Nat) /\ Len(longer) = Len(st.queue) + 1 /\ longer[Len(st.queue) + 1] = n + 1
          /\ \A i \in 1 .. Len(st.queue) : longer[i] = st.queue[i]
        BY <1>1
    <2> HIDE DEF longer
    <2>3. new \in Stream /\ new.queue = longer /\ new.got = st.got /\ new.opened = st.opened
        BY <2>2 DEF Stream
    <2> HIDE DEF new
    <2>4. Len(st.got) + Len(st.queue) = n - st.opened
        OBVIOUS
    <2>9. Len(st.got) \in Nat /\ Len(st.queue) \in Nat
        BY <1>1
    <2>7. PICK a \in Nat, b \in Nat : a = Len(st.got) /\ b = Len(st.queue)
        BY <2>9
    <2>10. PICK o \in Int : o = st.opened
        BY <1>1
    <2>8. /\ a + b = n - st.opened /\ Len(new.got) = a /\ Len(new.queue) = b + 1 /\ new.opened = st.opened
        BY <2>2, <2>3, <2>4, <2>7
    <2>5. NoHole(new)
        <3>1. \A i \in 1 .. Len(new.got) : new.got[i] = new.opened + i
            BY <2>3 DEF NoHole
        <3>2. ASSUME NEW i \in 1 .. Len(new.queue) PROVE new.queue[i] = new.opened + Len(new.got) + i
            <4>1. CASE i \in 1 .. Len(st.queue)
                BY <2>2, <2>3, <4>1 DEF NoHole
            <4>2. CASE i = Len(st.queue) + 1
                <5>1. new.queue[i] = n + 1
                    BY <2>2, <2>3, <4>2
                <5>3. a + b = n - o
                    BY <2>8, <2>10
                <5>4. n + 1 = o + a + (b + 1)
                    BY <5>3
                <5>2. n + 1 = st.opened + a + (b + 1)
                    BY <2>10, <5>4
                <5> QED BY <2>7, <2>8, <4>2, <5>1, <5>2
            <4> QED BY <2>7, <2>8, <4>1, <4>2
        <3> QED BY <3>1, <3>2 DEF NoHole
    <2>6. Len(new.got) + Len(new.queue) = n + 1 - new.opened
        <3>1. a + (b + 1) = n + 1 - st.opened
            BY <1>1, <2>8
        <3> QED BY <2>8, <3>1
    <2> HIDE DEF k
    <2> QED BY <2>1, <2>3, <2>5, <2>6 DEF k
<1> QED BY <1>2, <1>3

\* The client reads the first frame of its queue.
LEMMA ReadKeepsStream ==
    ASSUME NEW st \in Stream, NoHole(st), st.queue # << >>, NEW k, k = [st EXCEPT !.queue = Tail(st.queue), !.got = Append(st.got, Head(st.queue))]
    PROVE  k \in Stream /\ NoHole(k) /\ Len(k.got) + Len(k.queue) = Len(st.got) + Len(st.queue) /\ k.opened = st.opened /\ k.on = st.on
<1> DEFINE rest == Tail(st.queue)
           more == Append(st.got, Head(st.queue))
<1>1. st.queue \in Seq(Nat) /\ st.got \in Seq(Nat) /\ st.opened \in Int
    BY DEF Stream
<1>2. /\ rest \in Seq(Nat) /\ Len(rest) = Len(st.queue) - 1 /\ \A i \in 1 .. Len(rest) : rest[i] = st.queue[i + 1]
      /\ Head(st.queue) = st.queue[1] /\ st.queue[1] \in Nat /\ Len(st.queue) \in Nat \ {0}
    BY <1>1
<1>3. /\ more \in Seq(Nat) /\ Len(more) = Len(st.got) + 1 /\ more[Len(st.got) + 1] = st.queue[1]
      /\ \A i \in 1 .. Len(st.got) : more[i] = st.got[i]
    BY <1>1, <1>2
<1>4. k = [st EXCEPT !.queue = rest, !.got = more]
    OBVIOUS
<1> HIDE DEF rest, more
<1>5. k \in Stream /\ k.queue = rest /\ k.got = more /\ k.opened = st.opened
    BY <1>2, <1>3, <1>4 DEF Stream
<1>6. k.on = st.on
    BY <1>4 DEF Stream
<1>12. Len(st.got) \in Nat /\ Len(st.queue) \in Nat
    BY <1>1
<1>7. PICK a \in Nat, b \in Nat : a = Len(st.got) /\ b = Len(st.queue)
    BY <1>12
<1>11. Len(k.got) = a + 1 /\ Len(k.queue) = b - 1 /\ b # 0
    BY <1>2, <1>3, <1>5, <1>7
<1>8. ASSUME NEW i \in 1 .. Len(k.got) PROVE k.got[i] = k.opened + i
    <2>1. CASE i \in 1 .. Len(st.got)
        BY <1>3, <1>5, <2>1 DEF NoHole
    <2>2. CASE i = Len(st.got) + 1
        <3>1. st.queue[1] = st.opened + Len(st.got) + 1
            BY <1>2 DEF NoHole
        <3>2. k.got[i] = st.queue[1]
            BY <1>3, <1>5, <2>2
        <3>3. PICK o \in Int : o = st.opened
            BY <1>1 DEF Stream
        <3>4. o + a + 1 = o + (a + 1)
            OBVIOUS
        <3> QED BY <1>5, <1>7, <2>2, <3>1, <3>2, <3>3, <3>4
    <2> QED BY <1>7, <1>11, <2>1, <2>2
<1>9. ASSUME NEW i \in 1 .. Len(k.queue) PROVE k.queue[i] = k.opened + Len(k.got) + i
    <2>1. i + 1 \in 1 .. Len(st.queue) /\ k.queue[i] = st.queue[i + 1]
        BY <1>2, <1>5, <1>7, <1>11, SMTT(40)
    <2>2. st.queue[i + 1] = st.opened + Len(st.got) + (i + 1)
        BY <2>1 DEF NoHole
    <2>3. st.opened + a + (i + 1) = st.opened + (a + 1) + i
        <3>1. PICK o \in Int : o = st.opened
            BY <1>1
        <3>2. i \in Int
            BY <1>11
        <3>3. o + a + (i + 1) = o + (a + 1) + i
            BY <3>2
        <3> QED BY <3>1, <3>3
    <2> QED BY <1>5, <1>7, <1>11, <2>1, <2>2, <2>3
<1>10. Len(k.got) + Len(k.queue) = Len(st.got) + Len(st.queue)
    <2>1. (a + 1) + (b - 1) = a + b
        OBVIOUS
    <2> QED BY <1>7, <1>11, <2>1
<1> QED BY <1>5, <1>6, <1>8, <1>9, <1>10 DEF NoHole

LEMMA EmptyStream ==
    /\ Feeds!NoStream \in Stream /\ Len(Feeds!NoStream.queue) = 0 /\ Len(Feeds!NoStream.got) = 0
    /\ NoHole(Feeds!NoStream) /\ ~Feeds!NoStream.on
<1> DEFINE none == << >>
           k == Feeds!NoStream
<1>1. none \in Seq(Nat) /\ Len(none) = 0
    OBVIOUS
<1>2. k = [on |-> FALSE, opened |-> -1, queue |-> none, got |-> none]
    BY DEF Feeds!NoStream, Feeds!Absent
<1> HIDE DEF none, k
<1>3. k \in Stream /\ k.queue = none /\ k.got = none
    BY <1>1, <1>2 DEF Stream
<1>4. ~k.on
    BY <1>2
<1>5. Len(k.queue) = 0 /\ Len(k.got) = 0 /\ NoHole(k)
    BY <1>1, <1>3 DEF NoHole
<1> QED BY <1>3, <1>4, <1>5 DEF k

LEMMA StepKeepsStreams == StreamInv /\ [Feeds!FeedsNext]_feedState => StreamInv'
<1> SUFFICES ASSUME StreamInv, [Feeds!FeedsNext]_feedState PROVE StreamInv'
    OBVIOUS
<1>1. ASSUME UNCHANGED <<published, streams>> PROVE StreamInv'
    BY <1>1 DEF StreamInv
<1>2. CASE UNCHANGED feedState \/ Feeds!GetPage \/ Feeds!DeleteOldest \/ \E order \in {"asc", "desc"} : Feeds!StartWalk(order)
    BY <1>1, <1>2 DEF feedState, Feeds!GetPage, Feeds!DeleteOldest, Feeds!StartWalk
<1>3. CASE Feeds!Persist
    <2>1. /\ published' = published + 1
          /\ streams' = [s \in Subscribers |-> IF streams[s].on THEN Feeds!Write(streams[s], published + 1) ELSE streams[s]]
        BY <1>3 DEF Feeds!Persist, Feeds!Publish
    <2>2. published \in Nat /\ \A s \in Subscribers : streams[s] \in Stream /\ NoHole(streams[s])
        BY DEF StreamInv
    <2>3. ASSUME NEW s \in Subscribers
          PROVE  /\ streams'[s] \in Stream /\ NoHole(streams'[s])
                 /\ streams'[s].on => Len(streams'[s].got) + Len(streams'[s].queue) = published' - streams'[s].opened
        <3>1. PICK st, n : st = streams[s] /\ n = published
            OBVIOUS
        <3>2. st \in Stream /\ n \in Nat /\ NoHole(st)
            BY <2>2, <3>1
        <3>3. st.on => Len(st.got) + Len(st.queue) = n - st.opened
            BY <3>1 DEF StreamInv
        <3>4. CASE st.on
            <4>1. PICK w : w = Feeds!Write(st, n + 1)
                OBVIOUS
            <4>2. streams'[s] = w /\ published' = n + 1
                BY <2>1, <3>1, <3>4, <4>1
            <4>3. w.on => Len(w.got) + Len(w.queue) = n + 1 - w.opened
                BY <3>2, <3>3, <3>4, <4>1, WriteKeepsStream
            <4>4. w \in Stream /\ NoHole(w)
                BY <3>2, <3>3, <3>4, <4>1, WriteKeepsStream
            <4>5. streams'[s] \in Stream /\ NoHole(streams'[s])
                BY <4>2, <4>4
            <4>6. streams'[s].on => Len(streams'[s].got) + Len(streams'[s].queue) = published' - streams'[s].opened
                <5>1. published' - streams'[s].opened = n + 1 - w.opened
                    <6>1. n \in Nat /\ w.opened \in Int
                        BY <3>2, <4>4 DEF Stream
                    <6> QED BY <4>2, <6>1
                <5>2. streams'[s].on => w.on
                    BY <4>2
                <5> QED BY <4>2, <4>3, <5>1, <5>2
            <4> QED BY <4>5, <4>6
        <3>5. CASE ~st.on
            <4>1. streams'[s] = st
                BY <2>1, <3>1, <3>5
            <4> QED BY <3>2, <3>5, <4>1
        <3> QED BY <3>4, <3>5
    <2>4. streams' = [s \in Subscribers |-> streams'[s]] /\ published' \in Nat
        BY <2>1, <2>2
    <2> QED BY <2>3, <2>4 DEF StreamInv, NoHole
<1>4. ASSUME NEW s \in Subscribers, Feeds!Open(s) PROVE StreamInv'
    <2> DEFINE none == Feeds!NoStream
               k == [none EXCEPT !.on = TRUE, !.opened = published]
    <2>1. streams' = [streams EXCEPT ![s] = k] /\ published' = published /\ published \in Nat
        BY <1>4 DEF Feeds!Open, StreamInv
    <2>2. none \in Stream /\ Len(none.queue) = 0 /\ Len(none.got) = 0
        BY EmptyStream
    <2> HIDE DEF none
    <2>6. PICK n \in Int : n = published
        BY <2>1
    <2>7. k = [none EXCEPT !.on = TRUE, !.opened = n]
        BY <2>6
    <2> HIDE DEF k
    <2>3. k \in Stream /\ k.queue = none.queue /\ k.got = none.got /\ k.opened = n
        BY <2>2, <2>7 DEF Stream
    <2>4. NoHole(k) /\ Len(k.got) + Len(k.queue) = published - k.opened
        <3>1. Len(k.got) = 0 /\ Len(k.queue) = 0 /\ published - k.opened = 0
            BY <2>2, <2>3, <2>6
        <3> QED BY <3>1 DEF NoHole
    <2>5. PICK c \in Stream : c = k
        BY <2>3
    <2> QED BY <2>1, <2>4, <2>5, OtherStream
<1>5. ASSUME NEW s \in Subscribers, Feeds!Read(s) PROVE StreamInv'
    <2>1. PICK st \in Stream : st = streams[s]
        BY DEF StreamInv
    <2>2. NoHole(st)
        BY <2>1 DEF StreamInv
    <2>3. st.on => Len(st.got) + Len(st.queue) = published - st.opened
        BY <2>1 DEF StreamInv
    <2>4. PICK k : k = [st EXCEPT !.queue = Tail(st.queue), !.got = Append(st.got, Head(st.queue))]
        OBVIOUS
    <2>5. st.queue # << >> /\ published' = published /\ streams' = [streams EXCEPT ![s] = k]
        BY <1>5, <2>1, <2>4 DEF Feeds!Read
    <2>6. k \in Stream /\ NoHole(k) /\ Len(k.got) + Len(k.queue) = Len(st.got) + Len(st.queue) /\ k.opened = st.opened /\ k.on = st.on
        BY <2>2, <2>4, <2>5, ReadKeepsStream
    <2>7. k.on => Len(k.got) + Len(k.queue) = published - k.opened
        BY <2>3, <2>6
    <2> QED BY <2>5, <2>6, <2>7, OtherStream
<1>6. ASSUME NEW s \in Subscribers, Feeds!Cancel(s) PROVE StreamInv'
    <2> DEFINE none == Feeds!NoStream
               k == [none EXCEPT !.opened = 0]
    <2>1. streams' = [streams EXCEPT ![s] = k] /\ published' = published
        BY <1>6 DEF Feeds!Cancel, Feeds!Cancelled
    <2>2. none \in Stream /\ Len(none.queue) = 0 /\ Len(none.got) = 0
        BY EmptyStream
    <2>3. ~none.on
        BY EmptyStream
    <2> HIDE DEF none
    <2>4. k \in Stream /\ k.queue = none.queue /\ k.got = none.got
        BY <2>2 DEF Stream
    <2>5. k.on = none.on
        BY <2>2 DEF Stream
    <2> HIDE DEF k
    <2>6. NoHole(k) /\ ~k.on
        BY <2>2, <2>3, <2>4, <2>5 DEF NoHole
    <2> QED BY <2>1, <2>4, <2>6, OtherStream
<1>7. ASSUME NEW s \in Subscribers, Feeds!Keepalive(s) PROVE StreamInv'
    <2>1. PICK st \in Stream : st = streams[s]
        BY DEF StreamInv
    <2>2. NoHole(st)
        BY <2>1 DEF StreamInv
    <2> DEFINE k == [st EXCEPT !.on = FALSE]
    <2>3. streams' = [streams EXCEPT ![s] = k] /\ published' = published
        BY <1>7, <2>1 DEF Feeds!Keepalive
    <2>4. k \in Stream /\ k.queue = st.queue /\ k.got = st.got /\ k.opened = st.opened
        BY DEF Stream
    <2>5. ~k.on
        BY DEF Stream
    <2> HIDE DEF k
    <2>6. NoHole(k)
        BY <2>2, <2>4 DEF NoHole
    <2> QED BY <2>3, <2>4, <2>5, <2>6, OtherStream
<1> QED BY <1>2, <1>3, <1>4, <1>5, <1>6, <1>7 DEF Feeds!FeedsNext

LEMMA InitStreams == Init => StreamInv
<1> SUFFICES ASSUME Feeds!FeedsInit PROVE StreamInv
    BY DEF Init
<1>1. published = 0 /\ streams = [s \in Subscribers |-> Feeds!NoStream]
    BY DEF Feeds!FeedsInit
<1>2. Feeds!NoStream \in Stream /\ NoHole(Feeds!NoStream) /\ ~Feeds!NoStream.on
    BY EmptyStream
<1>3. streams = [s \in Subscribers |-> streams[s]] /\ \A s \in Subscribers : streams[s] = Feeds!NoStream
    BY <1>1
<1> QED BY <1>1, <1>2, <1>3 DEF StreamInv

LEMMA InvStreams == StreamInv => Feeds!StreamHasNoHole
<1> SUFFICES ASSUME StreamInv, NEW s \in Subscribers
             PROVE  LET seen == streams[s].got \o streams[s].queue
                    IN  /\ seen = [i \in 1 .. Len(seen) |-> streams[s].opened + i]
                        /\ streams[s].on => Len(seen) = published - streams[s].opened
    BY DEF Feeds!StreamHasNoHole
<1>1. PICK st \in Stream : st = streams[s]
    BY DEF StreamInv
<1>2. NoHole(st)
    BY <1>1 DEF StreamInv
<1>3. st.on => Len(st.got) + Len(st.queue) = published - st.opened
    BY <1>1 DEF StreamInv
<1>4. PICK got \in Seq(Nat), queue \in Seq(Nat), o \in Int : got = st.got /\ queue = st.queue /\ o = st.opened
    BY DEF Stream
<1> DEFINE seen == got \o queue
<1>5. seen \in Seq(Nat) /\ Len(seen) = Len(got) + Len(queue)
    BY ConcatProperties
<1>6. \A i \in 1 .. Len(got) + Len(queue) : seen[i] = IF i <= Len(got) THEN got[i] ELSE queue[i - Len(got)]
    BY ConcatProperties
<1> HIDE DEF seen
<1>7. ASSUME NEW i \in 1 .. Len(seen) PROVE seen[i] = o + i
    <2>1. PICK a \in Nat, b \in Nat : a = Len(got) /\ b = Len(queue)
        OBVIOUS
    <2>2. i \in Nat /\ i >= 1 /\ i <= a + b
        BY <1>5, <2>1
    <2>3. CASE i <= a
        <3>1. i \in 1 .. a
            BY <2>2, <2>3
        <3>2. seen[i] = got[i]
            BY <1>5, <1>6, <2>1, <2>3
        <3> QED BY <1>2, <1>4, <2>1, <3>1, <3>2 DEF NoHole
    <2>4. CASE ~(i <= a)
        <3>1. i - a \in 1 .. b /\ o + a + (i - a) = o + i
            BY <2>2, <2>4
        <3>2. seen[i] = queue[i - a]
            BY <1>5, <1>6, <2>1, <2>4
        <3>3. queue[i - a] = o + a + (i - a)
            BY <1>2, <1>4, <2>1, <3>1 DEF NoHole
        <3> QED BY <3>1, <3>2, <3>3
    <2> QED BY <2>3, <2>4
<1>8. seen = [i \in 1 .. Len(seen) |-> o + i]
    BY <1>5, <1>7
<1>9. st.on => Len(seen) = published - o
    BY <1>3, <1>4, <1>5
<1> QED BY <1>1, <1>4, <1>8, <1>9 DEF seen

-----------------------------------------------------------------------------
(* The journal route: sets of numbers, and their members in order.          *)

\* A nonempty set of numbers has a least one.
LEMMA LeastExists ==
    ASSUME NEW T, T \subseteq Nat, T # {}
    PROVE  \E t \in T : \A u \in T : t <= u
<1> DEFINE R == OpToRel(<, Nat)
<1>1. PICK t \in T : \A u \in T : ~(<<u, t>> \in R)
    <2> HIDE DEF R
    <2>1. IsWellFoundedOn(R, Nat)
        BY NatLessThanWellFounded DEF R
    <2> QED BY <2>1, WFMin
<1>2. ASSUME NEW u \in T PROVE t <= u
    <2> SUFFICES ASSUME ~(t <= u) PROVE FALSE
        OBVIOUS
    <2>1. t \in Nat /\ u \in Nat /\ u < t
        OBVIOUS
    <2>2. <<u, t>> \in R
        BY <2>1 DEF OpToRel
    <2> QED BY <2>2, <1>1
<1> QED BY <1>2

\* A nonempty set of numbers with a bound has a greatest one.
LEMMA GreatestExists ==
    ASSUME NEW S, S \subseteq Nat, S # {}, NEW b \in Nat, \A x \in S : x <= b
    PROVE  \E x \in S : \A y \in S : y <= x
<1> DEFINE T == {b - x : x \in S}
<1>1. T \subseteq Nat /\ T # {}
    <2>1. PICK x \in S : TRUE
        OBVIOUS
    <2>2. b - x \in T
        OBVIOUS
    <2>3. \A y \in S : b - y \in Nat
        OBVIOUS
    <2> QED BY <2>2, <2>3
<1>2. PICK t \in T : \A u \in T : t <= u
    <2> HIDE DEF T
    <2> QED BY <1>1, LeastExists
<1>3. PICK x \in S : t = b - x
    OBVIOUS
<1>4. \A y \in S : b - y \in T
    OBVIOUS
<1> HIDE DEF T
<1>5. \A y \in S : y <= x
    BY <1>2, <1>3, <1>4
<1> QED BY <1>5

\* q lists the members of S, ascending.
Lists(q, S) ==
    /\ q \in [1 .. Cardinality(S) -> S]
    /\ \A i, j \in 1 .. Cardinality(S) : i < j => q[i] < q[j]
    /\ \A g \in S : \E i \in 1 .. Cardinality(S) : q[i] = g

\* A set of numbers is listed if it is without its greatest member.
LEMMA ListOneMore ==
    ASSUME NEW b \in Nat, NEW S, S \subseteq Nat, IsFiniteSet(S), b \in S, \A x \in S : x <= b, NEW p, Lists(p, S \ {b})
    PROVE  \E q : Lists(q, S)
<1> DEFINE n == Cardinality(S \ {b})
           q == [i \in 1 .. n + 1 |-> IF i = n + 1 THEN b ELSE p[i]]
<1>1. IsFiniteSet(S \ {b}) /\ n \in Nat /\ Cardinality(S) = n + 1
    <2>1. IsFiniteSet(S \ {b}) /\ n = Cardinality(S) - 1 /\ Cardinality(S) \in Nat
        BY FS_RemoveElement, FS_CardinalityType
    <2>2. n \in Nat
        BY <2>1, FS_CardinalityType
    <2> HIDE DEF n
    <2> QED BY <2>1, <2>2
<1>2. /\ p \in [1 .. n -> S \ {b}] /\ \A i, j \in 1 .. n : i < j => p[i] < p[j]
      /\ \A g \in S \ {b} : \E i \in 1 .. n : p[i] = g
    BY DEF Lists
<1> HIDE DEF n
<1>3. q[n + 1] = b /\ \A i \in 1 .. n : q[i] = p[i] /\ q[i] \in S /\ q[i] < b
    <2>1. q[n + 1] = b
        BY <1>1
    <2>2. ASSUME NEW i \in 1 .. n PROVE q[i] = p[i] /\ q[i] \in S /\ q[i] < b
        <3>1. i \in 1 .. n + 1 /\ i # n + 1
            BY <1>1
        <3>2. p[i] \in S /\ p[i] # b
            BY <1>2
        <3>3. q[i] = p[i]
            BY <3>1
        <3>4. p[i] \in Nat /\ p[i] <= b
            BY <3>2
        <3>5. p[i] < b
            BY <3>2, <3>4
        <3> HIDE DEF q
        <3> QED BY <3>2, <3>3, <3>5
    <2> HIDE DEF q
    <2> QED BY <2>1, <2>2
<1>4. q \in [1 .. n + 1 -> S]
    BY <1>1, <1>2
<1>5. ASSUME NEW i \in 1 .. n + 1, NEW j \in 1 .. n + 1, i < j PROVE q[i] < q[j]
    <2>1. i \in 1 .. n
        BY <1>1, <1>5
    <2>2. CASE j = n + 1
        BY <1>3, <2>1, <2>2
    <2>3. CASE j \in 1 .. n
        BY <1>2, <1>3, <1>5, <2>1, <2>3
    <2> QED BY <1>1, <2>2, <2>3
<1>6. ASSUME NEW g \in S PROVE \E i \in 1 .. n + 1 : q[i] = g
    <2>1. CASE g = b
        BY <1>1, <1>3, <2>1
    <2>2. CASE g # b
        <3>1. PICK i \in 1 .. n : p[i] = g
            BY <1>2, <2>2
        <3> QED BY <1>1, <1>3, <3>1
    <2> QED BY <2>1, <2>2
<1> HIDE DEF q
<1>7. Lists(q, S)
    BY <1>1, <1>4, <1>5, <1>6 DEF Lists
<1> QED BY <1>7

\* Every bounded set of numbers is listed: else there is a least bound of one that is not.
LEMMA ListExists ==
    ASSUME NEW S, S \subseteq Nat, NEW b \in Nat, \A x \in S : x <= b
    PROVE  IsFiniteSet(S) /\ \E q : Lists(q, S)
<1> DEFINE Bad == {m \in Nat : \E U \in SUBSET Nat : (\A x \in U : x <= m) /\ ~(\E q : Lists(q, U))}
<1>1. \A U \in SUBSET Nat : \A m \in Nat : (\A x \in U : x <= m) => IsFiniteSet(U)
    BY FS_BoundedSetOfNaturals
<1>2. ASSUME Bad # {} PROVE FALSE
    <2>1. PICK m \in Bad : \A k \in Bad : m <= k
        <3>1. Bad \subseteq Nat
            OBVIOUS
        <3> HIDE DEF Bad
        <3> QED BY <1>2, <3>1, LeastExists
    <2>2. m \in Nat
        OBVIOUS
    <2>3. PICK U \in SUBSET Nat : (\A x \in U : x <= m) /\ ~(\E q : Lists(q, U))
        OBVIOUS
    <2>4. ASSUME NEW W \in SUBSET Nat, \A x \in W : x < m PROVE \E q : Lists(q, W)
        <3>1. CASE m = 0
            <4>1. W = {}
                BY <2>4, <3>1
            <4>2. Cardinality(W) = 0
                BY <4>1, FS_EmptySet
            <4>3. 1 .. 0 = {}
                OBVIOUS
            <4> DEFINE q == [i \in {} |-> 0]
            <4>4. Lists(q, W)
                BY <4>1, <4>2, <4>3 DEF Lists
            <4> QED BY <4>4
        <3>2. CASE m # 0
            <4>1. m - 1 \in Nat /\ m - 1 \notin Bad
                BY <2>1, <2>2, <3>2
            <4>2. \A x \in W : x <= m - 1
                BY <2>2, <2>4
            <4> QED BY <4>1, <4>2
        <3> QED BY <3>1, <3>2
    <2> HIDE DEF Bad
    <2>5. CASE m \in U
        <3>1. \A x \in U \ {m} : x < m
            BY <2>2, <2>3
        <3>2. PICK p : Lists(p, U \ {m})
            BY <2>4, <3>1
        <3> QED BY <1>1, <2>2, <2>3, <2>5, <3>2, ListOneMore
    <2>6. CASE m \notin U
        <3>1. \A x \in U : x < m
            BY <2>2, <2>3, <2>6
        <3> QED BY <2>3, <2>4, <3>1
    <2> QED BY <2>5, <2>6
<1>3. b \notin Bad
    BY <1>2
<1> QED BY <1>1, <1>3

Prec(order, g, h) == IF order = "desc" THEN g > h ELSE g < h

\* What queryEvents returns for a set of rows: each of them once, in the order asked for.
LEMMA OrderedLists ==
    ASSUME NEW S, S \subseteq Nat, NEW b \in Nat, \A x \in S : x <= b
    PROVE  /\ Feeds!Ordered(S) \in Seq(S) /\ Len(Feeds!Ordered(S)) \in Nat
           /\ \A i, j \in 1 .. Len(Feeds!Ordered(S)) : i < j => Prec(walk.order, Feeds!Ordered(S)[i], Feeds!Ordered(S)[j])
           /\ \A g \in S : \E i \in 1 .. Len(Feeds!Ordered(S)) : Feeds!Ordered(S)[i] = g
<1> DEFINE n == Cardinality(S)
           Good(q) == /\ \A i, j \in DOMAIN q : i < j => Prec(walk.order, q[i], q[j])
                      /\ \A g \in S : \E i \in DOMAIN q : q[i] = g
           o == Feeds!Ordered(S)
<1>1. PICK p : Lists(p, S)
    BY ListExists
<1>2. n \in Nat
    BY ListExists, FS_CardinalityType
<1>3. o = CHOOSE q \in [1 .. n -> S] : Good(q)
    <2>1. Feeds!Cardinality(S) = n
        BY DEF Feeds!Cardinality, Cardinality
    <2>2. \A g, h : Feeds!Before(g, h) = Prec(walk.order, g, h)
        BY DEF Feeds!Before, Prec
    <2> HIDE DEF n
    <2> QED BY <2>1, <2>2 DEF Feeds!Ordered
<1>4. /\ p \in [1 .. n -> S] /\ \A i, j \in 1 .. n : i < j => p[i] < p[j]
      /\ \A g \in S : \E i \in 1 .. n : p[i] = g
    BY <1>1 DEF Lists
<1> HIDE DEF n
<1>5. \E q \in [1 .. n -> S] : Good(q)
    <2>1. CASE walk.order # "desc"
        <3>1. Good(p)
            BY <1>4, <2>1 DEF Prec
        <3> HIDE DEF Good
        <3> QED BY <1>4, <3>1
    <2>2. CASE walk.order = "desc"
        <3> DEFINE r == [i \in 1 .. n |-> p[n + 1 - i]]
        <3>1. \A i \in 1 .. n : n + 1 - i \in 1 .. n
            BY <1>2
        <3>2. r \in [1 .. n -> S] /\ DOMAIN r = 1 .. n /\ \A i \in 1 .. n : r[i] = p[n + 1 - i]
            BY <1>4, <3>1
        <3> HIDE DEF r
        <3>3. ASSUME NEW i \in 1 .. n, NEW j \in 1 .. n, i < j PROVE r[i] > r[j]
            <4>1. n + 1 - j < n + 1 - i
                BY <1>2, <3>3
            <4>2. p[n + 1 - j] < p[n + 1 - i]
                BY <1>4, <3>1, <4>1
            <4>3. r[i] \in Nat /\ r[j] \in Nat
                BY <3>2
            <4> QED BY <3>2, <4>2, <4>3
        <3>4. ASSUME NEW g \in S PROVE \E i \in 1 .. n : r[i] = g
            <4>1. PICK i \in 1 .. n : p[i] = g
                BY <1>4
            <4>2. n + 1 - i \in 1 .. n /\ n + 1 - (n + 1 - i) = i
                BY <1>2
            <4> QED BY <3>2, <4>1, <4>2
        <3>5. Good(r)
            BY <2>2, <3>2, <3>3, <3>4 DEF Prec
        <3> HIDE DEF Good
        <3> QED BY <3>2, <3>5
    <2> QED BY <2>1, <2>2
<1>6. o \in [1 .. n -> S] /\ Good(o)
    <2> HIDE DEF Good, o
    <2> QED BY <1>3, <1>5
<1> HIDE DEF o
<1>7. o \in Seq(S) /\ Len(o) = n /\ DOMAIN o = 1 .. n
    BY <1>2, <1>6
<1> QED BY <1>2, <1>6, <1>7 DEF o

Walk == [order : {"none", "asc", "desc"}, cursor : Int, got : Seq(Nat), stable : SUBSET Nat, done : BOOLEAN]

\* A row of the journal that a walk w has not returned yet lies beyond its cursor.
ToCome(w, x) == ~w.done /\ (w.cursor = -1 \/ Prec(w.order, w.cursor, x))
Got(w, x) == \E i \in 1 .. Len(w.got) : w.got[i] = x

\* A walk has returned rows in its order, none beyond its cursor, and what it has not
\* returned of the rows that are still there is ahead of it.
SoundWalk(w) ==
    /\ w \in Walk
    /\ w.order = "none" => ~w.done /\ w.cursor = -1 /\ Len(w.got) = 0
    /\ \A i, j \in 1 .. Len(w.got) : i < j => Prec(w.order, w.got[i], w.got[j])
    /\ ~w.done /\ w.cursor = -1 => Len(w.got) = 0
    /\ ~w.done /\ w.cursor # -1 => \A i \in 1 .. Len(w.got) : w.got[i] = w.cursor \/ Prec(w.order, w.got[i], w.cursor)
    /\ \A x \in w.stable : Got(w, x) \/ ToCome(w, x)

WalkInv ==
    /\ journalRows \subseteq Nat /\ \E b \in Nat : \A x \in journalRows : x <= b
    /\ SoundWalk(walk) /\ walk.stable \subseteq journalRows

\* What two joined sequences hold at which place.
Joined(new, a, b, n, m) ==
    /\ Len(new) = n + m
    /\ \A i \in 1 .. n : i \in 1 .. n + m /\ new[i] = a[i]
    /\ \A i \in n + 1 .. n + m : i - n \in 1 .. m /\ new[i] = b[i - n]
    /\ \A i \in 1 .. m : n + i \in 1 .. n + m /\ new[n + i] = b[i]

LEMMA JoinedAt ==
    ASSUME NEW S, NEW a \in Seq(S), NEW b \in Seq(S), NEW n \in Nat, NEW m \in Nat, n = Len(a), m = Len(b)
    PROVE  a \o b \in Seq(S) /\ Joined(a \o b, a, b, n, m)
<1> DEFINE new == a \o b
<1>1. new \in Seq(S) /\ Len(new) = Len(a) + Len(b)
    BY ConcatProperties
<1>2. \A i \in 1 .. Len(a) + Len(b) : new[i] = IF i <= Len(a) THEN a[i] ELSE b[i - Len(a)]
    BY ConcatProperties
<1> HIDE DEF new
<1>3. Len(new) = n + m
    BY <1>1
<1>4. \A i \in 1 .. n + m : new[i] = IF i <= n THEN a[i] ELSE b[i - n]
    BY <1>2
<1>5. \A i \in 1 .. n : i \in 1 .. n + m /\ i <= n
    OBVIOUS
<1>6. \A i \in 1 .. n : i \in 1 .. n + m /\ new[i] = a[i]
    BY <1>4, <1>5
<1>7. \A i \in n + 1 .. n + m : i - n \in 1 .. m /\ i \in 1 .. n + m /\ ~(i <= n)
    OBVIOUS
<1>8. \A i \in n + 1 .. n + m : i - n \in 1 .. m /\ new[i] = b[i - n]
    BY <1>4, <1>7
<1>9. \A i \in 1 .. m : n + i \in n + 1 .. n + m /\ n + i \in 1 .. n + m /\ (n + i) - n = i
    OBVIOUS
<1>10. \A i \in 1 .. m : n + i \in 1 .. n + m /\ new[n + i] = b[i]
    BY <1>8, <1>9
<1> QED BY <1>1, <1>3, <1>6, <1>8, <1>10 DEF new, Joined

LEMMA EitherPart ==
    ASSUME NEW n \in Nat, NEW m \in Nat
    PROVE  /\ \A i \in 1 .. n + m : i \in 1 .. n \/ i \in n + 1 .. n + m
           /\ \A i \in 1 .. n + m, j \in 1 .. n + m : i < j /\ j \in 1 .. n => i \in 1 .. n
           /\ \A i \in n + 1 .. n + m, j \in n + 1 .. n + m : i < j => i - n < j - n
OBVIOUS

LEMMA PrecTransitive ==
    ASSUME NEW o, NEW a \in Int, NEW b \in Int, NEW c \in Int, Prec(o, a, b), Prec(o, b, c)
    PROVE  Prec(o, a, c)
BY DEF Prec

\* handleJournal: the page continues what the walk has returned, and whatever it had ahead
\* is on the page or ahead of the new cursor.
IsPage(w, limit, S, all, m, page) ==
    /\ S \subseteq Nat /\ \A x \in S : w.cursor = -1 \/ Prec(w.order, w.cursor, x)
    /\ \A x \in w.stable : ToCome(w, x) => x \in S
    /\ all \in Seq(S) /\ \A i, j \in 1 .. Len(all) : i < j => Prec(w.order, all[i], all[j])
    /\ \A x \in S : \E i \in 1 .. Len(all) : all[i] = x
    /\ m = IF Len(all) < limit THEN Len(all) ELSE limit
    /\ page \in Seq(Nat) /\ Len(page) = m /\ \A i \in 1 .. m : page[i] = all[i]

LEMMA PageKeepsWalk ==
    ASSUME NEW w, SoundWalk(w), w.order \in {"asc", "desc"}, ~w.done, NEW limit \in Nat \ {0}, NEW m \in Nat,
           NEW S, NEW all, NEW page, IsPage(w, limit, S, all, m, page),
           NEW k \in Walk, k.order = w.order, k.stable = w.stable, k.got = w.got \o page,
           k.cursor = IF m = limit THEN page[m] ELSE w.cursor, k.done <=> m # limit
    PROVE  SoundWalk(k)
<1> USE DEF IsPage
<1>1. PICK got \in Seq(Nat), n \in Nat, c \in Int : got = w.got /\ n = Len(got) /\ c = w.cursor
    BY DEF SoundWalk, Walk
<1> DEFINE new == got \o page
<1>2. Joined(new, got, page, n, m)
    BY <1>1, JoinedAt
<1>3. /\ \A i \in 1 .. n + m : i \in 1 .. n \/ i \in n + 1 .. n + m
      /\ \A i \in 1 .. n + m, j \in 1 .. n + m : i < j /\ j \in 1 .. n => i \in 1 .. n
      /\ \A i \in n + 1 .. n + m, j \in n + 1 .. n + m : i < j => i - n < j - n
    BY EitherPart
<1>4. k.got = new
    BY <1>1
<1> HIDE DEF new
<1>5. Len(new) = n + m /\ (\A i \in 1 .. n : new[i] = got[i] /\ got[i] \in Nat)
    <2>1. Len(new) = n + m /\ (\A i \in 1 .. n : new[i] = got[i])
        BY <1>2 DEF Joined
    <2>2. \A i \in 1 .. n : got[i] \in Nat
        BY <1>1, SMTT(40)
    <2> QED BY <2>1, <2>2
<1>6. m <= Len(all) /\ m <= limit /\ Len(all) \in Nat
    OBVIOUS
<1>7. \A i \in 1 .. m : i \in 1 .. Len(all) /\ all[i] \in S /\ page[i] = all[i] /\ all[i] \in Nat
    BY <1>6, SMTT(40)
<1>8. ASSUME NEW i \in n + 1 .. n + m
      PROVE  i - n \in 1 .. m /\ new[i] = all[i - n] /\ new[i] \in S /\ new[i] \in Nat
    <2>1. i - n \in 1 .. m /\ new[i] = page[i - n]
        BY <1>2 DEF Joined
    <2> QED BY <1>7, <2>1
<1>9. \A i \in 1 .. n : c # -1 /\ (got[i] = c \/ Prec(w.order, got[i], c))
    BY <1>1 DEF SoundWalk
<1>10. \A x \in S : c = -1 \/ Prec(w.order, c, x)
    BY <1>1
<1>11. ASSUME NEW i \in 1 .. n, NEW x \in S PROVE Prec(w.order, got[i], x)
    <2>1. got[i] \in Nat /\ x \in Nat
        BY <1>5
    <2>2. c \in Int /\ Prec(w.order, c, x) /\ (got[i] = c \/ Prec(w.order, got[i], c))
        BY <1>9, <1>10
    <2> QED BY <2>1, <2>2, PrecTransitive
<1>12. ASSUME NEW i \in 1 .. n + m, NEW j \in 1 .. n + m, i < j
       PROVE  Prec(w.order, new[i], new[j])
    <2>1. CASE j \in 1 .. n
        <3>1. i \in 1 .. n
            BY <1>3, <1>12, <2>1
        <3>2. Prec(w.order, got[i], got[j])
            BY <1>1, <1>12, <2>1, <3>1 DEF SoundWalk
        <3> QED BY <1>5, <2>1, <3>1, <3>2
    <2>2. CASE i \in 1 .. n /\ j \in n + 1 .. n + m
        BY <1>5, <1>8, <1>11, <2>2
    <2>3. CASE i \in n + 1 .. n + m /\ j \in n + 1 .. n + m
        <3>1. i - n < j - n
            BY <1>3, <1>12, <2>3
        <3>2. i - n \in 1 .. Len(all) /\ j - n \in 1 .. Len(all)
            BY <1>7, <1>8, <2>3
        <3> QED BY <1>8, <2>3, <3>1, <3>2
    <2>4. CASE i \in n + 1 .. n + m /\ j \in 1 .. n
        BY <1>3, <1>12, <2>4
    <2> QED BY <1>3, <2>1, <2>2, <2>3, <2>4
<1>13. \A x : Got(w, x) => Got(k, x)
    <2>1. ASSUME NEW i \in 1 .. n PROVE i \in 1 .. Len(k.got) /\ k.got[i] = w.got[i]
        BY <1>1, <1>2, <1>4 DEF Joined
    <2> QED BY <1>1, <2>1 DEF Got
<1>14. \A i \in 1 .. m : Got(k, all[i])
    <2> TAKE i \in 1 .. m
    <2>1. n + i \in 1 .. Len(new) /\ new[n + i] = all[i]
        BY <1>2, <1>7 DEF Joined
    <2> QED BY <1>4, <2>1 DEF Got
<1>15. k.order # "none"
    OBVIOUS
<1>16. CASE m = limit
    <2>1. ~k.done /\ k.cursor = all[m] /\ m \in 1 .. m /\ all[m] \in S /\ all[m] \in Nat
        BY <1>7, <1>16
    <2>2. ASSUME NEW i \in 1 .. n + m PROVE new[i] = all[m] \/ Prec(w.order, new[i], all[m])
        <3>1. CASE i \in 1 .. n
            BY <1>5, <1>11, <2>1, <3>1
        <3>2. CASE i \in n + 1 .. n + m
            <4>1. i - n \in 1 .. m /\ new[i] = all[i - n] /\ i - n \in 1 .. Len(all) /\ m \in 1 .. Len(all)
                BY <1>7, <1>8, <2>1, <3>2
            <4>2. i - n < m => Prec(w.order, all[i - n], all[m])
                BY <4>1
            <4>3. i - n = m => new[i] = all[m]
                BY <4>1
            <4> QED BY <4>1, <4>2, <4>3
        <3> QED BY <1>3, <3>1, <3>2
    <2>3. ASSUME NEW x \in k.stable PROVE Got(k, x) \/ ToCome(k, x)
        <3>1. CASE Got(w, x)
            BY <1>13, <3>1
        <3>2. CASE ToCome(w, x)
            <4>1. PICK i \in 1 .. Len(all) : all[i] = x
                BY <2>3, <3>2
            <4>2. CASE i \in 1 .. m
                BY <1>14, <4>1, <4>2
            <4>3. CASE i > m
                <5>1. Prec(w.order, all[m], x)
                    BY <1>6, <2>1, <4>1, <4>3
                <5> QED BY <2>1, <5>1 DEF ToCome
            <4> QED BY <1>6, <4>2, <4>3
        <3> QED BY <2>3, <3>1, <3>2 DEF SoundWalk
    <2>4. k.cursor # -1
        BY <2>1
    <2> QED BY <1>4, <1>5, <1>12, <1>15, <2>1, <2>2, <2>3, <2>4 DEF SoundWalk
<1>17. CASE m # limit
    <2>1. k.done /\ m = Len(all)
        BY <1>17
    <2>2. ASSUME NEW x \in k.stable PROVE Got(k, x)
        <3>1. CASE Got(w, x)
            BY <1>13, <3>1
        <3>2. CASE ToCome(w, x)
            <4>1. PICK i \in 1 .. Len(all) : all[i] = x
                BY <2>2, <3>2
            <4> QED BY <1>14, <2>1, <4>1
        <3> QED BY <2>2, <3>1, <3>2 DEF SoundWalk
    <2> QED BY <1>4, <1>5, <1>12, <1>15, <2>1, <2>2 DEF SoundWalk
<1> QED BY <1>16, <1>17

\* The rows stay numbers with a bound when one more is stored.
LEMMA PersistKeepsWalk == WalkInv /\ Feeds!Persist => WalkInv'
<1> SUFFICES ASSUME WalkInv, Feeds!Persist PROVE WalkInv'
    OBVIOUS
<1>1. PICK b \in Nat : \A x \in journalRows : x <= b
    BY DEF WalkInv
<1>2. PICK t \in Int : t = Feeds!Top /\ t \in Nat
    <2>1. CASE journalRows = {}
        BY <2>1 DEF Feeds!Top
    <2>2. CASE journalRows # {}
        <3>1. journalRows \subseteq Nat
            BY DEF WalkInv
        <3>2. \E x \in journalRows : \A y \in journalRows : x >= y
            <4>1. PICK x \in journalRows : \A y \in journalRows : y <= x
                BY <1>1, <2>2, <3>1, GreatestExists
            <4> QED BY <3>1, <4>1
        <3>3. Feeds!Max(journalRows) \in journalRows
            BY <3>2 DEF Feeds!Max
        <3>4. Feeds!Top = Feeds!Max(journalRows)
            BY <2>2 DEF Feeds!Top
        <3>5. Feeds!Top \in Nat
            BY <3>1, <3>3, <3>4
        <3> QED BY <3>5
    <2> QED BY <2>1, <2>2
<1>3. journalRows' = journalRows \cup {t + 1} /\ walk' = walk
    BY <1>2 DEF Feeds!Persist
<1>4. journalRows' \subseteq Nat /\ walk.stable \subseteq journalRows'
    BY <1>2, <1>3 DEF WalkInv
<1>5. \E d \in Nat : \A x \in journalRows' : x <= d
    <2>1. b + t + 1 \in Nat /\ \A x \in journalRows' : x <= b + t + 1
        BY <1>1, <1>2, <1>3 DEF WalkInv
    <2> QED BY <2>1
<1>6. PICK w : w = walk
    OBVIOUS
<1>7. SoundWalk(w) /\ walk' = w /\ walk.stable = w.stable
    BY <1>3, <1>6 DEF WalkInv
<1> QED BY <1>4, <1>5, <1>6, <1>7 DEF WalkInv

LEMMA DeleteKeepsWalk == WalkInv /\ Feeds!DeleteOldest => WalkInv'
<1> SUFFICES ASSUME WalkInv, NEW g \in journalRows, journalRows' = {x \in journalRows : x > g},
                    walk' = [walk EXCEPT !.stable = {x \in @ : x > g}]
             PROVE  WalkInv'
    BY DEF Feeds!DeleteOldest
<1>1. PICK w : w = walk
    OBVIOUS
<1>2. SoundWalk(w) /\ w.stable \subseteq journalRows /\ w \in Walk
    BY <1>1 DEF WalkInv, SoundWalk
<1> DEFINE still == {x \in w.stable : x > g}
<1>3. still \subseteq w.stable /\ still \subseteq journalRows'
    BY <1>2
<1>4. PICK k : k = [w EXCEPT !.stable = still]
    OBVIOUS
<1>5. walk' = k
    BY <1>1, <1>4
<1> HIDE DEF still
<1>6. k \in Walk /\ k.order = w.order /\ k.cursor = w.cursor /\ k.got = w.got /\ k.stable = still
    BY <1>2, <1>3, <1>4 DEF Walk
<1>7. k.done = w.done
    BY <1>2, <1>4 DEF Walk
<1>8. \A x : (Got(w, x) => Got(k, x)) /\ (ToCome(w, x) => ToCome(k, x))
    BY <1>6, <1>7 DEF Got, ToCome
<1>9. SoundWalk(k)
    BY <1>2, <1>3, <1>6, <1>7, <1>8 DEF SoundWalk
<1>10. journalRows' \subseteq Nat /\ \E d \in Nat : \A x \in journalRows' : x <= d
    BY DEF WalkInv
<1> QED BY <1>3, <1>5, <1>6, <1>9, <1>10 DEF WalkInv

LEMMA EmptyWalk ==
    /\ Feeds!NoWalk \in Walk /\ Feeds!NoWalk.order = "none" /\ Feeds!NoWalk.cursor = -1
    /\ Len(Feeds!NoWalk.got) = 0 /\ Feeds!NoWalk.stable = {} /\ ~Feeds!NoWalk.done
<1> DEFINE none == << >>
           k == Feeds!NoWalk
<1>1. none \in Seq(Nat) /\ Len(none) = 0
    OBVIOUS
<1>2. k = [order |-> "none", cursor |-> -1, got |-> none, stable |-> {}, done |-> FALSE]
    BY DEF Feeds!NoWalk, Feeds!Absent
<1> HIDE DEF none, k
<1>3. k \in Walk /\ k.order = "none" /\ k.cursor = -1 /\ k.got = none /\ k.stable = {}
    BY <1>1, <1>2 DEF Walk
<1>4. ~k.done
    BY <1>2
<1> QED BY <1>1, <1>3, <1>4 DEF k

LEMMA StartKeepsWalk ==
    ASSUME WalkInv, NEW order \in {"asc", "desc"}, Feeds!StartWalk(order)
    PROVE  WalkInv'
<1>1. PICK n, stored : n = Feeds!NoWalk /\ stored = journalRows
    OBVIOUS
<1>2. n \in Walk /\ n.cursor = -1 /\ Len(n.got) = 0 /\ ~n.done /\ stored \subseteq Nat
    BY <1>1, EmptyWalk DEF WalkInv
<1>3. PICK k : k = [n EXCEPT !.order = order, !.stable = stored]
    OBVIOUS
<1>4. walk' = k /\ journalRows' = stored
    BY <1>1, <1>3 DEF Feeds!StartWalk
<1>5. k \in Walk /\ k.order = order /\ k.cursor = -1 /\ Len(k.got) = 0 /\ k.stable = stored
    BY <1>2, <1>3 DEF Walk
<1>6. ~k.done
    BY <1>2, <1>3 DEF Walk
<1>7. k.order # "none"
    BY <1>5
<1>8. SoundWalk(k)
    BY <1>5, <1>6, <1>7 DEF SoundWalk, ToCome
<1>9. \E b \in Nat : \A x \in stored : x <= b
    BY <1>1 DEF WalkInv
<1> QED BY <1>2, <1>4, <1>5, <1>8, <1>9 DEF WalkInv

\* The first m members of a sequence.
LEMMA Prefix ==
    ASSUME NEW S, NEW all \in Seq(S), NEW m \in Nat, m <= Len(all)
    PROVE  /\ SubSeq(all, 1, m) \in Seq(S) /\ Len(SubSeq(all, 1, m)) = m
           /\ \A i \in 1 .. m : SubSeq(all, 1, m)[i] = all[i]
OBVIOUS

\* The page that queryEvents returns: the first rows beyond the cursor, in the order of the walk.
LEMMA PageOf ==
    ASSUME WalkInv, NEW w, w = walk, w.order \in {"asc", "desc"}, NEW S, S = Feeds!Beyond
    PROVE  \E all \in Seq(S), m \in Nat, page \in Seq(Nat) :
               /\ \A i, j \in 1 .. Len(all) : i < j => Prec(w.order, all[i], all[j])
               /\ \A x \in S : \E i \in 1 .. Len(all) : all[i] = x
               /\ m = IF Len(all) < PageLimit THEN Len(all) ELSE PageLimit
               /\ page = Feeds!Page /\ Len(page) = m /\ \A i \in 1 .. m : page[i] = all[i]
<1>1. S \subseteq journalRows /\ journalRows \subseteq Nat
    BY DEF Feeds!Beyond, WalkInv
<1>2. PICK b \in Nat : \A x \in journalRows : x <= b
    BY DEF WalkInv
<1>3. S \subseteq Nat /\ \A x \in S : x <= b
    BY <1>1, <1>2
<1>4. PICK all : all = Feeds!Ordered(S)
    OBVIOUS
<1>5. /\ Feeds!Ordered(S) \in Seq(S) /\ Len(Feeds!Ordered(S)) \in Nat
      /\ \A i, j \in 1 .. Len(Feeds!Ordered(S)) : i < j => Prec(walk.order, Feeds!Ordered(S)[i], Feeds!Ordered(S)[j])
      /\ \A g \in S : \E i \in 1 .. Len(Feeds!Ordered(S)) : Feeds!Ordered(S)[i] = g
    BY <1>3, OrderedLists
<1>6. /\ all \in Seq(S) /\ Len(all) \in Nat
      /\ \A i, j \in 1 .. Len(all) : i < j => Prec(w.order, all[i], all[j])
      /\ \A x \in S : \E i \in 1 .. Len(all) : all[i] = x
    BY <1>4, <1>5
<1>7. PICK l \in Nat : l = Len(all)
    BY <1>6
<1>8. PICK m \in Nat : m = (IF l < PageLimit THEN l ELSE PageLimit) /\ m <= l
    BY CountAssumption
<1>9. PICK page : page = SubSeq(all, 1, m)
    OBVIOUS
<1>10. page \in Seq(S) /\ Len(page) = m /\ \A i \in 1 .. m : page[i] = all[i]
    BY <1>6, <1>7, <1>8, <1>9, Prefix
<1>11. page \in Seq(Nat)
    BY <1>3, <1>10
<1>12. page = Feeds!Page
    BY <1>4, <1>7, <1>8, <1>9 DEF Feeds!Page
<1> QED BY <1>6, <1>7, <1>8, <1>10, <1>11, <1>12, ZenonT(40)

LEMMA GetKeepsWalk == WalkInv /\ Feeds!GetPage => WalkInv'
<1> SUFFICES ASSUME WalkInv, Feeds!GetPage PROVE WalkInv'
    OBVIOUS
<1>1. PICK w, S, limit : w = walk /\ S = Feeds!Beyond /\ limit = PageLimit
    OBVIOUS
<1>2. SoundWalk(w) /\ w \in Walk /\ w.stable \subseteq journalRows /\ journalRows \subseteq Nat
    BY <1>1 DEF WalkInv, SoundWalk
<1>3. w.order \in {"asc", "desc"} /\ ~w.done
    BY <1>1, <1>2 DEF Feeds!GetPage, Walk
<1>4. limit \in Nat \ {0}
    BY <1>1, CountAssumption
<1>5. PICK all \in Seq(S), m \in Nat, page \in Seq(Nat) :
               /\ \A i, j \in 1 .. Len(all) : i < j => Prec(w.order, all[i], all[j])
               /\ \A x \in S : \E i \in 1 .. Len(all) : all[i] = x
               /\ m = IF Len(all) < limit THEN Len(all) ELSE limit
               /\ page = Feeds!Page /\ Len(page) = m /\ \A i \in 1 .. m : page[i] = all[i]
    BY <1>1, <1>3, PageOf
<1>6. S \subseteq Nat /\ w.cursor \in Int
    BY <1>1, <1>2 DEF Feeds!Beyond, Walk
<1>7. \A x \in S : w.cursor = -1 \/ Prec(w.order, w.cursor, x)
    <2> TAKE x \in S
    <2>1. w.cursor = -1 \/ (w.order = "desc" /\ x < w.cursor) \/ (w.order = "asc" /\ x > w.cursor)
        BY <1>1 DEF Feeds!Beyond, Feeds!Absent
    <2>2. x \in Nat
        BY <1>6
    <2> QED BY <1>6, <2>1, <2>2 DEF Prec
<1>8. \A x \in w.stable : ToCome(w, x) => x \in S
    <2> TAKE x \in w.stable
    <2> HAVE ToCome(w, x)
    <2>1. x \in journalRows /\ x \in Nat
        BY <1>2
    <2>2. w.cursor = -1 \/ (w.order = "desc" /\ x < w.cursor) \/ (w.order = "asc" /\ x > w.cursor)
        BY <1>3, <1>6, <2>1 DEF ToCome, Prec
    <2> QED BY <1>1, <2>1, <2>2 DEF Feeds!Beyond, Feeds!Absent
<1>9. PICK new : new = w.got \o page
    OBVIOUS
<1>10. new \in Seq(Nat)
    BY <1>2, <1>5, <1>9 DEF Walk
<1>11. PICK c \in Int : c = IF m = limit THEN page[m] ELSE w.cursor
    BY <1>4, <1>5, <1>6
<1>12. PICK d \in BOOLEAN : d <=> m # limit
    OBVIOUS
<1>13. PICK k : k = [w EXCEPT !.got = new, !.cursor = c, !.done = d]
    OBVIOUS
<1>14. walk' = k /\ journalRows' = journalRows
    <2>1. Feeds!Last(page) = page[m] /\ Len(page) = m
        BY <1>5 DEF Feeds!Last
    <2>2. /\ walk' = [walk EXCEPT !.got = @ \o Feeds!Page,
                                  !.cursor = IF Len(Feeds!Page) = PageLimit THEN Feeds!Last(Feeds!Page) ELSE @,
                                  !.done = Len(Feeds!Page) # PageLimit]
          /\ journalRows' = journalRows
        BY DEF Feeds!GetPage
    <2>3. /\ walk' = [w EXCEPT !.got = w.got \o page,
                               !.cursor = IF Len(page) = limit THEN Feeds!Last(page) ELSE w.cursor,
                               !.done = Len(page) # limit]
        BY <1>1, <1>5, <2>2
    <2>4. walk' = [w EXCEPT !.got = new, !.cursor = c, !.done = m # limit]
        BY <1>9, <1>11, <2>1, <2>3
    <2>5. (m # limit) = d
        BY <1>12
    <2> QED BY <1>13, <2>2, <2>4, <2>5
<1>15. k \in Walk /\ k.order = w.order /\ k.stable = w.stable /\ k.got = w.got \o page /\ k.cursor = c
    BY <1>2, <1>9, <1>10, <1>13 DEF Walk
<1>16. k.done <=> m # limit
    BY <1>2, <1>12, <1>13 DEF Walk
<1>17. SoundWalk(k)
    <2>1. IsPage(w, limit, S, all, m, page)
        BY <1>5, <1>6, <1>7, <1>8 DEF IsPage
    <2>2. k.cursor = IF m = limit THEN page[m] ELSE w.cursor
        BY <1>11, <1>15
    <2>3. m \in Nat /\ limit \in Nat \ {0} /\ SoundWalk(w) /\ w.order \in {"asc", "desc"} /\ ~w.done
        BY <1>2, <1>3, <1>4
    <2>4. k \in Walk /\ k.order = w.order /\ k.stable = w.stable /\ k.got = w.got \o page /\ (k.done <=> m # limit)
        BY <1>15, <1>16
    <2> QED BY <2>1, <2>2, <2>3, <2>4, PageKeepsWalk, Zenon
<1> QED BY <1>1, <1>14, <1>15, <1>17 DEF WalkInv

LEMMA StepKeepsWalk == WalkInv /\ [Feeds!FeedsNext]_feedState => WalkInv'
<1> SUFFICES ASSUME WalkInv, [Feeds!FeedsNext]_feedState PROVE WalkInv'
    OBVIOUS
<1>1. CASE UNCHANGED <<journalRows, walk>>
    BY <1>1 DEF WalkInv, SoundWalk, Got, ToCome
<1>2. CASE UNCHANGED feedState \/ \E s \in Subscribers : Feeds!Open(s) \/ Feeds!Read(s) \/ Feeds!Cancel(s) \/ Feeds!Keepalive(s)
    BY <1>1, <1>2 DEF feedState, Feeds!Open, Feeds!Read, Feeds!Cancel, Feeds!Keepalive
<1>3. CASE \E order \in {"asc", "desc"} : Feeds!StartWalk(order)
    BY <1>3, StartKeepsWalk
<1> QED BY <1>2, <1>3, PersistKeepsWalk, DeleteKeepsWalk, GetKeepsWalk DEF Feeds!FeedsNext

LEMMA InitWalk == Init => WalkInv
<1> SUFFICES ASSUME Feeds!FeedsInit PROVE WalkInv
    BY DEF Init
<1>1. PICK n : n = Feeds!NoWalk
    OBVIOUS
<1>2. n \in Walk /\ n.order = "none" /\ n.cursor = -1 /\ Len(n.got) = 0 /\ n.stable = {} /\ ~n.done
    BY <1>1, EmptyWalk
<1>3. SoundWalk(n)
    BY <1>2 DEF SoundWalk
<1>4. journalRows = {} /\ walk = n
    BY <1>1 DEF Feeds!FeedsInit
<1> QED BY <1>2, <1>3, <1>4 DEF WalkInv

LEMMA InvWalk == WalkInv => Feeds!WalkMissesNothing
<1> SUFFICES ASSUME WalkInv PROVE Feeds!WalkMissesNothing
    OBVIOUS
<1>1. PICK w : w = walk
    OBVIOUS
<1>2. SoundWalk(w) /\ w.got \in Seq(Nat) /\ DOMAIN w.got = 1 .. Len(w.got)
    BY <1>1 DEF WalkInv, SoundWalk, Walk
<1>3. \A i, j \in DOMAIN walk.got : i < j => Feeds!Before(walk.got[i], walk.got[j])
    BY <1>1, <1>2 DEF SoundWalk, Prec, Feeds!Before
<1>4. ASSUME w.done PROVE w.stable \subseteq Feeds!ToSet(w.got)
    <2>1. \A x \in w.stable : Got(w, x)
        BY <1>2, <1>4 DEF SoundWalk, ToCome
    <2> QED BY <1>2, <2>1 DEF Got, Feeds!ToSet
<1> QED BY <1>1, <1>3, <1>4 DEF Feeds!WalkMissesNothing

\* Of the requests that carry the same If-Match version at most one succeeds with an event;
\* a subscriber of the stream has every frame from its first to its last without a hole; a
\* walk over the journal route, whatever its order and page size, returns in order and once
\* every row that was there throughout (aggregate-routes.ts, sse.ts, views.ts).
THEOREM HttpIsSound == Spec => []HttpSound
<1> DEFINE IInv == CommandInv /\ StreamInv /\ WalkInv
<1>1. Init => IInv
    BY InitCommands, InitStreams, InitWalk
<1>2. IInv /\ [Next]_vars => IInv'
    BY ComponentSteps, StepKeepsCommands, StepKeepsStreams, StepKeepsWalk
<1>3. IInv => HttpSound
    BY InvWinner, InvStreams, InvWalk DEF HttpSound
<1> QED BY <1>1, <1>2, <1>3, PTL DEF Spec

-----------------------------------------------------------------------------
(* The Home Assistant client.                                               *)

\* What requests the client sends, and the requests the server knows of.
What == [kind : {"sub"}, of : EventTypes] \cup [kind : {"arm", "rearm"}, of : Triggers] \cup [kind : {"call"}, of : Commands]
            \cup [kind : {"states"}, of : {"boot"}] \cup [kind : {"unsub"}, of : Nat]
Req == [id : Nat \ {0}, what : What]

\* The life of the connection: what stands ready to move it on.
LinkInv ==
    /\ connected \in BOOLEAN /\ reconnectTimer \in BOOLEAN /\ pinging \in BOOLEAN
    /\ generation \in Nat /\ handshake \in Nat /\ life \in {"new", "started", "stopped"}
    /\ reconnectTimer => socket = "none" /\ ~connected /\ handshake = 0 /\ life = "started"
    /\ connected => life = "started" /\ socket # "none"
    /\ life = "new" => ~connected /\ handshake = 0 /\ socket = "none"
    /\ Ha!AlwaysDriven

\* The book of requests: n is the next id, un the requests without an answer, sb the
\* subscriptions, pe the pending entries.  An id is used once on a connection.
Book(n, un, sb, pe) ==
    /\ n \in Nat \ {0} /\ un \subseteq Req /\ sb \subseteq Req /\ pe \subseteq un
    /\ \A p, q \in un \cup sb : p.id = q.id => p = q
    /\ \A p \in un \cup sb : p.id < n

\* Whose ids are whose: an id that a registration holds (ev, tr) is of its own request; a
\* request that failed or is to be undone is held by no event type.
Own(n, un, sb, pe, ev, tr) ==
    /\ ev \in [EventTypes -> Nat] /\ tr \in [Triggers -> Nat]
    /\ \A t \in EventTypes : ev[t] < n
    /\ \A t \in Triggers : tr[t] < n
    /\ \A t \in EventTypes, p \in un \cup sb : p.id = ev[t] => p.what = Ha!HaEventSub(t)
    /\ \A t \in Triggers, p \in un \cup sb : p.id = tr[t] => p.what = Ha!HaArm(t) \/ p.what = Ha!HaRearm(t)
    /\ \A p \in un \ pe : p.what.kind = "sub" => ev[p.what.of] # p.id
    /\ \A p \in un : p.what.kind = "unsub" => p.what.of # 0 /\ p.what.of < n
    /\ \A p \in un, t \in EventTypes : p.what.kind = "unsub" => ev[t] # p.what.of
    /\ \A t, u \in EventTypes : ev[t] = ev[u] /\ ev[t] # 0 => t = u
    /\ \A t \in EventTypes, u \in Triggers : ev[t] # 0 => ev[t] # tr[u]

\* Every event type of T has its request or subscription.
Fed(un, sb, ev, T) == \A t \in T : \E p \in un \cup sb : p.what = Ha!HaEventSub(t) /\ p.id = ev[t]

\* Every caller that waits has its pending entry.
Calls(ca, pe) ==
    /\ ca \in [Commands -> {"none", "waiting", "settled"}]
    /\ \A c \in Commands : ca[c] = "waiting" => \E p \in pe : p.what = Ha!HaCall(c)

\* A connection that is not authenticated starts with nothing of the former one.
IdleInv ==
    ~connected /\ life # "stopped" =>
        /\ unanswered = {} /\ subs = {}
        /\ \A t \in EventTypes : evSub[t] = 0
        /\ \A t \in Triggers : trigSub[t] = 0

BookInv ==
    /\ timers = pending /\ (connected \/ pending = {})
    /\ Book(nextId, unanswered, subs, pending)
    /\ Own(nextId, unanswered, subs, pending, evSub, trigSub)
    /\ Calls(called, pending)
    /\ connected => Fed(unanswered, subs, evSub, handlers \ refused)
    /\ IdleInv
    /\ boot \in [at : {"none", "arm", "states"}, todo : SUBSET Triggers]
    /\ handlers \subseteq EventTypes /\ IsFiniteSet(handlers)

\* What leaves the connection as it is.
LEMMA LinkStays == LinkInv /\ UNCHANGED Ha!linkVars => LinkInv'
BY DEF LinkInv, Ha!linkVars, Ha!AlwaysDriven

LEMMA ConnectKeepsLink ==
    ASSUME LinkInv, Ha!Connect, life' = "started", ~connected, socket = "none", handshake = 0
    PROVE  LinkInv'
<1>1. generation' = generation + 1 /\ generation' \in Nat /\ connected' = connected /\ pinging' = pinging
    BY DEF Ha!Connect, LinkInv
<1>2. CASE socket' = "connecting" /\ handshake' = generation + 1 /\ reconnectTimer' = FALSE
    BY <1>1, <1>2 DEF LinkInv, Ha!AlwaysDriven
<1>3. CASE socket' = socket /\ handshake' = handshake /\ reconnectTimer' = TRUE
    BY <1>1, <1>3 DEF LinkInv, Ha!AlwaysDriven
<1> QED BY <1>2, <1>3 DEF Ha!Connect

LEMMA StepKeepsLink == LinkInv /\ [Ha!Next]_haState => LinkInv'
<1> SUFFICES ASSUME LinkInv, [Ha!Next]_haState PROVE LinkInv'
    OBVIOUS
<1>1. CASE UNCHANGED Ha!linkVars
    BY <1>1, LinkStays
<1>2. CASE UNCHANGED haState
    BY <1>1, <1>2 DEF haState, Ha!linkVars
<1>3. CASE Ha!Pong \/ (\E c \in Commands : Ha!Call(c)) \/ (\E t \in EventTypes : Ha!AddHandler(t) \/ Ha!RemoveHandler(t))
            \/ (\E t \in Triggers : Ha!SubscribeTrigger(t) \/ Ha!RemoveTrigger(t))
            \/ (\E p \in unanswered, ok \in BOOLEAN : Ha!Result(p, ok)) \/ \E p \in timers : Ha!TimerFires(p)
    BY <1>1, <1>3 DEF Ha!Pong, Ha!Call, Ha!AddHandler, Ha!RemoveHandler, Ha!SubscribeTrigger, Ha!RemoveTrigger,
                      Ha!Result, Ha!TimerFires
<1>4. CASE Ha!Start
    BY <1>4, ConnectKeepsLink DEF Ha!Start, LinkInv
<1>5. CASE Ha!ReconnectFires
    BY <1>5, ConnectKeepsLink DEF Ha!ReconnectFires, LinkInv
<1>6. CASE Ha!Open
    BY <1>6 DEF Ha!Open, LinkInv, Ha!AlwaysDriven
<1>7. CASE Ha!AuthInvalid
    BY <1>7 DEF Ha!AuthInvalid, Ha!Closing, LinkInv, Ha!AlwaysDriven
<1>8. CASE Ha!AuthOk
    BY <1>8 DEF Ha!AuthOk, LinkInv, Ha!AlwaysDriven
<1>9. CASE Ha!HandshakeFires
    BY <1>9 DEF Ha!HandshakeFires, Ha!Closing, LinkInv, Ha!AlwaysDriven
<1>10. CASE Ha!PingTick
    BY <1>1, <1>10 DEF Ha!PingTick, Ha!Closing, LinkInv, Ha!AlwaysDriven
<1>11. CASE Ha!HandleClose
    <2>1. /\ socket' = "none" /\ ~connected' /\ ~pinging' /\ connected' \in BOOLEAN /\ pinging' \in BOOLEAN
          /\ handshake' = 0 /\ generation' = generation + 1 /\ life' = life /\ socket # "none"
        BY <1>11 DEF Ha!HandleClose
    <2>2. life # "new" /\ generation' \in Nat /\ ~reconnectTimer
        BY <2>1 DEF LinkInv
    <2>3. CASE life = "stopped"
        <3>1. reconnectTimer' = reconnectTimer
            BY <1>11, <2>3 DEF Ha!HandleClose, Ha!RetryUnlessStopped
        <3> QED BY <2>1, <2>2, <2>3, <3>1 DEF LinkInv, Ha!AlwaysDriven
    <2>4. CASE life # "stopped"
        <3>1. reconnectTimer' = TRUE
            BY <1>11, <2>4 DEF Ha!HandleClose, Ha!RetryUnlessStopped, Ha!ScheduleReconnect
        <3>2. life = "started"
            BY <2>2, <2>4 DEF LinkInv
        <3> QED BY <2>1, <2>2, <3>1, <3>2 DEF LinkInv, Ha!AlwaysDriven
    <2> QED BY <2>3, <2>4
<1>12. CASE Ha!Stop
    BY <1>12 DEF Ha!Stop, LinkInv, Ha!AlwaysDriven
<1> QED BY <1>2, <1>3, <1>4, <1>5, <1>6, <1>7, <1>8, <1>9, <1>10, <1>11, <1>12 DEF Ha!Next

LEMMA Whats ==
    /\ \A t \in EventTypes : Ha!HaEventSub(t) \in What /\ Ha!HaEventSub(t).kind = "sub" /\ Ha!HaEventSub(t).of = t
    /\ \A t \in Triggers : Ha!HaArm(t) \in What /\ Ha!HaArm(t).kind = "arm" /\ Ha!HaArm(t).of = t
    /\ \A t \in Triggers : Ha!HaRearm(t) \in What /\ Ha!HaRearm(t).kind = "rearm" /\ Ha!HaRearm(t).of = t
    /\ \A c \in Commands : Ha!HaCall(c) \in What /\ Ha!HaCall(c).kind = "call" /\ Ha!HaCall(c).of = c
    /\ \A i \in Nat : Ha!HaUnsub(i) \in What /\ Ha!HaUnsub(i).kind = "unsub" /\ Ha!HaUnsub(i).of = i
    /\ Ha!HaStates \in What /\ Ha!HaStates.kind = "states"
BY DEF What, Ha!HaEventSub, Ha!HaArm, Ha!HaRearm, Ha!HaCall, Ha!HaUnsub, Ha!HaStates

LEMMA WhatOf ==
    ASSUME NEW w \in What
    PROVE  /\ w.kind = "sub" => w.of \in EventTypes /\ w = Ha!HaEventSub(w.of)
           /\ w.kind = "arm" => w.of \in Triggers /\ w = Ha!HaArm(w.of)
           /\ w.kind = "rearm" => w.of \in Triggers /\ w = Ha!HaRearm(w.of)
           /\ w.kind = "call" => w.of \in Commands /\ w = Ha!HaCall(w.of)
           /\ w.kind = "unsub" => w.of \in Nat
BY DEF What, Ha!HaEventSub, Ha!HaArm, Ha!HaRearm, Ha!HaCall

\* A request under the next id belongs to nobody else.
LEMMA IssueKeepsBook ==
    ASSUME NEW n, NEW un, NEW sb, NEW pe, Book(n, un, sb, pe), NEW w \in What, NEW q, q = [id |-> n, what |-> w]
    PROVE  /\ q \in Req /\ q.id = n /\ q.what = w
           /\ Book(n + 1, un \cup {q}, sb, pe \cup {q})
<1>1. q \in Req /\ q.id = n /\ q.what = w
    BY DEF Book, Req
<1>2. \A p \in un \cup sb : p.id < n /\ p.id \in Nat
    BY DEF Book, Req
<1>3. \A p \in (un \cup {q}) \cup sb : p = q \/ p \in un \cup sb
    OBVIOUS
<1>4. n \in Nat
    BY DEF Book
<1>5. \A p \in (un \cup {q}) \cup sb : p.id < n + 1
    BY <1>1, <1>2, <1>3, <1>4
<1>6. ASSUME NEW p \in (un \cup {q}) \cup sb, NEW r \in (un \cup {q}) \cup sb, p.id = r.id PROVE p = r
    <2>1. (p = q \/ p \in un \cup sb) /\ (r = q \/ r \in un \cup sb)
        BY <1>3
    <2> QED BY <1>1, <1>2, <1>4, <1>6, <2>1 DEF Book
<1>7. n + 1 \in Nat \ {0} /\ un \cup {q} \subseteq Req /\ sb \subseteq Req /\ pe \cup {q} \subseteq un \cup {q}
    BY <1>1, <1>4 DEF Book
<1> QED BY <1>1, <1>5, <1>6, <1>7 DEF Book

LEMMA IssueKeepsOwn ==
    ASSUME NEW n, NEW un, NEW sb, NEW pe, NEW ev, NEW tr, Book(n, un, sb, pe), Own(n, un, sb, pe, ev, tr),
           NEW w \in What, NEW q, q = [id |-> n, what |-> w],
           w.kind = "unsub" => w.of # 0 /\ w.of < n /\ \A t \in EventTypes : ev[t] # w.of
    PROVE  Own(n + 1, un \cup {q}, sb, pe \cup {q}, ev, tr)
<1>1. q.id = n /\ q.what = w /\ n \in Nat
    BY IssueKeepsBook DEF Book
<1>2. \A t \in EventTypes : ev[t] \in Nat /\ ev[t] < n /\ ev[t] < n + 1 /\ ev[t] # n
    BY <1>1 DEF Own
<1>3. \A t \in Triggers : tr[t] \in Nat /\ tr[t] < n /\ tr[t] < n + 1 /\ tr[t] # n
    BY <1>1 DEF Own
<1>4. \A p \in (un \cup {q}) \cup sb : p = q \/ p \in un \cup sb
    OBVIOUS
<1>5. \A p \in un \cup {q} : p.what.kind = "unsub" => p.what.of \in Nat
    <2>1. \A p \in un \cup {q} : p.what \in What
        BY <1>1 DEF Book, Req
    <2> QED BY <2>1, WhatOf
<1>6. \A t \in EventTypes, p \in (un \cup {q}) \cup sb : p.id = ev[t] => p.what = Ha!HaEventSub(t)
    BY <1>1, <1>2, <1>4 DEF Own
<1>7. \A t \in Triggers, p \in (un \cup {q}) \cup sb : p.id = tr[t] => p.what = Ha!HaArm(t) \/ p.what = Ha!HaRearm(t)
    BY <1>1, <1>3, <1>4 DEF Own
<1>8. \A p \in (un \cup {q}) \ (pe \cup {q}) : p.what.kind = "sub" => ev[p.what.of] # p.id
    BY DEF Own
<1>9. \A p \in un \cup {q} : p.what.kind = "unsub" => p.what.of # 0 /\ p.what.of < n + 1
    BY <1>1, <1>5 DEF Own
<1>10. \A p \in un \cup {q}, t \in EventTypes : p.what.kind = "unsub" => ev[t] # p.what.of
    BY <1>1 DEF Own
<1> QED BY <1>2, <1>3, <1>6, <1>7, <1>8, <1>9, <1>10 DEF Own

\* An event type takes the id of its own request, which nobody else holds.
LEMMA HoldKeepsOwn ==
    ASSUME NEW n, NEW un, NEW sb, NEW pe, NEW ev, NEW tr, Book(n, un, sb, pe), Own(n, un, sb, pe, ev, tr),
           NEW t \in EventTypes, NEW q \in pe, q.what = Ha!HaEventSub(t),
           \A u \in EventTypes : ev[u] # q.id, \A u \in Triggers : tr[u] # q.id,
           \A p \in un : p.what.kind = "unsub" => p.what.of # q.id
    PROVE  Own(n, un, sb, pe, [ev EXCEPT ![t] = q.id], tr)
<1>1. PICK i \in Nat : i = q.id /\ i < n /\ q \in un
    BY DEF Book, Req
<1>2. PICK f : f = [ev EXCEPT ![t] = i]
    OBVIOUS
<1>3. f \in [EventTypes -> Nat] /\ f[t] = i /\ \A u \in EventTypes : u # t => f[u] = ev[u]
    BY <1>1, <1>2 DEF Own
<1>4. \A u \in EventTypes : f[u] < n
    BY <1>1, <1>3 DEF Own
<1>5. \A u \in EventTypes, p \in un \cup sb : p.id = f[u] => p.what = Ha!HaEventSub(u)
    <2> TAKE u \in EventTypes, p \in un \cup sb
    <2>1. CASE u = t
        BY <1>1, <1>3, <2>1 DEF Book
    <2>2. CASE u # t
        BY <1>3, <2>2 DEF Own
    <2> QED BY <2>1, <2>2
<1>6. \A p \in un \ pe : p.what.kind = "sub" => f[p.what.of] # p.id
    <2> SUFFICES ASSUME NEW p \in un \ pe, p.what.kind = "sub" PROVE f[p.what.of] # p.id
        OBVIOUS
    <2>1. p.what \in What
        BY DEF Book, Req
    <2>2. p.what.of \in EventTypes
        BY <2>1, WhatOf
    <2>3. p.id # i
        <3>1. q \in un \cup sb /\ p \in un \cup sb /\ p # q
            BY <1>1
        <3> QED BY <1>1, <3>1 DEF Book
    <2> QED BY <1>3, <2>2, <2>3 DEF Own
<1>7. \A p \in un, u \in EventTypes : p.what.kind = "unsub" => f[u] # p.what.of
    BY <1>1, <1>3 DEF Own
<1>8. \A u, v \in EventTypes : f[u] = f[v] /\ f[u] # 0 => u = v
    BY <1>1, <1>3 DEF Own
<1>9. \A u \in EventTypes, v \in Triggers : f[u] # 0 => f[u] # tr[v]
    BY <1>1, <1>3 DEF Own
<1>10. Own(n, un, sb, pe, f, tr)
    BY <1>3, <1>4, <1>5, <1>6, <1>7, <1>8, <1>9 DEF Own
<1> QED BY <1>1, <1>2, <1>10

\* An event type gives its id up: nobody holds it then.
LEMMA DropKeepsOwn ==
    ASSUME NEW n, NEW un, NEW sb, NEW pe, NEW ev, NEW tr, Book(n, un, sb, pe), Own(n, un, sb, pe, ev, tr),
           NEW t \in EventTypes, NEW f, f = [ev EXCEPT ![t] = 0]
    PROVE  /\ Own(n, un, sb, pe, f, tr) /\ f[t] = 0
           /\ \A u \in EventTypes : u # t => f[u] = ev[u]
           /\ ev[t] # 0 => \A u \in EventTypes : f[u] # ev[t]
           /\ ev[t] \in Nat /\ ev[t] < n
<1>1. f \in [EventTypes -> Nat] /\ f[t] = 0 /\ (\A u \in EventTypes : u # t => f[u] = ev[u]) /\ ev[t] \in Nat /\ ev[t] < n
    BY DEF Own
<1>2. \A u \in EventTypes : f[u] = 0 \/ f[u] = ev[u]
    BY <1>1
<1>3. n \in Nat \ {0} /\ (\A p \in un \cup sb : p.id \in Nat \ {0} /\ p.what \in What)
    BY DEF Book, Req
<1>4. \A u \in EventTypes : f[u] < n
    BY <1>1, <1>3 DEF Own
<1>5. \A u \in EventTypes, p \in un \cup sb : p.id = f[u] => p.what = Ha!HaEventSub(u)
    BY <1>2, <1>3 DEF Own
<1>6. \A p \in un \ pe : p.what.kind = "sub" => f[p.what.of] # p.id
    <2> SUFFICES ASSUME NEW p \in un \ pe, p.what.kind = "sub" PROVE f[p.what.of] # p.id
        OBVIOUS
    <2>1. p.what.of \in EventTypes /\ p.id # 0
        BY <1>3, WhatOf
    <2>2. f[p.what.of] = 0 \/ f[p.what.of] = ev[p.what.of]
        BY <1>2, <2>1
    <2>3. ev[p.what.of] # p.id
        BY DEF Own
    <2> QED BY <2>1, <2>2, <2>3
<1>7. \A p \in un, u \in EventTypes : p.what.kind = "unsub" => f[u] # p.what.of
    BY <1>2 DEF Own
<1>8. \A u, v \in EventTypes : f[u] = f[v] /\ f[u] # 0 => u = v
    BY <1>2 DEF Own
<1>9. \A u \in EventTypes, v \in Triggers : f[u] # 0 => f[u] # tr[v]
    BY <1>2 DEF Own
<1>10. Own(n, un, sb, pe, f, tr)
    BY <1>1, <1>4, <1>5, <1>6, <1>7, <1>8, <1>9 DEF Own
<1>11. ev[t] # 0 => \A u \in EventTypes : f[u] # ev[t]
    BY <1>1 DEF Own
<1> QED BY <1>1, <1>10, <1>11

\* A trigger gives its id up.
LEMMA ReleaseKeepsOwn ==
    ASSUME NEW n, NEW un, NEW sb, NEW pe, NEW ev, NEW tr, Book(n, un, sb, pe), Own(n, un, sb, pe, ev, tr),
           NEW t \in Triggers, NEW f, f = [tr EXCEPT ![t] = 0]
    PROVE  /\ Own(n, un, sb, pe, ev, f)
           /\ tr[t] # 0 => \A u \in EventTypes : ev[u] # tr[t]
           /\ tr[t] \in Nat /\ tr[t] < n
<1>1. f \in [Triggers -> Nat] /\ tr[t] \in Nat /\ tr[t] < n /\ \A u \in Triggers : f[u] = 0 \/ f[u] = tr[u]
    BY DEF Own
<1>2. n \in Nat \ {0} /\ (\A p \in un \cup sb : p.id \in Nat \ {0})
    BY DEF Book, Req
<1>3. \A u \in Triggers : f[u] < n
    BY <1>1, <1>2 DEF Own
<1>4. \A u \in Triggers, p \in un \cup sb : p.id = f[u] => p.what = Ha!HaArm(u) \/ p.what = Ha!HaRearm(u)
    BY <1>1, <1>2 DEF Own
<1>5. \A u \in EventTypes, v \in Triggers : ev[u] # 0 => ev[u] # f[v]
    BY <1>1 DEF Own
<1>6. Own(n, un, sb, pe, ev, f)
    BY <1>1, <1>3, <1>4, <1>5 DEF Own
<1>7. tr[t] # 0 => \A u \in EventTypes : ev[u] # tr[t]
    BY DEF Own
<1> QED BY <1>1, <1>6, <1>7

\* A trigger takes the id of its own request.
LEMMA ArmKeepsOwn ==
    ASSUME NEW n, NEW un, NEW sb, NEW pe, NEW ev, NEW tr, Book(n, un, sb, pe), Own(n, un, sb, pe, ev, tr),
           NEW t \in Triggers, NEW q \in un \cup sb, q.what = Ha!HaArm(t) \/ q.what = Ha!HaRearm(t)
    PROVE  Own(n, un, sb, pe, ev, [tr EXCEPT ![t] = q.id])
<1>1. PICK i \in Nat : i = q.id /\ i < n
    BY DEF Book, Req
<1>2. PICK f : f = [tr EXCEPT ![t] = i]
    OBVIOUS
<1>3. f \in [Triggers -> Nat] /\ f[t] = i /\ \A u \in Triggers : u # t => f[u] = tr[u]
    BY <1>2 DEF Own
<1>4. \A u \in Triggers : f[u] < n
    BY <1>1, <1>3 DEF Own
<1>5. \A u \in Triggers, p \in un \cup sb : p.id = f[u] => p.what = Ha!HaArm(u) \/ p.what = Ha!HaRearm(u)
    <2> TAKE u \in Triggers, p \in un \cup sb
    <2>1. CASE u = t
        BY <1>1, <1>3, <2>1 DEF Book
    <2>2. CASE u # t
        BY <1>3, <2>2 DEF Own
    <2> QED BY <2>1, <2>2
<1>6. \A u \in EventTypes : ev[u] # i
    <2> TAKE u \in EventTypes
    <2>1. q.what.kind # "sub" /\ Ha!HaEventSub(u).kind = "sub"
        BY Whats
    <2>2. q.what # Ha!HaEventSub(u)
        BY <2>1
    <2> QED BY <1>1, <2>2 DEF Own
<1>7. \A u \in EventTypes, v \in Triggers : ev[u] # 0 => ev[u] # f[v]
    BY <1>3, <1>6 DEF Own
<1>8. Own(n, un, sb, pe, ev, f)
    BY <1>3, <1>4, <1>5, <1>7 DEF Own
<1> QED BY <1>1, <1>2, <1>8

\* Requests are answered or time out: they leave the book, or become subscriptions.
LEMMA SettleKeepsBook ==
    ASSUME NEW n, NEW un, NEW sb, NEW pe, NEW ev, NEW tr, Book(n, un, sb, pe), Own(n, un, sb, pe, ev, tr),
           NEW un2, NEW sb2, NEW pe2, un2 \subseteq un, sb2 \subseteq un \cup sb, pe2 \subseteq un2,
           \A p \in un2 \ pe2 : p \notin pe \/ (p.what.kind = "sub" => ev[p.what.of] # p.id)
    PROVE  Book(n, un2, sb2, pe2) /\ Own(n, un2, sb2, pe2, ev, tr)
<1>1. un2 \cup sb2 \subseteq un \cup sb
    OBVIOUS
<1>2. Book(n, un2, sb2, pe2)
    BY <1>1 DEF Book
<1>3. \A t \in EventTypes, p \in un2 \cup sb2 : p.id = ev[t] => p.what = Ha!HaEventSub(t)
    BY <1>1 DEF Own
<1>4. \A t \in Triggers, p \in un2 \cup sb2 : p.id = tr[t] => p.what = Ha!HaArm(t) \/ p.what = Ha!HaRearm(t)
    BY <1>1 DEF Own
<1>5. \A p \in un2 \ pe2 : p.what.kind = "sub" => ev[p.what.of] # p.id
    BY DEF Own
<1>6. Own(n, un2, sb2, pe2, ev, tr)
    BY <1>3, <1>4, <1>5 DEF Own
<1> QED BY <1>2, <1>6

\* An event type that keeps its id and its request stays fed.
LEMMA StaysFed ==
    ASSUME NEW un, NEW sb, NEW ev, NEW T, Fed(un, sb, ev, T), NEW un2, NEW sb2, NEW ev2, NEW T2, T2 \subseteq T,
           \A t \in T2 : ev2[t] = ev[t],
           \A t \in T2, p \in un \cup sb : p.what = Ha!HaEventSub(t) /\ p.id = ev[t] => p \in un2 \cup sb2
    PROVE  Fed(un2, sb2, ev2, T2)
BY DEF Fed

\* A caller that is told no longer waits.
LEMMA SettleKeepsCalls ==
    ASSUME NEW ca, NEW pe, Calls(ca, pe), NEW p, p.what \in What, NEW pe2, pe \ {p} \subseteq pe2,
           NEW ca2, ca2 = IF p.what.kind = "call" THEN [ca EXCEPT ![p.what.of] = "settled"] ELSE ca
    PROVE  Calls(ca2, pe2)
<1>1. ca2 \in [Commands -> {"none", "waiting", "settled"}]
    BY DEF Calls
<1>2. ASSUME NEW c \in Commands, ca2[c] = "waiting" PROVE \E q \in pe2 : q.what = Ha!HaCall(c)
    <2>1. ca[c] = "waiting" /\ ~(p.what.kind = "call" /\ p.what.of = c)
        BY <1>2 DEF Calls
    <2>2. PICK q \in pe : q.what = Ha!HaCall(c)
        BY <2>1 DEF Calls
    <2>3. q # p
        BY <2>1, <2>2, Whats
    <2> QED BY <2>2, <2>3
<1> QED BY <1>1, <1>2 DEF Calls

bookVars == <<timers, pending, nextId, unanswered, subs, evSub, trigSub, called, connected, life, handlers, refused, boot>>

LEMMA BookStays == BookInv /\ UNCHANGED bookVars => BookInv'
BY DEF BookInv, IdleInv, bookVars

\* Nothing is asked and nothing is held.
LEMMA EmptyBook ==
    ASSUME NEW n \in Nat \ {0}, NEW ev, ev = [t \in EventTypes |-> 0], NEW tr, tr = [t \in Triggers |-> 0]
    PROVE  Book(n, {}, {}, {}) /\ Own(n, {}, {}, {}, ev, tr)
<1>1. Book(n, {}, {}, {})
    BY DEF Book
<1>2. ev \in [EventTypes -> Nat] /\ tr \in [Triggers -> Nat] /\ (\A t \in EventTypes : ev[t] = 0) /\ \A t \in Triggers : tr[t] = 0
    OBVIOUS
<1>3. Own(n, {}, {}, {}, ev, tr)
    BY <1>2 DEF Own
<1> QED BY <1>1, <1>3

\* A ping takes an id that no entry has.
LEMMA PingKeepsBook ==
    ASSUME NEW n, NEW un, NEW sb, NEW pe, NEW ev, NEW tr, Book(n, un, sb, pe), Own(n, un, sb, pe, ev, tr)
    PROVE  Book(n + 1, un, sb, pe) /\ Own(n + 1, un, sb, pe, ev, tr)
<1>1. n \in Nat \ {0} /\ (\A p \in un \cup sb : p.id \in Nat /\ p.id < n /\ p.what \in What)
    BY DEF Book, Req
<1>2. n + 1 \in Nat \ {0} /\ \A p \in un \cup sb : p.id < n + 1
    BY <1>1
<1>3. \A p \in un : p.what.kind = "unsub" => p.what.of \in Nat
    BY <1>1, WhatOf
<1>4. \A p \in un : p.what.kind = "unsub" => p.what.of # 0 /\ p.what.of < n + 1
    BY <1>1, <1>3 DEF Own
<1>5. (\A t \in EventTypes : ev[t] < n + 1) /\ \A t \in Triggers : tr[t] < n + 1
    BY <1>1 DEF Own
<1>6. Book(n + 1, un, sb, pe)
    BY <1>2 DEF Book
<1>7. Own(n + 1, un, sb, pe, ev, tr)
    BY <1>4, <1>5 DEF Own
<1> QED BY <1>6, <1>7

\* rejectAllPending leaves no caller waiting.
LEMMA RejectKeepsCalls ==
    ASSUME BookInv, Ha!RejectAllPending
    PROVE  pending' = {} /\ timers' = {} /\ Calls(called', {})
<1>1. called \in [Commands -> {"none", "waiting", "settled"}] /\ timers = pending
    BY DEF BookInv, Calls
<1>2. pending' = {} /\ timers' = timers \ pending /\ called' = [c \in Commands |-> IF called[c] = "waiting" THEN "settled" ELSE called[c]]
    BY DEF Ha!RejectAllPending
<1>3. called' \in [Commands -> {"none", "waiting", "settled"}] /\ \A c \in Commands : called'[c] # "waiting"
    BY <1>1, <1>2
<1> QED BY <1>1, <1>2, <1>3 DEF Calls

\* connect: ids start again at 1, and nothing of the former connection is left.
LEMMA ConnectKeepsBook ==
    ASSUME BookInv, Ha!Connect, ~connected, life # "stopped", life' # "stopped"
    PROVE  BookInv'
<1>1. /\ unanswered = {} /\ subs = {} /\ (\A t \in EventTypes : evSub[t] = 0) /\ (\A t \in Triggers : trigSub[t] = 0)
      /\ evSub \in [EventTypes -> Nat] /\ trigSub \in [Triggers -> Nat] /\ pending = {} /\ timers = pending
    BY DEF BookInv, IdleInv, Book, Own
<1>2. evSub = [t \in EventTypes |-> 0] /\ trigSub = [t \in Triggers |-> 0]
    BY <1>1
<1>3. PICK ev, tr : ev = evSub /\ tr = trigSub
    OBVIOUS
<1>4. Book(1, {}, {}, {}) /\ Own(1, {}, {}, {}, ev, tr)
    BY <1>2, <1>3, EmptyBook
<1>5. nextId' = 1 /\ UNCHANGED <<timers, pending, unanswered, subs, evSub, trigSub, called, connected, handlers, refused, boot>>
    BY DEF Ha!Connect
<1>6. /\ timers' = pending' /\ Book(nextId', unanswered', subs', pending')
      /\ Own(nextId', unanswered', subs', pending', evSub', trigSub')
    BY <1>1, <1>3, <1>4, <1>5
<1>7. Calls(called', pending') /\ ~connected' /\ pending' = {}
    BY <1>1, <1>5 DEF BookInv
<1>8. IdleInv'
    BY <1>1, <1>5 DEF IdleInv
<1>9. /\ boot' \in [at : {"none", "arm", "states"}, todo : SUBSET Triggers]
      /\ handlers' \subseteq EventTypes /\ IsFiniteSet(handlers')
    BY <1>5 DEF BookInv
<1> QED BY <1>6, <1>7, <1>8, <1>9 DEF BookInv

LEMMA CloseKeepsBook == BookInv /\ Ha!HandleClose => BookInv'
<1> SUFFICES ASSUME BookInv, Ha!HandleClose PROVE BookInv'
    OBVIOUS
<1>1. pending' = {} /\ timers' = {} /\ Calls(called', {})
    BY RejectKeepsCalls DEF Ha!HandleClose
<1>2. PICK n, ev, tr : n = nextId /\ ev = [t \in EventTypes |-> 0] /\ tr = [t \in Triggers |-> 0]
    OBVIOUS
<1>3. n \in Nat \ {0}
    BY <1>2 DEF BookInv, Book
<1>4. Book(n, {}, {}, {}) /\ Own(n, {}, {}, {}, ev, tr)
    BY <1>2, <1>3, EmptyBook
<1>5. nextId' = n /\ unanswered' = {} /\ subs' = {} /\ evSub' = ev /\ trigSub' = tr /\ handlers' = handlers
    BY <1>2 DEF Ha!HandleClose, Ha!ForgetSubscriptions
<1>6. boot' = [at |-> "none", todo |-> {}] /\ ~connected'
    BY DEF Ha!HandleClose, Ha!NoBoot
<1>7. IdleInv'
    BY <1>2, <1>5 DEF IdleInv
<1>8. timers' = pending' /\ Book(nextId', unanswered', subs', pending') /\ Calls(called', pending')
    BY <1>1, <1>4, <1>5
<1>9. Own(nextId', unanswered', subs', pending', evSub', trigSub')
    BY <1>1, <1>4, <1>5
<1>10. boot' \in [at : {"none", "arm", "states"}, todo : SUBSET Triggers] /\ handlers' \subseteq EventTypes /\ IsFiniteSet(handlers')
    BY <1>5, <1>6 DEF BookInv
<1> QED BY <1>1, <1>6, <1>7, <1>8, <1>9, <1>10 DEF BookInv

\* stop: a subscription whose request is rejected gives its id up.
LEMMA StopKeepsOwn ==
    ASSUME NEW n, NEW un, NEW sb, NEW pe, NEW ev, NEW tr, Book(n, un, sb, pe), Own(n, un, sb, pe, ev, tr),
           NEW f, f = [t \in EventTypes |-> IF \E p \in pe : p.what = Ha!HaEventSub(t) /\ p.id = ev[t] THEN 0 ELSE ev[t]]
    PROVE  Book(n, un, sb, {}) /\ Own(n, un, sb, {}, f, tr)
<1>1. n \in Nat \ {0} /\ (\A p \in un \cup sb : p.id \in Nat \ {0} /\ p.what \in What) /\ pe \subseteq un
    BY DEF Book, Req
<1>2. f \in [EventTypes -> Nat] /\ \A u \in EventTypes : f[u] = 0 \/ f[u] = ev[u]
    BY DEF Own
<1>3. \A u \in EventTypes : f[u] < n
    BY <1>1, <1>2 DEF Own
<1>4. \A u \in EventTypes, p \in un \cup sb : p.id = f[u] => p.what = Ha!HaEventSub(u)
    BY <1>1, <1>2 DEF Own
<1>5. \A p \in un : p.what.kind = "sub" => f[p.what.of] # p.id
    <2> SUFFICES ASSUME NEW p \in un, p.what.kind = "sub" PROVE f[p.what.of] # p.id
        OBVIOUS
    <2>1. PICK u \in EventTypes : u = p.what.of /\ p.what = Ha!HaEventSub(u)
        BY <1>1, WhatOf
    <2>2. CASE p \in pe /\ p.id = ev[u]
        <3>1. f[u] = 0
            BY <2>1, <2>2
        <3> QED BY <1>1, <2>1, <3>1
    <2>3. CASE p \notin pe \/ p.id # ev[u]
        <3>1. ev[u] # p.id
            BY <2>1, <2>3 DEF Own
        <3> QED BY <1>1, <1>2, <2>1, <3>1
    <2> QED BY <2>2, <2>3
<1>6. \A p \in un, u \in EventTypes : p.what.kind = "unsub" => f[u] # p.what.of
    BY <1>2 DEF Own
<1>7. \A u, v \in EventTypes : f[u] = f[v] /\ f[u] # 0 => u = v
    BY <1>2 DEF Own
<1>8. \A u \in EventTypes, v \in Triggers : f[u] # 0 => f[u] # tr[v]
    BY <1>2 DEF Own
<1>9. Own(n, un, sb, {}, f, tr)
    BY <1>2, <1>3, <1>4, <1>5, <1>6, <1>7, <1>8 DEF Own
<1>10. Book(n, un, sb, {})
    BY DEF Book
<1> QED BY <1>9, <1>10

LEMMA StopKeepsBook == BookInv /\ Ha!Stop => BookInv'
<1> SUFFICES ASSUME BookInv, Ha!Stop PROVE BookInv'
    OBVIOUS
<1>1. pending' = {} /\ timers' = {} /\ Calls(called', {})
    BY RejectKeepsCalls DEF Ha!Stop
<1>2. PICK n, un, sb, pe, ev, tr, f :
          /\ n = nextId /\ un = unanswered /\ sb = subs /\ pe = pending /\ ev = evSub /\ tr = trigSub
          /\ f = [t \in EventTypes |-> IF \E p \in pe : p.what = Ha!HaEventSub(t) /\ p.id = ev[t] THEN 0 ELSE ev[t]]
    OBVIOUS
<1>3. Book(n, un, sb, pe) /\ Own(n, un, sb, pe, ev, tr)
    BY <1>2 DEF BookInv
<1>4. Book(n, un, sb, {}) /\ Own(n, un, sb, {}, f, tr)
    BY <1>2, <1>3, StopKeepsOwn
<1>5. nextId' = n /\ unanswered' = un /\ subs' = sb /\ trigSub' = tr /\ handlers' = handlers /\ life' = "stopped"
    BY <1>2 DEF Ha!Stop
<1>6. evSub' = f
    BY <1>2 DEF Ha!Stop
<1>7. boot' = [at |-> "none", todo |-> {}] /\ ~connected'
    BY DEF Ha!Stop, Ha!NoBoot
<1>8. timers' = pending' /\ Book(nextId', unanswered', subs', pending') /\ Calls(called', pending')
    BY <1>1, <1>4, <1>5
<1>9. Own(nextId', unanswered', subs', pending', evSub', trigSub')
    BY <1>1, <1>4, <1>5, <1>6
<1>10. boot' \in [at : {"none", "arm", "states"}, todo : SUBSET Triggers] /\ handlers' \subseteq EventTypes /\ IsFiniteSet(handlers')
    BY <1>5, <1>7 DEF BookInv
<1>11. IdleInv'
    BY <1>5 DEF IdleInv
<1> QED BY <1>1, <1>7, <1>8, <1>9, <1>10, <1>11 DEF BookInv

\* commandWithId for one request.
LEMMA OneRequest ==
    ASSUME NEW w, Ha!Issue({Ha!Numbered(w)}), NEW q, q = [id |-> nextId, what |-> w]
    PROVE  /\ nextId' = nextId + 1 /\ pending' = pending \cup {q} /\ timers' = timers \cup {q}
           /\ unanswered' = unanswered \cup {q}
<1>1. Ha!Numbered(w) = q
    BY DEF Ha!Numbered
<1>2. Ha!Cardinality({q}) = 1
    <2>1. Ha!Cardinality({q}) = Cardinality({q})
        BY DEF Ha!Cardinality, Cardinality
    <2> QED BY <2>1, FS_Singleton
<1> QED BY <1>1, <1>2 DEF Ha!Issue

\* A request is sent while the registrations hold ev and tr.
LEMMA RequestKeepsBook ==
    ASSUME BookInv, NEW w \in What, Ha!Issue({Ha!Numbered(w)}), NEW ev, NEW tr,
           Own(nextId, unanswered, subs, pending, ev, tr),
           w.kind = "unsub" => w.of # 0 /\ w.of < nextId /\ \A t \in EventTypes : ev[t] # w.of
    PROVE  /\ timers' = pending' /\ Book(nextId', unanswered', subs, pending') /\ Own(nextId', unanswered', subs, pending', ev, tr)
           /\ pending \subseteq pending' /\ unanswered \subseteq unanswered'
           /\ \E q \in pending' : q.what = w /\ q.id = nextId /\ pending' = pending \cup {q} /\ unanswered' = unanswered \cup {q}
<1>1. PICK n, un, sb, pe, q : n = nextId /\ un = unanswered /\ sb = subs /\ pe = pending /\ q = [id |-> n, what |-> w]
    OBVIOUS
<1>2. nextId' = n + 1 /\ pending' = pe \cup {q} /\ timers' = pe \cup {q} /\ unanswered' = un \cup {q}
    BY <1>1, OneRequest DEF BookInv
<1>3. Book(n, un, sb, pe) /\ Own(n, un, sb, pe, ev, tr)
    BY <1>1 DEF BookInv
<1>4. q.id = n /\ q.what = w /\ Book(n + 1, un \cup {q}, sb, pe \cup {q})
    BY <1>1, <1>3, IssueKeepsBook
<1>5. w.kind = "unsub" => w.of # 0 /\ w.of < n /\ \A t \in EventTypes : ev[t] # w.of
    BY <1>1
<1>6. Own(n + 1, un \cup {q}, sb, pe \cup {q}, ev, tr)
    BY <1>1, <1>3, <1>5, IssueKeepsOwn
<1> QED BY <1>1, <1>2, <1>4, <1>6

\* A connected client's book after a step that keeps the connection.
LEMMA ConnectedBook ==
    ASSUME BookInv, connected' = connected, life' = life,
           timers' = pending', Book(nextId', unanswered', subs', pending'), Calls(called', pending'),
           Own(nextId', unanswered', subs', pending', evSub', trigSub'),
           connected => Fed(unanswered', subs', evSub', handlers' \ refused'),
           ~connected => /\ unanswered' = unanswered /\ subs' = subs /\ pending' = pending
                         /\ \A t \in EventTypes : evSub'[t] = evSub[t] \/ evSub'[t] = 0
                         /\ \A t \in Triggers : trigSub'[t] = trigSub[t] \/ trigSub'[t] = 0,
           boot' \in [at : {"none", "arm", "states"}, todo : SUBSET Triggers],
           handlers' \subseteq EventTypes, IsFiniteSet(handlers')
    PROVE  BookInv'
<1>1. IdleInv'
    BY DEF IdleInv, BookInv
<1> QED BY <1>1 DEF BookInv

LEMMA CallKeepsBook ==
    ASSUME BookInv, NEW c \in Commands, Ha!Call(c)
    PROVE  BookInv'
<1>1. UNCHANGED <<life, connected, handlers, evSub, trigSub, boot, subs, refused>>
    BY DEF Ha!Call, Ha!linkVars
<1>2. PICK ev, tr : ev = evSub /\ tr = trigSub
    OBVIOUS
<1>3. Own(nextId, unanswered, subs, pending, ev, tr) /\ Calls(called, pending) /\ timers = pending
    BY <1>2 DEF BookInv
<1>4. /\ boot' \in [at : {"none", "arm", "states"}, todo : SUBSET Triggers]
      /\ handlers' \subseteq EventTypes /\ IsFiniteSet(handlers')
      /\ connected => Fed(unanswered, subs, evSub, handlers \ refused)
    BY <1>1 DEF BookInv
<1>5. CASE Ha!CanSend
    <2>1. Ha!Issue({Ha!Numbered(Ha!HaCall(c))}) /\ called' = [called EXCEPT ![c] = "waiting"] /\ connected
        BY <1>5 DEF Ha!Call, Ha!CanSend
    <2>2. PICK w \in What : w = Ha!HaCall(c) /\ w.kind = "call"
        BY Whats
    <2>3. /\ timers' = pending' /\ Book(nextId', unanswered', subs, pending') /\ Own(nextId', unanswered', subs, pending', ev, tr)
          /\ pending \subseteq pending' /\ unanswered \subseteq unanswered'
          /\ \E q \in pending' : q.what = w
        BY <1>3, <2>1, <2>2, RequestKeepsBook
    <2>4. Calls(called', pending')
        BY <1>3, <2>1, <2>2, <2>3 DEF Calls
    <2>5. Fed(unanswered', subs', evSub', handlers' \ refused')
        BY <1>1, <1>4, <2>1, <2>3 DEF Fed
    <2> QED BY <1>1, <1>2, <1>4, <2>1, <2>3, <2>4, <2>5, ConnectedBook
<1>6. CASE ~Ha!CanSend
    <2>1. called' = [called EXCEPT ![c] = "settled"] /\ UNCHANGED <<nextId, pending, timers, unanswered>>
        BY <1>6 DEF Ha!Call
    <2>2. Calls(called', pending')
        BY <1>3, <2>1 DEF Calls
    <2>3. Book(nextId', unanswered', subs', pending')
        BY <1>1, <2>1 DEF BookInv
    <2>4. Own(nextId', unanswered', subs', pending', evSub', trigSub') /\ timers' = pending'
        BY <1>1, <1>2, <1>3, <2>1
    <2> QED BY <1>1, <1>4, <2>1, <2>2, <2>3, <2>4, ConnectedBook
<1> QED BY <1>5, <1>6

LEMMA AddKeepsBook ==
    ASSUME BookInv, NEW t \in EventTypes, Ha!AddHandler(t)
    PROVE  BookInv'
<1>1. UNCHANGED <<life, connected, called, trigSub, boot, subs>> /\ handlers' = handlers \cup {t}
    BY DEF Ha!AddHandler, Ha!linkVars
<1>2. PICK ev, tr, n : ev = evSub /\ tr = trigSub /\ n = nextId
    OBVIOUS
<1>3. Own(nextId, unanswered, subs, pending, ev, tr) /\ Calls(called, pending) /\ timers = pending
    BY <1>2 DEF BookInv
<1>4. /\ boot' \in [at : {"none", "arm", "states"}, todo : SUBSET Triggers]
      /\ handlers' \subseteq EventTypes /\ IsFiniteSet(handlers')
    <2>1. IsFiniteSet(handlers \cup {t})
        BY FS_AddElement DEF BookInv
    <2> QED BY <1>1, <2>1 DEF BookInv
<1>5. connected => Fed(unanswered, subs, ev, handlers \ refused)
    BY <1>2 DEF BookInv
<1>6. CASE Ha!CanSend /\ evSub[t] = 0
    <2>1. /\ Ha!Issue({Ha!Numbered(Ha!HaEventSub(t))}) /\ evSub' = [ev EXCEPT ![t] = n] /\ connected
          /\ refused' = refused \ {t}
        BY <1>2, <1>6 DEF Ha!AddHandler, Ha!CanSend
    <2>2. PICK w \in What : w = Ha!HaEventSub(t) /\ w.kind = "sub"
        BY Whats
    <2>3. /\ timers' = pending' /\ Book(nextId', unanswered', subs, pending') /\ Own(nextId', unanswered', subs, pending', ev, tr)
          /\ pending \subseteq pending' /\ unanswered \subseteq unanswered'
          /\ \E q \in pending' : q.what = w /\ q.id = nextId /\ pending' = pending \cup {q} /\ unanswered' = unanswered \cup {q}
        BY <1>3, <2>1, <2>2, RequestKeepsBook
    <2>4. PICK q \in pending' : q.what = w /\ q.id = n /\ unanswered' = unanswered \cup {q}
        BY <1>2, <2>3
    <2>5. PICK n2, un2, sb, pe2 : n2 = nextId' /\ un2 = unanswered' /\ sb = subs /\ pe2 = pending'
        OBVIOUS
    <2>6. Book(n2, un2, sb, pe2) /\ Own(n2, un2, sb, pe2, ev, tr) /\ q \in pe2
        BY <2>3, <2>5
    <2>7. (\A u \in EventTypes : ev[u] # q.id) /\ (\A u \in Triggers : tr[u] # q.id)
        <3>1. n \in Nat
            BY <1>2 DEF BookInv, Book
        <3> QED BY <1>2, <1>3, <2>4, <3>1 DEF Own
    <2>8. \A p \in un2 : p.what.kind = "unsub" => p.what.of # q.id
        <3> SUFFICES ASSUME NEW p \in un2, p.what.kind = "unsub" PROVE p.what.of # q.id
            OBVIOUS
        <3>1. p # q
            BY <2>2, <2>4
        <3>2. p \in unanswered
            BY <2>4, <2>5, <3>1
        <3>3. p.what.of < n /\ n \in Nat
            BY <1>2, <1>3, <3>2 DEF Own, BookInv, Book
        <3>4. p.what \in What
            BY <3>2 DEF BookInv, Book, Req
        <3>5. p.what.of \in Nat
            BY <3>4, WhatOf
        <3> QED BY <2>4, <3>3, <3>5
    <2>9. Own(n2, un2, sb, pe2, [ev EXCEPT ![t] = q.id], tr)
        BY <2>2, <2>4, <2>6, <2>7, <2>8, HoldKeepsOwn
    <2>10. Own(nextId', unanswered', subs', pending', evSub', trigSub')
        BY <1>1, <1>2, <2>1, <2>4, <2>5, <2>9
    <2>11. Fed(unanswered', subs', evSub', handlers' \ refused')
        <3> SUFFICES ASSUME NEW u \in handlers' \ refused'
                     PROVE  \E p \in unanswered' \cup subs' : p.what = Ha!HaEventSub(u) /\ p.id = evSub'[u]
            BY DEF Fed
        <3>1. CASE u = t
            <4>1. evSub'[t] = n
                BY <1>3, <2>1 DEF Own
            <4>2. q \in unanswered'
                BY <2>4
            <4> QED BY <2>2, <2>4, <3>1, <4>1, <4>2
        <3>2. CASE u # t
            <4>1. u \in handlers \ refused /\ evSub'[u] = ev[u]
                BY <1>1, <1>3, <1>4, <2>1, <3>2 DEF Own
            <4>2. PICK p \in unanswered \cup subs : p.what = Ha!HaEventSub(u) /\ p.id = ev[u]
                BY <1>5, <2>1, <4>1 DEF Fed
            <4> QED BY <1>1, <2>3, <4>1, <4>2
        <3> QED BY <3>1, <3>2
    <2>12. Calls(called', pending') /\ Book(nextId', unanswered', subs', pending')
        BY <1>1, <1>3, <2>3 DEF Calls
    <2> QED BY <1>1, <1>4, <2>1, <2>3, <2>10, <2>11, <2>12, ConnectedBook
<1>7. CASE ~(Ha!CanSend /\ evSub[t] = 0)
    <2>1. /\ UNCHANGED <<nextId, pending, timers, unanswered, evSub>>
          /\ refused' = IF connected THEN refused \cup {t} ELSE refused
        BY <1>7 DEF Ha!AddHandler
    <2>2. Book(nextId', unanswered', subs', pending') /\ Calls(called', pending') /\ timers' = pending'
        BY <1>1, <2>1 DEF BookInv
    <2>3. Own(nextId', unanswered', subs', pending', evSub', trigSub')
        BY <1>1, <1>2, <1>3, <2>1
    <2>4. connected => handlers' \ refused' \subseteq handlers \ refused
        BY <1>1, <2>1
    <2>5. connected => Fed(unanswered', subs', evSub', handlers' \ refused')
        BY <1>1, <1>2, <1>5, <2>1, <2>4 DEF Fed
    <2> QED BY <1>1, <1>4, <2>1, <2>2, <2>3, <2>5, ConnectedBook
<1> QED BY <1>6, <1>7

\* An id that nobody holds any more is unsubscribed; the connected client stays fed.
LEMMA UnsubscribeKeepsBook ==
    ASSUME BookInv, NEW id \in Nat, Ha!Unsubscribe(id), NEW ev, NEW tr, Own(nextId, unanswered, subs, pending, ev, tr),
           id # 0 => id < nextId /\ \A t \in EventTypes : ev[t] # id
    PROVE  /\ timers' = pending' /\ Book(nextId', unanswered', subs, pending') /\ Own(nextId', unanswered', subs, pending', ev, tr)
           /\ pending \subseteq pending' /\ unanswered \subseteq unanswered' /\ (~connected => unanswered' = unanswered /\ pending' = pending)
<1>1. CASE id # 0 /\ Ha!CanSend
    <2>1. Ha!Issue({Ha!Numbered(Ha!HaUnsub(id))}) /\ connected
        BY <1>1 DEF Ha!Unsubscribe, Ha!CanSend
    <2>2. PICK w \in What : w = Ha!HaUnsub(id) /\ w.kind = "unsub" /\ w.of = id
        BY Whats
    <2>3. w.kind = "unsub" => w.of # 0 /\ w.of < nextId /\ \A t \in EventTypes : ev[t] # w.of
        BY <1>1, <2>2
    <2> QED BY <2>1, <2>2, <2>3, RequestKeepsBook
<1>2. CASE ~(id # 0 /\ Ha!CanSend)
    <2>1. UNCHANGED <<nextId, pending, timers, unanswered>>
        BY <1>2 DEF Ha!Unsubscribe
    <2> QED BY <2>1 DEF BookInv
<1> QED BY <1>1, <1>2

LEMMA RemoveKeepsBook ==
    ASSUME BookInv, NEW t \in EventTypes, Ha!RemoveHandler(t)
    PROVE  BookInv'
<1>1. /\ UNCHANGED <<life, connected, called, trigSub, boot, subs, refused>> /\ handlers' = handlers \ {t}
      /\ evSub' = [evSub EXCEPT ![t] = 0] /\ Ha!Unsubscribe(evSub[t])
    BY DEF Ha!RemoveHandler, Ha!linkVars
<1>2. PICK n, un, sb, pe, ev, tr, f, id :
          /\ n = nextId /\ un = unanswered /\ sb = subs /\ pe = pending /\ ev = evSub /\ tr = trigSub
          /\ f = [ev EXCEPT ![t] = 0] /\ id = ev[t]
    OBVIOUS
<1>3. Book(n, un, sb, pe) /\ Own(n, un, sb, pe, ev, tr)
    BY <1>2 DEF BookInv
<1>4. /\ Own(n, un, sb, pe, f, tr) /\ f[t] = 0
      /\ \A u \in EventTypes : u # t => f[u] = ev[u]
      /\ ev[t] # 0 => \A u \in EventTypes : f[u] # ev[t]
      /\ ev[t] \in Nat /\ ev[t] < n
    <2>1. f = [ev EXCEPT ![t] = 0]
        BY <1>2
    <2>2. Own(n, un, sb, pe, f, tr)
        BY <1>3, <2>1, DropKeepsOwn
    <2>3. f[t] = 0 /\ (\A u \in EventTypes : u # t => f[u] = ev[u]) /\ ev[t] \in Nat /\ ev[t] < n
        BY <1>3, <2>1 DEF Own
    <2>4. ev[t] # 0 => \A u \in EventTypes : f[u] # ev[t]
        BY <1>3, <2>3 DEF Own
    <2> QED BY <2>2, <2>3, <2>4
<1>5. id \in Nat /\ Ha!Unsubscribe(id) /\ Own(nextId, unanswered, subs, pending, f, tr)
    BY <1>1, <1>2, <1>4
<1>6. id # 0 => id < nextId /\ \A u \in EventTypes : f[u] # id
    BY <1>2, <1>4
<1>7. /\ timers' = pending' /\ Book(nextId', unanswered', subs, pending') /\ Own(nextId', unanswered', subs, pending', f, tr)
      /\ pending \subseteq pending' /\ unanswered \subseteq unanswered' /\ (~connected => unanswered' = unanswered /\ pending' = pending)
    BY <1>5, <1>6, UnsubscribeKeepsBook
<1>8. /\ boot' \in [at : {"none", "arm", "states"}, todo : SUBSET Triggers]
      /\ handlers' \subseteq EventTypes /\ IsFiniteSet(handlers')
    <2>1. IsFiniteSet(handlers \ {t})
        BY FS_Subset DEF BookInv
    <2> QED BY <1>1, <2>1 DEF BookInv
<1>9. connected => Fed(unanswered', subs', evSub', handlers' \ refused')
    <2> SUFFICES ASSUME connected, NEW u \in handlers' \ refused'
                 PROVE  \E p \in unanswered' \cup subs' : p.what = Ha!HaEventSub(u) /\ p.id = evSub'[u]
        BY DEF Fed
    <2>1. u \in handlers \ refused /\ u # t /\ u \in EventTypes
        BY <1>1 DEF BookInv
    <2>2. PICK p \in unanswered \cup subs : p.what = Ha!HaEventSub(u) /\ p.id = evSub[u]
        BY <2>1 DEF BookInv, Fed
    <2>3. evSub'[u] = evSub[u]
        BY <1>1, <1>2, <1>4, <2>1
    <2> QED BY <1>1, <1>7, <2>2, <2>3
<1>10. Calls(called', pending')
    BY <1>1, <1>7 DEF BookInv, Calls
<1>11. evSub' = f /\ trigSub' = tr /\ subs' = subs /\ \A u \in EventTypes : evSub'[u] = evSub[u] \/ evSub'[u] = 0
    BY <1>1, <1>2, <1>4
<1> QED BY <1>1, <1>7, <1>8, <1>9, <1>10, <1>11, ConnectedBook

LEMMA TriggerKeepsBook ==
    ASSUME BookInv, NEW t \in Triggers, Ha!SubscribeTrigger(t) \/ Ha!RemoveTrigger(t)
    PROVE  BookInv'
<1>1. /\ UNCHANGED <<life, connected, called, evSub, subs, handlers>> /\ trigSub' = [trigSub EXCEPT ![t] = 0]
      /\ refused' = refused \/ refused' = refused \ {t}
    BY DEF Ha!SubscribeTrigger, Ha!RemoveTrigger, Ha!linkVars
<1>2. PICK n, un, sb, pe, ev, tr, f, id :
          /\ n = nextId /\ un = unanswered /\ sb = subs /\ pe = pending /\ ev = evSub /\ tr = trigSub
          /\ f = [tr EXCEPT ![t] = 0] /\ id = tr[t]
    OBVIOUS
<1>3. Book(n, un, sb, pe) /\ Own(n, un, sb, pe, ev, tr)
    BY <1>2 DEF BookInv
<1>4. /\ Own(n, un, sb, pe, ev, f) /\ tr[t] \in Nat /\ tr[t] < n
      /\ tr[t] # 0 => \A u \in EventTypes : ev[u] # tr[t]
    BY <1>2, <1>3, ReleaseKeepsOwn, ZenonT(40)
<1>5. id \in Nat /\ Own(nextId, unanswered, subs, pending, ev, f)
    BY <1>2, <1>4
<1>6. id # 0 => id < nextId /\ \A u \in EventTypes : ev[u] # id
    BY <1>2, <1>4
<1>7. /\ timers' = pending' /\ Book(nextId', unanswered', subs, pending') /\ Own(nextId', unanswered', subs, pending', ev, f)
      /\ pending \subseteq pending' /\ unanswered \subseteq unanswered' /\ (~connected => unanswered' = unanswered /\ pending' = pending)
    <2>1. CASE Ha!SubscribeTrigger(t)
        <3>1. Ha!Issue({Ha!Numbered(Ha!HaArm(t))}) /\ connected
            BY <2>1 DEF Ha!SubscribeTrigger, Ha!CanSend
        <3>2. PICK w \in What : w = Ha!HaArm(t) /\ w.kind = "arm"
            BY Whats
        <3> QED BY <1>5, <3>1, <3>2, RequestKeepsBook
    <2>2. CASE Ha!RemoveTrigger(t)
        <3>1. Ha!Unsubscribe(id)
            BY <1>2, <2>2 DEF Ha!RemoveTrigger
        <3> QED BY <1>5, <1>6, <3>1, UnsubscribeKeepsBook
    <2> QED BY <2>1, <2>2
<1>8. /\ boot' \in [at : {"none", "arm", "states"}, todo : SUBSET Triggers]
      /\ handlers' \subseteq EventTypes /\ IsFiniteSet(handlers')
    <2>1. boot' = boot \/ boot' = [boot EXCEPT !.todo = @ \ {t}]
        BY DEF Ha!SubscribeTrigger, Ha!RemoveTrigger
    <2>2. boot' \in [at : {"none", "arm", "states"}, todo : SUBSET Triggers]
        BY <2>1 DEF BookInv
    <2> QED BY <1>1, <2>2 DEF BookInv
<1>9. handlers' \ refused' = handlers \ refused
    BY <1>1, RegistrationAssumption DEF BookInv
<1>10. connected => Fed(unanswered', subs', evSub', handlers' \ refused')
    BY <1>1, <1>7, <1>9 DEF BookInv, Fed
<1>11. Calls(called', pending')
    BY <1>1, <1>7 DEF BookInv, Calls
<1>12. evSub' = ev /\ trigSub' = f /\ subs' = subs /\ \A u \in Triggers : trigSub'[u] = trigSub[u] \/ trigSub'[u] = 0
    BY <1>1, <1>2, <1>3 DEF Own
<1> QED BY <1>1, <1>2, <1>7, <1>8, <1>10, <1>11, <1>12, ConnectedBook

\* The boot task's next request.
LEMMA BootStepSent ==
    ASSUME NEW todo, todo \subseteq Triggers, NEW sending \in Ha!BootSteps(todo)
    PROVE  /\ sending.what \in What /\ sending.what.kind # "unsub"
           /\ sending.boot \in [at : {"none", "arm", "states"}, todo : SUBSET Triggers]
<1>1. CASE todo = {}
    <2>1. sending = [what |-> Ha!HaStates, boot |-> [at |-> "states", todo |-> {}]]
        BY <1>1 DEF Ha!BootSteps
    <2>2. sending.what = Ha!HaStates /\ sending.boot = [at |-> "states", todo |-> {}]
        BY <2>1
    <2> QED BY <2>2, Whats
<1>2. CASE todo # {}
    <2>1. PICK t \in todo : sending = [what |-> Ha!HaRearm(t), boot |-> [at |-> "arm", todo |-> todo \ {t}]]
        BY <1>2 DEF Ha!BootSteps
    <2>2. sending.what = Ha!HaRearm(t) /\ sending.boot = [at |-> "arm", todo |-> todo \ {t}] /\ t \in Triggers
        BY <2>1
    <2> QED BY <2>2, Whats
<1> QED BY <1>1, <1>2

\* The catch of a subscription: its event type gives up the id of the request that failed.
AfterFailure(ev, p, ok) ==
    IF ~ok /\ p.what.kind = "sub" /\ ev[p.what.of] = p.id THEN [ev EXCEPT ![p.what.of] = 0] ELSE ev

LEMMA DropOwn ==
    ASSUME NEW n, NEW un, NEW sb, NEW pe, NEW ev, NEW tr, Book(n, un, sb, pe), Own(n, un, sb, pe, ev, tr), NEW t \in EventTypes
    PROVE  Own(n, un, sb, pe, [ev EXCEPT ![t] = 0], tr)
<1>1. PICK f : f = [ev EXCEPT ![t] = 0]
    OBVIOUS
<1>2. Own(n, un, sb, pe, f, tr)
    BY <1>1, DropKeepsOwn
<1> QED BY <1>1, <1>2

LEMMA FailKeepsOwn ==
    ASSUME NEW n, NEW un, NEW sb, NEW pe, NEW ev, NEW tr, Book(n, un, sb, pe), Own(n, un, sb, pe, ev, tr),
           NEW p \in pe, NEW ok \in BOOLEAN
    PROVE  /\ Own(n, un, sb, pe, AfterFailure(ev, p, ok), tr)
           /\ ok \/ p.what.kind # "sub" \/ AfterFailure(ev, p, ok)[p.what.of] # p.id
<1>1. p.what \in What /\ p.id # 0 /\ p \in un
    BY DEF Book, Req
<1>2. CASE ~ok /\ p.what.kind = "sub" /\ ev[p.what.of] = p.id
    <2>1. PICK t \in EventTypes : t = p.what.of
        BY <1>1, <1>2, WhatOf
    <2>2. AfterFailure(ev, p, ok) = [ev EXCEPT ![t] = 0]
        BY <1>2, <2>1 DEF AfterFailure
    <2>3. Own(n, un, sb, pe, [ev EXCEPT ![t] = 0], tr)
        BY DropOwn
    <2>4. [ev EXCEPT ![t] = 0][t] = 0
        BY DEF Own
    <2> QED BY <1>1, <2>1, <2>2, <2>3, <2>4
<1>3. CASE ~(~ok /\ p.what.kind = "sub" /\ ev[p.what.of] = p.id)
    BY <1>3 DEF AfterFailure
<1> QED BY <1>2, <1>3

LEMMA ContinueKeepsBook ==
    ASSUME BookInv, UNCHANGED <<life, connected, handlers>>, connected, NEW p \in pending, NEW ok \in BOOLEAN, NEW still,
           Ha!Continue(p, ok, still), still \subseteq unanswered, pending \ {p} \subseteq still, ok => p \notin still,
           subs' \subseteq unanswered \cup subs, ok /\ p.what.kind \in {"sub", "arm", "rearm"} => p \in subs',
           \A r \in unanswered \cup subs, t \in handlers : r # p /\ r.id = evSub[t] => r \in still \cup subs'
    PROVE  BookInv'
<1>1. PICK n, un, sb, pe, ev, tr, sb2, ev2, tr2 :
          /\ n = nextId /\ un = unanswered /\ sb = subs /\ pe = pending /\ ev = evSub /\ tr = trigSub
          /\ sb2 = subs' /\ ev2 = evSub' /\ tr2 = trigSub'
    OBVIOUS
<1>2. Book(n, un, sb, pe) /\ Own(n, un, sb, pe, ev, tr) /\ p \in pe
    BY <1>1 DEF BookInv
<1>3. p \in Req /\ p.what \in What /\ p \in un
    BY <1>2 DEF Book, Req
<1>4. ev2 = AfterFailure(ev, p, ok)
    BY <1>1 DEF Ha!Continue, Ha!SubscriptionFails, AfterFailure
<1>5. Own(n, un, sb, pe, ev2, tr) /\ (ok \/ p.what.kind # "sub" \/ ev2[p.what.of] # p.id)
    BY <1>2, <1>4, FailKeepsOwn
<1>6. PICK pe2 : pe2 = pe \ {p}
    OBVIOUS
<1>7. Book(n, still, sb2, pe2) /\ Own(n, still, sb2, pe2, ev2, tr)
    <2>1. still \subseteq un /\ sb2 \subseteq un \cup sb /\ pe2 \subseteq still
        BY <1>1, <1>6
    <2>2. \A r \in still \ pe2 : r \notin pe \/ (r.what.kind = "sub" => ev2[r.what.of] # r.id)
        BY <1>5, <1>6
    <2> QED BY <1>2, <1>5, <2>1, <2>2, SettleKeepsBook
<1>8. Own(n, still, sb2, pe2, ev2, tr2)
    <2>1. tr2 = IF ok /\ p.what.kind \in {"arm", "rearm"} THEN [tr EXCEPT ![p.what.of] = p.id] ELSE tr
        BY <1>1 DEF Ha!Continue
    <2>2. CASE ok /\ p.what.kind \in {"arm", "rearm"}
        <3>1. PICK t \in Triggers : t = p.what.of /\ (p.what = Ha!HaArm(t) \/ p.what = Ha!HaRearm(t))
            BY <1>3, <2>2, WhatOf
        <3>2. p \in still \cup sb2
            BY <1>1, <2>2
        <3>3. tr2 = [tr EXCEPT ![t] = p.id]
            BY <2>1, <2>2, <3>1
        <3> QED BY <1>7, <3>1, <3>2, <3>3, ArmKeepsOwn
    <2>3. CASE ~(ok /\ p.what.kind \in {"arm", "rearm"})
        BY <1>7, <2>1, <2>3
    <2> QED BY <2>2, <2>3
<1>9. Fed(still, sb2, ev2, handlers \ refused')
    <2>1. Fed(un, sb, ev, handlers \ refused) /\ handlers \subseteq EventTypes
        BY <1>1 DEF BookInv
    <2>2. /\ refused \subseteq refused'
          /\ ~ok /\ p.what.kind = "sub" /\ ev[p.what.of] = p.id => p.what.of \in refused'
        BY <1>1 DEF Ha!Continue, Ha!SubscriptionFails
    <2>3. ASSUME NEW t \in handlers \ refused' PROVE ev2[t] = ev[t]
        <3>1. t \in EventTypes /\ ev \in [EventTypes -> Nat]
            BY <1>2, <2>1 DEF Own
        <3> QED BY <1>4, <2>2, <2>3, <3>1 DEF AfterFailure
    <2>4. ASSUME NEW t \in handlers \ refused', NEW r \in un \cup sb, r.what = Ha!HaEventSub(t), r.id = ev[t]
          PROVE  r \in still \cup sb2
        <3>1. CASE r # p
            BY <1>1, <2>4, <3>1
        <3>2. CASE r = p
            <4>1. p.what.kind = "sub" /\ p.what.of = t
                BY <2>1, <2>4, <3>2, Whats
            <4>2. ok
                BY <2>2, <2>4, <3>2, <4>1
            <4> QED BY <1>1, <3>2, <4>1, <4>2
        <3> QED BY <3>1, <3>2
    <2>5. handlers \ refused' \subseteq handlers \ refused
        BY <2>2
    <2>6. PICK T, T2 : T = handlers \ refused /\ T2 = handlers \ refused'
        OBVIOUS
    <2>7. Fed(still, sb2, ev2, T2)
        BY <2>1, <2>3, <2>4, <2>5, <2>6, StaysFed
    <2> QED BY <2>6, <2>7
<1>10. ASSUME pe2 \subseteq pending' PROVE Calls(called', pending')
    <2>1. PICK ca, ca2, pe3 : ca = called /\ ca2 = called' /\ pe3 = pending'
        OBVIOUS
    <2>2. ca2 = IF p.what.kind = "call" THEN [ca EXCEPT ![p.what.of] = "settled"] ELSE ca
        BY <2>1 DEF Ha!Continue
    <2>3. Calls(ca, pe) /\ pe \ {p} \subseteq pe3
        BY <1>1, <1>6, <1>10, <2>1 DEF BookInv
    <2>4. Calls(ca2, pe3)
        BY <1>3, <2>2, <2>3, SettleKeepsCalls
    <2> QED BY <2>1, <2>4
<1>11. timers = pe /\ boot \in [at : {"none", "arm", "states"}, todo : SUBSET Triggers] /\ handlers \subseteq EventTypes /\ IsFiniteSet(handlers)
    BY <1>1 DEF BookInv
<1>12. CASE p.what.kind = "rearm" /\ boot.at = "arm"
    <2>1. PICK sending \in Ha!BootSteps({t \in boot.todo : trigger[t] = "live"}) :
              /\ boot' = sending.boot /\ nextId' = nextId + 1
              /\ pending' = (pending \ {p}) \cup {Ha!Numbered(sending.what)}
              /\ timers' = (timers \ {p}) \cup {Ha!Numbered(sending.what)}
              /\ unanswered' = still \cup {Ha!Numbered(sending.what)}
        BY <1>12 DEF Ha!Continue
    <2>2. PICK todo : todo = {t \in boot.todo : trigger[t] = "live"}
        OBVIOUS
    <2>3. todo \subseteq Triggers /\ sending \in Ha!BootSteps(todo)
        BY <1>11, <2>2
    <2>4. sending.what \in What /\ sending.what.kind # "unsub" /\ sending.boot \in [at : {"none", "arm", "states"}, todo : SUBSET Triggers]
        BY <2>3, BootStepSent
    <2>5. PICK w, q : w \in What /\ w = sending.what /\ q = [id |-> n, what |-> w]
        BY <2>4
    <2>6. Ha!Numbered(sending.what) = q
        BY <1>1, <2>5 DEF Ha!Numbered
    <2>7. nextId' = n + 1 /\ pending' = pe2 \cup {q} /\ timers' = pe2 \cup {q} /\ unanswered' = still \cup {q}
        BY <1>1, <1>6, <1>11, <2>1, <2>6
    <2>8. Book(n + 1, still \cup {q}, sb2, pe2 \cup {q})
        BY <1>7, <2>5, IssueKeepsBook
    <2>9. Own(n + 1, still \cup {q}, sb2, pe2 \cup {q}, ev2, tr2)
        BY <1>7, <1>8, <2>4, <2>5, IssueKeepsOwn
    <2>10. /\ Book(nextId', unanswered', subs', pending') /\ timers' = pending' /\ Calls(called', pending')
           /\ Own(nextId', unanswered', subs', pending', evSub', trigSub')
        BY <1>1, <1>10, <2>7, <2>8, <2>9
    <2>11. Fed(unanswered', subs', evSub', handlers' \ refused')
        BY <1>1, <1>9, <2>7 DEF Fed
    <2> QED BY <1>11, <2>1, <2>4, <2>10, <2>11, ConnectedBook
<1>13. CASE ~(p.what.kind = "rearm" /\ boot.at = "arm")
    <2>1. unanswered' = still /\ pending' = pe2 /\ timers' = pe2 /\ nextId' = n
        BY <1>1, <1>6, <1>11, <1>13 DEF Ha!Continue
    <2>2. boot' \in [at : {"none", "arm", "states"}, todo : SUBSET Triggers]
        <3> DEFINE added == p.what.kind = "arm" /\ ok
                   todo == IF added /\ boot.at = "arm" THEN boot.todo \cup {p.what.of} ELSE boot.todo
        <3>1. boot' = IF p.what.kind = "states" THEN Ha!NoBoot ELSE [boot EXCEPT !.todo = todo]
            BY <1>13 DEF Ha!Continue
        <3>2. p.what.kind = "arm" => p.what.of \in Triggers
            BY <1>3, WhatOf
        <3>3. todo \subseteq Triggers
            BY <1>11, <3>2
        <3> HIDE DEF todo
        <3> QED BY <1>11, <3>1, <3>3 DEF Ha!NoBoot
    <2>3. /\ Book(nextId', unanswered', subs', pending') /\ timers' = pending' /\ Calls(called', pending')
          /\ Own(nextId', unanswered', subs', pending', evSub', trigSub')
        BY <1>1, <1>7, <1>8, <1>10, <2>1
    <2>4. Fed(unanswered', subs', evSub', handlers' \ refused')
        BY <1>1, <1>9, <2>1
    <2> QED BY <1>11, <2>2, <2>3, <2>4, ConnectedBook
<1> QED BY <1>12, <1>13

LEMMA ResultKeepsBook ==
    ASSUME LinkInv, BookInv, NEW p \in unanswered, NEW ok \in BOOLEAN, Ha!Result(p, ok)
    PROVE  BookInv'
<1>1. UNCHANGED <<life, connected, handlers>> /\ socket = "open"
    BY DEF Ha!Result, Ha!linkVars
<1>2. PICK still, sb2 : still = unanswered \ {p} /\ sb2 = subs'
    OBVIOUS
<1>3. p.what \in What /\ p \in Req
    BY DEF BookInv, Book, Req
<1>4. subs' = CASE ok /\ p.what.kind \in {"sub", "arm", "rearm"} -> subs \cup {p}
                [] ok /\ p.what.kind = "unsub" -> {s \in subs : s.id # p.what.of}
                [] OTHER -> subs
    BY DEF Ha!Result
<1>5. subs' \subseteq unanswered \cup subs
    BY <1>4
<1>6. ok /\ p.what.kind \in {"sub", "arm", "rearm"} => p \in subs'
    BY <1>4
<1>7. \A s \in subs : s \in subs' \/ (p.what.kind = "unsub" /\ s.id = p.what.of)
    BY <1>4
<1>8. ASSUME NEW r \in unanswered \cup subs, NEW t \in handlers, r # p, r.id = evSub[t] PROVE r \in still \cup subs'
    <2>1. p.what.kind = "unsub" => r.id # p.what.of
        BY <1>8 DEF BookInv, Own
    <2> QED BY <1>2, <1>7, <1>8, <2>1
<1>9. CASE p \in pending
    <2>1. connected /\ Ha!Continue(p, ok, still)
        BY <1>2, <1>9 DEF Ha!Result, BookInv
    <2>2. still \subseteq unanswered /\ pending \ {p} \subseteq still /\ p \notin still
        BY <1>2 DEF BookInv, Book
    <2> QED BY <1>1, <1>5, <1>6, <1>8, <1>9, <2>1, <2>2, ContinueKeepsBook
<1>10. CASE p \notin pending
    <2>1. unanswered' = still /\ UNCHANGED <<nextId, pending, timers, called, evSub, trigSub, boot, refused>>
        BY <1>2, <1>10 DEF Ha!Result
    <2>2. PICK n, un, sb, pe, ev, tr :
              n = nextId /\ un = unanswered /\ sb = subs /\ pe = pending /\ ev = evSub /\ tr = trigSub
        OBVIOUS
    <2>3. Book(n, un, sb, pe) /\ Own(n, un, sb, pe, ev, tr)
        BY <2>2 DEF BookInv
    <2>4. still \subseteq un /\ sb2 \subseteq un \cup sb /\ pe \subseteq still
        BY <1>2, <1>5, <1>10, <2>2, <2>3 DEF Book
    <2>5. \A r \in still \ pe : r \notin pe \/ (r.what.kind = "sub" => ev[r.what.of] # r.id)
        OBVIOUS
    <2>6. Book(n, still, sb2, pe) /\ Own(n, still, sb2, pe, ev, tr)
        BY <2>3, <2>4, <2>5, SettleKeepsBook
    <2>7. /\ Book(nextId', unanswered', subs', pending') /\ Own(nextId', unanswered', subs', pending', evSub', trigSub')
          /\ timers' = pending' /\ (connected' \/ pending' = {}) /\ Calls(called', pending')
        BY <1>1, <1>2, <2>1, <2>2, <2>6 DEF BookInv
    <2>8. connected => Fed(unanswered', subs', evSub', handlers' \ refused')
        <3> SUFFICES ASSUME connected, NEW t \in handlers \ refused
                     PROVE  \E r \in still \cup subs' : r.what = Ha!HaEventSub(t) /\ r.id = evSub[t]
            BY <1>1, <2>1 DEF Fed
        <3>1. PICK r \in unanswered \cup subs : r.what = Ha!HaEventSub(t) /\ r.id = evSub[t]
            BY DEF BookInv, Fed
        <3>2. CASE r # p
            BY <1>8, <3>1, <3>2
        <3>3. CASE r = p
            <4>1. t \in EventTypes
                BY DEF BookInv
            <4>2. p.what.kind = "sub" /\ p.what.of = t
                BY <3>1, <3>3, <4>1, Whats
            <4>3. evSub[t] # p.id
                BY <1>10, <4>2 DEF BookInv, Own
            <4> QED BY <3>1, <3>3, <4>3
        <3> QED BY <3>2, <3>3
    <2>9. IdleInv'
        BY <1>1 DEF IdleInv, BookInv
    <2> QED BY <1>1, <2>1, <2>7, <2>8, <2>9 DEF BookInv
<1> QED BY <1>9, <1>10

LEMMA TimerKeepsBook ==
    ASSUME BookInv, NEW p \in timers, Ha!TimerFires(p)
    PROVE  BookInv'
<1>1. UNCHANGED <<life, connected, handlers, subs>> /\ p \in pending /\ connected
    BY DEF Ha!TimerFires, Ha!linkVars, BookInv
<1> DEFINE ok == FALSE
<1>2. PICK still : still = unanswered
    OBVIOUS
<1>3. Ha!Continue(p, ok, still)
    BY <1>1, <1>2 DEF Ha!TimerFires
<1>4. still \subseteq unanswered /\ pending \ {p} \subseteq still /\ (ok => p \notin still)
    BY <1>2 DEF BookInv, Book
<1>5. subs' \subseteq unanswered \cup subs /\ (ok /\ p.what.kind \in {"sub", "arm", "rearm"} => p \in subs')
    BY <1>1, <1>2
<1>6. \A r \in unanswered \cup subs, t \in handlers : r # p /\ r.id = evSub[t] => r \in still \cup subs'
    BY <1>1, <1>2
<1> QED BY <1>1, <1>3, <1>4, <1>5, <1>6, ContinueKeepsBook

\* The first requests of a connection and the ids they leave with the event types.
FirstAsked(H, ids, last) == {[id |-> ids[t], what |-> Ha!HaEventSub(t)] : t \in H} \cup {last}
FirstHeld(H, ids) == [t \in EventTypes |-> IF t \in H THEN ids[t] ELSE 0]
NoneHeld == [t \in Triggers |-> 0]

LEMMA FirstRequests ==
    ASSUME NEW H, H \subseteq EventTypes, IsFiniteSet(H), NEW m \in Nat, m = Cardinality(H), NEW n \in Nat \ {0},
           NEW ids \in [H -> n .. n + m - 1], \A t, u \in H : ids[t] = ids[u] => t = u,
           NEW w \in What, w.kind # "unsub"
    PROVE  /\ Cardinality(FirstAsked(H, ids, [id |-> n + m, what |-> w])) = m + 1
           /\ Book(n + m + 1, FirstAsked(H, ids, [id |-> n + m, what |-> w]), {}, FirstAsked(H, ids, [id |-> n + m, what |-> w]))
           /\ Own(n + m + 1, FirstAsked(H, ids, [id |-> n + m, what |-> w]), {}, FirstAsked(H, ids, [id |-> n + m, what |-> w]),
                  FirstHeld(H, ids), NoneHeld)
           /\ Fed(FirstAsked(H, ids, [id |-> n + m, what |-> w]), {}, FirstHeld(H, ids), H)
<1>0. PICK q, E, R, ev, tr :
          /\ q = [id |-> n + m, what |-> w] /\ E = {[id |-> ids[t], what |-> Ha!HaEventSub(t)] : t \in H}
          /\ R = E \cup {q} /\ R = FirstAsked(H, ids, q) /\ ev = FirstHeld(H, ids) /\ tr = NoneHeld
    BY DEF FirstAsked
<1>1. \A t \in H : ids[t] \in Nat /\ ids[t] >= n /\ ids[t] < n + m /\ ids[t] # 0
    OBVIOUS
<1> DEFINE f == [t \in H |-> [id |-> ids[t], what |-> Ha!HaEventSub(t)]]
<1>2. \A t \in H : f[t].id = ids[t] /\ f[t].what = Ha!HaEventSub(t) /\ f[t] \in E
    BY <1>0
<1>3. \A p \in E : \E t \in H : p = f[t]
    BY <1>0
<1>4. f \in [H -> E]
    BY <1>0
<1> HIDE DEF f
<1>5. q.id = n + m /\ q.what = w /\ q \in Req
    BY <1>0 DEF Req
<1>6. Cardinality(R) = m + 1
    <2>1. f \in Injection(H, E)
        BY <1>2, <1>4 DEF Injection, IsInjective
    <2>2. f \in Surjection(H, E)
        BY <1>3, <1>4 DEF Surjection
    <2>3. ExistsBijection(H, E)
        BY <2>1, <2>2 DEF ExistsBijection, Bijection
    <2>4. IsFiniteSet(E) /\ Cardinality(E) = m
        BY <2>3, FS_Bijection
    <2>5. q \notin E
        <3> SUFFICES ASSUME q \in E PROVE FALSE
            OBVIOUS
        <3>1. PICK t \in H : q = f[t]
            BY <1>3
        <3>2. ids[t] = n + m
            BY <1>2, <1>5, <3>1
        <3> QED BY <1>1, <3>2
    <2>6. Cardinality(E \cup {q}) = Cardinality(E) + 1
        BY <2>4, <2>5, FS_AddElement
    <2> QED BY <1>0, <2>4, <2>6
<1>7. \A p \in R : p = q \/ \E t \in H : p = f[t]
    BY <1>0, <1>3
<1>8. \A t \in H : f[t] \in Req
    BY <1>1, <1>2, <1>4, Whats DEF Req, f
<1>9. Book(n + m + 1, R, {}, R)
    <2>1. R \subseteq Req
        BY <1>5, <1>7, <1>8
    <2>2. \A p \in R : p.id < n + m + 1
        BY <1>1, <1>2, <1>5, <1>7
    <2>3. ASSUME NEW p \in R, NEW r \in R, p.id = r.id PROVE p = r
        <3>1. CASE p = q /\ r # q
            BY <1>1, <1>2, <1>5, <1>7, <2>3, <3>1
        <3>2. CASE p # q /\ r = q
            BY <1>1, <1>2, <1>5, <1>7, <2>3, <3>2
        <3>3. CASE p # q /\ r # q
            BY <1>2, <1>7, <2>3, <3>3
        <3> QED BY <3>1, <3>2, <3>3
    <2>4. n + m + 1 \in Nat \ {0}
        OBVIOUS
    <2> QED BY <2>1, <2>2, <2>3, <2>4 DEF Book
<1>10. ev \in [EventTypes -> Nat] /\ \A t \in EventTypes : (t \in H /\ ev[t] = ids[t]) \/ (t \notin H /\ ev[t] = 0)
    <2>1. \A t \in EventTypes : (IF t \in H THEN ids[t] ELSE 0) \in Nat
        BY <1>1
    <2> QED BY <1>0, <2>1 DEF FirstHeld
<1>11. tr \in [Triggers -> Nat] /\ \A t \in Triggers : tr[t] = 0
    BY <1>0 DEF NoneHeld
<1>12. Own(n + m + 1, R, {}, R, ev, tr)
    <2>1. \A t \in EventTypes : ev[t] < n + m + 1 /\ ev[t] # n + m
        BY <1>1, <1>10
    <2>2. \A p \in R : p.id # 0
        BY <1>1, <1>2, <1>5, <1>7
    <2>3. ASSUME NEW t \in EventTypes, NEW p \in R, p.id = ev[t] PROVE p.what = Ha!HaEventSub(t)
        <3>1. p # q
            BY <1>5, <2>1, <2>3
        <3>2. PICK u \in H : p = f[u]
            BY <1>7, <3>1
        <3>3. t \in H /\ ids[t] = ids[u]
            BY <1>1, <1>2, <1>10, <2>3, <3>2
        <3> QED BY <1>2, <3>2, <3>3
    <2>4. \A p \in R : p.what.kind # "unsub"
        <3>1. \A t \in H : Ha!HaEventSub(t).kind = "sub"
            BY Whats
        <3> QED BY <1>2, <1>5, <1>7, <3>1
    <2>5. \A t, u \in EventTypes : ev[t] = ev[u] /\ ev[t] # 0 => t = u
        BY <1>10
    <2>6. \A t \in Triggers : tr[t] < n + m + 1
        BY <1>11
    <2> QED BY <1>10, <1>11, <2>1, <2>2, <2>3, <2>4, <2>5, <2>6 DEF Own
<1>13. Fed(R, {}, ev, H)
    <2>1. \A t \in H : f[t] \in R
        BY <1>0, <1>2
    <2> QED BY <1>2, <1>10, <2>1 DEF Fed
<1> QED BY <1>0, <1>6, <1>9, <1>12, <1>13

\* onAuthOk: the subscriptions of the event types H and the first request of the boot task,
\* under the m + 1 ids from n on.
Starts(H, lives, n, m) ==
    \E sending \in Ha!BootSteps(lives) : \E ids \in [H -> n .. n + m - 1] :
        /\ \A t, u \in H : ids[t] = ids[u] => t = u
        /\ evSub' = [t \in EventTypes |-> IF t \in H THEN ids[t] ELSE evSub[t]]
        /\ Ha!Issue(FirstAsked(H, ids, [id |-> n + m, what |-> sending.what]))
        /\ boot' = sending.boot

LEMMA AuthKeepsBook == LinkInv /\ BookInv /\ Ha!AuthOk => BookInv'
<1> SUFFICES ASSUME BookInv, Ha!AuthOk PROVE BookInv'
    OBVIOUS
<1>1. ~connected /\ life = "started" /\ UNCHANGED <<life, called, handlers, trigSub, subs, refused>>
    BY DEF Ha!AuthOk
<1>2. connected'
    BY DEF Ha!AuthOk
<1>3. /\ pending = {} /\ timers = {} /\ unanswered = {} /\ subs = {}
      /\ evSub \in [EventTypes -> Nat] /\ trigSub \in [Triggers -> Nat]
      /\ (\A t \in EventTypes : evSub[t] = 0) /\ (\A t \in Triggers : trigSub[t] = 0)
    BY <1>1 DEF BookInv, IdleInv, Own
<1>4. PICK H, n, lives : H = handlers /\ n = nextId /\ lives = {t \in Triggers : trigger[t] = "live"}
    OBVIOUS
<1>5. H \subseteq EventTypes /\ IsFiniteSet(H) /\ n \in Nat \ {0} /\ lives \subseteq Triggers
    BY <1>4 DEF BookInv, Book
<1>6. {t \in handlers : evSub[t] = 0} = H
    BY <1>3, <1>4, <1>5
<1>7. PICK m \in Nat : m = Cardinality(H)
    BY <1>5, FS_CardinalityType
<1>8. Ha!Cardinality(H) = m
    BY <1>7 DEF Ha!Cardinality, Cardinality
<1>9. Starts(H, lives, n, m)
    <2> DEFINE resub == {t \in handlers : evSub[t] = 0}
               lv == {t \in Triggers : trigger[t] = "live"}
    <2>1. Starts(resub, lv, nextId, Ha!Cardinality(resub))
        BY DEF Ha!AuthOk, Starts, FirstAsked
    <2>2. resub = H /\ lv = lives /\ nextId = n /\ Ha!Cardinality(resub) = m
        BY <1>4, <1>6, <1>8
    <2> HIDE DEF resub, lv
    <2> QED BY <2>1, <2>2
<1>10. PICK sending \in Ha!BootSteps(lives), ids \in [H -> n .. n + m - 1] :
             /\ \A t, u \in H : ids[t] = ids[u] => t = u
             /\ evSub' = [t \in EventTypes |-> IF t \in H THEN ids[t] ELSE evSub[t]]
             /\ Ha!Issue(FirstAsked(H, ids, [id |-> n + m, what |-> sending.what]))
             /\ boot' = sending.boot
    BY <1>9 DEF Starts
<1>11. sending.what \in What /\ sending.what.kind # "unsub" /\ sending.boot \in [at : {"none", "arm", "states"}, todo : SUBSET Triggers]
    BY <1>5, BootStepSent
<1>12. PICK w \in What : w = sending.what /\ w.kind # "unsub"
    BY <1>11
<1>13. \A t, u \in H : ids[t] = ids[u] => t = u
    BY <1>10
<1>14. PICK R, ev, tr : R = FirstAsked(H, ids, [id |-> n + m, what |-> w]) /\ ev = FirstHeld(H, ids) /\ tr = NoneHeld
    OBVIOUS
<1>15. /\ Cardinality(FirstAsked(H, ids, [id |-> n + m, what |-> w])) = m + 1
       /\ Book(n + m + 1, FirstAsked(H, ids, [id |-> n + m, what |-> w]), {}, FirstAsked(H, ids, [id |-> n + m, what |-> w]))
       /\ Own(n + m + 1, FirstAsked(H, ids, [id |-> n + m, what |-> w]), {}, FirstAsked(H, ids, [id |-> n + m, what |-> w]),
              FirstHeld(H, ids), NoneHeld)
       /\ Fed(FirstAsked(H, ids, [id |-> n + m, what |-> w]), {}, FirstHeld(H, ids), H)
    BY <1>5, <1>7, <1>12, <1>13, FirstRequests
<1>16. /\ Cardinality(R) = m + 1 /\ Book(n + m + 1, R, {}, R) /\ Own(n + m + 1, R, {}, R, ev, tr)
       /\ Fed(R, {}, ev, H)
    BY <1>14, <1>15
<1>17. Ha!Issue(R) /\ boot' = sending.boot
    BY <1>10, <1>12, <1>14
<1>18. Ha!Cardinality(R) = m + 1
    BY <1>16 DEF Ha!Cardinality, Cardinality
<1>19. nextId' = n + m + 1 /\ pending' = R /\ timers' = R /\ unanswered' = R
    BY <1>3, <1>4, <1>5, <1>17, <1>18 DEF Ha!Issue
<1>20. evSub' = ev
    <2>1. \A t \in EventTypes : (IF t \in H THEN ids[t] ELSE evSub[t]) = (IF t \in H THEN ids[t] ELSE 0)
        BY <1>3
    <2> QED BY <1>10, <1>14, <2>1 DEF FirstHeld
<1>21. trigSub' = tr /\ subs' = {} /\ handlers' = H
    <2>1. trigSub = NoneHeld
        BY <1>3 DEF NoneHeld
    <2> QED BY <1>1, <1>3, <1>4, <1>14, <2>1
<1>22. /\ timers' = pending' /\ Book(nextId', unanswered', subs', pending')
       /\ Own(nextId', unanswered', subs', pending', evSub', trigSub')
    BY <1>16, <1>19, <1>20, <1>21
<1>23. Fed(unanswered', subs', evSub', handlers' \ refused')
    BY <1>16, <1>19, <1>20, <1>21 DEF Fed
<1>24. Calls(called', pending')
    BY <1>1, <1>3, <1>19 DEF BookInv, Calls
<1>25. boot' \in [at : {"none", "arm", "states"}, todo : SUBSET Triggers] /\ handlers' \subseteq EventTypes /\ IsFiniteSet(handlers')
    BY <1>5, <1>11, <1>17, <1>21
<1>26. IdleInv'
    BY <1>2 DEF IdleInv
<1> QED BY <1>2, <1>22, <1>23, <1>24, <1>25, <1>26 DEF BookInv

LEMMA StepKeepsBook == LinkInv /\ BookInv /\ [Ha!Next]_haState => BookInv'
<1> SUFFICES ASSUME LinkInv, BookInv, [Ha!Next]_haState PROVE BookInv'
    OBVIOUS
<1>1. CASE UNCHANGED bookVars
    BY <1>1, BookStays
<1>2. CASE UNCHANGED haState \/ Ha!Open \/ Ha!AuthInvalid \/ Ha!HandshakeFires \/ Ha!Pong
    BY <1>1, <1>2 DEF haState, bookVars, Ha!Open, Ha!AuthInvalid, Ha!Closing, Ha!HandshakeFires, Ha!Pong, Ha!linkVars
<1>3. CASE Ha!Start
    BY <1>3, ConnectKeepsBook DEF Ha!Start, LinkInv
<1>4. CASE Ha!ReconnectFires
    <2>1. reconnectTimer /\ life' = life /\ Ha!Connect
        BY <1>4 DEF Ha!ReconnectFires
    <2>2. ~connected /\ life = "started"
        BY <2>1 DEF LinkInv
    <2> QED BY <2>1, <2>2, ConnectKeepsBook
<1>5. CASE Ha!PingTick
    <2>1. CASE awaitingPong
        BY <1>1, <1>5, <2>1 DEF Ha!PingTick, Ha!Closing, bookVars
    <2>2. CASE ~awaitingPong
        <3>1. /\ nextId' = nextId + 1 /\ connected
              /\ UNCHANGED <<life, connected, pending, timers, called, handlers, evSub, trigSub, boot, unanswered, subs, refused>>
            BY <1>5, <2>2 DEF Ha!PingTick, Ha!linkVars
        <3>2. PICK n, un, sb, pe, ev, tr :
                  n = nextId /\ un = unanswered /\ sb = subs /\ pe = pending /\ ev = evSub /\ tr = trigSub
            OBVIOUS
        <3>3. Book(n, un, sb, pe) /\ Own(n, un, sb, pe, ev, tr)
            BY <3>2 DEF BookInv
        <3>4. Book(n + 1, un, sb, pe) /\ Own(n + 1, un, sb, pe, ev, tr)
            BY <3>3, PingKeepsBook
        <3>5. Book(nextId', unanswered', subs', pending') /\ Own(nextId', unanswered', subs', pending', evSub', trigSub')
            BY <3>1, <3>2, <3>4
        <3>6. /\ timers' = pending' /\ Calls(called', pending') /\ Fed(unanswered', subs', evSub', handlers' \ refused')
              /\ boot' \in [at : {"none", "arm", "states"}, todo : SUBSET Triggers]
              /\ handlers' \subseteq EventTypes /\ IsFiniteSet(handlers')
            BY <3>1 DEF BookInv
        <3> QED BY <3>1, <3>5, <3>6, ConnectedBook
    <2> QED BY <2>1, <2>2
<1>6. CASE \E p \in unanswered, ok \in BOOLEAN : Ha!Result(p, ok)
    BY <1>6, ResultKeepsBook
<1>7. CASE \E p \in timers : Ha!TimerFires(p)
    BY <1>7, TimerKeepsBook
<1>8. CASE \E c \in Commands : Ha!Call(c)
    BY <1>8, CallKeepsBook
<1>9. CASE \E t \in EventTypes : Ha!AddHandler(t) \/ Ha!RemoveHandler(t)
    BY <1>9, AddKeepsBook, RemoveKeepsBook
<1>10. CASE \E t \in Triggers : Ha!SubscribeTrigger(t) \/ Ha!RemoveTrigger(t)
    BY <1>10, TriggerKeepsBook
<1> QED BY <1>2, <1>3, <1>4, <1>5, <1>6, <1>7, <1>8, <1>9, <1>10, AuthKeepsBook, CloseKeepsBook, StopKeepsBook DEF Ha!Next

LEMMA InitHa == Init => LinkInv /\ BookInv
<1> SUFFICES ASSUME Ha!Init PROVE LinkInv /\ BookInv
    BY DEF Init
<1>1. LinkInv
    BY DEF Ha!Init, LinkInv, Ha!AlwaysDriven
<1>2. /\ nextId = 1 /\ pending = {} /\ timers = {} /\ unanswered = {} /\ subs = {} /\ handlers = {} /\ ~connected
      /\ evSub = [t \in EventTypes |-> 0] /\ trigSub = [t \in Triggers |-> 0] /\ called = [c \in Commands |-> "none"]
      /\ boot = [at |-> "none", todo |-> {}]
    BY DEF Ha!Init, Ha!NoBoot
<1>3. PICK ev, tr : ev = evSub /\ tr = trigSub
    OBVIOUS
<1>4. Book(1, {}, {}, {}) /\ Own(1, {}, {}, {}, ev, tr)
    BY <1>2, <1>3, EmptyBook
<1>5. Book(nextId, unanswered, subs, pending) /\ Own(nextId, unanswered, subs, pending, evSub, trigSub)
    BY <1>2, <1>3, <1>4
<1>6. Calls(called, pending) /\ IdleInv
    BY <1>2 DEF Calls, IdleInv
<1>7. IsFiniteSet(handlers)
    BY <1>2, FS_EmptySet
<1> QED BY <1>1, <1>2, <1>5, <1>6, <1>7 DEF BookInv

LEMMA InvHa == LinkInv /\ BookInv => Ha!NoOrphanCommand /\ Ha!HandlersAreFed /\ Ha!AlwaysDriven
<1> SUFFICES ASSUME LinkInv, BookInv PROVE Ha!NoOrphanCommand /\ Ha!HandlersAreFed /\ Ha!AlwaysDriven
    OBVIOUS
<1>1. Ha!NoOrphanCommand
    BY DEF BookInv, Book, Calls, Ha!NoOrphanCommand
<1>2. ASSUME NEW s \in subs PROVE Ha!Receiver(s.id) \subseteq {s.what.of}
    <2>1. \A t \in EventTypes : evSub[t] = s.id => s.what = Ha!HaEventSub(t)
        BY DEF BookInv, Own
    <2>2. \A t \in Triggers : trigSub[t] = s.id => s.what = Ha!HaArm(t) \/ s.what = Ha!HaRearm(t)
        BY DEF BookInv, Own
    <2> QED BY <2>1, <2>2, Whats DEF Ha!Receiver
<1>3. Ha!HandlersAreFed
    BY <1>2 DEF BookInv, Fed, Ha!HandlersAreFed
<1>4. Ha!AlwaysDriven
    BY DEF LinkInv
<1> QED BY <1>1, <1>3, <1>4

\* The connection to the home: a command that somebody waits for has its pending entry and
\* its timer, an event type with a handler is subscribed on this very connection and fed by
\* no other registration's events, and a started client is never left without a timer or a
\* socket event that moves it on (ha/client.ts).
THEOREM HaClientIsSound == Spec => []HaClientSound
<1>1. LinkInv /\ BookInv /\ [Next]_vars => LinkInv' /\ BookInv'
    BY ComponentSteps, StepKeepsLink, StepKeepsBook
<1>2. LinkInv /\ BookInv => HaClientSound
    BY InvHa DEF HaClientSound
<1> QED BY <1>1, <1>2, InitHa, PTL DEF Spec

-----------------------------------------------------------------------------
(* The bridge: what is on the wire.                                         *)

Frame == [tag : {"ev"}, e : Routed, s : Bridge!HaValues]
         \cup [tag : {"snap"}, states : [Routed -> Bridge!HaValues]]

\* Frame f tells the state of entity e, and the state it tells.
Tells(f, e) == f.tag = "snap" \/ f.e = e
Said(f, e) == IF f.tag = "snap" THEN f.states[e] ELSE f.s

\* Frame i of wire w is the last that tells of e.
LastWord(w, i, e) == Tells(w[i], e) /\ \A j \in i + 1 .. Len(w) : ~Tells(w[j], e)
Silent(w, e) == \A i \in 1 .. Len(w) : ~Tells(w[i], e)

\* The last frame that tells of an entity tells its state at home, and once a started
\* bridge has handled a snapshot the cache holds it where no frame is under way.
WireInv ==
    /\ wire \in Seq(Frame) /\ ha \in [Routed -> Bridge!HaValues] /\ entityCache \in [Routed -> Bridge!HaValues]
    /\ link \in {"down", "up", "subscribed", "answered"}
    /\ link \in {"down", "up"} => wire = << >> /\ ~synced
    /\ synced => on
    /\ \A e \in Routed : \A i \in 1 .. Len(wire) : LastWord(wire, i, e) => Said(wire[i], e) = ha[e]
    /\ synced => \A e \in Routed : Silent(wire, e) => entityCache[e] = ha[e]

\* A frame taken from the wire: what the rest says was said before.
LEMMA RestOfWire ==
    ASSUME NEW w \in Seq(Frame), w # << >>, NEW e \in Routed
    PROVE  /\ Tail(w) \in Seq(Frame) /\ Head(w) \in Frame /\ Head(w) = w[1]
           /\ \A i \in 1 .. Len(Tail(w)) : /\ i + 1 \in 1 .. Len(w) /\ Tail(w)[i] = w[i + 1]
                                           /\ LastWord(Tail(w), i, e) => LastWord(w, i + 1, e)
           /\ Silent(Tail(w), e) => (IF Tells(w[1], e) THEN LastWord(w, 1, e) ELSE Silent(w, e))
<1>1. /\ Tail(w) \in Seq(Frame) /\ Head(w) \in Frame /\ Head(w) = w[1] /\ Len(w) \in Nat \ {0}
      /\ Len(Tail(w)) = Len(w) - 1 /\ \A i \in 1 .. Len(w) - 1 : Tail(w)[i] = w[i + 1]
    OBVIOUS
<1>2. \A j \in 2 .. Len(w) : j - 1 \in 1 .. Len(w) - 1 /\ w[j] = Tail(w)[j - 1]
    BY <1>1
<1>3. ASSUME NEW i \in 1 .. Len(Tail(w)), LastWord(Tail(w), i, e) PROVE LastWord(w, i + 1, e)
    <2>1. Tells(w[i + 1], e)
        BY <1>1, <1>3 DEF LastWord
    <2>2. ASSUME NEW j \in i + 2 .. Len(w) PROVE ~Tells(w[j], e)
        <3>1. j - 1 \in i + 1 .. Len(Tail(w)) /\ w[j] = Tail(w)[j - 1]
            BY <1>1, <1>2
        <3> QED BY <3>1, <1>3 DEF LastWord
    <2>3. (i + 1) + 1 = i + 2
        BY <1>1
    <2> QED BY <2>1, <2>2, <2>3 DEF LastWord
<1>4. ASSUME Silent(Tail(w), e) PROVE \A j \in 2 .. Len(w) : ~Tells(w[j], e)
    BY <1>1, <1>2, <1>4 DEF Silent
<1>5. ASSUME Silent(Tail(w), e) PROVE IF Tells(w[1], e) THEN LastWord(w, 1, e) ELSE Silent(w, e)
    <2>1. 1 + 1 = 2 /\ \A j \in 1 .. Len(w) : j = 1 \/ j \in 2 .. Len(w)
        BY <1>1
    <2> QED BY <1>4, <1>5, <2>1 DEF LastWord, Silent
<1> QED BY <1>1, <1>3, <1>5

\* A frame put on the wire.
LEMMA OneMoreFrame ==
    ASSUME NEW w \in Seq(Frame), NEW f \in Frame, NEW e \in Routed
    PROVE  /\ Append(w, f) \in Seq(Frame) /\ Append(w, f)[Len(w) + 1] = f
           /\ \A i \in 1 .. Len(Append(w, f)) :
                 LastWord(Append(w, f), i, e) => \/ i = Len(w) + 1 /\ Tells(f, e)
                                                 \/ i \in 1 .. Len(w) /\ Append(w, f)[i] = w[i]
                                                    /\ LastWord(w, i, e) /\ ~Tells(f, e)
           /\ Silent(Append(w, f), e) => Silent(w, e) /\ ~Tells(f, e)
<1> DEFINE v == Append(w, f)
<1>1. /\ v \in Seq(Frame) /\ Len(w) \in Nat /\ Len(v) = Len(w) + 1 /\ v[Len(w) + 1] = f
      /\ \A i \in 1 .. Len(w) : v[i] = w[i]
    OBVIOUS
<1> HIDE DEF v
<1>2. ASSUME NEW i \in 1 .. Len(v), LastWord(v, i, e)
      PROVE  \/ i = Len(w) + 1 /\ Tells(f, e)
             \/ i \in 1 .. Len(w) /\ v[i] = w[i] /\ LastWord(w, i, e) /\ ~Tells(f, e)
    <2>1. CASE i = Len(w) + 1
        BY <2>1, <1>1, <1>2 DEF LastWord
    <2>2. CASE i # Len(w) + 1
        <3>1. i \in 1 .. Len(w) /\ Len(w) + 1 \in i + 1 .. Len(v)
            BY <2>2, <1>1
        <3>2. ~Tells(f, e)
            BY <3>1, <1>1, <1>2 DEF LastWord
        <3>3. ASSUME NEW j \in i + 1 .. Len(w) PROVE ~Tells(w[j], e)
            <4>1. j \in i + 1 .. Len(v) /\ v[j] = w[j]
                BY <1>1
            <4> QED BY <4>1, <1>2 DEF LastWord
        <3> QED BY <3>1, <3>2, <3>3, <1>1, <1>2 DEF LastWord
    <2> QED BY <2>1, <2>2
<1>3. Silent(v, e) => Silent(w, e) /\ ~Tells(f, e)
    <2>1. Len(w) + 1 \in 1 .. Len(v) /\ \A i \in 1 .. Len(w) : i \in 1 .. Len(v)
        BY <1>1
    <2> QED BY <2>1, <1>1 DEF Silent
<1> QED BY <1>1, <1>2, <1>3 DEF v

\* The next frame is taken off; the cache has its word where it told of the entity.
LEMMA TakeKeepsWire ==
    ASSUME WireInv, wire # << >>, wire' = Tail(wire), UNCHANGED <<ha, link>>,
           entityCache' \in [Routed -> Bridge!HaValues], synced' \in BOOLEAN, synced' => on',
           synced' => \A e \in Routed : \/ Tells(Head(wire), e) /\ entityCache'[e] = Said(Head(wire), e)
                                        \/ ~Tells(Head(wire), e) /\ synced /\ entityCache'[e] = entityCache[e]
    PROVE  WireInv'
<1>1. wire \in Seq(Frame) /\ Tail(wire) \in Seq(Frame) /\ Head(wire) = wire[1] /\ 1 \in 1 .. Len(wire)
    <2>1. wire \in Seq(Frame)
        BY DEF WireInv
    <2> QED BY <2>1
<1>2. ASSUME NEW e \in Routed
      PROVE  /\ \A i \in 1 .. Len(Tail(wire)) : LastWord(Tail(wire), i, e) => Said(Tail(wire)[i], e) = ha[e]
             /\ synced' => (Silent(Tail(wire), e) => entityCache'[e] = ha[e])
    <2>1. /\ \A i \in 1 .. Len(Tail(wire)) : /\ i + 1 \in 1 .. Len(wire) /\ Tail(wire)[i] = wire[i + 1]
                                             /\ LastWord(Tail(wire), i, e) => LastWord(wire, i + 1, e)
          /\ Silent(Tail(wire), e) => (IF Tells(wire[1], e) THEN LastWord(wire, 1, e) ELSE Silent(wire, e))
        BY <1>1, RestOfWire
    <2>2. \A i \in 1 .. Len(wire) : LastWord(wire, i, e) => Said(wire[i], e) = ha[e]
        BY DEF WireInv
    <2>3. synced /\ Silent(wire, e) => entityCache[e] = ha[e]
        BY DEF WireInv
    <2> QED BY <2>1, <2>2, <2>3, <1>1
<1>3. ~(link \in {"down", "up"})
    BY DEF WireInv
<1> QED BY <1>1, <1>2, <1>3 DEF WireInv

\* A frame is put on, and tells what is the case at home.
LEMMA PutKeepsWire ==
    ASSUME WireInv, NEW f \in Frame, wire' = Append(wire, f), ha' \in [Routed -> Bridge!HaValues],
           \A e \in Routed : IF Tells(f, e) THEN Said(f, e) = ha'[e] ELSE ha'[e] = ha[e],
           link' \in {"subscribed", "answered"}, UNCHANGED <<entityCache, synced, on>>
    PROVE  WireInv'
<1>1. wire \in Seq(Frame) /\ Append(wire, f) \in Seq(Frame)
    <2>1. wire \in Seq(Frame)
        BY DEF WireInv
    <2> QED BY <2>1
<1>2. ASSUME NEW e \in Routed
      PROVE  /\ \A i \in 1 .. Len(Append(wire, f)) :
                    LastWord(Append(wire, f), i, e) => Said(Append(wire, f)[i], e) = ha'[e]
             /\ synced => (Silent(Append(wire, f), e) => entityCache[e] = ha'[e])
    <2>1. /\ Append(wire, f)[Len(wire) + 1] = f
          /\ \A i \in 1 .. Len(Append(wire, f)) :
                 LastWord(Append(wire, f), i, e) => \/ i = Len(wire) + 1 /\ Tells(f, e)
                                                    \/ i \in 1 .. Len(wire) /\ Append(wire, f)[i] = wire[i]
                                                       /\ LastWord(wire, i, e) /\ ~Tells(f, e)
          /\ Silent(Append(wire, f), e) => Silent(wire, e) /\ ~Tells(f, e)
        BY <1>1, OneMoreFrame
    <2>2. \A i \in 1 .. Len(wire) : LastWord(wire, i, e) => Said(wire[i], e) = ha[e]
        BY DEF WireInv
    <2>3. synced /\ Silent(wire, e) => entityCache[e] = ha[e]
        BY DEF WireInv
    <2> QED BY <2>1, <2>2, <2>3
<1> QED BY <1>1, <1>2 DEF WireInv

\* The wire is cut: nothing is on it, and the next snapshot is yet to come.
LEMMA CutKeepsWire ==
    ASSUME WireInv, wire' = << >>, ~synced', UNCHANGED ha, link' = "down",
           entityCache' \in [Routed -> Bridge!HaValues]
    PROVE  WireInv'
<1>1. << >> \in Seq(Frame) /\ \A i \in 1 .. Len(<< >>) : FALSE
    OBVIOUS
<1> QED BY <1>1 DEF WireInv

LEMMA ChangeKeepsWire ==
    ASSUME WireInv, NEW e \in Routed, NEW v \in Bridge!HaValues, Bridge!Change(e, v)
    PROVE  WireInv'
<1>1. /\ ha' = [ha EXCEPT ![e] = v] /\ UNCHANGED <<link, entityCache, synced, on>>
      /\ wire' = IF link \in {"subscribed", "answered"} THEN Append(wire, [tag |-> "ev", e |-> e, s |-> v]) ELSE wire
    BY DEF Bridge!Change
<1>2. CASE link \in {"subscribed", "answered"}
    <2> DEFINE f == [tag |-> "ev", e |-> e, s |-> v]
    <2>1. f \in Frame /\ f.tag = "ev" /\ f.e = e /\ f.s = v
        BY DEF Frame
    <2>2. ha \in [Routed -> Bridge!HaValues]
        BY DEF WireInv
    <2>3. wire' = Append(wire, f) /\ ha' \in [Routed -> Bridge!HaValues] /\ link' \in {"subscribed", "answered"}
        BY <1>1, <1>2, <2>2
    <2>4. ha'[e] = v /\ \A d \in Routed : d # e => ha'[d] = ha[d]
        BY <1>1, <2>2
    <2> HIDE DEF f
    <2>5. \A d \in Routed : IF Tells(f, d) THEN Said(f, d) = ha'[d] ELSE ha'[d] = ha[d]
        BY <2>1, <2>4 DEF Tells, Said
    <2> QED BY <1>1, <2>1, <2>3, <2>5, PutKeepsWire
<1>3. CASE link \in {"down", "up"}
    <2>1. wire' = wire /\ wire = << >> /\ ~synced
        BY <1>1, <1>3 DEF WireInv
    <2>2. \A i \in 1 .. Len(<< >>) : FALSE
        OBVIOUS
    <2>3. ha' \in [Routed -> Bridge!HaValues]
        BY <1>1 DEF WireInv
    <2> QED BY <2>1, <2>2, <2>3, <1>1 DEF WireInv
<1> QED BY <1>2, <1>3 DEF WireInv

LEMMA AdvanceKeepsWire == WireInv /\ Bridge!Advance => WireInv'
<1> SUFFICES ASSUME WireInv, Bridge!Advance PROVE WireInv'
    OBVIOUS
<1>1. UNCHANGED <<ha, entityCache, synced, on>>
    BY DEF Bridge!Advance
<1>2. CASE UNCHANGED wire /\ link' \in {"up", "subscribed"} /\ link \in {"down", "up"}
    BY <1>1, <1>2 DEF WireInv
<1>3. CASE link' = "answered" /\ wire' = Append(wire, [tag |-> "snap", states |-> ha])
    <2> DEFINE f == [tag |-> "snap", states |-> ha]
    <2>1. ha \in [Routed -> Bridge!HaValues]
        BY DEF WireInv
    <2>2. f \in Frame /\ f.tag = "snap" /\ f.states = ha
        BY <2>1 DEF Frame
    <2>3. wire' = Append(wire, f)
        BY <1>3
    <2> HIDE DEF f
    <2>4. \A d \in Routed : IF Tells(f, d) THEN Said(f, d) = ha'[d] ELSE ha'[d] = ha[d]
        BY <2>2, <1>1 DEF Tells, Said
    <2> QED BY <2>1, <2>2, <2>3, <2>4, <1>1, <1>3, PutKeepsWire
<1> QED BY <1>2, <1>3 DEF Bridge!Advance

\* Every step of the bridge, of the home and of the connection.
LEMMA StepKeepsWire == WireInv /\ synced \in BOOLEAN /\ [Bridge!Next]_bridgeState => WireInv' /\ synced' \in BOOLEAN
<1> SUFFICES ASSUME WireInv, synced \in BOOLEAN, [Bridge!Next]_bridgeState PROVE WireInv' /\ synced' \in BOOLEAN
    OBVIOUS
<1>1. CASE UNCHANGED <<ha, link, wire, entityCache, synced>> /\ (UNCHANGED on \/ on')
    BY <1>1 DEF WireInv
<1>2. ASSUME wire # << >>, Head(wire) \in Frame PROVE Head(wire).tag = "ev" \/ Head(wire).tag = "snap"
    BY <1>2 DEF Frame
<1>3. wire # << >> => Head(wire) \in Frame
    BY DEF WireInv
<1>4. CASE Bridge!HandleStateChanged
    <2>1. PICK d, x : /\ wire # << >> /\ Head(wire).tag = "ev" /\ wire' = Tail(wire) /\ x = Head(wire)
                      /\ entityCache' = [entityCache EXCEPT ![x.e] = x.s]
                      /\ UNCHANGED <<ha, link, synced, on>>
        BY <1>4 DEF Bridge!HandleStateChanged, Bridge!outside
    <2>2. x.e \in Routed /\ x.s \in Bridge!HaValues /\ x.tag = "ev"
        BY <2>1, <1>3 DEF Frame
    <2>3. entityCache \in [Routed -> Bridge!HaValues]
        BY DEF WireInv
    <2>4. /\ entityCache' \in [Routed -> Bridge!HaValues] /\ entityCache'[x.e] = x.s
          /\ \A e \in Routed : e # x.e => entityCache'[e] = entityCache[e]
        BY <2>1, <2>2, <2>3
    <2>5. \A e \in Routed : IF Tells(x, e) THEN entityCache'[e] = Said(x, e) ELSE entityCache'[e] = entityCache[e]
        BY <2>2, <2>4 DEF Tells, Said
    <2>6. synced => on
        BY DEF WireInv
    <2> QED BY <2>1, <2>4, <2>5, <2>6, TakeKeepsWire
<1>5. CASE Bridge!HandleSnapshot
    <2>1. PICK x : /\ wire # << >> /\ Head(wire).tag = "snap" /\ wire' = Tail(wire) /\ x = Head(wire)
                   /\ entityCache' = x.states /\ UNCHANGED <<ha, link>> /\ synced' = TRUE /\ on'
        BY <1>5 DEF Bridge!HandleSnapshot, Bridge!SnapshotCache, Bridge!outside
    <2>2. x.states \in [Routed -> Bridge!HaValues] /\ x.tag = "snap"
        BY <2>1, <1>3 DEF Frame
    <2>3. \A e \in Routed : Tells(x, e) /\ entityCache'[e] = Said(x, e)
        BY <2>1, <2>2 DEF Tells, Said
    <2> QED BY <2>1, <2>2, <2>3, TakeKeepsWire
<1>6. CASE Bridge!Sweep \/ Bridge!StartBridge \/ Bridge!Tick \/ UNCHANGED bridgeState
    BY <1>1, <1>6 DEF Bridge!Sweep, Bridge!StartBridge, Bridge!Tick, Bridge!outside, bridgeState
<1>7. CASE Bridge!StopBridge
    BY <1>7 DEF Bridge!StopBridge, WireInv
<1>8. CASE Bridge!Unheard
    <2>1. wire # << >> /\ wire' = Tail(wire) /\ UNCHANGED <<ha, link, entityCache, synced, on>> /\ ~on
        BY <1>8 DEF Bridge!Unheard, Bridge!outside
    <2>2. ~synced'
        BY <2>1 DEF WireInv
    <2>3. entityCache' \in [Routed -> Bridge!HaValues]
        BY <2>1 DEF WireInv
    <2> QED BY <2>1, <2>2, <2>3, TakeKeepsWire
<1>9. CASE Bridge!Drop \/ Bridge!Restart
    <2>1. /\ wire' = << >> /\ synced' = FALSE /\ UNCHANGED ha /\ link' = "down"
          /\ UNCHANGED entityCache \/ entityCache' = [e \in Routed |-> Bridge!Absent]
        BY <1>9 DEF Bridge!Drop, Bridge!Restart
    <2>2. entityCache' \in [Routed -> Bridge!HaValues]
        BY <2>1 DEF WireInv, Bridge!HaValues
    <2> QED BY <2>1, <2>2, CutKeepsWire
<1>10. CASE Bridge!Advance
    BY <1>10, AdvanceKeepsWire DEF Bridge!Advance
<1>11. ASSUME NEW e \in Routed, NEW v \in Bridge!HaValues, Bridge!Change(e, v) PROVE WireInv' /\ synced' \in BOOLEAN
    BY <1>11, ChangeKeepsWire DEF Bridge!Change
<1> QED BY <1>4, <1>5, <1>6, <1>7, <1>8, <1>9, <1>10, <1>11 DEF Bridge!Next

-----------------------------------------------------------------------------
(* The bridge: routes and rows.                                             *)

Sample == {Bridge!Null, Bridge!Bool(1)} \cup {Bridge!Num(n) : n \in Numbers}
Route == [has : BOOLEAN, last : Sample, checked : BOOLEAN, ema : Sample, emitAt : Int]
SignalRow == [v : Sample, at : Int]

\* Rows are stored in the order of their times, none later than now.
InTimeOrder(rws, now) ==
    /\ \A i \in 1 .. Len(rws) : rws[i].at <= now
    /\ \A i \in 1 .. Len(rws) : \A j \in i .. Len(rws) : rws[i].at <= rws[j].at

\* A route that has a last value has it from the last row that is stored.
Agrees(r, rws) == r.has /\ rws # << >> => rws[Len(rws)].v = r.last

\* The last value of the route of e stands for state s.
StandsFor(e, r, s) == r.has /\ Bridge!InBand(e, Bridge!NormalizeState(s), r.last)

RowInv ==
    /\ spec \in [Routed -> Bridge!Classes] /\ haClock \in Int
    /\ route \in [Routed -> Route] /\ rowsOf \in [Routed -> Seq(SignalRow)]
    /\ \A e \in Routed : InTimeOrder(rowsOf[e], haClock) /\ Agrees(route[e], rowsOf[e])
    /\ synced => \A e \in Routed \ (missed \cup vanished) : StandsFor(e, route[e], entityCache[e])

LEMMA Samples ==
    ASSUME NEW v \in Sample
    PROVE  v.n \in Int /\ (v.k = "num" => v \in {Bridge!Num(n) : n \in Numbers})
BY HomeAssumption DEF Sample, Bridge!Null, Bridge!Bool, Bridge!Num

LEMMA NormalIsSample ==
    ASSUME NEW s \in Bridge!HaValues
    PROVE  Bridge!NormalizeState(s) \in Sample
BY DEF Bridge!HaValues, Bridge!NormalizeState, Sample, Bridge!Unavailable, Bridge!Absent

\* Retention keeps exactly the rows that are recent, in order, the last one with them.
LEMMA RecentRows ==
    ASSUME NEW rws \in Seq(SignalRow), NEW now \in Int, InTimeOrder(rws, now), NEW cutoff \in Int
    PROVE  \E n \in 0 .. Len(rws) :
              /\ Bridge!Recent(rws, cutoff) = SubSeq(rws, n + 1, Len(rws))
              /\ \A i \in 1 .. n : rws[i].at < cutoff
              /\ \A i \in n + 1 .. Len(rws) : rws[i].at >= cutoff
<1> DEFINE P(n) == /\ \A i \in 1 .. n : rws[i].at < cutoff
                   /\ \A i \in n + 1 .. Len(rws) : rws[i].at >= cutoff
           S == {n \in 0 .. Len(rws) : \A i \in 1 .. n : rws[i].at < cutoff}
<1>1. Len(rws) \in Nat /\ \A i \in 1 .. Len(rws) : rws[i].at \in Int
    <2>1. Len(rws) \in Nat /\ \A i \in 1 .. Len(rws) : rws[i] \in SignalRow
        OBVIOUS
    <2> QED BY <2>1 DEF SignalRow
<1>2. S \subseteq Nat /\ 0 \in S /\ \A x \in S : x <= Len(rws)
    BY <1>1
<1>3. PICK n \in S : \A y \in S : y <= n
    <2> HIDE DEF S
    <2> QED BY <1>1, <1>2, GreatestExists
<1>4. n \in 0 .. Len(rws) /\ \A i \in 1 .. n : rws[i].at < cutoff
    OBVIOUS
<1>5. ASSUME NEW i \in n + 1 .. Len(rws) PROVE rws[i].at >= cutoff
    <2>1. n + 1 \in 1 .. Len(rws) /\ n + 1 \in 0 .. Len(rws) /\ ~(n + 1 <= n)
        BY <1>1, <1>4
    <2>2. n + 1 \notin S
        BY <2>1, <1>3
    <2>3. ~(rws[n + 1].at < cutoff)
        <3>1. \A k \in 1 .. n + 1 : k \in 1 .. n \/ k = n + 1
            BY <1>4
        <3> QED BY <3>1, <2>1, <2>2, <1>4
    <2>4. rws[n + 1].at <= rws[i].at /\ i \in 1 .. Len(rws)
        BY <2>1, <1>4 DEF InTimeOrder
    <2> QED BY <2>1, <2>3, <2>4, <1>1
<1>6. P(n)
    BY <1>4, <1>5
<1> DEFINE m == CHOOSE k \in 0 .. Len(rws) : P(k)
<1>7. m \in 0 .. Len(rws) /\ P(m)
    <2> HIDE DEF P
    <2> QED BY <1>4, <1>6
<1>8. Bridge!Recent(rws, cutoff) = SubSeq(rws, m + 1, Len(rws))
    BY DEF Bridge!Recent
<1> QED BY <1>7, <1>8

\* What is kept is in order, and its last row is the last one there was.
LEMMA RecentKeepsOrder ==
    ASSUME NEW rws \in Seq(SignalRow), NEW now \in Int, InTimeOrder(rws, now), NEW cutoff \in Int,
           NEW r, Agrees(r, rws)
    PROVE  LET q == Bridge!Recent(rws, cutoff)
           IN  q \in Seq(SignalRow) /\ InTimeOrder(q, now) /\ Agrees(r, q)
<1>1. PICK n \in 0 .. Len(rws) : Bridge!Recent(rws, cutoff) = SubSeq(rws, n + 1, Len(rws))
    BY RecentRows
<1> DEFINE q == SubSeq(rws, n + 1, Len(rws))
<1>2. Len(rws) \in Nat /\ n \in Nat /\ n <= Len(rws)
    OBVIOUS
<1>3. /\ q \in Seq(SignalRow) /\ Len(q) = Len(rws) - n
      /\ \A i \in 1 .. Len(rws) - n : q[i] = rws[n + i]
    <2>1. \A i \in n + 1 .. Len(rws) : rws[i] \in SignalRow
        BY <1>2
    <2>2. IF n + 1 <= Len(rws) THEN Len(q) = Len(rws) - (n + 1) + 1 ELSE Len(q) = 0
        BY <1>2, <2>1, SubSeqProperties
    <2>3. q \in Seq(SignalRow)
        BY <1>2, <2>1, SubSeqProperties
    <2>4. \A i \in 1 .. Len(rws) - (n + 1) + 1 : q[i] = rws[(n + 1) + i - 1]
        BY <1>2, <2>1, SubSeqProperties
    <2> QED BY <1>2, <2>2, <2>3, <2>4
<1>4. ASSUME NEW i \in 1 .. Len(q) PROVE n + i \in 1 .. Len(rws) /\ q[i] = rws[n + i]
    BY <1>2, <1>3, SMTT(40)
<1> HIDE DEF q
<1>5. InTimeOrder(q, now)
    <2>1. ASSUME NEW i \in 1 .. Len(q), NEW j \in i .. Len(q) PROVE q[i].at <= q[j].at
        <3>1. j \in 1 .. Len(q) /\ n + j \in n + i .. Len(rws)
            BY <1>2, <1>3
        <3> QED BY <3>1, <1>4 DEF InTimeOrder
    <2> QED BY <2>1, <1>4 DEF InTimeOrder
<1>6. Agrees(r, q)
    <2>1. CASE q # << >>
        <3>1. Len(q) \in 1 .. Len(q) /\ n + Len(q) = Len(rws) /\ rws # << >>
            BY <2>1, <1>2, <1>3
        <3>2. q[Len(q)] = rws[Len(rws)]
            BY <3>1, <1>4
        <3> QED BY <3>1, <3>2 DEF Agrees
    <2> QED BY <2>1 DEF Agrees
<1> QED BY <1>1, <1>3, <1>5, <1>6 DEF q

\* A row is appended, with the value its route now has.
LEMMA AppendKeepsOrder ==
    ASSUME NEW rws \in Seq(SignalRow), NEW now \in Int, InTimeOrder(rws, now), NEW v \in Sample,
           NEW r, r.last = v
    PROVE  LET q == Append(rws, [v |-> v, at |-> now])
           IN  q \in Seq(SignalRow) /\ InTimeOrder(q, now) /\ Agrees(r, q)
<1> DEFINE row == [v |-> v, at |-> now]
           q == Append(rws, row)
<1>1. row \in SignalRow /\ row.v = v /\ row.at = now
    BY DEF SignalRow
<1> HIDE DEF row
<1>2. /\ Len(rws) \in Nat /\ q \in Seq(SignalRow) /\ Len(q) = Len(rws) + 1 /\ q[Len(rws) + 1] = row
      /\ \A i \in 1 .. Len(rws) : q[i] = rws[i]
    BY <1>1
<1> HIDE DEF q
<1>3. \A i \in 1 .. Len(q) : q[i].at \in Int
    <2>1. \A i \in 1 .. Len(q) : q[i] \in SignalRow
        BY <1>2
    <2> QED BY <2>1 DEF SignalRow
<1>4. \A i \in 1 .. Len(q) : q[i].at <= now
    <2> TAKE i \in 1 .. Len(q)
    <2>1. CASE i \in 1 .. Len(rws)
        BY <2>1, <1>2 DEF InTimeOrder
    <2>2. CASE i = Len(rws) + 1
        BY <2>2, <1>1, <1>2
    <2> QED BY <2>1, <2>2, <1>2
<1>5. ASSUME NEW i \in 1 .. Len(q), NEW j \in i .. Len(q) PROVE q[i].at <= q[j].at
    <2>1. CASE j = Len(rws) + 1
        BY <2>1, <1>1, <1>2, <1>4
    <2>2. CASE j # Len(rws) + 1
        <3>1. i \in 1 .. Len(rws) /\ j \in i .. Len(rws) /\ j \in 1 .. Len(rws)
            BY <2>2, <1>2
        <3> QED BY <3>1, <1>2 DEF InTimeOrder
    <2> QED BY <2>1, <2>2
<1>6. Agrees(r, q)
    BY <1>1, <1>2 DEF Agrees
<1> QED BY <1>2, <1>4, <1>5, <1>6 DEF InTimeOrder, q, row

\* Seeding the average and remembering the baseline leave what was emitted alone.
LEMMA SeedKeepsRoute ==
    ASSUME NEW e \in Routed, NEW r \in Route, NEW v \in Sample, NEW when \in Int
    PROVE  LET q == Bridge!SeedEma(e, r, v, when)
           IN  q \in Route /\ q.has = r.has /\ q.last = r.last
<1> DEFINE x == IF v.k = "num" THEN v ELSE Bridge!Null
<1>1. x \in Sample
    BY DEF Sample
<1> HIDE DEF x
<1>2. [r EXCEPT !.ema = x, !.emitAt = when] \in Route
    BY <1>1 DEF Route
<1>3. [r EXCEPT !.ema = x, !.emitAt = when].has = r.has /\ [r EXCEPT !.ema = x, !.emitAt = when].last = r.last
    BY DEF Route
<1> QED BY <1>2, <1>3 DEF Bridge!SeedEma, x

LEMMA EmitSetsRoute ==
    ASSUME NEW r \in Route, NEW v \in Sample
    PROVE  LET q == Bridge!Emitted(r, v) IN q \in Route /\ q.has /\ q.last = v
BY DEF Route, Bridge!Emitted

LEMMA BaselineIsLastRow ==
    ASSUME RowInv, NEW e \in Routed
    PROVE  LET q == Bridge!Baseline(e)
           IN  q \in Route /\ Agrees(q, rowsOf[e])
<1> DEFINE r == route[e]
           rws == rowsOf[e]
           top_ == rws[Len(rws)]
<1>1. r \in Route /\ rws \in Seq(SignalRow) /\ Agrees(r, rws)
    BY DEF RowInv
<1>2. rws # << >> => top_ \in SignalRow
    BY <1>1
<1> HIDE DEF r, rws
<1>3. rws # << >> => top_.v \in Sample /\ top_.at \in Int
    BY <1>2 DEF SignalRow
<1>4. CASE r.has \/ r.checked
    <2>1. Bridge!Baseline(e) = r
        BY <1>4 DEF Bridge!Baseline, r
    <2> QED BY <2>1, <1>1 DEF rws
<1>5. CASE ~(r.has \/ r.checked) /\ rws = << >>
    <2>1. Bridge!Baseline(e) = [r EXCEPT !.checked = TRUE]
        BY <1>5 DEF Bridge!Baseline, r, rws
    <2>2. [r EXCEPT !.checked = TRUE] \in Route
        BY <1>1 DEF Route
    <2> QED BY <2>1, <2>2, <1>5 DEF Agrees, rws
<1>6. CASE ~(r.has \/ r.checked) /\ rws # << >>
    <2> DEFINE x == [r EXCEPT !.checked = TRUE, !.has = TRUE, !.last = top_.v]
    <2>1. Bridge!Baseline(e) = Bridge!SeedEma(e, x, top_.v, top_.at)
        BY <1>6 DEF Bridge!Baseline, r, rws
    <2>2. x \in Route /\ x.last = top_.v
        BY <1>1, <1>3, <1>6 DEF Route
    <2> HIDE DEF x
    <2>3. Bridge!Baseline(e) \in Route /\ Bridge!Baseline(e).last = top_.v
        BY <2>1, <2>2, <1>3, <1>6, SeedKeepsRoute
    <2> QED BY <2>3 DEF Agrees, rws
<1> QED BY <1>4, <1>5, <1>6

\* What becomes of a sample: the route keeps what was emitted last, and either the value
\* to emit stands for the sample, or the one emitted last does.
LEMMA DebounceIsSound ==
    ASSUME RowInv, NEW e \in Routed, NEW v \in Sample, NEW d \in Bridge!Debounced(e, v)
    PROVE  /\ d.r \in Route /\ d.r.has = route[e].has /\ d.r.last = route[e].last
           /\ d.emit => d.value \in Sample /\ Bridge!InBand(e, v, d.value)
           /\ ~d.emit => route[e].has /\ Bridge!InBand(e, v, route[e].last)
<1> DEFINE r == route[e]
<1>1. r \in Route /\ spec[e] \in Bridge!Classes /\ haClock \in Int
    BY DEF RowInv
<1>2. r.last \in Sample /\ r.ema \in Sample /\ r.emitAt \in Int
    BY <1>1 DEF Route
<1>3. v.n \in Int /\ r.last.n \in Int
    BY <1>2, Samples
<1>4. Bridge!InBand(e, v, v)
    BY DEF Bridge!InBand
<1>5. CASE ~r.has \/ Bridge!TypeChanged(v, r.last)
    <2> DEFINE q == Bridge!SeedEma(e, r, v, haClock)
    <2>1. Bridge!Debounced(e, v) = {[emit |-> TRUE, value |-> v, r |-> q]}
        BY <1>5 DEF Bridge!Debounced
    <2>2. q \in Route /\ q.has = r.has /\ q.last = r.last
        BY <1>1, SeedKeepsRoute
    <2> QED BY <2>1, <2>2, <1>4
<1>6. CASE r.has /\ ~Bridge!TypeChanged(v, r.last)
    <2>0. v.k = r.last.k
        BY <1>6 DEF Bridge!TypeChanged
    <2>1. CASE spec[e] = "deadband" /\ v.k = "num"
        <3>1. Bridge!Abs(v.n - r.last.n) \in Int
            BY <1>3 DEF Bridge!Abs
        <3>2. CASE Bridge!Abs(v.n - r.last.n) >= Deadband
            <4>1. Bridge!Debounced(e, v) = {[emit |-> TRUE, value |-> v, r |-> r]}
                BY <1>6, <2>1, <3>2 DEF Bridge!Debounced
            <4>2. d.emit = TRUE /\ d.value = v /\ d.r = r
                BY <4>1
            <4> QED BY <4>2, <1>1, <1>4
        <3>3. CASE ~(Bridge!Abs(v.n - r.last.n) >= Deadband)
            <4>1. Bridge!Debounced(e, v) = {[emit |-> FALSE, value |-> v, r |-> r]}
                BY <1>6, <2>1, <3>3 DEF Bridge!Debounced
            <4>2. d.emit = FALSE /\ d.r = r
                BY <4>1
            <4>3. Bridge!InBand(e, v, r.last)
                BY <2>0, <2>1, <3>1, <3>3, HomeAssumption DEF Bridge!InBand
            <4> QED BY <4>2, <4>3, <1>1, <1>6
        <3> QED BY <3>2, <3>3
    <2>2. CASE spec[e] = "throttle-ema" /\ v.k = "num"
        <3>1. \E m \in Bridge!Between(r.ema, v) :
                 \/ d = [emit |-> TRUE, value |-> m, r |-> [[r EXCEPT !.ema = m] EXCEPT !.emitAt = haClock]]
                 \/ d = [emit |-> FALSE, value |-> v, r |-> [r EXCEPT !.ema = m]]
            BY <1>6, <2>2 DEF Bridge!Debounced
        <3>2. PICK m \in Bridge!Between(r.ema, v) :
                 \/ d = [emit |-> TRUE, value |-> m, r |-> [[r EXCEPT !.ema = m] EXCEPT !.emitAt = haClock]]
                 \/ d = [emit |-> FALSE, value |-> v, r |-> [r EXCEPT !.ema = m]]
            BY <3>1
        <3>3. m \in Sample /\ m.k = "num"
            BY <2>2 DEF Bridge!Between, Sample, Bridge!Num
        <3>4. Bridge!InBand(e, v, m) /\ Bridge!InBand(e, v, r.last)
            BY <2>0, <2>2, <3>3 DEF Bridge!InBand
        <3>5. /\ [r EXCEPT !.ema = m] \in Route /\ [[r EXCEPT !.ema = m] EXCEPT !.emitAt = haClock] \in Route
              /\ [r EXCEPT !.ema = m].has = r.has /\ [[r EXCEPT !.ema = m] EXCEPT !.emitAt = haClock].has = r.has
              /\ [r EXCEPT !.ema = m].last = r.last /\ [[r EXCEPT !.ema = m] EXCEPT !.emitAt = haClock].last = r.last
            BY <1>1, <3>3 DEF Route
        <3>6. \/ d.emit = TRUE /\ d.value = m /\ d.r = [[r EXCEPT !.ema = m] EXCEPT !.emitAt = haClock]
              \/ d.emit = FALSE /\ d.r = [r EXCEPT !.ema = m]
            BY <3>2
        <3> QED BY <3>3, <3>4, <3>5, <3>6, <1>6
    <2>3. CASE ~(spec[e] = "deadband" /\ v.k = "num") /\ ~(spec[e] = "throttle-ema" /\ v.k = "num")
        <3>1. CASE v # r.last
            <4>1. Bridge!Debounced(e, v) = {[emit |-> TRUE, value |-> v, r |-> r]}
                BY <1>6, <2>3, <3>1 DEF Bridge!Debounced
            <4>2. d.emit = TRUE /\ d.value = v /\ d.r = r
                BY <4>1
            <4> QED BY <4>2, <1>1, <1>4
        <3>2. CASE v = r.last
            <4>1. Bridge!Debounced(e, v) = {[emit |-> FALSE, value |-> v, r |-> r]}
                BY <1>6, <2>3, <3>2 DEF Bridge!Debounced
            <4>2. Bridge!InBand(e, v, r.last)
                BY <3>2, <1>4
            <4>3. d.emit = FALSE /\ d.r = r
                BY <4>1
            <4> QED BY <4>2, <4>3, <1>1, <1>6
        <3> QED BY <3>1, <3>2
    <2> QED BY <2>1, <2>2, <2>3
<1> QED BY <1>5, <1>6

\* A step keeps the routes and rows when it does so for every entity.
LEMMA EachKeepsRows ==
    ASSUME RowInv, UNCHANGED spec, haClock' \in Int,
           route' \in [Routed -> Route], rowsOf' \in [Routed -> Seq(SignalRow)],
           \A e \in Routed : InTimeOrder(rowsOf'[e], haClock') /\ Agrees(route'[e], rowsOf'[e]),
           synced' => \A e \in Routed \ (missed' \cup vanished') : StandsFor(e, route'[e], entityCache'[e])
    PROVE  RowInv'
BY DEF RowInv, StandsFor, Bridge!InBand

LEMMA ChangedKeepsRows == WireInv /\ RowInv /\ Bridge!HandleStateChanged => RowInv'
<1> SUFFICES ASSUME WireInv, RowInv, Bridge!HandleStateChanged PROVE RowInv'
    OBVIOUS
<1>1. PICK x : wire # << >> /\ x = Head(wire) /\ x.tag = "ev"
    BY DEF Bridge!HandleStateChanged
<1>2. x \in Frame
    BY <1>1 DEF WireInv
<1>3. x.e \in Routed /\ x.s \in Bridge!HaValues
    BY <1>1, <1>2 DEF Frame
<1>4. PICK e \in Routed, s \in Bridge!HaValues : e = x.e /\ s = x.s
    BY <1>3
<1>5. PICK v \in Sample : v = Bridge!NormalizeState(s)
    BY NormalIsSample
<1>6. PICK d \in Bridge!Debounced(e, v) :
             /\ entityCache' = [entityCache EXCEPT ![e] = s]
             /\ vanished' = vanished \ {e}
             /\ \/ /\ d.emit
                   /\ rowsOf' = [rowsOf EXCEPT ![e] = Append(@, Bridge!RowAt(d.value))]
                   /\ route' = [route EXCEPT ![e] = Bridge!Emitted(d.r, d.value)]
                   /\ missed' = missed \ {e}
                \/ /\ d.emit
                   /\ route' = [route EXCEPT ![e] = d.r]
                   /\ missed' = missed \cup {e}
                   /\ UNCHANGED rowsOf
                \/ /\ ~d.emit
                   /\ route' = [route EXCEPT ![e] = d.r]
                   /\ UNCHANGED <<rowsOf, missed>>
    BY <1>1, <1>4, <1>5 DEF Bridge!HandleStateChanged
<1>7. UNCHANGED <<spec, haClock, synced>>
    BY DEF Bridge!HandleStateChanged, Bridge!outside
<1>8. /\ d.r \in Route /\ d.r.has = route[e].has /\ d.r.last = route[e].last
      /\ d.emit => d.value \in Sample /\ Bridge!InBand(e, v, d.value)
      /\ ~d.emit => route[e].has /\ Bridge!InBand(e, v, route[e].last)
    BY DebounceIsSound
<1>9. /\ entityCache \in [Routed -> Bridge!HaValues] /\ haClock \in Int
      /\ route \in [Routed -> Route] /\ rowsOf \in [Routed -> Seq(SignalRow)]
      /\ \A b \in Routed : InTimeOrder(rowsOf[b], haClock) /\ Agrees(route[b], rowsOf[b])
      /\ synced => \A b \in Routed \ (missed \cup vanished) : StandsFor(b, route[b], entityCache[b])
    BY DEF WireInv, RowInv
<1>10. entityCache'[e] = s /\ \A b \in Routed : b # e => entityCache'[b] = entityCache[b]
    BY <1>6, <1>9
<1>11. ASSUME NEW q \in Route, route' = [route EXCEPT ![e] = q], NEW p \in Seq(SignalRow),
              rowsOf' = [rowsOf EXCEPT ![e] = p], InTimeOrder(p, haClock), Agrees(q, p),
              e \in missed' \/ StandsFor(e, q, s), missed \ {e} \subseteq missed'
       PROVE  RowInv'
    <2>1. /\ route' \in [Routed -> Route] /\ rowsOf' \in [Routed -> Seq(SignalRow)]
          /\ route'[e] = q /\ rowsOf'[e] = p
          /\ \A b \in Routed : b # e => route'[b] = route[b] /\ rowsOf'[b] = rowsOf[b]
        BY <1>9, <1>11
    <2>2. ASSUME NEW b \in Routed PROVE InTimeOrder(rowsOf'[b], haClock') /\ Agrees(route'[b], rowsOf'[b])
        BY <2>1, <1>7, <1>9, <1>11
    <2>3. ASSUME synced', NEW b \in Routed \ (missed' \cup vanished') PROVE StandsFor(b, route'[b], entityCache'[b])
        <3>1. CASE b = e
            BY <3>1, <2>1, <2>3, <1>10, <1>11
        <3>2. CASE b # e
            <4>1. b \in Routed \ (missed \cup vanished)
                BY <3>2, <2>3, <1>6, <1>11
            <4> QED BY <4>1, <3>2, <2>1, <2>3, <1>7, <1>9, <1>10
        <3> QED BY <3>1, <3>2
    <2> HIDE <1>6, <1>11
    <2> QED BY <2>1, <2>2, <2>3, <1>7, <1>9, EachKeepsRows
<1>12. CASE /\ d.emit
            /\ rowsOf' = [rowsOf EXCEPT ![e] = Append(@, Bridge!RowAt(d.value))]
            /\ route' = [route EXCEPT ![e] = Bridge!Emitted(d.r, d.value)]
            /\ missed' = missed \ {e}
    <2>1. PICK q : q = Bridge!Emitted(d.r, d.value)
        OBVIOUS
    <2>2. q \in Route /\ q.has /\ q.last = d.value
        BY <2>1, <1>8, <1>12, EmitSetsRoute
    <2>3. PICK p : p = Append(rowsOf[e], [v |-> d.value, at |-> haClock])
        OBVIOUS
    <2>4. p \in Seq(SignalRow) /\ InTimeOrder(p, haClock) /\ Agrees(q, p)
        BY <2>2, <2>3, <1>8, <1>9, <1>12, AppendKeepsOrder
    <2>5. StandsFor(e, q, s)
        BY <2>2, <1>5, <1>8, <1>12 DEF StandsFor
    <2>6. rowsOf' = [rowsOf EXCEPT ![e] = p] /\ route' = [route EXCEPT ![e] = q]
        BY <2>1, <2>3, <1>9, <1>12 DEF Bridge!RowAt
    <2> QED BY <2>2, <2>4, <2>5, <2>6, <1>11, <1>12
<1>13. CASE route' = [route EXCEPT ![e] = d.r] /\ UNCHANGED rowsOf /\ (e \in missed' \/ ~d.emit) /\ missed \subseteq missed'
    <2>1. Agrees(d.r, rowsOf[e])
        BY <1>8, <1>9 DEF Agrees
    <2>2. ~d.emit => StandsFor(e, d.r, s)
        BY <1>5, <1>8 DEF StandsFor
    <2>3. rowsOf' = [rowsOf EXCEPT ![e] = rowsOf[e]] /\ rowsOf[e] \in Seq(SignalRow) /\ InTimeOrder(rowsOf[e], haClock)
        BY <1>9, <1>13
    <2> QED BY <2>1, <2>2, <2>3, <1>8, <1>11, <1>13
<1> QED BY <1>6, <1>12, <1>13

LEMMA SnapshotKeepsRows == WireInv /\ RowInv /\ Bridge!HandleSnapshot => RowInv'
<1> SUFFICES ASSUME WireInv, RowInv, Bridge!HandleSnapshot PROVE RowInv'
    OBVIOUS
<1>1. wire # << >> /\ Head(wire).tag = "snap" /\ UNCHANGED <<spec, haClock>>
    BY DEF Bridge!HandleSnapshot, Bridge!outside
<1>2. Head(wire) \in Frame
    BY <1>1 DEF WireInv
<1>3. PICK states \in [Routed -> Bridge!HaValues] : states = Head(wire).states
    BY <1>1, <1>2 DEF Frame
<1> DEFINE value(e) == Bridge!NormalizeState(states[e])
           base(e) == Bridge!Baseline(e)
           seeded(e) == Bridge!SeedEma(e, base(e), value(e), haClock)
<1> DEFINE here == {e \in Routed : states[e] # Bridge!Absent}
           new == {e \in here : ~(base(e).has /\ value(e) = base(e).last)}
<1>4. PICK done \in SUBSET here :
           /\ entityCache' = states
           /\ rowsOf' = [e \in Routed |-> IF e \in done \cap new THEN Append(rowsOf[e], Bridge!RowAt(value(e))) ELSE rowsOf[e]]
           /\ \E failed \in (IF done = here THEN {"none"} ELSE new \ done) :
                 route' = [e \in Routed |->
                          IF e \in done THEN (IF e \in new THEN Bridge!Emitted(seeded(e), value(e)) ELSE base(e))
                          ELSE IF e = failed THEN seeded(e) ELSE route[e]]
           /\ missed' = (missed \ done) \cup (here \ done)
           /\ vanished' = (vanished \ here) \cup (Routed \ here)
    BY <1>3 DEF Bridge!HandleSnapshot, Bridge!SnapshotCache
<1> HIDE DEF here, new
<1>5. PICK failed :
           route' = [e \in Routed |->
                          IF e \in done THEN (IF e \in new THEN Bridge!Emitted(seeded(e), value(e)) ELSE base(e))
                          ELSE IF e = failed THEN seeded(e) ELSE route[e]]
    BY <1>4
<1>6. \A e \in done \ new : base(e).has /\ value(e) = base(e).last
    BY <1>4 DEF here, new
<1>7. /\ haClock \in Int /\ route \in [Routed -> Route] /\ rowsOf \in [Routed -> Seq(SignalRow)]
      /\ \A e \in Routed : InTimeOrder(rowsOf[e], haClock) /\ Agrees(route[e], rowsOf[e])
    BY DEF RowInv
<1>8. ASSUME NEW e \in Routed
      PROVE  /\ route'[e] \in Route /\ rowsOf'[e] \in Seq(SignalRow) /\ InTimeOrder(rowsOf'[e], haClock)
             /\ Agrees(route'[e], rowsOf'[e])
             /\ e \in done => StandsFor(e, route'[e], states[e])
    <2>1. PICK v \in Sample : v = value(e)
        BY NormalIsSample
    <2>2. PICK b \in Route : b = base(e) /\ Agrees(b, rowsOf[e])
        BY BaselineIsLastRow
    <2>3. PICK q \in Route : q = seeded(e) /\ q.has = b.has /\ q.last = b.last
        BY <2>1, <2>2, <1>7, SeedKeepsRoute
    <2>4. Agrees(q, rowsOf[e])
        BY <2>2, <2>3 DEF Agrees
    <2>5. CASE e \in done \cap new
        <3>1. route'[e] = Bridge!Emitted(q, v) /\ rowsOf'[e] = Append(rowsOf[e], [v |-> v, at |-> haClock])
            BY <2>1, <2>3, <2>5, <1>4, <1>5 DEF Bridge!RowAt
        <3>2. route'[e] \in Route /\ route'[e].has /\ route'[e].last = v
            BY <3>1, EmitSetsRoute
        <3>3. rowsOf'[e] \in Seq(SignalRow) /\ InTimeOrder(rowsOf'[e], haClock) /\ Agrees(route'[e], rowsOf'[e])
            BY <3>1, <3>2, <1>7, AppendKeepsOrder
        <3>4. StandsFor(e, route'[e], states[e])
            BY <3>2, <2>1 DEF StandsFor, Bridge!InBand
        <3> QED BY <3>2, <3>3, <3>4
    <2>6. CASE e \in done /\ e \notin new
        <3>1. route'[e] = b /\ rowsOf'[e] = rowsOf[e]
            BY <2>2, <2>6, <1>4, <1>5
        <3>2. b.has /\ v = b.last
            BY <2>1, <2>2, <2>6, <1>6
        <3>3. StandsFor(e, b, states[e])
            BY <3>2, <2>1 DEF StandsFor, Bridge!InBand
        <3> QED BY <3>1, <3>3, <2>2, <1>7
    <2>7. CASE e \notin done
        <3>1. rowsOf'[e] = rowsOf[e] /\ (route'[e] = q \/ route'[e] = route[e])
            BY <2>3, <2>7, <1>4, <1>5
        <3> QED BY <3>1, <2>4, <2>7, <1>7
    <2> QED BY <2>5, <2>6, <2>7
<1>9. route' \in [Routed -> Route] /\ rowsOf' \in [Routed -> Seq(SignalRow)]
    <2>1. route' = [e \in Routed |-> route'[e]] /\ rowsOf' = [e \in Routed |-> rowsOf'[e]]
        BY <1>4, <1>5
    <2> QED BY <2>1, <1>8
<1>10. \A e \in Routed \ (missed' \cup vanished') : e \in done
    BY <1>4
<1>11. entityCache' = states
    BY <1>4
<1> HIDE DEF value, base, seeded
<1> QED BY <1>1, <1>7, <1>8, <1>9, <1>10, <1>11, EachKeepsRows

LEMMA SweepKeepsRows ==
    ASSUME RowInv, UNCHANGED <<spec, haClock, route, synced, missed, vanished, entityCache>>,
           rowsOf' = [e \in Routed |-> Bridge!Recent(rowsOf[e], haClock - Retention)]
    PROVE  RowInv'
<1>1. /\ haClock \in Int /\ haClock - Retention \in Int
      /\ route \in [Routed -> Route] /\ rowsOf \in [Routed -> Seq(SignalRow)]
      /\ synced => \A e \in Routed \ (missed \cup vanished) : StandsFor(e, route[e], entityCache[e])
    BY HomeAssumption DEF RowInv
<1>2. ASSUME NEW e \in Routed
      PROVE  LET q == Bridge!Recent(rowsOf[e], haClock - Retention)
             IN  q \in Seq(SignalRow) /\ InTimeOrder(q, haClock) /\ Agrees(route[e], q)
    <2>1. rowsOf[e] \in Seq(SignalRow) /\ InTimeOrder(rowsOf[e], haClock) /\ Agrees(route[e], rowsOf[e])
        BY DEF RowInv
    <2> QED BY <2>1, <1>1, RecentKeepsOrder
<1>3. \A e \in Routed : rowsOf'[e] = Bridge!Recent(rowsOf[e], haClock - Retention)
    OBVIOUS
<1>4. rowsOf' \in [Routed -> Seq(SignalRow)]
    BY <1>2
<1> QED BY <1>1, <1>2, <1>3, <1>4, EachKeepsRows

\* Time passes, the bridge stops, the connection changes: routes and rows stay.
LEMMA QuietKeepsRows ==
    ASSUME RowInv, UNCHANGED <<spec, rowsOf>>, haClock' \in Int, haClock <= haClock',
           route' \in [Routed -> Route], \A e \in Routed : route'[e] = route[e] \/ ~route'[e].has,
           ~synced' \/ UNCHANGED <<route, synced, missed, vanished, entityCache>>
    PROVE  RowInv'
<1>1. /\ haClock \in Int /\ rowsOf \in [Routed -> Seq(SignalRow)]
      /\ \A e \in Routed : InTimeOrder(rowsOf[e], haClock) /\ Agrees(route[e], rowsOf[e])
      /\ synced => \A e \in Routed \ (missed \cup vanished) : StandsFor(e, route[e], entityCache[e])
    BY DEF RowInv
<1>2. ASSUME NEW e \in Routed PROVE InTimeOrder(rowsOf[e], haClock')
    <2>1. \A i \in 1 .. Len(rowsOf[e]) : rowsOf[e][i] \in SignalRow
        BY <1>1
    <2>2. \A i \in 1 .. Len(rowsOf[e]) : rowsOf[e][i].at \in Int
        BY <2>1 DEF SignalRow
    <2> QED BY <2>2, <1>1 DEF InTimeOrder
<1>3. ASSUME NEW e \in Routed PROVE Agrees(route'[e], rowsOf[e])
    BY <1>1 DEF Agrees
<1> QED BY <1>1, <1>2, <1>3, EachKeepsRows

LEMMA StepKeepsRows == WireInv /\ RowInv /\ [Bridge!Next]_bridgeState => RowInv'
<1> SUFFICES ASSUME WireInv, RowInv, [Bridge!Next]_bridgeState PROVE RowInv'
    OBVIOUS
<1>1. haClock \in Int /\ route \in [Routed -> Route]
    BY DEF RowInv
<1>2. CASE Bridge!Sweep \/ Bridge!StartBridge
    <2>1. /\ UNCHANGED <<spec, haClock, route, synced, missed, vanished, entityCache>>
          /\ rowsOf' = [e \in Routed |-> Bridge!Recent(rowsOf[e], haClock - Retention)]
        BY <1>2 DEF Bridge!Sweep, Bridge!StartBridge, Bridge!outside
    <2> QED BY <2>1, SweepKeepsRows
<1>3. CASE Bridge!Restart
    <2>1. /\ UNCHANGED <<spec, rowsOf, haClock>> /\ synced' = FALSE
          /\ route' = [e \in Routed |-> Bridge!FreshRoute]
        BY <1>3 DEF Bridge!Restart
    <2>2. Bridge!FreshRoute \in Route /\ ~Bridge!FreshRoute.has
        BY DEF Bridge!FreshRoute, Route, Sample, Bridge!NoTime
    <2>3. route' \in [Routed -> Route] /\ \A e \in Routed : ~route'[e].has
        BY <2>1, <2>2
    <2> QED BY <2>1, <2>3, <1>1, QuietKeepsRows
<1>4. CASE /\ UNCHANGED <<spec, rowsOf, route>> /\ (haClock' = haClock \/ haClock' = haClock + 1)
           /\ ~synced' \/ UNCHANGED <<synced, missed, vanished, entityCache>>
    <2>1. haClock' \in Int /\ haClock <= haClock'
        BY <1>1, <1>4
    <2> QED BY <2>1, <1>1, <1>4, QuietKeepsRows
<1>5. CASE Bridge!StopBridge \/ Bridge!Unheard \/ Bridge!Advance \/ Bridge!Drop
    BY <1>4, <1>5 DEF Bridge!StopBridge, Bridge!Unheard, Bridge!Advance, Bridge!Drop, Bridge!outside
<1>6. CASE Bridge!Tick \/ (\E e \in Routed, v \in Bridge!HaValues : Bridge!Change(e, v)) \/ UNCHANGED bridgeState
    BY <1>4, <1>6 DEF Bridge!Tick, Bridge!Change, bridgeState
<1>7. CASE Bridge!HandleStateChanged
    BY <1>7, ChangedKeepsRows
<1>8. CASE Bridge!HandleSnapshot
    BY <1>8, SnapshotKeepsRows
<1> QED BY <1>2, <1>3, <1>5, <1>6, <1>7, <1>8 DEF Bridge!Next

LEMMA InitBridge == Init => WireInv /\ RowInv /\ synced \in BOOLEAN
<1> SUFFICES ASSUME Init PROVE WireInv /\ RowInv /\ synced \in BOOLEAN
    OBVIOUS
<1>1. /\ spec \in [Routed -> Bridge!Classes] /\ ha \in [Routed -> Bridge!HaValues]
      /\ link = "down" /\ wire = << >> /\ entityCache = [e \in Routed |-> Bridge!Absent]
      /\ route = [e \in Routed |-> Bridge!FreshRoute] /\ rowsOf = [e \in Routed |-> << >>]
      /\ haClock = 0 /\ synced = FALSE
    BY DEF Init, Bridge!Init
<1>2. /\ << >> \in Seq(Frame) /\ << >> \in Seq(SignalRow) /\ Len(<< >>) = 0
      /\ \A i \in 1 .. Len(<< >>) : FALSE
    OBVIOUS
<1>3. entityCache \in [Routed -> Bridge!HaValues]
    BY <1>1 DEF Bridge!HaValues
<1>4. WireInv
    BY <1>1, <1>2, <1>3 DEF WireInv
<1>5. Bridge!FreshRoute \in Route /\ ~Bridge!FreshRoute.has
    BY DEF Bridge!FreshRoute, Route, Sample, Bridge!NoTime
<1>6. \A e \in Routed : InTimeOrder(<< >>, haClock)
    BY <1>2 DEF InTimeOrder
<1>7. route \in [Routed -> Route] /\ rowsOf \in [Routed -> Seq(SignalRow)]
    BY <1>1, <1>2, <1>5
<1>8. \A e \in Routed : rowsOf[e] = << >> /\ Agrees(route[e], rowsOf[e])
    BY <1>1, <1>5 DEF Agrees
<1>9. RowInv
    BY <1>1, <1>6, <1>7, <1>8 DEF RowInv
<1> QED BY <1>1, <1>4, <1>9

\* Once a started bridge has handled a snapshot of this connection and nothing is on the
\* wire, its cache is Home Assistant's state and the last row of every routed entity stands
\* for it, within its debounce class: for any entities, numbers, deadband and retention,
\* any number of lost connections, restarts, failed appends and sweeps.
THEOREM RowsAreFollowed == Spec => []RowsFollowHome
<1> DEFINE Inv == WireInv /\ RowInv /\ synced \in BOOLEAN
<1>1. Init => Inv
    BY InitBridge
<1>2. Inv /\ [Next]_vars => Inv'
    BY ComponentSteps, StepKeepsWire, StepKeepsRows
<1>3. Inv => RowsFollowHome
    <2> SUFFICES ASSUME WireInv, RowInv, synced, wire = << >> PROVE Bridge!RowsFollowHome
        BY DEF RowsFollowHome, Bridge!RowsFollowHome
    <2>1. \A e \in Routed : Silent(wire, e)
        BY DEF Silent
    <2>2. entityCache \in [Routed -> Bridge!HaValues] /\ ha \in [Routed -> Bridge!HaValues]
          /\ \A e \in Routed : entityCache[e] = ha[e]
        BY <2>1 DEF WireInv
    <2>3. entityCache = ha
        BY <2>2
    <2>4. ASSUME NEW e \in Routed \ (missed \cup vanished)
          PROVE  /\ route[e].has /\ Bridge!InBand(e, Bridge!NormalizeState(ha[e]), route[e].last)
                 /\ rowsOf[e] # << >> => rowsOf[e][Len(rowsOf[e])].v = route[e].last
        <3>1. StandsFor(e, route[e], entityCache[e]) /\ Agrees(route[e], rowsOf[e])
            BY DEF RowInv
        <3> QED BY <3>1, <2>3 DEF StandsFor, Agrees
    <2> QED BY <2>3, <2>4 DEF Bridge!RowsFollowHome
<1> QED BY <1>1, <1>2, <1>3, PTL DEF Spec

===============================================================================
