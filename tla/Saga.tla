-------------------------------- MODULE Saga --------------------------------
(***************************************************************************)
(* Sagas (src/src/saga/index.ts, tailing.ts, sqlite-offset-store.ts): a     *)
(* stateless saga runs its handler on every matching event of a category;  *)
(* a stateful one has ordered steps, step i fed by category i, and a step  *)
(* counter per entity.  Each can follow live tails (one loop per step,      *)
(* concurrently) or make a batch run over the journal (one step after the  *)
(* other).  `at` is where the loop of a category stands: every await of the *)
(* code is a boundary between two steps.                                   *)
(***************************************************************************)
EXTENDS CategoryTail

CONSTANTS MaxRuns   \* bound: batch runs

VARIABLES kind,     \* "stateless" or "stateful", fixed at start
          mode,     \* "tail" or "batch", fixed at start
          at,       \* [category -> where its loop stands]
          held,     \* [category -> the record it is handling]
          offs,     \* [category -> [entity -> last sequence number handled]]
          step,     \* [entity -> step counter of the stateful saga]
          answered, \* history: events handed to execute, or found out of turn
          batch,    \* the batch run: the step it is at and the rows left of it
          runs      \* batch runs started

sagaVars == <<kind, mode, at, held, offs, step, answered, batch, runs>>
vars == <<tailVars, sagaVars>>

\* The categories the saga reads; step i of a stateful saga reads category i.
Sources == IF kind = "stateless" THEN {0} ELSE Categories

SetOffset(c, r) == offs' = [offs EXCEPT ![c][r.ent] = r.nr]

Goto(c, l) == at' = [at EXCEPT ![c] = l]

\* What the loop does with record r before its first await: skip what the offset
\* covers, move the offset past an event of another tag, else go for its turn.
Receive(c, r) ==
    /\ held' = [held EXCEPT ![c] = r]
    /\ \/ /\ r.nr <= offs[c][r.ent] /\ Goto(c, "pull") /\ UNCHANGED <<offs, answered>>
       \/ /\ r.nr > offs[c][r.ent] /\ r.tag # "on"
          /\ SetOffset(c, r) /\ Goto(c, "pull") /\ UNCHANGED answered
       \/ /\ r.nr > offs[c][r.ent] /\ r.tag = "on"
          /\ \/ kind = "stateless" /\ Goto(c, "exec") /\ UNCHANGED <<offs, answered>>
             \/ kind = "stateful" /\ mode = "tail" /\ Goto(c, "turn") /\ UNCHANGED <<offs, answered>>
             \/ /\ kind = "stateful" /\ mode = "batch" /\ step[r.ent] = c
                /\ Goto(c, "exec") /\ UNCHANGED <<offs, answered>>
             \/ /\ kind = "stateful" /\ mode = "batch" /\ step[r.ent] # c
                /\ SetOffset(c, r) /\ Goto(c, "pull") /\ answered' = answered \cup {<<c, r>>}
    /\ UNCHANGED <<kind, mode, step, runs>>

\* A tailing loop takes the next record of its category.
TailPull(c) ==
    /\ mode = "tail" /\ c \in Sources /\ at[c] = "pull"
    /\ \E r \in Pulled(c) : Yields(c, r) /\ Receive(c, r)
    /\ UNCHANGED batch

NoBatch == [cat |-> -1, rows |-> {}]

\* A batch run reads a category's events once, when its step comes.
StartRun ==
    /\ mode = "batch" /\ runs < MaxRuns /\ batch = NoBatch
    /\ runs' = runs + 1
    /\ batch' = [cat |-> 0, rows |-> CategoryRows(0)]
    /\ UNCHANGED <<tailVars, kind, mode, at, held, offs, step, answered>>

BatchPull(c) ==
    /\ batch.cat = c /\ at[c] = "pull"
    /\ \E r \in batch.rows :
          IsFirst(r, batch.rows) /\ batch' = [batch EXCEPT !.rows = @ \ {r}] /\ Receive(c, r)
    /\ UNCHANGED tailVars

\* The step's events are done: the next step's are read, or the run is over.
BatchNext(c) ==
    /\ batch.cat = c /\ at[c] = "pull" /\ batch.rows = {}
    /\ batch' = IF c + 1 \in Sources THEN [cat |-> c + 1, rows |-> CategoryRows(c + 1)] ELSE NoBatch
    /\ UNCHANGED <<tailVars, kind, mode, at, held, offs, step, answered, runs>>

\* Seeded fault: the handler runs once the wait is over, whatever the counter.
BugRunAnyway(c, e) == TRUE

\* awaitTurn returned with the counter at the step's own index.
AtItsTurn(c, e) == step[e] = c

\* The counter was read at or past the step: run it, or skip a duplicate; or
\* the wait was over before it got there, and the event is left for a restart.
TakeTurn(c) ==
    LET e == held[c].ent IN
    /\ at[c] = "turn"
    /\ \/ AtItsTurn(c, e) /\ Goto(c, "exec") /\ UNCHANGED <<offs, answered>>
       \/ /\ ~AtItsTurn(c, e) /\ step[e] > c
          /\ SetOffset(c, held[c]) /\ Goto(c, "pull") /\ answered' = answered \cup {<<c, held[c]>>}
       \/ /\ ~AtItsTurn(c, e) /\ step[e] < c
          /\ Goto(c, "pull") /\ answered' = answered \cup {<<c, held[c]>>} /\ UNCHANGED offs
    /\ UNCHANGED <<tailVars, kind, mode, held, step, batch, runs>>

\* Seeded fault: the offset is stored before the handler runs.
BugOffsetFirst(c) ==
    /\ at[c] = "exec"
    /\ IF held[c].nr > offs[c][held[c].ent]
       THEN SetOffset(c, held[c]) /\ UNCHANGED <<at, answered>>
       ELSE Goto(c, "settle") /\ answered' = answered \cup {<<c, held[c]>>} /\ UNCHANGED offs
    /\ UNCHANGED <<tailVars, kind, mode, held, step, batch, runs>>

\* The handler has sent its commands; its promise is still to settle.
Execute(c) ==
    /\ at[c] = "exec"
    /\ Goto(c, "settle")
    /\ answered' = answered \cup {<<c, held[c]>>}
    /\ UNCHANGED <<tailVars, kind, mode, held, offs, step, batch, runs>>

\* The handler succeeded: a stateful saga stores the step, then the offset.
Succeed(c) ==
    /\ at[c] = "settle"
    /\ IF kind = "stateful"
       THEN Goto(c, "advance") /\ step' = [step EXCEPT ![held[c].ent] = c + 1] /\ UNCHANGED offs
       ELSE Goto(c, "pull") /\ SetOffset(c, held[c]) /\ UNCHANGED step
    /\ UNCHANGED <<tailVars, kind, mode, held, answered, batch, runs>>

\* The handler threw.  Stateless: the tail goes on without moving the offset, a
\* batch run is rejected.  Stateful: the compensation runs.
Fail(c) ==
    /\ at[c] \in {"exec", "settle"}
    /\ answered' = answered \cup {<<c, held[c]>>}
    /\ Goto(c, IF kind = "stateful" THEN "compensate" ELSE "pull")
    /\ batch' = IF kind = "stateless" THEN NoBatch ELSE batch
    /\ UNCHANGED <<tailVars, kind, mode, held, offs, step, runs>>

\* The compensation ended; one that throws ends a batch run, and is reported and
\* passed over by a tailing one.
Compensated(c) ==
    /\ at[c] = "compensate"
    /\ \/ Goto(c, "advance") /\ UNCHANGED batch
       \/ mode = "batch" /\ Goto(c, "pull") /\ batch' = NoBatch
    /\ UNCHANGED <<tailVars, kind, mode, held, offs, step, answered, runs>>

\* The offset is stored after the step: its own statement.
Advance(c) ==
    /\ at[c] = "advance"
    /\ SetOffset(c, held[c]) /\ Goto(c, "pull")
    /\ UNCHANGED <<tailVars, kind, mode, held, step, answered, batch, runs>>

\* The process dies: the loops are gone, offsets and step counters are kept.
Crash ==
    /\ TailsDie
    /\ at' = [c \in Categories |-> "pull"]
    /\ held' = [c \in Categories |-> NoRecord]
    /\ batch' = NoBatch
    /\ UNCHANGED <<kind, mode, offs, step, answered, runs>>

Init ==
    /\ TailInit
    /\ kind \in {"stateless", "stateful"} /\ mode \in {"tail", "batch"}
    /\ at = [c \in Categories |-> "pull"]
    /\ held = [c \in Categories |-> NoRecord]
    /\ offs = [c \in Categories |-> [e \in Entities |-> 0]]
    /\ step = [e \in Entities |-> 0]
    /\ answered = {} /\ runs = 0 /\ batch = NoBatch

Next ==
    \/ \E c \in Sources, e \in Entities, tag \in {"on", "other"} :
           Write(c, e, tag) /\ UNCHANGED sagaVars
    \/ \E c \in Sources : \/ mode = "tail" /\ (Subscribe(c) \/ FetchPage(c))
                             /\ UNCHANGED sagaVars
                          \/ DeleteBefore(c) /\ UNCHANGED sagaVars
    \/ StartRun
    \/ \E c \in Categories :
           \/ TailPull(c) \/ BatchPull(c) \/ BatchNext(c) \/ TakeTurn(c)
           \/ Execute(c) \/ Succeed(c) \/ Fail(c) \/ Compensated(c) \/ Advance(c)
    \/ Crash

\* Type invariant of the saga.
TypeOK ==
    /\ TailTypeOK
    /\ kind \in {"stateless", "stateful"} /\ mode \in {"tail", "batch"}
    /\ at \in [Categories -> {"pull", "turn", "exec", "settle", "compensate", "advance"}]
    /\ held \in [Categories -> Rows \cup {NoRecord}]
    /\ offs \in [Categories -> [Entities -> 0 .. MaxWrites]]
    /\ step \in [Entities -> 0 .. Cardinality(Categories)]
    /\ answered \subseteq Categories \X Rows
    /\ batch \in [cat : Categories \cup {-1}, rows : SUBSET Rows]
    /\ runs \in 0 .. MaxRuns

\* No event is passed over unseen: a matching event at or below the offset its
\* loop stored was handed to the handler or found out of its step's turn, unless
\* the SQLite tail's cursor was past its reused row number.
NoUntriedEvent ==
    \A r \in log : (r.tag = "on" /\ r.nr <= offs[r.cat][r.ent]) => <<r.cat, r>> \in answered \/ r \in reused

\* The counter a loop read before it awaited the handler still holds when the
\* handler runs: no two steps of one entity run side by side, and none runs
\* before the steps it depends on (runTailingStatefulSaga, runStatefulSaga).
ExecutesAtItsTurn ==
    \A c \in Categories : kind = "stateful" /\ at[c] \in {"exec", "settle"} => step[held[c].ent] = c

Spec == Init /\ [][Next]_vars
=============================================================================
