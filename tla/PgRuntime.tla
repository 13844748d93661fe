------------------------------ MODULE PgRuntime ------------------------------
(***************************************************************************)
(* The PostgreSQL runtime (src/src/postgres/runtime.ts) over its journal   *)
(* (journal.ts, clean-journal.ts): one entity hosted by several processes  *)
(* that share the database and nothing else.  Every query is awaited, so a *)
(* runner's step from one query to the next interleaves with the others.   *)
(* An event is the process that wrote it, a state the events applied.      *)
(* What a timer or a sync does in time is module EntityRuntime's matter.    *)
(***************************************************************************)
EXTENDS Integers, Sequences, FiniteSets

CONSTANTS Procs,
          MaxCommands,   \* bound: commands sent
          SnapshotEvery,
          MaxSeq,        \* bound: events ever written
          MaxDbFaults    \* bound: database errors and process deaths

VARIABLES rows,     \* journal table: [sequence number stored -> event]
          written,  \* history: every event in the order it was stored
          snaps,    \* snapshot table (holed is history: its writer was one of holes)
          phase,    \* [process -> where its runner stands]
          mem,      \* [process -> entityState.state]
          nr,       \* [process -> entityState.sequenceNr]
          since,    \* [process -> eventsSinceSnapshot]
          mbox,     \* [process -> mailbox]
          stashed,  \* [process -> number of stashed commands]
          doing,    \* [process -> the command between two queries]
          asked,    \* what became of the commands sent
          holes,    \* history: processes that recovered over deleted rows
          forked,   \* history: a number was stored again after its row was deleted
          dbFaults

pgVars == <<rows, written, snaps, phase, mem, nr, since, mbox, stashed, doing, asked, holes, forked, dbFaults>>

Nobody == 0
StopMsg == [tag |-> "Stop", of |-> Nobody]
TellMsg == [tag |-> "Tell", of |-> Nobody]
Nothing == [of |-> Nobody, n |-> 0, snap |-> FALSE]

MaxOf(S) == CHOOSE x \in S : \A y \in S : y <= x

\* The call is answered, if the command came from one that is still open.
Answer(a) == IF a = Nobody THEN asked ELSE [asked EXCEPT ![a] = "answered"]

\* getOrCreate, then offer: a runner is created once and never replaced.
Offer(p, msg) ==
    /\ phase' = [phase EXCEPT ![p] = IF @ = "none" THEN "snapshot" ELSE @]
    /\ mbox' = [mbox EXCEPT ![p] = Append(@, msg)]
    /\ UNCHANGED <<rows, written, snaps, mem, nr, since, stashed, doing, holes, forked, dbFaults>>

Ask(p) ==
    /\ Len(asked) < MaxCommands
    /\ asked' = Append(asked, "open")
    /\ Offer(p, [tag |-> "Ask", of |-> Len(asked) + 1])

\* A command without a caller reaches the mailbox: a tell, the runner's own
\* tellSelf, a timer, the outcome of a sync.
Tell(p) ==
    /\ Len(asked) < MaxCommands
    /\ asked' = Append(asked, "told")
    /\ Offer(p, TellMsg)

\* loadSnapshotAsync: the snapshot with the highest number, or the initial state.
LoadSnapshot(p) ==
    /\ phase[p] = "snapshot"
    /\ phase' = [phase EXCEPT ![p] = "events"]
    /\ LET s == IF snaps = {} THEN [nr |-> 0, state |-> << >>, holed |-> FALSE]
                ELSE CHOOSE x \in snaps : \A y \in snaps : y.nr <= x.nr
       IN /\ mem' = [mem EXCEPT ![p] = s.state]
          /\ nr' = [nr EXCEPT ![p] = s.nr]
          /\ holes' = IF s.holed THEN holes \cup {p} ELSE holes
    /\ UNCHANGED <<rows, written, snaps, since, mbox, stashed, doing, asked, forked, dbFaults>>

\* Seeded fault: the event of the snapshot's own number is replayed as well.
BugFromIncluded(n) == {k \in DOMAIN rows : k >= n}

\* loadEventsAsync: the rows above a sequence number.
RowsAbove(n) == {k \in DOMAIN rows : k > n}

\* ORDER BY sequence_nr: the numbers of a set of rows, ascending.
InOrder(S) == [i \in 1 .. Cardinality(S) |-> CHOOSE k \in S : Cardinality({j \in S : j <= k}) = i]

\* The second query of recover, a transaction of its own.
LoadEvents(p) ==
    LET found == RowsAbove(nr[p])
        order == InOrder(found)
        last == IF found = {} THEN nr[p] ELSE MaxOf(found)
    IN /\ phase[p] = "events"
       /\ phase' = [phase EXCEPT ![p] = "idle"]
       /\ mem' = [mem EXCEPT ![p] = @ \o [i \in DOMAIN order |-> rows[order[i]]]]
       /\ nr' = [nr EXCEPT ![p] = last]
       /\ since' = [since EXCEPT ![p] = 0]
       /\ holes' = IF (nr[p] + 1 .. Len(written)) \subseteq found THEN holes ELSE holes \cup {p}
       /\ UNCHANGED <<rows, written, snaps, mbox, stashed, doing, asked, forked, dbFaults>>

Taking(p) == phase[p] = "idle" /\ mbox[p] # << >>

\* decide asks for n events to be persisted, with a snapshot after them or not.
TakePersist(p, n, snap) ==
    /\ Taking(p) /\ Head(mbox[p]) # StopMsg /\ Len(written) + n <= MaxSeq /\ nr[p] + n <= MaxSeq
    /\ mbox' = [mbox EXCEPT ![p] = Tail(@)]
    /\ phase' = [phase EXCEPT ![p] = "insert"]
    /\ doing' = [doing EXCEPT ![p] = [of |-> Head(mbox[p]).of, n |-> n, snap |-> snap]]
    /\ UNCHANGED <<rows, written, snaps, mem, nr, since, stashed, asked, holes, forked, dbFaults>>

\* An effect that touches no table: Reply or Done; Stash, which keeps the command
\* and drops its reply handle; Unstash, which requeues commands as tells; Stop,
\* which queues the message and answers nobody; ReplyDeferred, which this
\* runtime has no case for.
TakeOther(p) ==
    /\ Taking(p) /\ Head(mbox[p]) # StopMsg
    /\ LET rest == Tail(mbox[p])
           of == Head(mbox[p]).of
       IN \/ /\ mbox' = [mbox EXCEPT ![p] = rest]
             /\ asked' = Answer(of) /\ UNCHANGED stashed
          \/ /\ mbox' = [mbox EXCEPT ![p] = rest]
             /\ stashed' = [stashed EXCEPT ![p] = @ + 1] /\ UNCHANGED asked
          \/ /\ mbox' = [mbox EXCEPT ![p] = rest \o [i \in 1 .. stashed[p] |-> TellMsg]]
             /\ stashed' = [stashed EXCEPT ![p] = 0] /\ asked' = Answer(of)
          \/ /\ mbox' = [mbox EXCEPT ![p] = Append(rest, StopMsg)] /\ UNCHANGED <<asked, stashed>>
          \/ /\ mbox' = [mbox EXCEPT ![p] = rest] /\ UNCHANGED <<asked, stashed>>
    /\ UNCHANGED <<rows, written, snaps, phase, mem, nr, since, doing, holes, forked, dbFaults>>

\* Stop, and a runner that threw: its loop has ended and its mailbox is read by
\* nobody, but the module keeps it.
EndRunner(p) == phase' = [phase EXCEPT ![p] = "ended"]

TakeStop(p) ==
    /\ Taking(p) /\ Head(mbox[p]) = StopMsg
    /\ mbox' = [mbox EXCEPT ![p] = Tail(@)]
    /\ EndRunner(p)
    /\ UNCHANGED <<rows, written, snaps, mem, nr, since, stashed, doing, asked, holes, forked, dbFaults>>

\* Seeded fault: the key does not cover the sequence number.
BugNoKey(p) == FALSE

\* The primary key refuses the insert of a number that is stored.
Collides(p) == \E k \in 1 .. doing[p].n : nr[p] + k \in DOMAIN rows

Stored(p) == [k \in DOMAIN rows \cup (nr[p] + 1 .. nr[p] + doing[p].n) |->
                 IF k \in nr[p] + 1 .. nr[p] + doing[p].n THEN p ELSE rows[k]]

\* The rows of the batch are committed, all of them.
StoreBatch(p) ==
    /\ rows' = Stored(p)
    /\ written' = IF nr[p] = Len(written) THEN written \o [k \in 1 .. doing[p].n |-> p] ELSE written
    /\ forked' = (forked \/ \E k \in nr[p] + 1 .. nr[p] + doing[p].n :
                               k <= Len(written) /\ k \notin DOMAIN rows)

\* persistEventsAsync succeeds: the events are applied; an automatic or requested
\* snapshot follows, else the command is answered.
Inserted(p) ==
    /\ phase[p] = "insert" /\ ~Collides(p)
    /\ StoreBatch(p)
    /\ mem' = [mem EXCEPT ![p] = @ \o [k \in 1 .. doing[p].n |-> p]]
    /\ nr' = [nr EXCEPT ![p] = @ + doing[p].n]
    /\ since' = [since EXCEPT ![p] = @ + doing[p].n]
    /\ IF doing[p].snap \/ since[p] + doing[p].n >= SnapshotEvery
       THEN phase' = [phase EXCEPT ![p] = "save"] /\ UNCHANGED <<asked, doing>>
       ELSE /\ phase' = [phase EXCEPT ![p] = "idle"]
            /\ asked' = Answer(doing[p].of)
            /\ doing' = [doing EXCEPT ![p] = Nothing]
    /\ UNCHANGED <<snaps, mbox, stashed, holes, dbFaults>>

\* A unique violation rolls the batch back and is thrown out of the loop.
Refused(p) ==
    /\ phase[p] = "insert" /\ Collides(p)
    /\ EndRunner(p)
    /\ UNCHANGED <<rows, written, snaps, mem, nr, since, mbox, stashed, doing, asked, holes, forked, dbFaults>>

\* The connection is lost around the commit: the batch may be stored or not.
InsertBreaks(p) ==
    /\ phase[p] = "insert" /\ dbFaults < MaxDbFaults
    /\ dbFaults' = dbFaults + 1
    /\ \/ UNCHANGED <<rows, written, forked>>
       \/ ~Collides(p) /\ StoreBatch(p)
    /\ EndRunner(p)
    /\ UNCHANGED <<snaps, mem, nr, since, mbox, stashed, doing, asked, holes>>

\* persistSnapshotAsync, then the rest of the chain.
SaveSnapshot(p) ==
    /\ phase[p] = "save"
    /\ snaps' = {s \in snaps : s.nr # nr[p]} \cup {[nr |-> nr[p], state |-> mem[p], holed |-> p \in holes]}
    /\ since' = [since EXCEPT ![p] = 0]
    /\ phase' = [phase EXCEPT ![p] = "idle"]
    /\ asked' = Answer(doing[p].of)
    /\ doing' = [doing EXCEPT ![p] = Nothing]
    /\ UNCHANGED <<rows, written, mem, nr, mbox, stashed, holes, forked, dbFaults>>

\* A query fails, or a snapshot cannot be decoded, or a side effect throws.
RunnerThrows(p) ==
    /\ phase[p] \in {"snapshot", "events", "save"} \/ Taking(p)
    /\ dbFaults < MaxDbFaults /\ dbFaults' = dbFaults + 1
    /\ EndRunner(p)
    /\ UNCHANGED <<rows, written, snaps, mem, nr, since, mbox, stashed, doing, asked, holes, forked>>

Fresh(p) ==
    /\ phase' = [phase EXCEPT ![p] = "none"]
    /\ mbox' = [mbox EXCEPT ![p] = << >>]
    /\ stashed' = [stashed EXCEPT ![p] = 0]
    /\ doing' = [doing EXCEPT ![p] = Nothing]
    /\ holes' = holes \ {p}
    /\ mem' = [mem EXCEPT ![p] = << >>] /\ nr' = [nr EXCEPT ![p] = 0] /\ since' = [since EXCEPT ![p] = 0]

\* shutdown: the runner is told to stop, awaited and forgotten.
Shutdown(p) ==
    /\ phase[p] = "idle" /\ mbox[p] = << >>
    /\ Fresh(p)
    /\ UNCHANGED <<rows, written, snaps, asked, forked, dbFaults>>

ProcessDies(p) ==
    /\ phase[p] # "none" /\ dbFaults < MaxDbFaults /\ dbFaults' = dbFaults + 1
    /\ Fresh(p)
    /\ UNCHANGED <<rows, written, snaps, asked, forked>>

\* Housekeeping, which asks no runner: the events a snapshot covers are deleted,
\* and so are the snapshots older than one, each by a statement of its own.
DeleteEvents(s) ==
    /\ \E k \in DOMAIN rows : k <= s.nr
    /\ rows' = [k \in {j \in DOMAIN rows : j > s.nr} |-> rows[k]]
    /\ UNCHANGED <<written, snaps, phase, mem, nr, since, mbox, stashed, doing, asked, holes, forked, dbFaults>>

DeleteSnapshots(s) ==
    /\ \E x \in snaps : x.nr < s.nr
    /\ snaps' = {x \in snaps : x.nr >= s.nr}
    /\ UNCHANGED <<rows, written, phase, mem, nr, since, mbox, stashed, doing, asked, holes, forked, dbFaults>>

Init ==
    /\ rows = << >> /\ written = << >> /\ snaps = {} /\ holes = {} /\ forked = FALSE /\ dbFaults = 0
    /\ phase = [p \in Procs |-> "none"] /\ mem = [p \in Procs |-> << >>]
    /\ nr = [p \in Procs |-> 0] /\ since = [p \in Procs |-> 0]
    /\ mbox = [p \in Procs |-> << >>] /\ stashed = [p \in Procs |-> 0]
    /\ doing = [p \in Procs |-> Nothing]
    /\ asked = << >>

Next ==
    \/ \E p \in Procs :
          \/ Ask(p) \/ Tell(p)
          \/ \E n \in 1 .. 2, snap \in BOOLEAN : TakePersist(p, n, snap)
          \/ LoadSnapshot(p) \/ LoadEvents(p) \/ TakeOther(p) \/ TakeStop(p)
          \/ Inserted(p) \/ Refused(p) \/ InsertBreaks(p) \/ SaveSnapshot(p)
          \/ RunnerThrows(p) \/ Shutdown(p) \/ ProcessDies(p)
    \/ \E s \in snaps : DeleteEvents(s) \/ DeleteSnapshots(s)

\* Type invariant of the PostgreSQL runtime.
TypeOK ==
    /\ DOMAIN rows \subseteq 1 .. MaxSeq /\ written \in Seq(Procs) /\ Len(written) <= MaxSeq
    /\ phase \in [Procs -> {"none", "snapshot", "events", "idle", "insert", "save", "ended"}]
    /\ mem \in [Procs -> Seq(Procs)] /\ nr \in [Procs -> 0 .. MaxSeq]
    /\ \A i \in 1 .. Len(asked) : asked[i] \in {"open", "told", "answered"} /\ holes \subseteq Procs
    /\ forked \in BOOLEAN /\ dbFaults \in 0 .. MaxDbFaults

\* The processes never work on diverging histories: the state a runner decides
\* on is the replay of the first events of the one journal, up to its number,
\* although nothing but the table's key keeps two processes apart.  Excepted are
\* a runner whose two recovery queries had rows deleted between them, one that
\* recovered from a snapshot of such a runner, and a number whose row was deleted and stored again by a process that was behind.
PgStateIsReplay ==
    \A p \in Procs :
        (phase[p] \in {"idle", "insert", "save"} /\ p \notin holes /\ ~forked) =>
            mem[p] = SubSeq(written, 1, nr[p])

Spec == Init /\ [][Next]_pgVars
=============================================================================
