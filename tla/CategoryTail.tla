---------------------------- MODULE CategoryTail ----------------------------
(***************************************************************************)
(* The journal as its readers see it, and the live tails that follow it    *)
(* (src/src/core/event-source.ts, tailAllEvents of src/src/inmem/journal.ts *)
(* and of src/src/sqlite/journal.ts, retention of sqlite/clean-journal.ts).  *)
(*                                                                         *)
(* A tail is an async generator: it is started by a subscription, and each *)
(* pull of its consumer hands over one row.  The in-memory tail registers a *)
(* listener and takes the backlog in one synchronous block, then drains the *)
(* queue its listener fills; the SQLite tail reads pages of rows above a   *)
(* rowid cursor.  Both are modelled by one record: `page` is the rest of   *)
(* the backlog or of the page, `queue` and `emitted` belong to the         *)
(* in-memory tail, `cursor` to the SQLite one.  What a query returns is a  *)
(* set of rows, and whoever reads it takes the first that is left in the   *)
(* order the query asks for.                                               *)
(***************************************************************************)
EXTENDS Integers, Sequences, FiniteSets, FiniteSetsExt

CONSTANTS Categories,   \* numbers of the categories; each has a follower
          Entities,
          MaxWrites,    \* bound: events ever written
          PageSize,     \* rows read by one statement of the SQLite tail
          MaxCrashes    \* bound: process deaths

VARIABLES backend,   \* "inmem" or "sqlite", fixed at start
          log,       \* the journal's rows
          written,   \* [category -> [entity -> last sequence number]]
          reused,    \* history: rows stored under a row number used before
          top,       \* history: the highest row number ever handed out
          tail,      \* [category -> the tail following it]
          crashes

tailVars == <<backend, log, written, reused, top, tail, crashes>>

\* A stored event: its global cursor, its stream, its number in the stream.
Row(g, c, e, n, tag) == [row |-> g, cat |-> c, ent |-> e, nr |-> n, tag |-> tag]

Tags == {"on", "other", "poison"}

\* The record a tail yields before any was yielded, or after it was handled.
NoRecord == Row(0, CHOOSE c \in Categories : TRUE, CHOOSE e \in Entities : TRUE, 0, "on")

Rows == [row : 1 .. MaxWrites, cat : Categories, ent : Entities, nr : 1 .. MaxWrites, tag : Tags]

Off == [on |-> FALSE, page |-> {}, queue |-> << >>,
        emitted |-> [e \in Entities |-> 0], cursor |-> 0]

\* The rows of a category: what allEvents returns.
CategoryRows(c) == {r \in log : r.cat = c}

\* The order in which it returns them: one entity after the other, by their numbers.
\* The entity order is the map's insertion order in memory and the key order in
\* SQLite; one fixed order stands for both.  Several categories are read in turn.
EntityOrder ==
    CHOOSE f \in [Entities -> 1 .. Cardinality(Entities)] : \A d, e \in Entities : f[d] = f[e] => d = e

Precedes(r, s) ==
    IF r.cat # s.cat THEN r.cat < s.cat
    ELSE IF r.ent # s.ent THEN EntityOrder[r.ent] < EntityOrder[s.ent]
    ELSE r.nr < s.nr

IsFirst(r, rows) == r \in rows /\ \A s \in rows \ {r} : Precedes(r, s)

\* MAX(rowid) + 1: SQLite hands a number out again once the highest row is gone;
\* the in-memory counter only grows, and there rows are never deleted.
NextRow == IF log = {} THEN 1 ELSE Max({r.row : r \in log}) + 1

\* Events ever written.
Writes == Cardinality(reused) + top

\* persistEvents of one event: the row is stored and every live listener of its
\* category is notified in the same synchronous block.
Write(c, e, tag) ==
    /\ Writes < MaxWrites
    /\ LET r == Row(NextRow, c, e, written[c][e] + 1, tag) IN
       /\ log' = log \cup {r}
       /\ written' = [written EXCEPT ![c][e] = @ + 1]
       /\ reused' = IF NextRow > top THEN reused ELSE reused \cup {r}
       /\ top' = IF NextRow > top THEN NextRow ELSE top
       /\ tail' = IF backend = "inmem" /\ tail[c].on
                  THEN [tail EXCEPT ![c].queue = Append(@, r)] ELSE tail
    /\ UNCHANGED <<backend, crashes>>

\* deleteJournalEventsBefore: time-based retention removes the oldest rows of a
\* category, all of them when nothing was written lately.  Bound: retention runs
\* once in a behaviour.
DeleteBefore(c) ==
    /\ backend = "sqlite" /\ Cardinality(log) = Writes
    /\ \E d \in CategoryRows(c) : log' = {r \in log : r.cat # c \/ r.row > d.row}
    /\ UNCHANGED <<backend, written, reused, top, tail, crashes>>

\* Seeded fault: the backlog is taken first and the listener registered later,
\* so what is written in between reaches neither.
BugLateListener(c) ==
    tail' = [tail EXCEPT ![c] = [Off EXCEPT !.on = TRUE,
                !.page = IF backend = "inmem" THEN {r \in CategoryRows(c) : r.row + 1 < NextRow} ELSE {}]]

\* The first pull of a tail: the listener is registered and the backlog read
\* before anything else can run; the SQLite tail starts at cursor 0.
OpenTail(c) ==
    tail' = [tail EXCEPT ![c] = [Off EXCEPT !.on = TRUE,
                !.page = IF backend = "inmem" THEN CategoryRows(c) ELSE {}]]

Subscribe(c) ==
    /\ ~tail[c].on
    /\ OpenTail(c)
    /\ UNCHANGED <<backend, log, written, reused, top, crashes>>

\* The rows the SQLite tail's next page holds: the first above the cursor.
PageAfter(c) ==
    LET ahead == {r \in CategoryRows(c) : r.row > tail[c].cursor}
    IN {r \in ahead : Cardinality({s \in ahead : s.row < r.row}) < PageSize}

FetchPage(c) ==
    /\ backend = "sqlite" /\ tail[c].on /\ tail[c].page = {} /\ PageAfter(c) # {}
    /\ tail' = [tail EXCEPT ![c].page = PageAfter(c)]
    /\ UNCHANGED <<backend, log, written, reused, top, crashes>>

\* The first row of the backlog, or of the page.
NextOnPage(c, r) ==
    IF backend = "inmem" THEN IsFirst(r, tail[c].page)
    ELSE r \in tail[c].page /\ \A s \in tail[c].page \ {r} : r.row < s.row

\* A queued event the backlog already covered is dropped.
Covered(c, r) == r.nr <= tail[c].emitted[r.ent]

\* The place in the queue of the first event that is not.
NextInQueue(c, i) ==
    /\ i \in 1 .. Len(tail[c].queue) /\ ~Covered(c, tail[c].queue[i])
    /\ \A j \in 1 .. i - 1 : Covered(c, tail[c].queue[j])

Higher(m, n) == IF m > n THEN m ELSE n

\* The rows a pull may yield.
Pulled(c) == tail[c].page \cup {tail[c].queue[i] : i \in 1 .. Len(tail[c].queue)}

\* One pull that yields row r: from the backlog or page, else from the queue.
Yields(c, r) ==
    /\ tail[c].on
    /\ \/ /\ NextOnPage(c, r)
          /\ tail' = [tail EXCEPT ![c].page = @ \ {r},
                                  ![c].cursor = IF backend = "sqlite" THEN r.row ELSE @,
                                  ![c].emitted[r.ent] = IF backend = "inmem" THEN Higher(@, r.nr) ELSE @]
       \/ /\ tail[c].page = {}
          /\ \E i \in 1 .. Len(tail[c].queue) :
                /\ NextInQueue(c, i) /\ r = tail[c].queue[i]
                /\ tail' = [tail EXCEPT ![c].queue = SubSeq(@, i + 1, Len(@)), ![c].emitted[r.ent] = r.nr]
    /\ UNCHANGED <<backend, log, written, reused, top, crashes>>

\* The process dies: tails are gone, the database file is kept.
TailsDie ==
    /\ backend = "sqlite" /\ crashes < MaxCrashes
    /\ crashes' = crashes + 1
    /\ tail' = [c \in Categories |-> Off]
    /\ UNCHANGED <<backend, log, written, reused, top>>

TailInit ==
    /\ backend \in {"inmem", "sqlite"}
    /\ log = {} /\ reused = {} /\ top = 0 /\ crashes = 0
    /\ written = [c \in Categories |-> [e \in Entities |-> 0]]
    /\ tail = [c \in Categories |-> Off]

\* Type invariant of the journal's rows and the tails.
TailTypeOK ==
    /\ backend \in {"inmem", "sqlite"}
    /\ log \subseteq Rows /\ reused \subseteq Rows /\ top \in 0 .. MaxWrites
    /\ written \in [Categories -> [Entities -> 0 .. MaxWrites]]
    /\ tail \in [Categories -> [on : BOOLEAN, page : SUBSET Rows, queue : Seq(Rows),
                                emitted : [Entities -> 0 .. MaxWrites], cursor : 0 .. MaxWrites]]
    /\ crashes \in 0 .. MaxCrashes
=============================================================================
