------------------------------ MODULE HttpFeeds ------------------------------
(***************************************************************************)
(* What HTTP clients read while events are stored (src/src/http): the      *)
(* stream of journal frames that the persist hook publishes to SSE         *)
(* subscribers, and the journal route that a client walks page by page     *)
(* while events are added and retention deletes the oldest.  A command     *)
(* stores one event here; a queue is counted in frames, not bytes.         *)
(* Left out: the routes of views, signals, tiles and statistics, which     *)
(* read and return.                                                        *)
(***************************************************************************)
EXTENDS Integers, Sequences, FiniteSets, SequencesExt

CONSTANTS Subscribers,
          QueueLimit,    \* MAX_BUFFERED_BYTES, in frames
          PageLimit,     \* the limit of a journal page, after clamping
          MaxRows,       \* bound: events stored
          MaxDeletes     \* bound: runs of retention

VARIABLES rows,        \* the journal: the global numbers of its events
          deletes,
          published,   \* frames published on the bus
          streams,     \* per subscriber [on, opened, queue, got]: see Open
          walk         \* a client's walk over the journal route: [order, cursor, got, stable, done]

feedVars == <<rows, deletes, published, streams, walk>>

Absent == -1
NoWalk == [order |-> "none", cursor |-> Absent, got |-> << >>, stable |-> {}, done |-> FALSE]
NoStream == [on |-> FALSE, opened |-> Absent, queue |-> << >>, got |-> << >>]
Cancelled == [NoStream EXCEPT !.opened = 0]

-----------------------------------------------------------------------------
(* The stream. *)

\* Seeded fault: a client that is too far behind misses the frame and stays.
BugSkipFrame(st, frame) == IF Len(st.queue) > QueueLimit THEN st ELSE [st EXCEPT !.queue = Append(@, frame)]

\* write: a subscriber that is too far behind is cut off instead.
Write(st, frame) ==
    IF Len(st.queue) > QueueLimit THEN [st EXCEPT !.on = FALSE]
    ELSE [st EXCEPT !.queue = Append(@, frame)]

\* StreamBus.publish, from the persist hook: every subscriber of the moment.
Publish(frame) ==
    /\ published' = frame
    /\ streams' = [s \in Subscribers |-> IF streams[s].on THEN Write(streams[s], frame) ELSE streams[s]]

\* The rowid SQLite gives next is one more than the highest there is.
Top == IF rows = {} THEN 0 ELSE Max(rows)

\* A runtime (see EntityRuntime) stores an event and calls its hook onPersisted.
Persist ==
    /\ published < MaxRows
    /\ rows' = rows \cup {Top + 1}
    /\ Publish(published + 1)
    /\ UNCHANGED <<deletes, walk>>

\* sseResponse: the hello frame (not counted), then the subscription.
Open(s) ==
    /\ streams[s] = NoStream
    /\ streams' = [streams EXCEPT ![s] = [NoStream EXCEPT !.on = TRUE, !.opened = published]]
    /\ UNCHANGED <<rows, deletes, published, walk>>

\* The client reads a frame; after a close it still reads what is queued.
Read(s) ==
    /\ streams[s].queue # << >>
    /\ streams' = [streams EXCEPT ![s].queue = Tail(@), ![s].got = Append(@, Head(streams[s].queue))]
    /\ UNCHANGED <<rows, deletes, published, walk>>

\* The client goes away: cancel, and the queue is dropped with the stream
\* (what it has read no longer matters).
Cancel(s) ==
    /\ streams[s].on
    /\ streams' = [streams EXCEPT ![s] = Cancelled]
    /\ UNCHANGED <<rows, deletes, published, walk>>

\* The keepalive timer writes a comment, and cuts off who is too far behind.
Keepalive(s) ==
    /\ streams[s].on /\ Len(streams[s].queue) > QueueLimit
    /\ streams' = [streams EXCEPT ![s].on = FALSE]
    /\ UNCHANGED <<rows, deletes, published, walk>>

-----------------------------------------------------------------------------
(* The journal route. *)

StartWalk(order) ==
    /\ walk.order = "none"
    /\ walk' = [NoWalk EXCEPT !.order = order, !.stable = rows]
    /\ UNCHANGED <<rows, deletes, published, streams>>

\* Seeded fault: the row of the cursor is on the next page too.
BugFromCursor == {g \in rows : \/ walk.cursor = Absent
                               \/ walk.order = "desc" /\ g <= walk.cursor
                               \/ walk.order = "asc" /\ g >= walk.cursor}

\* queryEvents: the rows beyond the cursor, in the order of the query.
Beyond == {g \in rows : \/ walk.cursor = Absent
                        \/ walk.order = "desc" /\ g < walk.cursor
                        \/ walk.order = "asc" /\ g > walk.cursor}

Before(g, h) == IF walk.order = "desc" THEN g > h ELSE g < h

\* The members of a set of row numbers, in the order of the query.
Ordered(set) == CHOOSE q \in [1 .. Cardinality(set) -> set] :
                    /\ \A i, j \in DOMAIN q : i < j => Before(q[i], q[j])
                    /\ \A g \in set : \E i \in DOMAIN q : q[i] = g

Page == LET all == Ordered(Beyond) IN SubSeq(all, 1, IF Len(all) < PageLimit THEN Len(all) ELSE PageLimit)

\* handleJournal: one page, and the cursor of the next when the page is full.
GetPage ==
    /\ walk.order # "none" /\ ~walk.done
    /\ walk' = [walk EXCEPT !.got = @ \o Page,
                            !.cursor = IF Len(Page) = PageLimit THEN Last(Page) ELSE @,
                            !.done = Len(Page) # PageLimit]
    /\ UNCHANGED <<rows, deletes, published, streams>>

\* Retention deletes the oldest rows (another process).
DeleteOldest ==
    /\ rows # {} /\ deletes < MaxDeletes
    /\ deletes' = deletes + 1
    /\ \E g \in rows : /\ rows' = {x \in rows : x > g}
                       /\ walk' = [walk EXCEPT !.stable = {x \in @ : x > g}]
    /\ UNCHANGED <<published, streams>>

FeedsInit ==
    /\ rows = {} /\ deletes = 0
    /\ published = 0 /\ streams = [s \in Subscribers |-> NoStream]
    /\ walk = NoWalk

FeedsNext ==
    \/ Persist
    \/ \E s \in Subscribers : Open(s) \/ Read(s) \/ Cancel(s) \/ Keepalive(s)
    \/ \E order \in {"asc", "desc"} : StartWalk(order)
    \/ GetPage
    \/ DeleteOldest

FeedsSpec == FeedsInit /\ [][FeedsNext]_feedVars

-----------------------------------------------------------------------------

\* Type invariant of the feeds.
FeedsTypeOK ==
    /\ rows \subseteq 1..MaxRows /\ published \in 0..MaxRows
    /\ \A s \in Subscribers : streams[s].on \in BOOLEAN
    /\ ToSet(walk.got) \subseteq 1..MaxRows

\* What a subscriber has read and has queued is every frame published since it
\* subscribed, without a hole; one that falls behind is cut off, never thinned out.
StreamHasNoHole ==
    \A s \in Subscribers :
        LET seen == streams[s].got \o streams[s].queue
        IN  /\ seen = [i \in 1..Len(seen) |-> streams[s].opened + i]
            /\ streams[s].on => Len(seen) = published - streams[s].opened

\* A walk from the first page to the last returns every event that was in the journal all
\* the while exactly once, whatever was added or deleted between two pages.
WalkMissesNothing ==
    /\ \A i, j \in DOMAIN walk.got : i < j => Before(walk.got[i], walk.got[j])
    /\ walk.done => walk.stable \subseteq ToSet(walk.got)
===============================================================================
