------------------------------- MODULE PgListen -------------------------------
(***************************************************************************)
(* The LISTEN consumer of the PostgreSQL adapter (src/src/postgres/        *)
(* listen.ts): one dedicated connection, a silence timer, and a reconnect  *)
(* that closes the old connection, waits out a cooldown and a delay, and   *)
(* connects again.  Every await of start and reconnect is a step.  The     *)
(* events of a client the consumer has dropped still reach its handlers.   *)
(* The driver (external) may emit end after a connection that failed.      *)
(***************************************************************************)
EXTENDS Integers, FiniteSets

CONSTANTS MaxClients,   \* bound: clients created
          MaxNotices    \* bound: notifications received

VARIABLES client,       \* the variable client: a client's number, 0 for undefined
          dialed,       \* clients created so far
          up,           \* clients whose connection is open
          listening,    \* clients that have issued LISTEN
          endDue,       \* clients whose end event is still to come
          disposed,
          silence,      \* is the silence timer armed?
          reconnecting,
          task,         \* [start, reconnect -> the await it is in, and the client connect uses]
          notices,
          gaveUp        \* history: start() or a reconnect failed

listenVars == <<client, dialed, up, listening, endDue, disposed, silence, reconnecting, task, notices, gaveUp>>

Tasks == {"start", "reconnect"}
Idle == [at |-> "none", c |-> 0]

\* Seeded fault: the silence is not watched once LISTEN is set up.
BugUnwatched == UNCHANGED silence

ResetSilenceTimer == silence' = ~disposed

\* connect up to its first await: the new client with its handlers.
Dial(f) ==
    /\ dialed < MaxClients
    /\ dialed' = dialed + 1
    /\ client' = dialed + 1
    /\ task' = [task EXCEPT ![f] = [at |-> "open", c |-> dialed + 1]]

Start ==
    /\ dialed = 0 /\ ~disposed
    /\ Dial("start")
    /\ UNCHANGED <<up, listening, endDue, disposed, silence, reconnecting, notices, gaveUp>>

\* start returns or rejects; reconnect's finally.
Finish(f) ==
    /\ task' = [task EXCEPT ![f] = Idle]
    /\ reconnecting' = (reconnecting /\ f # "reconnect")

\* client.connect() resolves and LISTEN is sent; a client that was ended meanwhile
\* (the variable no longer holds it) does not open any more.
Opened(f) ==
    /\ task[f].at = "open" /\ client = task[f].c /\ client \notin endDue
    /\ up' = up \cup {client}
    /\ task' = [task EXCEPT ![f].at = "listen"]
    /\ UNCHANGED <<client, dialed, listening, endDue, disposed, silence, reconnecting, notices, gaveUp>>

\* LISTEN is acknowledged: connect returns.
ListenSet(f) ==
    /\ task[f].at = "listen" /\ task[f].c \in up
    /\ listening' = listening \cup {task[f].c}
    /\ ResetSilenceTimer
    /\ Finish(f)
    /\ UNCHANGED <<client, dialed, up, endDue, disposed, notices, gaveUp>>

\* connect throws: start rejects, reconnect's catch reports it and gives up.
ConnectThrows(f) ==
    /\ task[f].at \in {"open", "listen"}
    /\ Finish(f)
    /\ gaveUp' = TRUE
    /\ up' = up \ {task[f].c}
    /\ \/ endDue' = endDue \cup {task[f].c}
       \/ UNCHANGED endDue
    /\ UNCHANGED <<client, dialed, listening, disposed, silence, notices>>

Notification ==
    /\ listening \cap up # {} /\ notices < MaxNotices
    /\ notices' = notices + 1
    /\ ResetSilenceTimer
    /\ UNCHANGED <<client, dialed, up, listening, endDue, disposed, reconnecting, task, gaveUp>>

\* reconnect up to its first await.
Reconnect ==
    IF disposed \/ reconnecting THEN UNCHANGED <<reconnecting, task>>
    ELSE reconnecting' = TRUE /\ task' = [task EXCEPT !["reconnect"] = [at |-> "end", c |-> client]]

SilenceFires ==
    /\ silence
    /\ silence' = FALSE
    /\ Reconnect
    /\ UNCHANGED <<client, dialed, up, listening, endDue, disposed, notices, gaveUp>>

\* A connection is lost: the error handler runs, the end event follows.
ConnectionLost(c) ==
    /\ c \in up
    /\ up' = up \ {c}
    /\ endDue' = endDue \cup {c}
    /\ Reconnect
    /\ UNCHANGED <<client, dialed, listening, disposed, silence, notices, gaveUp>>

EndEvent(c) ==
    /\ c \in endDue
    /\ endDue' = endDue \ {c}
    /\ Reconnect
    /\ UNCHANGED <<client, dialed, up, listening, disposed, silence, notices, gaveUp>>

\* The old client has ended, or failed to; the cooldown and the delay follow.
OldEnded ==
    /\ task["reconnect"].at = "end"
    /\ up' = up \ {task["reconnect"].c}
    /\ client' = 0
    /\ task' = [task EXCEPT !["reconnect"] = [at |-> "wait", c |-> 0]]
    /\ UNCHANGED <<dialed, listening, endDue, disposed, silence, reconnecting, notices, gaveUp>>

Waited ==
    /\ task["reconnect"].at = "wait"
    /\ IF disposed
       THEN Finish("reconnect") /\ UNCHANGED <<client, dialed>>
       ELSE Dial("reconnect") /\ UNCHANGED reconnecting
    /\ UNCHANGED <<up, listening, endDue, disposed, silence, notices, gaveUp>>

Stop ==
    /\ ~disposed /\ dialed > 0
    /\ disposed' = TRUE
    /\ silence' = FALSE
    /\ up' = up \ {client}
    /\ client' = 0
    /\ UNCHANGED <<dialed, listening, endDue, reconnecting, task, notices, gaveUp>>

Init ==
    /\ client = 0 /\ dialed = 0 /\ up = {} /\ listening = {} /\ endDue = {} /\ disposed = FALSE
    /\ silence = FALSE /\ reconnecting = FALSE /\ task = [f \in Tasks |-> Idle]
    /\ notices = 0 /\ gaveUp = FALSE

Next ==
    \/ Start \/ Notification \/ SilenceFires \/ OldEnded \/ Waited \/ Stop
    \/ \E f \in Tasks : Opened(f) \/ ListenSet(f) \/ ConnectThrows(f)
    \/ \E c \in 1 .. MaxClients : ConnectionLost(c) \/ EndEvent(c)

Spec == Init /\ [][Next]_listenVars

\* Type invariant of the listener.
TypeOK ==
    /\ client \in 0 .. dialed /\ dialed \in 0 .. MaxClients
    /\ up \subseteq 1 .. dialed /\ listening \subseteq 1 .. dialed /\ endDue \subseteq 1 .. dialed
    /\ task \in [Tasks -> [at : {"none", "end", "wait", "open", "listen"}, c : 0 .. MaxClients]]
    /\ notices \in 0 .. MaxNotices

\* Unless a connect has failed, a started consumer is never deaf for good: the
\* silence timer is armed, or start or a reconnect is still under way, and the
\* flag that keeps a second reconnect out stands exactly while one runs.
ListenerWatched ==
    /\ reconnecting = (task["reconnect"].at # "none")
    /\ (dialed > 0 /\ ~disposed /\ ~gaveUp) =>
          silence \/ \E f \in Tasks : task[f].at # "none"
=============================================================================
