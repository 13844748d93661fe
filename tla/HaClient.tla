------------------------------- MODULE HaClient -------------------------------
(***************************************************************************)
(* The Home Assistant WebSocket client (src/src/ha/client.ts): the         *)
(* handshake, commands multiplexed over ids that start again at 1 on every *)
(* connection, subscriptions that are issued again after a reconnect, the  *)
(* ping, and the reconnect with its backoff.  The server answers commands  *)
(* in any order, refuses some and forgets others; the socket may close at  *)
(* any time.  Promise continuations run before the next socket event, so   *)
(* an answer and what awaits it are one step.  A frame holds one message.  *)
(***************************************************************************)
EXTENDS Integers, FiniteSets

CONSTANTS EventTypes, Triggers,
          Commands,        \* the calls callers make, each once
          InitialBackoff, MaxBackoff,
          MaxConnections,  \* bound: sockets opened
          MaxIds,          \* bound: command ids of one connection
          MaxToggles       \* bound: handlers and triggers added or removed

VARIABLES life,       \* "new", "started" or "stopped"
          socket,     \* readyState of the current socket, "none" without one
          generation, \* of the current listeners
          connected, backoff, reconnectTimer,
          handshake,  \* generation the handshake timer was armed for, or 0
          pinging, awaitingPong, nextId,
          pending,    \* commands waiting for a result: [id, what]
          timers,     \* their armed timers: [id, what]
          called,     \* [command -> "none", "waiting" or "settled"]
          handlers,   \* event types somebody listens to
          evSub,      \* [event type -> reg.subId], 0 for null
          trigger,    \* [trigger -> "none", "arming" or "live"]
          trigSub,    \* [trigger -> reg.subId]
          boot,       \* the task onAuthOk left running: [at, todo]
          unanswered, \* external: requests the server has not answered
          subs,       \* external: the server's subscriptions of this connection
          refused,    \* history: subscriptions that failed on this connection
          opened, toggles

haVars == <<life, socket, generation, connected, backoff, reconnectTimer, handshake, pinging,
            awaitingPong, nextId, pending, timers, called, handlers, evSub, trigger, trigSub,
            boot, unanswered, subs, refused, opened, toggles>>
linkVars == <<life, socket, generation, connected, backoff, reconnectTimer, handshake, pinging, opened>>

HaEventSub(t) == [kind |-> "sub", of |-> t]
HaArm(t) == [kind |-> "arm", of |-> t]
HaRearm(t) == [kind |-> "rearm", of |-> t]
HaStates == [kind |-> "states", of |-> "boot"]
HaCall(c) == [kind |-> "call", of |-> c]
HaUnsub(id) == [kind |-> "unsub", of |-> id]

NoBoot == [at |-> "none", todo |-> {}]

CanSend == connected /\ socket = "open"

\* commandWithId for a sequence of requests sent in one synchronous run: fresh
\* ids, a pending entry and a timer each.
Issue(reqs) ==
    /\ nextId' = nextId + Cardinality(reqs)
    /\ pending' = pending \cup reqs
    /\ timers' = timers \cup reqs
    /\ unanswered' = unanswered \cup reqs

Numbered(what) == [id |-> nextId, what |-> what]

------------------------------------------------------------------------------
\* Connection lifecycle.

\* Seeded fault: the wait doubles without a limit.
BugUncapped(b) == IF b = 0 THEN InitialBackoff ELSE b * 2

\* scheduleReconnect: the wait doubles up to its limit.
NextBackoff(b) == IF b = 0 THEN InitialBackoff ELSE IF b * 2 < MaxBackoff THEN b * 2 ELSE MaxBackoff

ScheduleReconnect ==
    /\ reconnectTimer' = TRUE
    /\ backoff' = IF reconnectTimer THEN backoff ELSE NextBackoff(backoff)

\* connect: a new socket with its handshake deadline, or none and a new try.
Connect ==
    /\ opened' = opened + 1
    /\ generation' = generation + 1
    /\ nextId' = 1
    /\ awaitingPong' = FALSE
    /\ \/ /\ socket' = "connecting"
          /\ handshake' = generation + 1
          /\ UNCHANGED backoff
          /\ reconnectTimer' = FALSE
       \/ /\ UNCHANGED <<socket, handshake>>
          /\ reconnectTimer' = TRUE
          /\ backoff' = NextBackoff(backoff)
    /\ UNCHANGED <<connected, pinging, pending, timers, called, handlers, evSub, trigger, trigSub,
                   boot, unanswered, subs, refused, toggles>>

Start ==
    /\ life = "new"
    /\ life' = "started"
    /\ Connect

ReconnectFires ==
    /\ reconnectTimer /\ opened < MaxConnections
    /\ UNCHANGED life
    /\ Connect

Open ==
    /\ socket = "connecting"
    /\ socket' = "open"
    /\ UNCHANGED <<life, generation, connected, backoff, reconnectTimer, handshake, pinging,
                   awaitingPong, nextId, pending, timers, called, handlers, evSub, trigger, trigSub,
                   boot, unanswered, subs, refused, opened, toggles>>

\* ws.close(): no message is delivered any more; the close event follows.
Closing(guard) ==
    /\ guard
    /\ socket' = "closing"
    /\ UNCHANGED <<life, generation, connected, reconnectTimer, pinging, awaitingPong, nextId,
                   pending, timers, called, handlers, evSub, trigger, trigSub, boot, unanswered,
                   subs, refused, opened, toggles>>

AuthInvalid ==
    /\ Closing(socket = "open" /\ ~connected)
    /\ backoff' = MaxBackoff
    /\ UNCHANGED handshake

HandshakeFires ==
    /\ handshake # 0
    /\ handshake' = 0
    /\ IF handshake = generation /\ ~connected /\ socket # "closing"
       THEN Closing(TRUE) /\ UNCHANGED backoff
       ELSE UNCHANGED <<life, socket, generation, connected, backoff, reconnectTimer, pinging,
                        awaitingPong, nextId, pending, timers, called, handlers, evSub, trigger,
                        trigSub, boot, unanswered, subs, refused, opened, toggles>>

PingTick ==
    /\ pinging /\ connected /\ socket # "none"
    /\ IF awaitingPong
       THEN socket # "closing" /\ Closing(TRUE) /\ UNCHANGED <<backoff, handshake>>
       ELSE /\ nextId < MaxIds
            /\ awaitingPong' = TRUE
            /\ nextId' = nextId + 1
            /\ UNCHANGED <<linkVars, pending, timers, called, handlers, evSub, trigger, trigSub,
                           boot, unanswered, subs, refused, toggles>>

Pong ==
    /\ awaitingPong /\ socket = "open"
    /\ awaitingPong' = FALSE
    /\ UNCHANGED <<linkVars, nextId, pending, timers, called, handlers, evSub, trigger, trigSub,
                   boot, unanswered, subs, refused, toggles>>

\* Seeded fault: the rejected commands' timers stay armed.
BugTimersLeft ==
    /\ pending' = {}
    /\ UNCHANGED timers
    /\ called' = [c \in Commands |-> IF called[c] = "waiting" THEN "settled" ELSE called[c]]
    /\ trigger' = [t \in Triggers |-> IF trigger[t] = "arming" THEN "none" ELSE trigger[t]]

\* rejectAllPending: every waiting caller is told, a trigger being subscribed is
\* not registered.
RejectAllPending ==
    /\ pending' = {}
    /\ timers' = timers \ pending
    /\ called' = [c \in Commands |-> IF called[c] = "waiting" THEN "settled" ELSE called[c]]
    /\ trigger' = [t \in Triggers |-> IF trigger[t] = "arming" THEN "none" ELSE trigger[t]]

\* Seeded fault: the event registrations keep the ids of the lost connection.
BugKeepsIds ==
    /\ trigSub' = [t \in Triggers |-> 0]
    /\ UNCHANGED evSub

ForgetSubscriptions ==
    /\ evSub' = [t \in EventTypes |-> 0]
    /\ trigSub' = [t \in Triggers |-> 0]

\* Seeded fault: a socket that closes before it was authenticated is not replaced.
BugOnlyAfterAuth ==
    IF connected THEN ScheduleReconnect ELSE UNCHANGED <<reconnectTimer, backoff>>

RetryUnlessStopped ==
    IF life = "stopped" THEN UNCHANGED <<reconnectTimer, backoff>> ELSE ScheduleReconnect

\* The close event of the current socket: handleClose.
HandleClose ==
    /\ socket \in {"connecting", "open", "closing"}
    /\ socket' = "none"
    /\ connected' = FALSE
    /\ pinging' = FALSE
    /\ awaitingPong' = FALSE
    /\ handshake' = 0
    /\ generation' = generation + 1
    /\ RejectAllPending
    /\ ForgetSubscriptions
    /\ RetryUnlessStopped
    /\ boot' = NoBoot
    /\ unanswered' = {} /\ subs' = {} /\ refused' = {}
    /\ UNCHANGED <<life, nextId, handlers, opened, toggles>>

\* stop: the socket is closed; its close event may still arrive.
Stop ==
    /\ life = "started"
    /\ life' = "stopped"
    /\ reconnectTimer' = FALSE
    /\ pinging' = FALSE
    /\ awaitingPong' = FALSE
    /\ handshake' = 0
    /\ connected' = FALSE
    /\ RejectAllPending
    /\ socket' = IF socket = "none" THEN "none" ELSE "closing"
    /\ boot' = NoBoot
    /\ evSub' = [t \in EventTypes |-> IF \E p \in pending : p.what = HaEventSub(t) /\ p.id = evSub[t]
                                      THEN 0 ELSE evSub[t]]
    /\ UNCHANGED <<generation, backoff, nextId, handlers, trigSub, unanswered, subs, refused, opened, toggles>>

------------------------------------------------------------------------------
\* Commands, subscriptions and what awaits them.

\* The boot task goes to its next await: a trigger left to arm, or get_states.
\* what is the request it sends, [at, todo] where it stands afterwards.
BootSteps(todo) ==
    IF todo = {} THEN {[what |-> HaStates, boot |-> [at |-> "states", todo |-> {}]]}
    ELSE {[what |-> HaRearm(t), boot |-> [at |-> "arm", todo |-> todo \ {t}]] : t \in todo}

\* onAuthOk: every event type with a handler is subscribed at once, in some order,
\* then the boot task sends its first request.
AuthOk ==
    /\ socket = "open" /\ ~connected /\ life = "started"
    /\ connected' = TRUE
    /\ backoff' = 0
    /\ handshake' = 0
    /\ pinging' = TRUE
    /\ awaitingPong' = FALSE
    /\ \E step \in BootSteps({t \in Triggers : trigger[t] = "live"}) :
       LET resub == {t \in handlers : evSub[t] = 0}
       IN \E ids \in [resub -> nextId .. nextId + Cardinality(resub) - 1] :
             /\ \A t, u \in resub : ids[t] = ids[u] => t = u
             /\ evSub' = [t \in EventTypes |-> IF t \in resub THEN ids[t] ELSE evSub[t]]
             /\ Issue({[id |-> ids[t], what |-> HaEventSub(t)] : t \in resub}
                        \cup {[id |-> nextId + Cardinality(resub), what |-> step.what]})
             /\ boot' = step.boot
    /\ UNCHANGED <<life, socket, generation, reconnectTimer, called, handlers, trigger, trigSub,
                   subs, refused, opened, toggles>>

\* result.catch of subscribeEventType, and the catch around a re-arm.
SubscriptionFails(p, ok) ==
    LET mine == ~ok /\ p.what.kind = "sub" /\ evSub[p.what.of] = p.id
    IN /\ evSub' = IF mine THEN [evSub EXCEPT ![p.what.of] = 0] ELSE evSub
       /\ refused' = IF mine \/ (~ok /\ p.what.kind = "rearm") THEN refused \cup {p.what.of} ELSE refused

\* A settled request p: its caller continues; the boot task sends its next one.
\* left are the requests the server still has.
Continue(p, ok, left) ==
    LET w == p.what
        added == w.kind = "arm" /\ ok
        todo == IF added /\ boot.at = "arm" THEN boot.todo \cup {w.of} ELSE boot.todo
    IN /\ called' = IF w.kind = "call" THEN [called EXCEPT ![w.of] = "settled"] ELSE called
       /\ SubscriptionFails(p, ok)
       /\ trigger' = IF w.kind = "arm" THEN [trigger EXCEPT ![w.of] = IF ok THEN "live" ELSE "none"] ELSE trigger
       /\ trigSub' = IF ok /\ w.kind \in {"arm", "rearm"} THEN [trigSub EXCEPT ![w.of] = p.id] ELSE trigSub
       /\ IF w.kind = "rearm" /\ boot.at = "arm"
          THEN \E step \in BootSteps({t \in boot.todo : trigger[t] = "live"}) :
                  /\ boot' = step.boot
                  /\ nextId' = nextId + 1
                  /\ pending' = (pending \ {p}) \cup {Numbered(step.what)}
                  /\ timers' = (timers \ {p}) \cup {Numbered(step.what)}
                  /\ unanswered' = left \cup {Numbered(step.what)}
          ELSE /\ unanswered' = left
               /\ boot' = IF w.kind = "states" THEN NoBoot ELSE [boot EXCEPT !.todo = todo]
               /\ pending' = pending \ {p}
               /\ timers' = timers \ {p}
               /\ UNCHANGED nextId

\* The server carries out or refuses a request and answers; the answer to one
\* that timed out is dropped.
Result(p, ok) ==
    /\ socket = "open" /\ p \in unanswered
    /\ subs' = CASE ok /\ p.what.kind \in {"sub", "arm", "rearm"} -> subs \cup {p}
                 [] ok /\ p.what.kind = "unsub" -> {s \in subs : s.id # p.what.of}
                 [] OTHER -> subs
    /\ IF p \in pending
       THEN Continue(p, ok, unanswered \ {p})
       ELSE /\ unanswered' = unanswered \ {p}
            /\ UNCHANGED <<nextId, pending, timers, called, evSub, trigger, trigSub, boot, refused>>
    /\ UNCHANGED <<linkVars, awaitingPong, handlers, toggles>>

\* A command's timer: the entry under its id is deleted, its own promise rejected.
\* The request stays with the server, which may still carry it out.
TimerFires(p) ==
    /\ p \in timers
    /\ IF p \in pending
       THEN Continue(p, FALSE, unanswered)
       ELSE /\ timers' = timers \ {p}
            /\ pending' = {q \in pending : q.id # p.id}
            /\ UNCHANGED <<nextId, called, evSub, trigger, trigSub, boot, unanswered, refused>>
    /\ UNCHANGED <<linkVars, awaitingPong, handlers, subs, toggles>>

\* A caller's command; without an authenticated socket it is rejected at once.
Call(c) ==
    /\ called[c] = "none"
    /\ called' = [called EXCEPT ![c] = IF CanSend THEN "waiting" ELSE "settled"]
    /\ IF CanSend THEN Issue({Numbered(HaCall(c))})
                  ELSE UNCHANGED <<nextId, pending, timers, unanswered>>
    /\ UNCHANGED <<linkVars, awaitingPong, handlers, evSub, trigger, trigSub, boot, subs, refused, toggles>>

\* addEventHandler: subscribed now when connected, else at the next auth_ok.
AddHandler(t) ==
    /\ t \notin handlers /\ toggles < MaxToggles
    /\ toggles' = toggles + 1
    /\ handlers' = handlers \cup {t}
    /\ IF CanSend /\ evSub[t] = 0
       THEN /\ Issue({Numbered(HaEventSub(t))})
            /\ evSub' = [evSub EXCEPT ![t] = nextId]
            /\ refused' = refused \ {t}
       ELSE /\ UNCHANGED <<nextId, pending, timers, unanswered, evSub>>
            /\ refused' = IF connected THEN refused \cup {t} ELSE refused
    /\ UNCHANGED <<linkVars, awaitingPong, called, trigger, trigSub, boot, subs>>

\* An unsubscription: the registration forgets its id, the server is told.
Unsubscribe(id) ==
    IF id # 0 /\ CanSend THEN Issue({Numbered(HaUnsub(id))})
    ELSE UNCHANGED <<nextId, pending, timers, unanswered>>

RemoveHandler(t) ==
    /\ t \in handlers /\ toggles < MaxToggles
    /\ toggles' = toggles + 1
    /\ handlers' = handlers \ {t}
    /\ evSub' = [evSub EXCEPT ![t] = 0]
    /\ Unsubscribe(evSub[t])
    /\ UNCHANGED <<linkVars, awaitingPong, called, trigger, trigSub, boot, subs, refused>>

SubscribeTrigger(t) ==
    /\ trigger[t] = "none" /\ CanSend /\ toggles < MaxToggles
    /\ toggles' = toggles + 1
    /\ trigger' = [trigger EXCEPT ![t] = "arming"]
    /\ trigSub' = [trigSub EXCEPT ![t] = 0]
    /\ refused' = refused \ {t}
    /\ Issue({Numbered(HaArm(t))})
    /\ UNCHANGED <<linkVars, awaitingPong, called, handlers, evSub, boot, subs>>

RemoveTrigger(t) ==
    /\ trigger[t] = "live" /\ toggles < MaxToggles
    /\ toggles' = toggles + 1
    /\ trigger' = [trigger EXCEPT ![t] = "none"]
    /\ trigSub' = [trigSub EXCEPT ![t] = 0]
    /\ Unsubscribe(trigSub[t])
    /\ boot' = [boot EXCEPT !.todo = @ \ {t}]
    /\ UNCHANGED <<linkVars, awaitingPong, called, handlers, evSub, subs, refused>>

Init ==
    /\ life = "new" /\ socket = "none" /\ generation = 0 /\ connected = FALSE /\ backoff = 0
    /\ reconnectTimer = FALSE /\ handshake = 0 /\ pinging = FALSE /\ awaitingPong = FALSE /\ nextId = 1
    /\ pending = {} /\ timers = {} /\ called = [c \in Commands |-> "none"]
    /\ handlers = {} /\ evSub = [t \in EventTypes |-> 0]
    /\ trigger = [t \in Triggers |-> "none"] /\ trigSub = [t \in Triggers |-> 0]
    /\ boot = NoBoot /\ unanswered = {} /\ subs = {} /\ refused = {} /\ opened = 0 /\ toggles = 0

Next ==
    \/ Start \/ ReconnectFires \/ Open \/ AuthInvalid \/ AuthOk \/ HandshakeFires
    \/ PingTick \/ Pong \/ HandleClose \/ Stop
    \/ \E p \in unanswered, ok \in BOOLEAN : Result(p, ok)
    \/ \E p \in timers : TimerFires(p)
    \/ \E c \in Commands : Call(c)
    \/ \E t \in EventTypes : AddHandler(t) \/ RemoveHandler(t)
    \/ \E t \in Triggers : SubscribeTrigger(t) \/ RemoveTrigger(t)

Spec == Init /\ [][Next]_haVars

------------------------------------------------------------------------------

\* Type invariant of the client.
TypeOK ==
    /\ life \in {"new", "started", "stopped"}
    /\ socket \in {"none", "connecting", "open", "closing"}
    /\ connected \in BOOLEAN /\ reconnectTimer \in BOOLEAN
    /\ backoff \in 0 .. MaxBackoff /\ handshake \in 0 .. generation
    /\ called \in [Commands -> {"none", "waiting", "settled"}]
    /\ \A p \in pending : p.id \in 1 .. nextId - 1

\* A command that somebody waits for has the pending entry and the armed timer
\* that will settle it: ids start again at 1 on every connection, and neither a
\* reconnect nor the timer or the answer of an older command takes the entry of
\* a newer one away.
NoOrphanCommand ==
    /\ \A c \in Commands : called[c] = "waiting" =>
          \E p \in pending : p.what = HaCall(c) /\ p \in timers
    /\ \A p, q \in pending : p.id = q.id => p = q

\* Where handleEvent sends an event with this subscription id.
Receiver(id) == {t \in EventTypes : evSub[t] = id} \cup {t \in Triggers : trigger[t] = "live" /\ trigSub[t] = id}

\* While the client is connected, every event type with a handler is subscribed on
\* this very connection, or its request is under way, or was refused or timed
\* out here; and an event of a subscription reaches no other registration.
HandlersAreFed ==
    connected =>
        /\ \A t \in handlers \ refused :
              \E p \in unanswered \cup subs : p.what = HaEventSub(t) /\ p.id = evSub[t]
        /\ \A s \in subs : Receiver(s.id) \subseteq {s.what.of}

\* A started client is never left without something that moves it on: a timer
\* that reconnects, a socket that is closing, the handshake's deadline, or the ping.
AlwaysDriven ==
    life = "started" =>
        \/ reconnectTimer
        \/ socket = "closing"
        \/ socket # "none" /\ (IF connected THEN pinging ELSE handshake = generation)
=============================================================================
