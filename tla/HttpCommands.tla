---------------------------- MODULE HttpCommands ----------------------------
(***************************************************************************)
(* The command routes of an aggregate (src/src/http/aggregate-routes.ts)   *)
(* with their ETag / If-Match handling: requests of several clients to one *)
(* entity.  Its runtime (external here, see EntityRuntime) runs one        *)
(* command at a time and may outlive the ask that timed out.               *)
(* Left out: the decoding of the body and the id, which are answered 400   *)
(* before anything happens.                                                *)
(***************************************************************************)
EXTENDS Integers, Sequences

CONSTANTS MaxRequests,   \* bound: command requests
          MaxBatch       \* bound: events of one command

VARIABLES sequenceNr,  \* of the entity
          requests     \* sequence of [ifMatch, ran, preSequenceNr, wrote, rejected, status]

commandVars == <<sequenceNr, requests>>

Absent == -1
Invalid == -2

\* handleCommand up to runtime.ask: the body is a command.
Post(ifMatch) ==
    /\ Len(requests) < MaxRequests
    /\ requests' = Append(requests, [ifMatch |-> ifMatch, ran |-> FALSE, preSequenceNr |-> 0,
                                     wrote |-> 0, rejected |-> FALSE, status |-> 0])
    /\ UNCHANGED sequenceNr

\* The runtime runs the command, before or after its ask has timed out: one batch of
\* events, or none when it is rejected or changes nothing.
CommandRuns(r, n, rejected) ==
    /\ ~requests[r].ran /\ (rejected => n = 0)
    /\ requests' = [requests EXCEPT ![r].ran = TRUE, ![r].preSequenceNr = sequenceNr,
                                    ![r].wrote = n, ![r].rejected = rejected]
    /\ sequenceNr' = sequenceNr + n

\* Seeded fault: the expected version is compared with the version after the command.
BugPostVersion(req) == req.ifMatch # Absent /\ req.ifMatch # req.preSequenceNr + req.wrote

\* The If-Match header names another version than the one the command ran on.
Conflicts(req) == req.ifMatch # Absent /\ req.ifMatch # req.preSequenceNr

StatusOf(req) ==
    IF req.ifMatch = Invalid THEN 400
    ELSE IF Conflicts(req) THEN 409
    ELSE IF req.rejected THEN 400
    ELSE 200

\* runtime.ask resolves: only now is the If-Match header looked at.
Respond(r) ==
    /\ requests[r].ran /\ requests[r].status = 0
    /\ requests' = [requests EXCEPT ![r].status = StatusOf(requests[r])]
    /\ UNCHANGED sequenceNr

\* runtime.ask answers Timeout; the command stays in the entity's mailbox.
AskTimesOut(r) ==
    /\ requests[r].status = 0
    /\ requests' = [requests EXCEPT ![r].status = 504]
    /\ UNCHANGED sequenceNr

\* aggregateRoutes: the routes of a fresh entity.
CommandsInit == sequenceNr = 0 /\ requests = << >>

CommandsNext ==
    \/ \E m \in {Absent, Invalid} \cup 0..(MaxRequests * MaxBatch) : Post(m)
    \/ \E r \in DOMAIN requests, n \in 0..MaxBatch, rejected \in BOOLEAN : CommandRuns(r, n, rejected)
    \/ \E r \in DOMAIN requests : Respond(r) \/ AskTimesOut(r)

CommandsSpec == CommandsInit /\ [][CommandsNext]_commandVars

-----------------------------------------------------------------------------

\* Type invariant of the command routes.
CommandsTypeOK ==
    /\ sequenceNr \in 0..(MaxRequests * MaxBatch)
    /\ \A r \in DOMAIN requests : requests[r].status \in {0, 200, 400, 409, 504}

\* Optimistic concurrency: of the requests that expect the same version and change the
\* entity, one at most is answered 200, and it ran on that version.
OneWinnerPerVersion ==
    LET won == {r \in DOMAIN requests : requests[r].status = 200 /\ requests[r].ifMatch # Absent}
    IN  /\ \A r \in won : requests[r].preSequenceNr = requests[r].ifMatch
        /\ \A q, r \in won : /\ requests[q].ifMatch = requests[r].ifMatch
                             /\ requests[q].wrote > 0 /\ requests[r].wrote > 0
                             => q = r

\* "Enable ETag/If-Match optimistic concurrency": a request refused with a conflict has
\* not changed the entity.
ConflictChangesNothing == \A r \in DOMAIN requests : requests[r].status = 409 => requests[r].wrote = 0
===============================================================================
