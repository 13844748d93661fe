----------------------- MODULE DurableCallSlotProofs -----------------------
(***************************************************************************)
(* Proofs about DurableCallSlot, for any number of attempts, crashes, fires *)
(* and any mailbox bound.                                                  *)
(***************************************************************************)
EXTENDS DurableCallSlot, SequenceTheorems, FiniteSetTheorems, TLAPS

Message == {Command(t) : t \in {"start", "fire", "retry"}}
           \cup [tag : {"callback"}, attempt : Attempt, result : Result]

Holds(i, tag) == inbox[i].tag = tag

\* There is no message of this kind in the mailbox.
Absent(tag) == \A i \in DOMAIN inbox : ~Holds(i, tag)

\* A crash left nothing but the journal.
DownIsEmpty == ~up => inbox = << >> /\ doing = Nothing /\ ~timer

\* Before the call is started there is nothing to react to.
IdleIsQuiet ==
    phase.tag = "idle" =>
        doing = Nothing /\ ~timer /\ Absent("callback") /\ Absent("retry")

\* While an attempt is pending no retry is under way, and what is being done
\* and what has been answered is of that attempt.
PendingIsAlone ==
    phase.tag = "pending" =>
        /\ ~timer
        /\ Absent("retry")
        /\ doing.tag # "arm"
        /\ doing.tag \in {"execute", "await"} => doing.attempt = phase.attempt
        /\ \A i \in DOMAIN inbox :
              Holds(i, "callback") => inbox[i].attempt = phase.attempt

\* A scheduled retry exists once (to be armed, armed, or in the mailbox), is
\* behind every result of the attempt before it, and has an attempt left.
RetryIsLast ==
    phase.tag = "retry_scheduled" =>
        /\ phase.attempt < MaxAttempts
        /\ doing.tag \in {"nothing", "arm"}
        /\ doing.tag = "arm" => ~timer
        /\ doing.tag = "arm" \/ timer => Absent("retry")
        /\ \A i, j \in DOMAIN inbox :
              i < j /\ Holds(i, "retry") => ~Holds(j, "retry") /\ ~Holds(j, "callback")

IInv == /\ TypeOK
        /\ DownIsEmpty
        /\ IdleIsQuiet
        /\ PendingIsAlone
        /\ RetryIsLast
        /\ NotStranded

-----------------------------------------------------------------------------
\* What a message and a task look like.
LEMMA Shapes ==
    /\ \A x \in Message : /\ x.tag \in {"start", "fire", "retry", "callback"}
                          /\ x.tag = "callback" => /\ x.attempt \in Attempt
                                                   /\ x.result \in Result
                          /\ x.tag # "callback" => x = Command(x.tag)
    /\ \A t \in {"start", "fire", "retry"} : Command(t) \in Message /\ Command(t).tag = t
    /\ \A n \in Attempt, res \in Result :
          /\ Callback(n, res) \in Message
          /\ Callback(n, res).tag = "callback"
          /\ Callback(n, res).attempt = n
          /\ Callback(n, res).result = res
    /\ Nothing.tag = "nothing"
BY DEF Message, Command, Callback, Nothing, Task

\* The mailbox after a message was offered.
LEMMA OfferMailbox ==
    ASSUME inbox \in Seq(Message), NEW x \in Message, inbox' = Append(inbox, x)
    PROVE  /\ inbox' \in Seq(Message)
           /\ DOMAIN inbox' = DOMAIN inbox \cup {Len(inbox) + 1}
           /\ \A i \in DOMAIN inbox : inbox'[i] = inbox[i] /\ i <= Len(inbox)
           /\ inbox'[Len(inbox) + 1] = x
           /\ DOMAIN inbox \subseteq Nat
           /\ Len(inbox) \in Nat
OBVIOUS

\* The mailbox after its first message was taken.
LEMMA TakeMailbox ==
    ASSUME inbox \in Seq(Message), inbox # << >>, inbox' = Tail(inbox)
    PROVE  /\ inbox' \in Seq(Message)
           /\ DOMAIN inbox \subseteq Nat
           /\ \A i \in DOMAIN inbox' : i + 1 \in DOMAIN inbox /\ inbox'[i] = inbox[i + 1]
           /\ \A i \in DOMAIN inbox : i # 1 => i - 1 \in DOMAIN inbox'
                                              /\ inbox'[i - 1] = inbox[i]
           /\ 1 \in DOMAIN inbox
           /\ Head(inbox) = inbox[1]
           /\ Head(inbox) \in Message
OBVIOUS

\* TypeOK's mailbox is a sequence of messages.
LEMMA MailboxTyped == TypeOK => inbox \in Seq(Message)
BY DEF TypeOK, Message

-----------------------------------------------------------------------------
\* Nothing was sent, and nothing is journaled.
LEMMA InitIInv == Init => IInv
<1> SUFFICES ASSUME Init PROVE IInv
  OBVIOUS
<1> USE SlotAssumption
<1>1. TypeOK
  <2>1. inbox \in Seq(Message)
    BY DEF Init
  <2>2. inbox \in Seq({Command(t) : t \in {"start", "fire", "retry"}}
                      \cup [tag : {"callback"}, attempt : Attempt, result : Result])
    BY <2>1 DEF Message
  <2>3. /\ phase = PhaseOf("idle", 0) /\ doing = Nothing /\ up = TRUE
        /\ timer = FALSE /\ executions = 0 /\ returned = {} /\ crashes = 0
        /\ fires = 0
    BY DEF Init
  <2> QED BY <2>2, <2>3 DEF TypeOK
<1>2. phase.tag = "idle" /\ up
  BY DEF Init, PhaseOf
<1>3. IdleIsQuiet
  BY DEF Init, IdleIsQuiet, Absent
<1> QED BY <1>1, <1>2, <1>3 DEF IInv, DownIsEmpty, PendingIsAlone, RetryIsLast,
                                NotStranded

\* A client's message changes nothing that matters.
LEMMA SendKeeps ==
    ASSUME IInv, SendStart \/ SendFire
    PROVE  IInv'
<1>1. PICK x \in {Command("start"), Command("fire")} :
         /\ inbox' = Append(inbox, x)
         /\ UNCHANGED <<phase, up, doing, timer, executions, returned, crashes>>
         /\ up
         /\ fires' \in Nat
  BY DEF SendStart, SendFire, IInv, TypeOK
<1>2. x \in Message /\ x.tag \in {"start", "fire"}
  BY Shapes
<1>3. inbox \in Seq(Message)
  BY MailboxTyped DEF IInv
<1>4. /\ inbox' \in Seq(Message)
      /\ DOMAIN inbox' = DOMAIN inbox \cup {Len(inbox) + 1}
      /\ \A i \in DOMAIN inbox : inbox'[i] = inbox[i] /\ i <= Len(inbox)
      /\ inbox'[Len(inbox) + 1] = x
      /\ DOMAIN inbox \subseteq Nat
      /\ Len(inbox) \in Nat
  BY <1>1, <1>2, <1>3, OfferMailbox
<1>5. TypeOK'
  BY <1>1, <1>4 DEF IInv, TypeOK, Message
<1>6. DownIsEmpty' /\ IdleIsQuiet'
  BY <1>1, <1>2, <1>4 DEF IInv, DownIsEmpty, IdleIsQuiet, Absent, Holds
<1>7. PendingIsAlone'
  BY <1>1, <1>2, <1>4 DEF IInv, PendingIsAlone, Absent, Holds
<1>8. RetryIsLast'
  BY <1>1, <1>2, <1>4 DEF IInv, RetryIsLast, Absent, Holds
<1>9. NotStranded'
  BY <1>1, <1>4 DEF IInv, NotStranded, Inbox
<1> QED BY <1>5, <1>6, <1>7, <1>8, <1>9 DEF IInv

\* A runner that takes a command is doing nothing else; the rest of the
\* mailbox moves up.
LEMMA Taken ==
    ASSUME IInv, NEW x, Take(x)
    PROVE  /\ up /\ doing = Nothing /\ doing.tag = "nothing"
           /\ UNCHANGED <<up, timer, executions, returned, crashes, fires>>
           /\ inbox' \in Seq(Message)
           /\ DOMAIN inbox \subseteq Nat
           /\ DOMAIN inbox' \subseteq Nat
           /\ \A i \in DOMAIN inbox' : i + 1 \in DOMAIN inbox
                                       /\ inbox'[i] = inbox[i + 1]
           /\ \A i \in DOMAIN inbox : i # 1 => i - 1 \in DOMAIN inbox'
                                              /\ inbox'[i - 1] = inbox[i]
           /\ 1 \in DOMAIN inbox
           /\ inbox[1] = x
           /\ x \in Message
<1>1. inbox \in Seq(Message)
  BY MailboxTyped DEF IInv
<1>2. /\ up /\ doing = Nothing /\ inbox # << >> /\ Head(inbox) = x
      /\ inbox' = Tail(inbox)
      /\ UNCHANGED <<up, timer, executions, returned, crashes, fires>>
  BY DEF Take
<1> QED BY <1>1, <1>2, TakeMailbox, Shapes

\* A command that does not concern the phase is taken and dropped.
LEMMA DropKeeps ==
    ASSUME IInv, NEW x, Take(x), UNCHANGED <<phase, doing>>,
           phase.tag = "pending" => x.tag # "callback",
           phase.tag = "retry_scheduled" => x.tag # "retry"
    PROVE  IInv'
<1>2. UNCHANGED <<phase, doing, up, timer, executions, returned, crashes, fires>>
  BY Taken
<1>3. /\ up /\ doing = Nothing /\ doing.tag = "nothing"
      /\ inbox' \in Seq(Message)
      /\ DOMAIN inbox \subseteq Nat
      /\ DOMAIN inbox' \subseteq Nat
      /\ \A i \in DOMAIN inbox' : i + 1 \in DOMAIN inbox /\ inbox'[i] = inbox[i + 1]
      /\ \A i \in DOMAIN inbox : i # 1 => i - 1 \in DOMAIN inbox'
                                         /\ inbox'[i - 1] = inbox[i]
      /\ 1 \in DOMAIN inbox
      /\ inbox[1] = x
      /\ x \in Message
  BY Taken
<1>4. TypeOK'
  BY <1>2, <1>3 DEF IInv, TypeOK, Message
<1>5. DownIsEmpty' /\ IdleIsQuiet'
  BY <1>2, <1>3 DEF IInv, DownIsEmpty, IdleIsQuiet, Absent, Holds
<1>6. PendingIsAlone'
  BY <1>2, <1>3 DEF IInv, PendingIsAlone, Absent, Holds
<1>7. RetryIsLast'
  BY <1>2, <1>3 DEF IInv, RetryIsLast, Absent, Holds
<1>8. NotStranded'
  <2>1. CASE phase.tag = "pending"
    <3>1. doing.tag \notin {"execute", "await"}
      BY <1>3
    <3>2. PICK i \in DOMAIN inbox : inbox[i].tag = "callback"
      BY <1>3, <2>1, <3>1 DEF IInv, NotStranded, Inbox
    <3>3. i # 1
      BY <1>3, <2>1, <3>2
    <3> QED BY <1>2, <1>3, <2>1, <3>2, <3>3 DEF NotStranded, Inbox
  <2>2. CASE phase.tag = "retry_scheduled"
    <3>1. CASE timer
      BY <1>2, <2>2, <3>1 DEF NotStranded
    <3>2. CASE ~timer
      <4>1. PICK i \in DOMAIN inbox : inbox[i] = Command("retry")
        BY <1>3, <2>2, <3>2 DEF IInv, NotStranded, Inbox
      <4>2. i # 1
        BY <1>3, <2>2, <4>1, Shapes
      <4> QED BY <1>2, <1>3, <2>2, <4>1, <4>2 DEF NotStranded, Inbox
    <3> QED BY <3>1, <3>2
  <2> QED BY <1>2, <2>1, <2>2 DEF NotStranded
<1> QED BY <1>4, <1>5, <1>6, <1>7, <1>8 DEF IInv

\* The call starts: attempt 1 is journaled and is about to be executed.
LEMMA InitiateKeeps ==
    ASSUME IInv, Initiate
    PROVE  IInv'
<1>1. Take(Command("start")) /\ Command("start").tag = "start"
  BY Shapes DEF Initiate
<1>2. CASE phase.tag # "idle"
  <2>1. UNCHANGED <<phase, doing>>
    BY <1>2 DEF Initiate
  <2> QED BY <1>1, <2>1, DropKeeps
<1>3. CASE phase.tag = "idle"
  <2>1. phase' = [tag |-> "pending", attempt |-> 1] /\ doing' = Task("execute", 1)
    BY <1>3 DEF Initiate, PersistEvent, ApplyEvent, Event, PhaseOf
  <2>2. 1 \in Attempt
    BY SlotAssumption DEF Attempt
  <2>3. /\ up /\ UNCHANGED <<up, timer, executions, returned, crashes, fires>>
        /\ inbox' \in Seq(Message)
        /\ \A i \in DOMAIN inbox' : i + 1 \in DOMAIN inbox
                                    /\ inbox'[i] = inbox[i + 1]
    BY <1>1, Taken
  <2>4. TypeOK'
    BY <2>1, <2>2, <2>3 DEF IInv, TypeOK, Message, Task, Active
  <2>5. PendingIsAlone'
    BY <1>3, <2>1, <2>3 DEF IInv, IdleIsQuiet, PendingIsAlone, Absent, Holds, Task
  <2> QED BY <2>1, <2>3, <2>4, <2>5
          DEF IInv, DownIsEmpty, IdleIsQuiet, RetryIsLast, NotStranded, Task
<1> QED BY <1>2, <1>3

\* fire executes the pending attempt again, and nothing in any other phase.
LEMMA FireKeeps ==
    ASSUME IInv, Fire
    PROVE  IInv'
<1>1. Take(Command("fire")) /\ Command("fire").tag = "fire" /\ UNCHANGED phase
  BY Shapes DEF Fire
<1>2. CASE phase.tag # "pending"
  <2>1. UNCHANGED doing
    BY <1>2 DEF Fire
  <2> QED BY <1>1, <2>1, DropKeeps
<1>3. CASE phase.tag = "pending"
  <2>1. doing' = Task("execute", phase.attempt)
    BY <1>3 DEF Fire
  <2>2. phase.attempt \in Attempt
    BY <1>3 DEF IInv, TypeOK, PhaseOf
  <2>3. /\ up /\ UNCHANGED <<up, timer, executions, returned, crashes, fires>>
        /\ inbox' \in Seq(Message)
        /\ \A i \in DOMAIN inbox' : i + 1 \in DOMAIN inbox
                                    /\ inbox'[i] = inbox[i + 1]
    BY <1>1, Taken
  <2>4. TypeOK'
    BY <1>1, <2>1, <2>2, <2>3 DEF IInv, TypeOK, Message, Task
  <2>5. PendingIsAlone'
    BY <1>1, <1>3, <2>1, <2>3 DEF IInv, PendingIsAlone, Absent, Holds, Task
  <2> QED BY <1>1, <1>3, <2>1, <2>3, <2>4, <2>5
          DEF IInv, DownIsEmpty, IdleIsQuiet, RetryIsLast, NotStranded, Task
<1> QED BY <1>2, <1>3

\* The retry is the last message of the attempt before it: the next attempt
\* starts with no result in the mailbox.
LEMMA HandleRetryKeeps ==
    ASSUME IInv, HandleRetry
    PROVE  IInv'
<1>1. Take(Command("retry")) /\ Command("retry").tag = "retry"
  BY Shapes DEF HandleRetry
<1>2. CASE phase.tag # "retry_scheduled"
  <2>1. UNCHANGED <<phase, doing>>
    BY <1>2 DEF HandleRetry
  <2> QED BY <1>1, <1>2, <2>1, DropKeeps
<1>3. CASE phase.tag = "retry_scheduled"
  <2>1. /\ phase' = [tag |-> "pending", attempt |-> phase.attempt + 1]
        /\ doing' = Task("execute", phase.attempt + 1)
    BY <1>3 DEF HandleRetry, PersistEvent, ApplyEvent, Event, PhaseOf, NextAttempt
  <2>2. phase.attempt + 1 \in Attempt
    BY <1>3, SlotAssumption DEF IInv, TypeOK, PhaseOf, RetryIsLast, Attempt
  <2>3. /\ up /\ UNCHANGED <<up, timer, executions, returned, crashes, fires>>
        /\ inbox' \in Seq(Message)
        /\ \A i \in DOMAIN inbox' : i + 1 \in DOMAIN inbox
                                    /\ inbox'[i] = inbox[i + 1]
        /\ DOMAIN inbox' \subseteq Nat
        /\ 1 \in DOMAIN inbox /\ inbox[1].tag = "retry"
    BY <1>1, Taken
  <2>4. TypeOK'
    BY <2>1, <2>2, <2>3 DEF IInv, TypeOK, Message, Task, Active
  <2>5. ASSUME NEW i \in DOMAIN inbox'
        PROVE  inbox'[i].tag # "retry" /\ inbox'[i].tag # "callback"
    <3>1. 1 < i + 1
      <4>1. i \in 1 .. Len(inbox')
        BY <2>3
      <4> QED BY <4>1
    <3> QED BY <1>3, <2>3, <3>1 DEF IInv, RetryIsLast, Holds
  <2>6. ~timer
    BY <1>3, <2>3 DEF IInv, RetryIsLast, Absent, Holds
  <2>7. PendingIsAlone'
    BY <2>1, <2>3, <2>5, <2>6 DEF PendingIsAlone, Absent, Holds, Task
  <2> QED BY <2>1, <2>3, <2>4, <2>7
          DEF IInv, DownIsEmpty, IdleIsQuiet, RetryIsLast, NotStranded, Task
<1> QED BY <1>2, <1>3

\* handleCallback looks at its result only while an attempt is pending; then it
\* leaves that phase, with a retry to arm or for good.
LEMMA HandleCallbackKeeps ==
    ASSUME IInv, HandleCallback
    PROVE  IInv'
<1>1. PICK n \in Attempt, res \in Result : Take(Callback(n, res))
  BY DEF HandleCallback
<1>2. CASE phase.tag # "pending"
  <2>1. UNCHANGED <<phase, doing>>
    BY <1>2 DEF HandleCallback, AwaitsCallback
  <2>2. Callback(n, res).tag = "callback"
    BY Shapes
  <2> QED BY <1>1, <1>2, <2>1, <2>2, DropKeeps
<1>3. CASE phase.tag = "pending"
  <2>1. phase.attempt \in Attempt
    BY <1>3 DEF IInv, TypeOK, PhaseOf
  <2>2. /\ up /\ UNCHANGED <<up, timer, executions, returned, crashes, fires>>
        /\ doing = Nothing
        /\ inbox' \in Seq(Message)
        /\ \A i \in DOMAIN inbox' : i + 1 \in DOMAIN inbox
                                    /\ inbox'[i] = inbox[i + 1]
    BY <1>1, Taken
  <2>3. ~timer' /\ Absent("retry")'
    BY <1>3, <2>2 DEF IInv, PendingIsAlone, Absent, Holds
  <2>4. CASE /\ MoreAttemptsLeft(phase.attempt)
             /\ phase' = [tag |-> "retry_scheduled", attempt |-> phase.attempt]
             /\ doing' = Task("arm", 0)
    <3>1. TypeOK'
      BY <2>1, <2>2, <2>4 DEF IInv, TypeOK, Message, Active
    <3>2. RetryIsLast'
      BY <2>3, <2>4 DEF RetryIsLast, Absent, Holds, Task, MoreAttemptsLeft
    <3> QED BY <2>2, <2>4, <3>1, <3>2
            DEF IInv, DownIsEmpty, IdleIsQuiet, PendingIsAlone, NotStranded, Task
  <2>5. CASE /\ UNCHANGED doing
             /\ \E t \in Terminal : phase' = [tag |-> t, attempt |-> phase.attempt]
    <3>1. PICK t \in Terminal : phase' = [tag |-> t, attempt |-> phase.attempt]
      BY <2>5
    <3>2. phase' \in [tag : Active \cup Terminal, attempt : Attempt]
      BY <2>1, <3>1
    <3>3. TypeOK'
      BY <2>2, <2>5, <3>2 DEF IInv, TypeOK, Message
    <3>4. phase'.tag \notin {"idle", "pending", "retry_scheduled"}
      BY <3>1 DEF Terminal
    <3> QED BY <2>2, <3>3, <3>4
            DEF IInv, DownIsEmpty, IdleIsQuiet, PendingIsAlone, RetryIsLast,
                NotStranded
  <2> QED BY <1>3, <2>4, <2>5 DEF HandleCallback, AwaitsCallback, PersistEvent,
             ApplyEvent, Event, PhaseOf, Terminal
<1> QED BY <1>2, <1>3

-----------------------------------------------------------------------------
\* The call goes out.
LEMMA ExecuteKeeps ==
    ASSUME IInv, Execute
    PROVE  IInv'
<1>1. /\ doing.tag = "execute"
      /\ doing' = [tag |-> "await", attempt |-> doing.attempt]
      /\ executions' = executions + 1
      /\ UNCHANGED <<phase, up, inbox, timer, returned, crashes, fires>>
  BY DEF Execute, Task
<1>2. doing.attempt \in Attempt
  BY <1>1 DEF IInv, TypeOK, Nothing, Task
<1>3. TypeOK'
  BY <1>1, <1>2 DEF IInv, TypeOK
<1>4. up /\ phase.tag \notin {"idle", "retry_scheduled"}
  BY <1>1, Shapes DEF IInv, DownIsEmpty, IdleIsQuiet, RetryIsLast
<1> QED BY <1>1, <1>3, <1>4 DEF IInv, DownIsEmpty, IdleIsQuiet, PendingIsAlone,
                                RetryIsLast, NotStranded, Absent, Holds

\* Its result goes to the mailbox, under the attempt it was executed for.
LEMMA ReturnsKeeps ==
    ASSUME IInv, NEW res \in Result, Returns(res)
    PROVE  IInv'
<1> DEFINE x == Callback(doing.attempt, res)
<1>1. /\ doing.tag = "await" /\ doing' = Nothing /\ doing'.tag = "nothing"
      /\ inbox' = Append(inbox, x)
      /\ returned' = returned \cup {<<doing.attempt, res>>}
      /\ UNCHANGED <<phase, up, timer, executions, crashes, fires>>
  BY Shapes DEF Returns
<1>2. doing.attempt \in Attempt
  BY <1>1 DEF IInv, TypeOK, Nothing, Task
<1>3. x \in Message /\ x.tag = "callback" /\ x.attempt = doing.attempt
  BY <1>2, Shapes
<1> HIDE DEF x
<1>4. inbox \in Seq(Message)
  BY MailboxTyped DEF IInv
<1>5. /\ inbox' \in Seq(Message)
      /\ DOMAIN inbox' = DOMAIN inbox \cup {Len(inbox) + 1}
      /\ \A i \in DOMAIN inbox : inbox'[i] = inbox[i] /\ i <= Len(inbox)
      /\ inbox'[Len(inbox) + 1] = x
  BY <1>1, <1>3, <1>4, OfferMailbox
<1>6. up /\ phase.tag \notin {"idle", "retry_scheduled"}
  BY <1>1, Shapes DEF IInv, DownIsEmpty, IdleIsQuiet, RetryIsLast
<1>7. TypeOK'
  BY <1>1, <1>2, <1>5 DEF IInv, TypeOK, Message
<1>8. PendingIsAlone'
  BY <1>1, <1>3, <1>5 DEF IInv, PendingIsAlone, Absent, Holds
<1>9. NotStranded'
  <2>1. \E y \in Inbox' : y.tag = "callback"
    BY <1>3, <1>5 DEF Inbox
  <2> QED BY <1>1, <1>6, <2>1 DEF NotStranded
<1> QED BY <1>1, <1>6, <1>7, <1>8, <1>9
        DEF IInv, DownIsEmpty, IdleIsQuiet, RetryIsLast

\* The retry timer is set.
LEMMA ArmKeeps ==
    ASSUME IInv, Arm
    PROVE  IInv'
<1>1. /\ doing.tag = "arm" /\ doing' = Nothing /\ doing'.tag = "nothing"
      /\ timer' = TRUE
      /\ UNCHANGED <<phase, up, inbox, executions, returned, crashes, fires>>
  BY Shapes DEF Arm
<1>2. up /\ phase.tag \notin {"idle", "pending"}
  BY <1>1, Shapes DEF IInv, DownIsEmpty, IdleIsQuiet, PendingIsAlone
<1>3. TypeOK'
  BY <1>1 DEF IInv, TypeOK
<1> QED BY <1>1, <1>2, <1>3 DEF IInv, DownIsEmpty, IdleIsQuiet, PendingIsAlone,
                                RetryIsLast, NotStranded, Absent, Holds

\* The timer fires, behind every result in the mailbox.
LEMMA TimerFiresKeeps ==
    ASSUME IInv, TimerFires
    PROVE  IInv'
<1> DEFINE x == Command("retry")
<1>1. /\ timer /\ timer' = FALSE /\ inbox' = Append(inbox, x)
      /\ UNCHANGED <<phase, up, doing, executions, returned, crashes, fires>>
  BY DEF TimerFires
<1>2. x \in Message /\ x.tag = "retry"
  BY Shapes
<1> HIDE DEF x
<1>3. inbox \in Seq(Message)
  BY MailboxTyped DEF IInv
<1>4. /\ inbox' \in Seq(Message)
      /\ DOMAIN inbox' = DOMAIN inbox \cup {Len(inbox) + 1}
      /\ \A i \in DOMAIN inbox : inbox'[i] = inbox[i] /\ i <= Len(inbox)
      /\ inbox'[Len(inbox) + 1] = x
      /\ DOMAIN inbox \subseteq Nat
      /\ Len(inbox) \in Nat
  BY <1>1, <1>2, <1>3, OfferMailbox
<1>5. up /\ phase.tag \notin {"idle", "pending"}
  BY <1>1 DEF IInv, DownIsEmpty, IdleIsQuiet, PendingIsAlone
<1>6. TypeOK'
  BY <1>1, <1>4 DEF IInv, TypeOK, Message
<1>7. RetryIsLast'
  BY <1>1, <1>4 DEF IInv, RetryIsLast, Absent, Holds
<1>8. NotStranded'
  <2>1. Command("retry") \in Inbox'
    BY <1>4 DEF Inbox, x
  <2> QED BY <1>1, <1>5, <2>1 DEF NotStranded
<1> QED BY <1>1, <1>5, <1>6, <1>7, <1>8
        DEF IInv, DownIsEmpty, IdleIsQuiet, PendingIsAlone

\* A crash leaves the journaled phase.
LEMMA CrashKeeps ==
    ASSUME IInv, Crash
    PROVE  IInv'
<1>1. /\ ~up' /\ inbox' = << >> /\ doing' = Nothing /\ doing'.tag = "nothing"
      /\ ~timer' /\ up' \in BOOLEAN /\ timer' \in BOOLEAN /\ crashes' = crashes + 1
      /\ UNCHANGED <<phase, executions, returned, fires>>
  BY Shapes DEF Crash
<1>2. inbox' \in Seq(Message) /\ DOMAIN inbox' = {}
  BY <1>1
<1>3. TypeOK'
  BY <1>1, <1>2 DEF IInv, TypeOK, Message
<1> QED BY <1>1, <1>2, <1>3 DEF IInv, DownIsEmpty, IdleIsQuiet, PendingIsAlone,
                                RetryIsLast, NotStranded, Absent, Holds

\* Recovery takes an unfinished call up where the journal left it.
LEMMA RecoverKeeps ==
    ASSUME IInv, Recover
    PROVE  IInv'
<1>1. /\ ~up /\ up' = TRUE /\ doing' = RecoveryTask
      /\ UNCHANGED <<phase, inbox, timer, executions, returned, crashes, fires>>
      /\ inbox = << >> /\ ~timer /\ DOMAIN inbox = {}
  BY DEF Recover, IInv, DownIsEmpty
<1>2. CASE phase.tag = "pending"
  <2>1. doing' = [tag |-> "execute", attempt |-> phase.attempt]
    BY <1>1, <1>2 DEF RecoveryTask, Task
  <2>2. phase.attempt \in Attempt
    BY <1>2 DEF IInv, TypeOK, PhaseOf
  <2>3. TypeOK'
    BY <1>1, <2>1, <2>2 DEF IInv, TypeOK
  <2> QED BY <1>1, <1>2, <2>1, <2>3 DEF IInv, DownIsEmpty, IdleIsQuiet,
             PendingIsAlone, RetryIsLast, NotStranded, Absent, Holds
<1>3. CASE phase.tag = "retry_scheduled"
  <2>1. doing' = Task("arm", 0) /\ doing'.tag = "arm"
    BY <1>1, <1>3 DEF RecoveryTask, Task
  <2>2. TypeOK'
    BY <1>1, <2>1 DEF IInv, TypeOK
  <2> QED BY <1>1, <1>3, <2>1, <2>2 DEF IInv, DownIsEmpty, IdleIsQuiet,
             PendingIsAlone, RetryIsLast, NotStranded, Absent, Holds
<1>4. CASE phase.tag \notin {"pending", "retry_scheduled"}
  <2>1. doing' = Nothing
    BY <1>1, <1>4 DEF RecoveryTask
  <2>2. TypeOK'
    BY <1>1, <2>1 DEF IInv, TypeOK
  <2> QED BY <1>1, <1>4, <2>1, <2>2 DEF IInv, DownIsEmpty, IdleIsQuiet,
             PendingIsAlone, RetryIsLast, NotStranded, Absent, Holds
<1> QED BY <1>2, <1>3, <1>4

-----------------------------------------------------------------------------
\* Every step of the slot and its runner keeps the invariant.
LEMMA NextKeeps == IInv /\ [Next]_vars => IInv'
<1> SUFFICES ASSUME IInv, [Next]_vars PROVE IInv'
  OBVIOUS
<1>1. ASSUME Handle PROVE IInv'
  BY <1>1, InitiateKeeps, FireKeeps, HandleCallbackKeeps, HandleRetryKeeps DEF Handle
<1>2. ASSUME Work PROVE IInv'
  BY <1>2, ExecuteKeeps, ArmKeeps, ReturnsKeeps DEF Work
<1>3. ASSUME UNCHANGED vars PROVE IInv'
  BY <1>3 DEF vars, IInv, TypeOK, DownIsEmpty, IdleIsQuiet, PendingIsAlone,
              RetryIsLast, NotStranded, Absent, Holds, Inbox
<1> QED BY <1>1, <1>2, <1>3, SendKeeps, TimerFiresKeeps, CrashKeeps, RecoverKeeps
        DEF Next

\* The invariant holds in every reachable state.
THEOREM SlotInvariance == Spec => []IInv
BY InitIInv, NextKeeps, PTL DEF Spec

\* Attempts stay within maxAttempts, and mailbox and tasks keep their shapes.
THEOREM SlotTypeCorrect == Spec => []TypeOK
<1>1. IInv => TypeOK
  BY DEF IInv
<1> QED BY SlotInvariance, <1>1, PTL

\* handleCallback may take the attempt from the phase: while an attempt is
\* pending, every result in the mailbox is of that attempt.
THEOREM ResultsMatchAttempt == Spec => []ResultsOfThisAttempt
<1>1. IInv => ResultsOfThisAttempt
  BY DEF IInv, PendingIsAlone, ResultsOfThisAttempt, Holds, Inbox
<1> QED BY SlotInvariance, <1>1, PTL

\* Timers, callbacks, crashes and recovery never leave an unfinished call with
\* nothing to carry it on.
THEOREM NeverStranded == Spec => []NotStranded
<1>1. IInv => NotStranded
  BY DEF IInv
<1> QED BY SlotInvariance, <1>1, PTL

-----------------------------------------------------------------------------
\* A result in the mailbox was returned by the gateway.
ResultsAreReturned ==
    \A i \in DOMAIN inbox :
        Holds(i, "callback") => <<inbox[i].attempt, inbox[i].result>> \in returned

\* Every attempt before the present one failed, and is on record as such.
EarlierFailed ==
    /\ phase.tag = "pending" =>
          \A n \in Attempt : n < phase.attempt => <<n, "transient">> \in returned
    /\ phase.tag = "retry_scheduled" =>
          \A n \in Attempt : n <= phase.attempt => <<n, "transient">> \in returned

OutcomeInv == ResultsAreReturned /\ EarlierFailed /\ OutcomeIsReal

\* Steps that leave the phase alone, forget no answer and put no unreturned
\* result into the mailbox.
LEMMA SamePhaseKeepsOutcome ==
    ASSUME OutcomeInv, UNCHANGED phase, returned \subseteq returned',
           ResultsAreReturned'
    PROVE  OutcomeInv'
BY DEF OutcomeInv, EarlierFailed, OutcomeIsReal

\* Taking a message leaves the others as they were.
LEMMA TakeKeepsResults ==
    ASSUME IInv, OutcomeInv, NEW x, Take(x)
    PROVE  ResultsAreReturned' /\ UNCHANGED returned
BY Taken DEF OutcomeInv, ResultsAreReturned, Holds

\* handleCallback turns the answer it was given into the outcome.
LEMMA CallbackKeepsOutcome ==
    ASSUME IInv, OutcomeInv, HandleCallback
    PROVE  OutcomeInv'
<1>1. PICK n \in Attempt, res \in Result :
         /\ Take(Callback(n, res))
         /\ IF ~AwaitsCallback
            THEN UNCHANGED <<phase, doing>>
            ELSE \/ /\ res = "success"
                    /\ PersistEvent("call_succeeded", phase.attempt)
                    /\ UNCHANGED doing
                 \/ /\ res = "transient"
                    /\ MoreAttemptsLeft(phase.attempt)
                    /\ PersistEvent("call_failed_will_retry", phase.attempt)
                    /\ doing' = Task("arm", 0)
                 \/ /\ res = "transient"
                    /\ ~MoreAttemptsLeft(phase.attempt)
                    /\ PersistEvent("call_exhausted", phase.attempt)
                    /\ UNCHANGED doing
                 \/ /\ res = "fatal"
                    /\ PersistEvent("call_failed", phase.attempt)
                    /\ UNCHANGED doing
  BY DEF HandleCallback
<1>2. ResultsAreReturned' /\ UNCHANGED returned
  BY <1>1, TakeKeepsResults
<1>3. CASE phase.tag # "pending"
  <2>1. UNCHANGED phase
    BY <1>1, <1>3 DEF AwaitsCallback
  <2> QED BY <1>2, <2>1, SamePhaseKeepsOutcome
<1>4. CASE phase.tag = "pending"
  <2>1. phase.attempt \in Attempt /\ phase.attempt \in Nat
    BY <1>4 DEF IInv, TypeOK, PhaseOf, Attempt
  <2>2. <<phase.attempt, res>> \in returned
    <3>1. /\ 1 \in DOMAIN inbox /\ inbox[1] = Callback(n, res)
          /\ inbox[1].tag = "callback" /\ inbox[1].attempt = n
          /\ inbox[1].result = res
      BY <1>1, Taken, Shapes
    <3>2. n = phase.attempt
      BY <1>4, <3>1 DEF IInv, PendingIsAlone, Holds
    <3> QED BY <3>1, <3>2 DEF OutcomeInv, ResultsAreReturned, Holds
  <2>3. \A j \in Attempt : j < phase.attempt => <<j, "transient">> \in returned
    BY <1>4 DEF OutcomeInv, EarlierFailed
  <2>4. CASE res = "success" /\ PersistEvent("call_succeeded", phase.attempt)
    <3>1. phase' = [tag |-> "succeeded", attempt |-> phase.attempt]
      BY <2>4 DEF PersistEvent, ApplyEvent, Event, PhaseOf
    <3> QED BY <1>2, <2>2, <2>4, <3>1 DEF OutcomeInv, EarlierFailed, OutcomeIsReal
  <2>5. CASE res = "fatal" /\ PersistEvent("call_failed", phase.attempt)
    <3>1. phase' = [tag |-> "permanent_failure", attempt |-> phase.attempt]
      BY <2>5 DEF PersistEvent, ApplyEvent, Event, PhaseOf
    <3> QED BY <1>2, <2>2, <2>5, <3>1 DEF OutcomeInv, EarlierFailed, OutcomeIsReal
  <2>6. CASE /\ res = "transient"
             /\ PersistEvent("call_failed_will_retry", phase.attempt)
    <3>1. phase' = [tag |-> "retry_scheduled", attempt |-> phase.attempt]
      BY <2>6 DEF PersistEvent, ApplyEvent, Event, PhaseOf
    <3>2. \A j \in Attempt : j <= phase.attempt => <<j, "transient">> \in returned
      BY <2>1, <2>2, <2>3, <2>6 DEF Attempt
    <3> QED BY <1>2, <3>1, <3>2 DEF OutcomeInv, EarlierFailed, OutcomeIsReal
  <2>7. CASE /\ res = "transient" /\ ~MoreAttemptsLeft(phase.attempt)
             /\ PersistEvent("call_exhausted", phase.attempt)
    <3>1. phase' = [tag |-> "exhausted", attempt |-> phase.attempt]
      BY <2>7 DEF PersistEvent, ApplyEvent, Event, PhaseOf
    <3>2. \A j \in Attempt : j < phase.attempt \/ j = phase.attempt
      BY <2>1, <2>7, SlotAssumption DEF Attempt, MoreAttemptsLeft
    <3>3. \A j \in Attempt : <<j, "transient">> \in returned
      BY <2>2, <2>3, <2>7, <3>2
    <3> QED BY <1>2, <3>1, <3>3 DEF OutcomeInv, EarlierFailed, OutcomeIsReal
  <2> QED BY <1>1, <1>4, <2>4, <2>5, <2>6, <2>7 DEF AwaitsCallback
<1> QED BY <1>3, <1>4

\* Every step keeps the record of answers and outcomes.
LEMMA NextKeepsOutcome == IInv /\ OutcomeInv /\ [Next]_vars => OutcomeInv'
<1> SUFFICES ASSUME IInv, OutcomeInv, [Next]_vars PROVE OutcomeInv'
  OBVIOUS
<1>1. inbox \in Seq(Message)
  BY MailboxTyped DEF IInv
<1>2. ASSUME Initiate PROVE OutcomeInv'
  <2>1. Take(Command("start"))
    BY <1>2 DEF Initiate
  <2>2. ResultsAreReturned' /\ UNCHANGED returned
    BY <2>1, TakeKeepsResults
  <2>3. CASE phase.tag = "idle"
    <3>1. phase' = [tag |-> "pending", attempt |-> 1]
      BY <1>2, <2>3 DEF Initiate, PersistEvent, ApplyEvent, Event, PhaseOf
    <3> QED BY <2>2, <3>1 DEF OutcomeInv, EarlierFailed, OutcomeIsReal, Attempt
  <2>4. CASE phase.tag # "idle"
    BY <1>2, <2>2, <2>4, SamePhaseKeepsOutcome DEF Initiate
  <2> QED BY <2>3, <2>4
<1>3. ASSUME Fire PROVE OutcomeInv'
  BY <1>3, TakeKeepsResults, SamePhaseKeepsOutcome DEF Fire
<1>4. ASSUME HandleRetry PROVE OutcomeInv'
  <2>1. Take(Command("retry"))
    BY <1>4 DEF HandleRetry
  <2>2. ResultsAreReturned' /\ UNCHANGED returned
    BY <2>1, TakeKeepsResults
  <2>3. CASE phase.tag = "retry_scheduled"
    <3>1. phase' = [tag |-> "pending", attempt |-> phase.attempt + 1]
      BY <1>4, <2>3 DEF HandleRetry, PersistEvent, ApplyEvent, Event, PhaseOf,
                        NextAttempt
    <3>2. phase.attempt \in Nat
      BY <2>3 DEF IInv, TypeOK, PhaseOf, Attempt
    <3>3. \A j \in Attempt :
             j < phase.attempt + 1 => <<j, "transient">> \in returned
      BY <2>3, <3>2 DEF OutcomeInv, EarlierFailed, Attempt
    <3> QED BY <2>2, <3>1, <3>3 DEF OutcomeInv, EarlierFailed, OutcomeIsReal
  <2>4. CASE phase.tag # "retry_scheduled"
    BY <1>4, <2>2, <2>4, SamePhaseKeepsOutcome DEF HandleRetry
  <2> QED BY <2>3, <2>4
<1>5. ASSUME NEW res \in Result, Returns(res) PROVE OutcomeInv'
  <2> DEFINE x == Callback(doing.attempt, res)
  <2>1. /\ inbox' = Append(inbox, x) /\ UNCHANGED phase
        /\ returned' = returned \cup {<<doing.attempt, res>>}
        /\ doing.attempt \in Attempt
    BY <1>5 DEF Returns, IInv, TypeOK, Nothing, Task
  <2>2. x \in Message /\ x.attempt = doing.attempt /\ x.result = res
    BY <2>1, Shapes
  <2> HIDE DEF x
  <2>3. /\ DOMAIN inbox' = DOMAIN inbox \cup {Len(inbox) + 1}
        /\ \A i \in DOMAIN inbox : inbox'[i] = inbox[i]
        /\ inbox'[Len(inbox) + 1] = x
    BY <1>1, <2>1, <2>2, OfferMailbox
  <2>4. ResultsAreReturned'
    BY <2>1, <2>2, <2>3 DEF OutcomeInv, ResultsAreReturned, Holds
  <2> QED BY <2>1, <2>4, SamePhaseKeepsOutcome
<1>6. ASSUME SendStart \/ SendFire \/ TimerFires PROVE OutcomeInv'
  <2>1. PICK x \in {Command("start"), Command("fire"), Command("retry")} :
           inbox' = Append(inbox, x) /\ UNCHANGED <<phase, returned>>
    BY <1>6 DEF SendStart, SendFire, TimerFires
  <2>2. x \in Message /\ x.tag # "callback"
    BY Shapes
  <2>3. /\ DOMAIN inbox' = DOMAIN inbox \cup {Len(inbox) + 1}
        /\ \A i \in DOMAIN inbox : inbox'[i] = inbox[i]
        /\ inbox'[Len(inbox) + 1] = x
    BY <1>1, <2>1, <2>2, OfferMailbox
  <2>4. ResultsAreReturned'
    BY <2>1, <2>2, <2>3 DEF OutcomeInv, ResultsAreReturned, Holds
  <2> QED BY <2>1, <2>4, SamePhaseKeepsOutcome
<1>7. ASSUME Crash PROVE OutcomeInv'
  <2>1. DOMAIN inbox' = {} /\ UNCHANGED <<phase, returned>>
    BY <1>7 DEF Crash
  <2>2. ResultsAreReturned'
    BY <2>1 DEF ResultsAreReturned
  <2> QED BY <2>1, <2>2, SamePhaseKeepsOutcome
<1>8. ASSUME Execute \/ Arm \/ Recover \/ UNCHANGED vars PROVE OutcomeInv'
  <2>1. UNCHANGED <<phase, inbox, returned>>
    BY <1>8 DEF Execute, Arm, Recover, vars
  <2> QED BY <2>1, SamePhaseKeepsOutcome DEF OutcomeInv, ResultsAreReturned, Holds
<1> QED BY <1>2, <1>3, <1>4, <1>5, <1>6, <1>7, <1>8, CallbackKeepsOutcome
        DEF Next, Handle, Work

\* The journaled outcome is the external system's own answer: success and
\* permanent failure were returned, and an exhausted call failed every time.
THEOREM OutcomesAreReal == Spec => []OutcomeIsReal
<1>1. Init => OutcomeInv
  BY DEF Init, OutcomeInv, ResultsAreReturned, EarlierFailed, OutcomeIsReal, PhaseOf
<1>2. OutcomeInv => OutcomeIsReal
  BY DEF OutcomeInv
<1> QED BY SlotInvariance, <1>1, <1>2, NextKeepsOutcome, PTL DEF Spec

\* A finished call stays as it is, whatever arrives late.
THEOREM TerminalPhasesAreFinal == Spec => TerminalIsFinal
<1>1. [Next]_vars => [phase.tag \in Terminal => phase' = phase]_vars
  <2> SUFFICES ASSUME [Next]_vars, phase.tag \in Terminal PROVE phase' = phase
    OBVIOUS
  <2>1. phase.tag \notin {"idle", "pending", "retry_scheduled"}
    BY DEF Terminal
  <2>2. Handle => UNCHANGED phase
    BY <2>1 DEF Handle, Initiate, Fire, HandleCallback, HandleRetry, AwaitsCallback
  <2>3. Work => UNCHANGED phase
    BY DEF Work, Execute, Arm, Returns
  <2> QED BY <2>2, <2>3 DEF Next, SendStart, SendFire, TimerFires, Crash, Recover,
                            vars
<1> QED BY <1>1, PTL DEF Spec, TerminalIsFinal

-----------------------------------------------------------------------------
(* How often the external system is called.                                 *)

\* The fire commands of a mailbox.
FiresIn(box) == {i \in DOMAIN box : box[i].tag = "fire"}

\* What may still become an execution: the call about to be made, the recovery of an entity
\* that is down, and the fire commands that wait.
ToCome ==
    /\ executions + (IF doing.tag = "execute" THEN 1 ELSE 0) + (IF up THEN 0 ELSE 1)
         + Cardinality(FiresIn(inbox)) <= phase.attempt + crashes + fires
    /\ phase.attempt \in Nat

\* A mailbox holds finitely many fires.
LEMMA FiresFinite ==
    ASSUME NEW box \in Seq(Message)
    PROVE  IsFiniteSet(FiresIn(box)) /\ Cardinality(FiresIn(box)) \in Nat
<1>1. DOMAIN box = 1 .. Len(box) /\ Len(box) \in Nat
  OBVIOUS
<1>2. IsFiniteSet(DOMAIN box)
  BY <1>1, FS_Interval
<1>3. IsFiniteSet(FiresIn(box))
  BY <1>2, FS_Subset DEF FiresIn
<1> QED BY <1>3, FS_CardinalityType

\* A message that is offered adds to the fires only if it is one.
LEMMA FiresOffered ==
    ASSUME NEW box \in Seq(Message), NEW x \in Message
    PROVE  /\ x.tag = "fire" => Cardinality(FiresIn(Append(box, x))) = Cardinality(FiresIn(box)) + 1
           /\ x.tag # "fire" => Cardinality(FiresIn(Append(box, x))) = Cardinality(FiresIn(box))
<1> DEFINE new == Append(box, x)
<1>1. /\ DOMAIN new = DOMAIN box \cup {Len(box) + 1} /\ Len(box) + 1 \notin DOMAIN box
      /\ new[Len(box) + 1] = x /\ \A i \in DOMAIN box : new[i] = box[i]
  OBVIOUS
<1> HIDE DEF new
<1>2. CASE x.tag = "fire"
  <2>1. FiresIn(new) = FiresIn(box) \cup {Len(box) + 1} /\ Len(box) + 1 \notin FiresIn(box)
    BY <1>1, <1>2 DEF FiresIn
  <2>2. Cardinality(FiresIn(new)) = Cardinality(FiresIn(box)) + 1
    BY <2>1, FiresFinite, FS_AddElement
  <2> QED BY <1>2, <2>2 DEF new
<1>3. CASE x.tag # "fire"
  <2>1. FiresIn(new) = FiresIn(box)
    BY <1>1, <1>3 DEF FiresIn
  <2> QED BY <1>3, <2>1 DEF new
<1> QED BY <1>2, <1>3

\* The message that is taken takes its own share of the fires with it.
LEMMA FiresTaken ==
    ASSUME NEW box \in Seq(Message), box # << >>
    PROVE  /\ Cardinality(FiresIn(Tail(box))) <= Cardinality(FiresIn(box))
           /\ box[1].tag = "fire" => Cardinality(FiresIn(Tail(box))) = Cardinality(FiresIn(box)) - 1
<1> DEFINE rest == Tail(box)
           S == FiresIn(box) \ {1}
           T == FiresIn(rest)
           f == [i \in S |-> i - 1]
<1>1. /\ rest \in Seq(Message) /\ DOMAIN box \subseteq Nat /\ DOMAIN rest \subseteq Nat
      /\ \A i \in DOMAIN rest : i + 1 \in DOMAIN box /\ i + 1 # 1 /\ rest[i] = box[i + 1]
      /\ \A i \in DOMAIN box : i # 1 => i - 1 \in DOMAIN rest /\ rest[i - 1] = box[i]
      /\ 1 \in DOMAIN box
  OBVIOUS
<1> HIDE DEF rest
<1>10. \A i : i \in S <=> i \in DOMAIN box /\ box[i].tag = "fire" /\ i # 1
  BY DEF FiresIn
<1>11. \A t : t \in T <=> t \in DOMAIN rest /\ rest[t].tag = "fire"
  BY DEF FiresIn
<1> HIDE DEF S, T
<1>2. f \in [S -> T]
  <2> SUFFICES ASSUME NEW i \in S PROVE i - 1 \in T
    OBVIOUS
  <2>1. i \in DOMAIN box /\ box[i].tag = "fire" /\ i # 1
    BY <1>10
  <2>2. i - 1 \in DOMAIN rest /\ rest[i - 1] = box[i]
    BY <1>1, <2>1
  <2> QED BY <1>11, <2>1, <2>2
<1>3. \A a, b \in S : f[a] = f[b] => a = b
  <2> SUFFICES ASSUME NEW a \in S, NEW b \in S, f[a] = f[b] PROVE a = b
    OBVIOUS
  <2>1. a \in Nat /\ b \in Nat
    BY <1>1, <1>10
  <2>2. a - 1 = b - 1
    OBVIOUS
  <2> HIDE DEF f
  <2> QED BY <2>1, <2>2
<1>4. \A t \in T : \E i \in S : f[i] = t
  <2> SUFFICES ASSUME NEW t \in T PROVE \E i \in S : f[i] = t
    OBVIOUS
  <2>1. t \in DOMAIN rest /\ rest[t].tag = "fire"
    BY <1>11
  <2>2. t + 1 \in DOMAIN box /\ t + 1 # 1 /\ rest[t] = box[t + 1]
    BY <1>1, <2>1
  <2>3. t + 1 \in S
    BY <1>10, <2>1, <2>2
  <2>4. (t + 1) - 1 = t
    <3>1. t \in Nat
      BY <1>1, <2>1
    <3> QED BY <3>1
  <2>5. f[t + 1] = t
    BY <2>3, <2>4
  <2> QED BY <2>3, <2>5
<1>5. ExistsBijection(S, T)
  <2>1. f \in Bijection(S, T)
    <3> HIDE DEF f, S, T
    <3>1. f \in Injection(S, T)
      BY <1>2, <1>3 DEF Injection, IsInjective
    <3>2. f \in Surjection(S, T)
      BY <1>2, <1>4 DEF Surjection
    <3> QED BY <3>1, <3>2 DEF Bijection
  <2> QED BY <2>1 DEF ExistsBijection
<1>6. IsFiniteSet(FiresIn(box)) /\ Cardinality(FiresIn(box)) \in Nat
  BY FiresFinite
<1>7. IsFiniteSet(S) /\ Cardinality(S) = IF 1 \in FiresIn(box) THEN Cardinality(FiresIn(box)) - 1
                                                               ELSE Cardinality(FiresIn(box))
  BY <1>6, FS_RemoveElement DEF S
<1>8. Cardinality(T) = Cardinality(S)
  BY <1>5, <1>7, FS_Bijection
<1>9. 1 \in FiresIn(box) <=> box[1].tag = "fire"
  BY <1>1 DEF FiresIn
<1> QED BY <1>6, <1>7, <1>8, <1>9 DEF rest, T

\* Taking a command neither makes nor promises an execution.
TookQuietly(x) ==
    /\ executions' = executions /\ crashes' = crashes /\ fires' = fires /\ up' = up
    /\ up = TRUE /\ doing.tag = "nothing" /\ x = inbox[1]
    /\ executions \in Nat /\ crashes \in Nat /\ fires \in Nat
    /\ Cardinality(FiresIn(inbox)) \in Nat /\ Cardinality(FiresIn(inbox')) \in Nat
    /\ Cardinality(FiresIn(inbox')) <= Cardinality(FiresIn(inbox))
    /\ x.tag = "fire" => Cardinality(FiresIn(inbox')) = Cardinality(FiresIn(inbox)) - 1
    /\ executions + Cardinality(FiresIn(inbox)) <= phase.attempt + crashes + fires

LEMMA TakeToCome ==
    ASSUME IInv, ToCome, NEW x, Take(x)
    PROVE  TookQuietly(x)
<1>1. inbox \in Seq(Message) /\ inbox # << >> /\ inbox' = Tail(inbox) /\ up = TRUE
  BY MailboxTyped DEF IInv, Take, TypeOK
<1>2. /\ UNCHANGED <<up, executions, crashes, fires>> /\ doing.tag = "nothing" /\ x = inbox[1]
      /\ inbox' \in Seq(Message)
  BY Taken
<1>3. /\ Cardinality(FiresIn(inbox')) <= Cardinality(FiresIn(inbox))
      /\ x.tag = "fire" => Cardinality(FiresIn(inbox')) = Cardinality(FiresIn(inbox)) - 1
  BY <1>1, <1>2, FiresTaken
<1>4. Cardinality(FiresIn(inbox)) \in Nat /\ Cardinality(FiresIn(inbox')) \in Nat
  BY <1>1, <1>2, FiresFinite
<1>5. executions \in Nat /\ crashes \in Nat /\ fires \in Nat
  BY DEF IInv, TypeOK
<1>6. executions + Cardinality(FiresIn(inbox)) <= phase.attempt + crashes + fires
  BY <1>1, <1>2, <1>4, <1>5 DEF ToCome
<1> QED BY <1>1, <1>2, <1>3, <1>4, <1>5, <1>6 DEF TookQuietly

\* A handler starts an execution only with a new attempt or with a fire.
LEMMA HandleToCome ==
    ASSUME IInv, ToCome, Handle
    PROVE  ToCome'
<1>1. phase.attempt \in Nat
  BY DEF ToCome
<1>2. CASE Initiate
  <2>1. TookQuietly(Command("start"))
    BY TakeToCome, <1>2 DEF Initiate
  <2>2. CASE phase.tag = "idle"
    <3>1. phase'.attempt = 1 /\ doing'.tag = "execute"
      BY <1>2, <2>2 DEF Initiate, PersistEvent, ApplyEvent, Event, PhaseOf, Task
    <3>2. phase.attempt = 0
      BY <2>2 DEF IInv, TypeOK, PhaseOf, Active, Terminal
    <3> QED BY <2>1, <3>1, <3>2 DEF ToCome, TookQuietly
  <2>3. CASE phase.tag # "idle"
    BY <1>1, <1>2, <2>1, <2>3 DEF Initiate, ToCome, TookQuietly
  <2> QED BY <2>2, <2>3
<1>3. CASE Fire
  <2>1. TookQuietly(Command("fire")) /\ phase' = phase
    BY <1>3, TakeToCome DEF Fire
  <2>2. Command("fire").tag = "fire"
    BY Shapes
  <2>3. doing'.tag \in {"execute", "nothing"}
    BY <1>3, <2>1 DEF Fire, Task, TookQuietly
  <2> QED BY <1>1, <2>1, <2>2, <2>3 DEF ToCome, TookQuietly
<1>4. CASE HandleCallback
  <2>1. PICK n \in Attempt, res \in Result : TookQuietly(Callback(n, res))
    BY <1>4, TakeToCome DEF HandleCallback
  <2>2. phase'.attempt = phase.attempt /\ doing'.tag # "execute"
    <3>1. doing.tag # "execute"
      BY <2>1 DEF TookQuietly
    <3>2. \/ phase' = phase /\ doing' = doing
          \/ PersistEvent("call_succeeded", phase.attempt) /\ doing' = doing
          \/ PersistEvent("call_failed_will_retry", phase.attempt) /\ doing' = Task("arm", 0)
          \/ PersistEvent("call_exhausted", phase.attempt) /\ doing' = doing
          \/ PersistEvent("call_failed", phase.attempt) /\ doing' = doing
      BY <1>4 DEF HandleCallback
    <3> QED BY <3>1, <3>2 DEF PersistEvent, ApplyEvent, Event, PhaseOf, Task
  <2> QED BY <1>1, <2>1, <2>2 DEF ToCome, TookQuietly
<1>5. CASE HandleRetry
  <2>1. TookQuietly(Command("retry"))
    BY TakeToCome, <1>5 DEF HandleRetry
  <2>2. CASE phase.tag = "retry_scheduled"
    <3>1. phase'.attempt = phase.attempt + 1 /\ doing'.tag = "execute"
      BY <1>5, <2>2 DEF HandleRetry, PersistEvent, ApplyEvent, Event, PhaseOf, Task, NextAttempt
    <3> QED BY <1>1, <2>1, <3>1 DEF ToCome, TookQuietly
  <2>3. CASE phase.tag # "retry_scheduled"
    BY <1>1, <1>5, <2>1, <2>3 DEF HandleRetry, ToCome, TookQuietly
  <2> QED BY <2>2, <2>3
<1> QED BY <1>2, <1>3, <1>4, <1>5 DEF Handle

\* Every step keeps the account.
LEMMA NextToCome == IInv /\ ToCome /\ [Next]_vars => ToCome'
<1> SUFFICES ASSUME IInv, ToCome, [Next]_vars PROVE ToCome'
  OBVIOUS
<1>1. /\ inbox \in Seq(Message) /\ executions \in Nat /\ crashes \in Nat /\ fires \in Nat
      /\ up \in BOOLEAN
  BY MailboxTyped DEF IInv, TypeOK
<1>2. Cardinality(FiresIn(inbox)) \in Nat
  BY <1>1, FiresFinite
<1>3. ASSUME NEW x \in Message, inbox' = Append(inbox, x), x.tag # "fire", doing'.tag # "execute" \/ doing' = doing,
             UNCHANGED <<phase, up, executions, crashes, fires>>
      PROVE  ToCome'
  <2>1. Cardinality(FiresIn(inbox')) = Cardinality(FiresIn(inbox))
    BY <1>1, <1>3, FiresOffered
  <2> QED BY <1>1, <1>2, <1>3, <2>1, SMTT(40) DEF ToCome
<1>4. ASSUME SendStart PROVE ToCome'
  BY <1>3, <1>4, Shapes DEF SendStart
<1>5. ASSUME SendFire PROVE ToCome'
  <2>1. Cardinality(FiresIn(inbox')) = Cardinality(FiresIn(inbox)) + 1
    BY <1>1, <1>5, FiresOffered, Shapes DEF SendFire
  <2> QED BY <1>1, <1>2, <1>5, <2>1, SMTT(40) DEF SendFire, ToCome
<1>6. ASSUME TimerFires PROVE ToCome'
  BY <1>3, <1>6, Shapes DEF TimerFires
<1>7. ASSUME NEW res \in Result, Returns(res) PROVE ToCome'
  <2>1. doing.attempt \in Attempt
    BY <1>7 DEF Returns, IInv, TypeOK, Nothing, Task
  <2>2. Callback(doing.attempt, res) \in Message /\ Callback(doing.attempt, res).tag = "callback"
    BY <2>1, Shapes
  <2> QED BY <1>3, <1>7, <2>2, Shapes DEF Returns
<1>8. ASSUME Execute PROVE ToCome'
  BY <1>1, <1>2, <1>8 DEF Execute, ToCome, Task
<1>9. ASSUME Arm PROVE ToCome'
  BY <1>1, <1>2, <1>9, Shapes DEF Arm, ToCome
<1>10. ASSUME Crash PROVE ToCome'
  <2>1. FiresIn(inbox') = {}
    BY <1>10 DEF Crash, FiresIn
  <2>2. Cardinality(FiresIn(inbox')) = 0
    BY <2>1, FS_EmptySet
  <2>3. /\ doing'.tag = "nothing" /\ up = TRUE /\ up' = FALSE /\ crashes' = crashes + 1
        /\ UNCHANGED <<phase, executions, fires>>
    BY <1>1, <1>10, Shapes DEF Crash
  <2> QED BY <1>1, <1>2, <2>2, <2>3, SMTT(40) DEF ToCome
<1>11. ASSUME Recover PROVE ToCome'
  <2>1. up = FALSE /\ up' = TRUE /\ UNCHANGED <<phase, inbox, executions, crashes, fires>>
    BY <1>1, <1>11 DEF Recover
  <2>2. doing = Nothing /\ doing.tag = "nothing"
    BY <1>11, Shapes DEF Recover, IInv, DownIsEmpty
  <2> QED BY <1>1, <1>2, <2>1, <2>2, SMTT(40) DEF ToCome
<1>12. ASSUME UNCHANGED vars PROVE ToCome'
  BY <1>12 DEF vars, ToCome
<1> QED BY <1>4, <1>5, <1>6, <1>7, <1>8, <1>9, <1>10, <1>11, <1>12, HandleToCome DEF Next, Work

\* The external system is called once per attempt, and again only for a crash or an explicit
\* fire: no interleaving of results, timers and recovery adds an execution (slot.ts).
THEOREM ExecutionsAreBounded == Spec => []ExecutionsBounded
<1>1. Init => ToCome
  <2> SUFFICES ASSUME Init PROVE ToCome
    OBVIOUS
  <2>1. FiresIn(inbox) = {} /\ Cardinality(FiresIn(inbox)) = 0
    <3>1. FiresIn(inbox) = {}
      BY DEF Init, FiresIn
    <3> QED BY <3>1, FS_EmptySet
  <2> QED BY <2>1, Shapes DEF Init, ToCome, PhaseOf
<1>2. IInv /\ ToCome => ExecutionsBounded
  <2> SUFFICES ASSUME IInv, ToCome PROVE ExecutionsBounded
    OBVIOUS
  <2>1. executions \in Nat /\ crashes \in Nat /\ fires \in Nat /\ Cardinality(FiresIn(inbox)) \in Nat
    BY MailboxTyped, FiresFinite DEF IInv, TypeOK
  <2> QED BY <2>1 DEF ToCome, ExecutionsBounded
<1> QED BY SlotInvariance, <1>1, <1>2, NextToCome, PTL DEF Spec
=============================================================================
